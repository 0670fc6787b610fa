---------------------------- MODULE MCLsapTracker ----------------------------
(* Instances of LsapTracker.  Our selectors 1 and 2 connect to the peer's  *)
(* IAS (0), obex (3) and ircomm (4); the peer's 5 connects to our services *)
(* with the same selectors.                                                *)
EXTENDS LsapTracker

CONSTANTS obex, ircomm, irnet

To(our, peer) == [client |-> "us", our |-> our, peer |-> peer]
From(our, peer) == [client |-> "peer", our |-> our, peer |-> peer]

OneClient == {To(1, 0), To(1, 3), To(2, 3), To(2, 4)}
TwoClients == {To(1, 0), To(1, 3), From(0, 5), From(3, 5)}
Services3And4 == [s \in Side |-> IF s = "peer" THEN [l \in {3, 4} |-> IF l = 3 THEN obex ELSE ircomm]
                                 ELSE [l \in {3} |-> irnet]]
=============================================================================
