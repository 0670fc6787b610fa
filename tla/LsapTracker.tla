----------------------------- MODULE LsapTracker -----------------------------
(***************************************************************************)
(* How irdadump knows what to decode (irdadump/irlmp.c and the connection  *)
(* table of irdadump/irlap.c): it remembers the last IAS query in last_ias *)
(* and the LSAP connections it saw being made in conn[], with conn_cache   *)
(* for the slot found last.                                                *)
(*                                                                         *)
(* Beside the program, the traffic it watches (external): a link between   *)
(* "us" and "peer" that is set up and taken down, LSAP connections made,   *)
(* used and closed on it, and IAS queries.  The capture may miss or, when  *)
(* IrLAP retransmits, repeat a frame.                                      *)
(*                                                                         *)
(* The four flags of a connection (ttp, obex, ircomm, irnet) stand and     *)
(* fall together with the service that was asked for: a service is a model *)
(* value and NoService has no flag.  config_print_irlmp is on.             *)
(***************************************************************************)
EXTENDS Integers

CONSTANTS MAX_CONNECTIONS,  \* slots of conn[]
          Caddr,            \* LAP connection addresses
          Conns,            \* connections: [client, our, peer]
          Service,          \* the services of each side, by LSAP selector
          NoService,        \* no flag set
          Missed, Repeated  \* kinds of frames the capture misses, repeats

Side == {"us", "peer"}
Kind == {"CONNECT_CMD", "CONNECT_RSP", "DISCONNECT", "DATA", "IAS_COMMAND",
         "IAS_RESPONSE", "LAP_DISC"}
LSAP_IAS == 0
LSAP_ANY == 255
Sel == 0 .. 127

ASSUME TrackerAssumption ==
  /\ MAX_CONNECTIONS \in Nat
  /\ Caddr \subseteq 1 .. 127
  /\ Conns \subseteq [client : Side, our : Sel, peer : Sel]
  /\ Missed \subseteq Kind /\ Repeated \subseteq Kind \ {"LAP_DISC"}
  /\ \A s \in Side : DOMAIN Service[s] \subseteq Sel \ {LSAP_IAS}
  /\ \A s \in Side : \A l \in DOMAIN Service[s] : Service[s][l] # NoService

VARIABLES lap,     \* address of the LAP connection, 0 for none
          live,    \* the state of each LSAP connection
          asked,   \* the service each side is asking for, NoService if none
          tr       \* conn, last_ias and conn_cache of irdadump

vars == <<lap, live, asked, tr>>

Slots == 0 .. MAX_CONNECTIONS - 1

(* Statically allocated, so zero: last_ias names the selector of the IAS. *)
Init ==
  /\ lap = 0
  /\ live = [c \in Conns |-> "closed"]
  /\ asked = [s \in Side |-> NoService]
  /\ tr = [conn |-> [i \in Slots |-> [valid |-> FALSE, key |-> <<0, 0>>,
                                      caddr |-> 0, service |-> NoService]],
           last_ias |-> [lsap_sel |-> 0, service |-> NoService],
           conn_cache |-> -1]
-----------------------------------------------------------------------------
(***************************************************************************)
(* irdadump.  A key is the pair of our and the peer's selector:            *)
(* parse_irlmp swaps slsap_sel and dlsap_sel of a frame that comes in.     *)
(***************************************************************************)
First(S) == IF S = {} THEN -1 ELSE CHOOSE i \in S : \A j \in S : i <= j

(* Mutant: the index behind the last slot is returned for none. *)
find_connection_end(T, key) ==
  LET i == First({j \in Slots : T.conn[j].key = key})
  IN  IF i = -1 THEN MAX_CONNECTIONS ELSE i

find_connection(T, key) ==
  IF T.conn_cache # -1 /\ T.conn[T.conn_cache].key = key
  THEN T.conn_cache
  ELSE First({i \in Slots : T.conn[i].key = key})

find_free_connection(T) == First({i \in Slots : ~T.conn[i].valid})

(* Mutant: the first connection of the link only. *)
garbage_connection_first(T, caddr) ==
  LET i == First({j \in Slots : T.conn[j].caddr = caddr})
  IN  IF i = -1 THEN T ELSE [T EXCEPT !.conn[i].valid = FALSE]

garbage_connection(T, caddr) ==
  [T EXCEPT !.conn = [i \in Slots |->
     IF T.conn[i].caddr = caddr THEN [T.conn[i] EXCEPT !.valid = FALSE]
     ELSE T.conn[i]]]

(* A connection to the LSAP of the last query takes a free slot. *)
parse_connect_cmd(T, f) ==
  LET i == find_free_connection(T) IN
  IF f.dlsap # T.last_ias.lsap_sel \/ i = -1 THEN T
  ELSE [T EXCEPT !.conn[i] = [valid |-> TRUE, key |-> f.key, caddr |-> f.caddr,
                              service |-> T.last_ias.service]]

(* Looking a connection up moves the cache, also to -1. *)
Looked(T, f) == [T EXCEPT !.conn_cache = find_connection(T, f.key)]

parse_disconnect(T, f) ==
  LET i == find_connection(T, f.key) IN
  IF i = -1 THEN Looked(T, f)
  ELSE [Looked(T, f) EXCEPT !.conn[i].valid = FALSE]

(* Mutant: the answer to the previous query stays. *)
parse_iriap_command_no_reset(T, f) ==
  [T EXCEPT !.last_ias.service = f.service]

parse_iriap_command(T, f) ==
  [T EXCEPT !.last_ias = [lsap_sel |-> LSAP_ANY, service |-> f.service]]

(* Only an integer value changes last_ias; f.value is LSAP_ANY otherwise. *)
parse_iriap_response(T, f) ==
  IF f.value = LSAP_ANY THEN T ELSE [T EXCEPT !.last_ias.lsap_sel = f.value]

(* An I-frame: what irdadump learns from its IrLMP header and contents. *)
parse_irlmp(T, f) ==
  CASE f.kind = "CONNECT_CMD"  -> parse_connect_cmd(T, f)
    [] f.kind = "CONNECT_RSP"  -> Looked(T, f)
    [] f.kind = "DISCONNECT"   -> parse_disconnect(T, f)
    [] f.kind = "DATA"         -> Looked(T, f)
    [] f.kind = "IAS_COMMAND"  -> Looked(parse_iriap_command(T, f), f)
    [] f.kind = "IAS_RESPONSE" -> Looked(parse_iriap_response(T, f), f)

(* The other frames, SNRM, UA and DM among them, change nothing. *)
parse_irlap_frame(T, f) ==
  IF f.kind = "LAP_DISC" THEN garbage_connection(T, f.caddr)
  ELSE parse_irlmp(T, f)

(* A frame as irdadump gets it: once, not at all, or twice. *)
Capture(f) ==
  \/ tr' = parse_irlap_frame(tr, f)
  \/ f.kind \in Missed /\ tr' = tr
  \/ /\ f.kind \in Repeated
     /\ tr' = parse_irlap_frame(parse_irlap_frame(tr, f), f)
-----------------------------------------------------------------------------
(* The traffic (external). *)
Key(c) == <<c.our, c.peer>>
Server(c) == IF c.client = "us" THEN "peer" ELSE "us"
Dlsap(c) == IF c.client = "us" THEN c.peer ELSE c.our

(* The service at the other end, none for the IAS itself. *)
ServiceOf(c) == IF Dlsap(c) = LSAP_IAS THEN NoService ELSE Service[Server(c)][Dlsap(c)]

Frame(kind, c, service, value) ==
  [kind |-> kind, key |-> Key(c), dlsap |-> Dlsap(c), caddr |-> lap,
   service |-> service, value |-> value]

LapConnect ==
  /\ lap = 0
  /\ lap' \in Caddr
  /\ UNCHANGED <<live, asked, tr>>

LapDisc ==
  /\ lap # 0
  /\ Capture([kind |-> "LAP_DISC", caddr |-> lap])
  /\ lap' = 0
  /\ live' = [c \in Conns |-> "closed"]
  /\ asked' = [s \in Side |-> NoService]

Connect(c) ==
  /\ lap # 0
  /\ \A d \in Conns : Key(d) = Key(c) => live[d] = "closed"
  /\ live' = [live EXCEPT ![c] = "asked"]
  /\ Capture(Frame("CONNECT_CMD", c, NoService, LSAP_ANY))
  /\ UNCHANGED <<lap, asked>>

Accept(c) ==
  /\ live[c] = "asked"
  /\ live' = [live EXCEPT ![c] = "open"]
  /\ Capture(Frame("CONNECT_RSP", c, NoService, LSAP_ANY))
  /\ UNCHANGED <<lap, asked>>

(* Also the refusal of a connection. *)
Disconnect(c) ==
  /\ live[c] # "closed"
  /\ live' = [live EXCEPT ![c] = "closed"]
  /\ asked' = IF Dlsap(c) = LSAP_IAS THEN [asked EXCEPT ![c.client] = NoService]
              ELSE asked
  /\ Capture(Frame("DISCONNECT", c, NoService, LSAP_ANY))
  /\ UNCHANGED lap

Data(c) ==
  /\ live[c] = "open"
  /\ Dlsap(c) # LSAP_IAS
  /\ Capture(Frame("DATA", c, NoService, LSAP_ANY))
  /\ UNCHANGED <<lap, live, asked>>

(* One query at a time on an IAS connection. *)
Query(c) ==
  /\ live[c] = "open"
  /\ Dlsap(c) = LSAP_IAS
  /\ asked[c.client] = NoService
  /\ \E s \in Side : \E l \in DOMAIN Service[s] :
       /\ asked' = [asked EXCEPT ![c.client] = Service[s][l]]
       /\ Capture(Frame("IAS_COMMAND", c, Service[s][l], LSAP_ANY))
  /\ UNCHANGED <<lap, live>>

(* The selector of the service, or a failure if there is none or the class *)
(* has no such attribute.                                                  *)
Answer(c) ==
  /\ live[c] = "open"
  /\ Dlsap(c) = LSAP_IAS
  /\ asked[c.client] # NoService
  /\ \E value \in {LSAP_ANY} \cup {l \in DOMAIN Service[Server(c)] :
                                   Service[Server(c)][l] = asked[c.client]} :
       Capture(Frame("IAS_RESPONSE", c, NoService, value))
  /\ asked' = [asked EXCEPT ![c.client] = NoService]
  /\ UNCHANGED <<lap, live>>

Next ==
  \/ LapConnect \/ LapDisc
  \/ \E c \in Conns : Connect(c) \/ Accept(c) \/ Disconnect(c) \/ Data(c)
                        \/ Query(c) \/ Answer(c)

Spec == Init /\ [][Next]_vars
-----------------------------------------------------------------------------
Services ==
  {NoService} \cup UNION {{Service[s][l] : l \in DOMAIN Service[s]} : s \in Side}

Slot == [valid : BOOLEAN, key : Sel \X Sel, caddr : {0} \cup Caddr,
         service : Services]

Tracker == [conn : [Slots -> Slot],
            last_ias : [lsap_sel : Sel \cup {LSAP_ANY}, service : Services],
            conn_cache : Slots \cup {-1}]

TypeOK ==
  /\ lap \in {0} \cup Caddr
  /\ live \in [Conns -> {"closed", "asked", "open"}]
  /\ asked \in [Side -> Services]
  /\ tr \in Tracker

(***************************************************************************)
(* "True if OBEX connection" (struct lsap_state), and so for the other     *)
(* flags: a valid slot carries the service its connection leads to.        *)
(***************************************************************************)
Sound ==
  \A i \in Slots, c \in Conns :
    tr.conn[i].valid /\ tr.conn[i].key = Key(c)
      => tr.conn[i].service = ServiceOf(c)

(***************************************************************************)
(* Why the slots are right when one side does all the asking: last_ias     *)
(* names the service that is being asked for, or a selector and the        *)
(* service behind it.                                                      *)
(***************************************************************************)
LastIasInv ==
  LET q == tr.last_ias IN
  /\ asked["us"] # NoService => q.service = asked["us"] /\ q.lsap_sel = LSAP_ANY
  /\ q.lsap_sel = LSAP_IAS => q.service = NoService
  /\ q.lsap_sel \in Sel \ {LSAP_IAS} =>
       /\ q.lsap_sel \in DOMAIN Service["peer"]
       /\ q.service = Service["peer"][q.lsap_sel]

IInv == TypeOK /\ LastIasInv /\ Sound

(***************************************************************************)
(* "LAP is closing, remove all zombies connections on this LAP"            *)
(* (parse_disc_frame): whatever was missed or repeated before, every valid *)
(* slot belongs to the LAP connection there is now.                        *)
(***************************************************************************)
NoZombies == \A i \in Slots : tr.conn[i].valid => tr.conn[i].caddr = lap /\ lap # 0

(***************************************************************************)
(* "Is this a valid connection" (struct lsap_state): when the capture sees *)
(* every frame once, the connection of a valid slot exists.                *)
(***************************************************************************)
ValidIsLive ==
  \A i \in Slots : tr.conn[i].valid =>
    \E c \in Conns : Key(c) = tr.conn[i].key /\ live[c] # "closed"
=============================================================================
