------------------------------ MODULE ByteDeque ------------------------------
(***************************************************************************)
(* What a GNetBuf promises to the parsers of irdadump: a message, that is  *)
(* a finite string of bytes, to which bytes are added and from which bytes *)
(* are removed at either end.  A message is a function with domain         *)
(* 0..n-1.  Nothing here mentions headroom, tailroom or reallocation.      *)
(***************************************************************************)
EXTENDS Integers

CONSTANTS Byte,        \* the values a byte of the buffer can have
          Count        \* the numbers of bytes one operation may handle

VARIABLES n,           \* the length of the message
          msg          \* its bytes, msg[0] first

Bytes(k) == [0 .. k - 1 -> Byte]

Init == n = 0 /\ msg = [i \in 0 .. -1 |-> 0]

(* k bytes are added behind the message. *)
AddBehind(k) ==
  /\ n' = n + k
  /\ \E d \in Bytes(k) :
       msg' = [i \in 0 .. n + k - 1 |-> IF i < n THEN msg[i] ELSE d[i - n]]

(* k bytes are added in front of the message. *)
AddInFront(k) ==
  /\ n' = n + k
  /\ \E d \in Bytes(k) :
       msg' = [i \in 0 .. n + k - 1 |-> IF i < k THEN d[i] ELSE msg[i - k]]

(* The first k bytes are removed. *)
Drop(k) ==
  /\ k <= n
  /\ n' = n - k
  /\ msg' = [i \in 0 .. n - k - 1 |-> msg[i + k]]

(* Only the first k bytes are kept. *)
Keep(k) ==
  /\ k <= n
  /\ n' = k
  /\ msg' = [i \in 0 .. k - 1 |-> msg[i]]

Next ==
  \E k \in Count : AddBehind(k) \/ AddInFront(k) \/ Drop(k) \/ Keep(k)

Spec == Init /\ [][Next]_<<n, msg>>
=============================================================================
