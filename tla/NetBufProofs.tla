---------------------------- MODULE NetBufProofs ----------------------------
(***************************************************************************)
(* The layout of a GNetBuf for every size of block and every sequence of   *)
(* calls, and that the buffer implements a string of bytes.                *)
(***************************************************************************)
EXTENDS NetBuf, TLAPS

(* What memcpy and g_memmove do to a block keeps it a block of that size. *)
LEMMA BlockTypes ==
  ASSUME NEW s \in Nat, NEW m \in [0 .. s - 1 -> Cell],
         NEW at \in Nat, NEW k \in Nat, NEW d \in [0 .. k - 1 -> Byte]
  PROVE  Written(m, at, d, k) \in [0 .. s - 1 -> Cell]
BY DEF Written, Cell

(* A block that grew is a block of the new size. *)
LEMMA GrownType ==
  ASSUME TypeOK, NEW s \in Nat
  PROVE  Grown(s) \in [0 .. s - 1 -> Cell]
BY DEF Grown, Cell, TypeOK

(* Moving bytes up inside a block reads no byte before the block. *)
LEMMA MovedType ==
  ASSUME NEW s \in Nat, NEW m \in [0 .. s - 1 -> Cell],
         NEW from \in Nat, NEW by \in Nat, NEW k \in Nat
  PROVE  Moved(m, from, by, k) \in [0 .. s - 1 -> Cell]
BY DEF Moved, Cell

(* The invariant holds of a new buffer. *)
LEMMA InitInv == Init => IInv
<1> SUFFICES ASSUME Init
             PROVE  IInv
  OBVIOUS
<1>1. nomem \in BOOLEAN
  BY Zenon DEF Init
<1>2. mem \in [0 .. truesize - 1 -> Cell]
  BY DEF Init, Cell
<1> QED
  BY <1>1, <1>2, NetBufAssumption DEF Init, IInv, TypeOK, Window, Bounded

(* The three parts of g_netbuf_put keep the invariant. *)
LEMMA PutInv ==
  ASSUME IInv, NEW k \in Count, Put(k)
  PROVE  IInv'
<1> k \in Nat
  BY NetBufAssumption
<1> USE DEF IInv, Window, Bounded
<1>1. CASE PutFails(k)
  BY <1>1 DEF PutFails, TypeOK
<1>2. ASSUME NEW d \in [0 .. k - 1 -> Byte], PutFits(d, k)
      PROVE  IInv'
  <2>1. mem' \in [0 .. truesize - 1 -> Cell]
    BY <1>2, BlockTypes DEF PutFits, TypeOK
  <2> QED
    BY <1>2, <2>1 DEF PutFits, TypeOK, Put
<1>3. ASSUME NEW d \in [0 .. k - 1 -> Byte], PutGrows(d, k)
      PROVE  IInv'
  <2> DEFINE s == truesize + k
             G == Grown(s)
  <2>1. s \in Nat /\ mem' = Written(G, tail, d, k) /\ truesize' = s
    BY <1>3 DEF PutGrows, TypeOK
  <2> HIDE DEF s
  <2>2. G \in [0 .. s - 1 -> Cell]
    BY <2>1, GrownType
  <2> HIDE DEF G
  <2>3. mem' \in [0 .. s - 1 -> Cell]
    BY <2>1, <2>2, BlockTypes DEF TypeOK
  <2> QED
    BY <1>3, <2>1, <2>3, SMTT(60) DEF PutGrows, TypeOK, Put
<1> QED
  BY <1>1, <1>2, <1>3 DEF Put

(* Both parts of g_netbuf_push keep the invariant. *)
LEMMA PushInv ==
  ASSUME IInv, NEW k \in Count, Push(k)
  PROVE  IInv'
<1> k \in Nat
  BY NetBufAssumption
<1> USE DEF IInv, Window, Bounded
<1>1. ASSUME NEW d \in [0 .. k - 1 -> Byte], PushFits(d, k)
      PROVE  IInv'
  <2>1. data - k \in Nat
    BY <1>1 DEF PushFits, TypeOK
  <2>2. mem' \in [0 .. truesize - 1 -> Cell]
    BY <1>1, <2>1, BlockTypes DEF PushFits, TypeOK
  <2> QED
    BY <1>1, <2>1, <2>2 DEF PushFits, TypeOK, Push
<1>2. ASSUME NEW d \in [0 .. k - 1 -> Byte], PushGrows(d, k)
      PROVE  IInv'
  <2> DEFINE s == truesize + k
             G == Grown(s)
             M == Moved(G, data, k, len)
  <2>1. s \in Nat /\ mem' = Written(M, data, d, k) /\ truesize' = s
    BY <1>2 DEF PushGrows, TypeOK
  <2> HIDE DEF s
  <2>2. G \in [0 .. s - 1 -> Cell]
    BY <2>1, GrownType
  <2> HIDE DEF G
  <2>3. M \in [0 .. s - 1 -> Cell]
    BY <2>1, <2>2, MovedType DEF TypeOK
  <2> HIDE DEF M
  <2>4. mem' \in [0 .. s - 1 -> Cell]
    BY <2>1, <2>3, BlockTypes DEF TypeOK
  <2>5. data' = data /\ data' \in Nat
    BY <1>2 DEF PushGrows, TypeOK
  <2>6. /\ tail' = tail + k /\ len' = len + k /\ end' = truesize + k
        /\ truesize' = truesize + k /\ nomem' = nomem
    BY <1>2 DEF PushGrows
  <2>7. TypeOK'
    BY <2>1, <2>4, <2>5, <2>6 DEF TypeOK
  <2> QED
    BY <2>5, <2>6, <2>7 DEF TypeOK
<1> QED
  BY <1>1, <1>2 DEF Push

(* One step of the buffer keeps the invariant. *)
LEMMA NextInv == IInv /\ [Next]_vars => IInv'
<1> SUFFICES ASSUME IInv, [Next]_vars
             PROVE  IInv'
  OBVIOUS
<1> USE DEF IInv, Window, Bounded
<1>1. CASE Recycle
  <2>1. nomem' \in BOOLEAN
    BY <1>1, Zenon DEF Recycle
  <2> QED
    BY <1>1, <2>1 DEF Recycle, TypeOK
<1>2. ASSUME NEW k \in Count, Put(k)
      PROVE  IInv'
  BY <1>2, PutInv
<1>3. ASSUME NEW k \in Count, Push(k)
      PROVE  IInv'
  BY <1>3, PushInv
<1>4. ASSUME NEW k \in Count, Pull(k)
      PROVE  IInv'
  BY <1>4, NetBufAssumption DEF Pull, TypeOK
<1>5. ASSUME NEW k \in Count, Trim(k)
      PROVE  IInv'
  BY <1>5, NetBufAssumption DEF Trim, TypeOK
<1>6. ASSUME NEW k \in Count, Reserve(k)
      PROVE  IInv'
  BY <1>6, NetBufAssumption DEF Reserve, TypeOK, tailroom
<1>7. CASE UNCHANGED vars
  BY <1>7 DEF vars, TypeOK
<1> QED
  BY <1>1, <1>2, <1>3, <1>4, <1>5, <1>6, <1>7 DEF Next

(***************************************************************************)
(* Whatever the callers of netbuf.c do, and even when realloc(3) fails in  *)
(* g_netbuf_put, the window is [data, data+len), end is the end of the     *)
(* block, and only a failed put may push the window over that end.         *)
(***************************************************************************)
THEOREM WindowAlways == Spec => []IInv
BY InitInv, NextInv, PTL DEF Spec

(***************************************************************************)
(* Until a put fails, and again after g_netbuf_recycle, headroom, message  *)
(* and tailroom tile the block, as the picture in netbuf.h draws it.       *)
(***************************************************************************)
THEOREM LayoutAlways == Spec => []Layout
<1>1. IInv => Layout
  BY DEF IInv, TypeOK, Window, Bounded, Layout, headroom, tailroom
<1> QED
  BY <1>1, WindowAlways, PTL
-----------------------------------------------------------------------------
(* No put has failed: the buffer holds the message. *)
Sound == IInv /\ ~nomem

(* A step between such states, of a message that is all of the window. *)
LEMMA SoundMessage ==
  ASSUME ~nomem
  PROVE  Length = len /\ Message = [i \in 0 .. len - 1 |-> mem[data + i]]
BY DEF Length, Message

(* g_netbuf_put appends, whether or not the block had to grow. *)
LEMMA PutAppends ==
  ASSUME Sound, NEW k \in Count, Put(k), ~nomem'
  PROVE  Deque!AddBehind(k)
<1> USE DEF Sound, IInv, TypeOK, Window, Bounded
<1> k \in Nat
  BY NetBufAssumption
<1>1. PICK d \in [0 .. k - 1 -> Byte] : PutFits(d, k) \/ PutGrows(d, k)
  BY DEF Put, PutFails
<1>2. len' = len + k /\ data' = data
  BY <1>1 DEF PutFits, PutGrows
<1>3. ASSUME NEW i \in 0 .. len + k - 1
      PROVE  mem'[data + i] = IF i < len THEN mem[data + i] ELSE d[i - len]
  <2>1. (data + i) - tail = i - len /\ (data + i < tail <=> i < len)
    OBVIOUS
  <2>2. CASE PutFits(d, k)
    <3>1. data + i \in DOMAIN mem /\ mem' = Written(mem, tail, d, k)
      BY <2>2 DEF PutFits
    <3>2. mem'[data + i] = IF i < len THEN mem[data + i] ELSE d[(data + i) - tail]
      BY <3>1 DEF Written
    <3> QED
      BY <2>1, <3>2
  <2>3. CASE PutGrows(d, k)
    <3> DEFINE G == Grown(truesize + k)
    <3>1. DOMAIN G = 0 .. (truesize + k) - 1 /\ data + i \in DOMAIN G
      BY DEF Grown
    <3>2. mem' = Written(G, tail, d, k)
      BY <2>3 DEF PutGrows
    <3>3. i < len => G[data + i] = mem[data + i]
      BY DEF Grown, Put
    <3> HIDE DEF G
    <3>4. mem'[data + i] = IF i < len THEN G[data + i] ELSE d[(data + i) - tail]
      BY <3>1, <3>2 DEF Written
    <3> QED
      BY <2>1, <3>3, <3>4
  <2> QED
    BY <1>1, <2>2, <2>3
<1>4. Message' = [i \in 0 .. len + k - 1 |->
                    IF i < len THEN Message[i] ELSE d[i - len]]
  <2>1. Message' = [i \in 0 .. len + k - 1 |-> mem'[data + i]]
    BY <1>2 DEF Message, Length
  <2>2. ASSUME NEW i \in 0 .. len + k - 1, i < len
        PROVE  Message[i] = mem[data + i]
    BY <2>2, SoundMessage
  <2> QED
    BY <1>3, <2>1, <2>2
<1> QED
  BY <1>2, <1>4 DEF Deque!AddBehind, Deque!Bytes, Length

(* g_netbuf_push prepends, whether or not the message had to move. *)
LEMMA PushPrepends ==
  ASSUME Sound, NEW k \in Count, Push(k)
  PROVE  Deque!AddInFront(k)
<1> USE DEF Sound, IInv, TypeOK, Window, Bounded
<1> k \in Nat
  BY NetBufAssumption
<1>1. PICK d \in [0 .. k - 1 -> Byte] : PushFits(d, k) \/ PushGrows(d, k)
  BY DEF Push
<1>2. len' = len + k /\ data' \in Nat /\ ~nomem'
  BY <1>1 DEF PushFits, PushGrows
<1>3. ASSUME NEW i \in 0 .. len + k - 1
      PROVE  mem'[data' + i] = IF i < k THEN d[i] ELSE mem[data + (i - k)]
  <2>1. CASE PushFits(d, k)
    <3>1. data' = data - k /\ data' + i \in 0 .. truesize - 1
      BY <2>1 DEF PushFits
    <3>2. mem' = Written(mem, data', d, k)
      BY <2>1 DEF PushFits
    <3>3. mem'[data' + i] = IF i < k THEN d[(data' + i) - data']
                                     ELSE mem[data' + i]
      BY <1>2, <3>1, <3>2 DEF Written
    <3>4. (data' + i) - data' = i /\ data' + i = data + (i - k)
      BY <3>1
    <3> QED
      BY <3>3, <3>4
  <2>2. CASE PushGrows(d, k)
    <3> DEFINE G == Grown(truesize + k)
               M == Moved(G, data, k, len)
    <3>1. data' = data /\ data + i \in 0 .. (truesize + k) - 1
      BY <2>2 DEF PushGrows
    <3>2. mem' = Written(M, data, d, k)
      BY <2>2 DEF PushGrows
    <3>3. DOMAIN M = 0 .. (truesize + k) - 1 /\ DOMAIN G = DOMAIN M
      BY DEF Moved, Grown
    <3>4. CASE i < k
      <4>1. mem'[data + i] = d[(data + i) - data]
        BY <3>1, <3>2, <3>3, <3>4 DEF Written
      <4> QED
        BY <4>1, <3>1, <3>4
    <3>5. CASE i >= k
      <4>1. mem'[data + i] = M[data + i]
        BY <3>1, <3>2, <3>3, <3>5 DEF Written
      <4>2. M[data + i] = G[(data + i) - k]
        BY <3>1, <3>3, <3>5 DEF Moved
      <4>3. (data + i) - k = data + (i - k) /\ data + (i - k) \in 0 .. truesize - 1
        BY <3>5
      <4>4. G[data + (i - k)] = mem[data + (i - k)]
        BY <4>3 DEF Grown
      <4> QED
        BY <4>1, <4>2, <4>3, <4>4, <3>1, <3>5
    <3> QED
      BY <3>4, <3>5
  <2> QED
    BY <1>1, <2>1, <2>2
<1>4. Message' = [i \in 0 .. len + k - 1 |->
                    IF i < k THEN d[i] ELSE Message[i - k]]
  <2>1. Message' = [i \in 0 .. len + k - 1 |-> mem'[data' + i]]
    BY <1>2 DEF Message, Length
  <2>2. ASSUME NEW i \in 0 .. len + k - 1, ~(i < k)
        PROVE  Message[i - k] = mem[data + (i - k)]
    BY <2>2, SoundMessage
  <2> QED
    BY <1>3, <2>1, <2>2
<1> QED
  BY <1>2, <1>4 DEF Deque!AddInFront, Deque!Bytes, Length

(* Every step of the buffer is a step of the string, or changes nothing; a *)
(* put that fails takes the message away.                                  *)
LEMMA StepRefines ==
  ASSUME IInv, [Next]_vars
  PROVE  [Deque!Next]_<<Length, Message>>
<1> USE DEF IInv, TypeOK, Window, Bounded
<1>1. CASE nomem'
  <2>1. Length' = 0 /\ Message' = [i \in 0 .. -1 |-> mem'[data' + i]]
    BY <1>1 DEF Length, Message
  <2>2. CASE nomem
    BY <2>1, <2>2 DEF Length, Message
  <2>3. CASE ~nomem
    <3>1. Deque!Keep(0)
      BY <2>1, <2>3, SoundMessage DEF Deque!Keep
    <3> QED
      BY <3>1, NetBufAssumption DEF Deque!Next
  <2> QED
    BY <2>2, <2>3
<1>2. CASE ~nomem' /\ nomem
  <2>1. Recycle
    BY <1>2 DEF Next, vars, Put, PutFits, PutGrows, PutFails, Push, Pull, Trim, Reserve
  <2>2. Length = 0 /\ Length' = 0
    BY <1>2, <2>1 DEF Recycle, Length
  <2> QED
    BY <2>2 DEF Message
<1>3. CASE ~nomem' /\ ~nomem
  <2>1. /\ Length = len /\ Message = [i \in 0 .. len - 1 |-> mem[data + i]]
        /\ Length' = len' /\ Message' = [i \in 0 .. len' - 1 |-> mem'[data' + i]]
    BY <1>3 DEF Length, Message
  <2>2. CASE Recycle
    <3>1. Deque!Keep(0)
      BY <2>1, <2>2 DEF Recycle, Deque!Keep
    <3> QED
      BY <3>1, NetBufAssumption DEF Deque!Next
  <2>3. ASSUME NEW k \in Count, Put(k)
        PROVE  Deque!Next
    BY <1>3, <2>3, PutAppends DEF Deque!Next, Sound
  <2>4. ASSUME NEW k \in Count, Push(k)
        PROVE  Deque!Next
    BY <1>3, <2>4, PushPrepends DEF Deque!Next, Sound
  <2>5. ASSUME NEW k \in Count, Pull(k)
        PROVE  Deque!Next
    <3>1. Deque!Drop(k)
      BY <2>1, <2>5, NetBufAssumption DEF Pull, Deque!Drop
    <3> QED
      BY <3>1 DEF Deque!Next
  <2>6. ASSUME NEW k \in Count, Trim(k)
        PROVE  Deque!Next
    <3>1. Deque!Keep(k)
      BY <2>1, <2>6, NetBufAssumption DEF Trim, Deque!Keep
    <3> QED
      BY <3>1 DEF Deque!Next
  <2>7. ASSUME NEW k \in Count, Reserve(k)
        PROVE  UNCHANGED <<Length, Message>>
    BY <2>1, <2>7, NetBufAssumption DEF Reserve
  <2>8. CASE UNCHANGED vars
    BY <2>1, <2>8 DEF vars
  <2> QED
    BY <2>2, <2>3, <2>4, <2>5, <2>6, <2>7, <2>8 DEF Next
<1> QED
  BY <1>1, <1>2, <1>3

(***************************************************************************)
(* A GNetBuf is a string of bytes: nothing that was put or pushed is lost  *)
(* or changed by netbuf.c's reallocations, moves and pointer arithmetic,   *)
(* for every block size and every length.  Only a put for which realloc(3) *)
(* finds no memory costs the message.                                      *)
(***************************************************************************)
THEOREM BufferIsDeque == Spec => DequeSpec
<1>1. Init => Deque!Init
  BY NetBufAssumption DEF Init, Deque!Init, Message, Length
<1>2. IInv /\ [Next]_vars => [Deque!Next]_<<Length, Message>>
  BY StepRefines
<1> QED
  BY <1>1, <1>2, InitInv, NextInv, PTL DEF Spec, DequeSpec, Deque!Spec
=============================================================================
