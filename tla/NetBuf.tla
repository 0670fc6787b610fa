------------------------------- MODULE NetBuf -------------------------------
(***************************************************************************)
(* The network buffer of irdadump (irdadump/netbuf.c): one block of memory *)
(* with a window [data, tail) in it.  Pointers are offsets from msg->head, *)
(* so realloc(3), which may move the block, changes no offset: that is     *)
(* what g_netbuf_realloc re-establishes by recomputing data and tail.      *)
(*                                                                         *)
(* Bytes are model values; memory that nobody has written yet holds Junk.  *)
(* The sizes the callers may pass are Count.  Bound: the buffer grows by   *)
(* reallocation only while truesize <= MaxSize.                            *)
(***************************************************************************)
EXTENDS Integers

CONSTANTS Byte,          \* what a byte that was written can hold
          Junk,          \* what a byte that was never written holds
          Count,         \* numbers of bytes passed to the operations
          NewSize,       \* the argument of g_netbuf_new
          MaxSize        \* bound on truesize before a reallocation

ASSUME NetBufAssumption ==
  /\ Count \subseteq Nat
  /\ 0 \in Count
  /\ NewSize \in Nat
  /\ MaxSize \in Nat

VARIABLES data,          \* msg->data - msg->head
          tail,          \* msg->tail - msg->head
          end,           \* msg->end - msg->head
          len,           \* msg->len
          truesize,      \* msg->truesize
          mem,           \* the block, indexed from msg->head
          nomem          \* a g_netbuf_put has failed since the last recycle

vars == <<data, tail, end, len, truesize, mem, nomem>>

Cell == Byte \cup {Junk}

headroom == data
tailroom == end - tail
-----------------------------------------------------------------------------
(* g_netbuf_recycle: everything that is stored is forgotten. *)
Recycle ==
  /\ data' = 0
  /\ tail' = 0
  /\ len' = 0
  /\ end' = truesize
  /\ nomem' = FALSE
  /\ UNCHANGED <<truesize, mem>>

(* g_netbuf_new(NewSize), which ends with a recycle. *)
Init ==
  /\ truesize = NewSize
  /\ mem = [i \in 0 .. NewSize - 1 |-> Junk]
  /\ data = 0 /\ tail = 0 /\ len = 0 /\ end = NewSize
  /\ nomem = FALSE

(* The block after g_netbuf_realloc(msg, size): old bytes kept, rest Junk. *)
Grown(size) ==
  [i \in 0 .. size - 1 |-> IF i < truesize THEN mem[i] ELSE Junk]

(* memcpy(at, d, k) into block m. *)
Written(m, at, d, k) ==
  [i \in DOMAIN m |-> IF at <= i /\ i < at + k THEN d[i - at] ELSE m[i]]

(* g_memmove(from + by, from, k) inside block m. *)
Moved(m, from, by, k) ==
  [i \in DOMAIN m |-> IF from + by <= i /\ i < from + by + k
                      THEN m[i - by] ELSE m[i]]
-----------------------------------------------------------------------------
(***************************************************************************)
(* g_netbuf_put and g_netbuf_put_data: tail and len move first, only then  *)
(* is the room checked.  d is what the caller stores in the new bytes (by  *)
(* put_data, or itself through the returned pointer).                      *)
(***************************************************************************)
PutFits(d, k) ==
  /\ tail + k <= end
  /\ tail' = tail + k
  /\ len' = len + k
  /\ mem' = Written(mem, tail, d, k)
  /\ UNCHANGED <<data, end, truesize, nomem>>

(* Mutant: the block grows by one byte instead of k. *)
PutGrowsShort(d, k) ==
  /\ tail + k > end
  /\ truesize <= MaxSize
  /\ tail' = tail + k
  /\ len' = len + k
  /\ truesize' = truesize + 1
  /\ end' = truesize + 1
  /\ mem' = Written(Grown(truesize + 1), tail, d, k)
  /\ UNCHANGED <<data, nomem>>

PutGrows(d, k) ==
  /\ tail + k > end
  /\ truesize <= MaxSize
  /\ tail' = tail + k
  /\ len' = len + k
  /\ truesize' = truesize + k
  /\ end' = truesize + k
  /\ mem' = Written(Grown(truesize + k), tail, d, k)
  /\ UNCHANGED <<data, nomem>>

(* realloc returned NULL: tail and len keep the new values. *)
PutFails(k) ==
  /\ tail + k > end
  /\ tail' = tail + k
  /\ len' = len + k
  /\ nomem' = TRUE
  /\ UNCHANGED <<data, end, truesize, mem>>

(* Storing bytes after a failed put is undefined and is left out. *)
Put(k) ==
  /\ ~nomem
  /\ \/ \E d \in [0 .. k - 1 -> Byte] : PutFits(d, k) \/ PutGrows(d, k)
     \/ PutFails(k)

(***************************************************************************)
(* g_netbuf_push and g_netbuf_prepend_hdr: here the room is checked first. *)
(* Without headroom the block grows by k, the message moves up by k and    *)
(* data, tail follow; then the header goes in front.                       *)
(***************************************************************************)
PushFits(d, k) ==
  /\ data - k >= 0
  /\ data' = data - k
  /\ len' = len + k
  /\ mem' = Written(mem, data - k, d, k)
  /\ UNCHANGED <<tail, end, truesize, nomem>>

(* Mutant: the message is not moved up before the header is stored. *)
PushGrowsNoMove(d, k) ==
  /\ data - k < 0
  /\ truesize <= MaxSize
  /\ truesize' = truesize + k
  /\ end' = truesize + k
  /\ mem' = Written(Grown(truesize + k), data, d, k)
  /\ tail' = tail + k
  /\ data' = (data + k) - k
  /\ len' = len + k
  /\ UNCHANGED nomem

(* Mutant: tail does not follow the message that moved. *)
PushGrowsTailLeft(d, k) ==
  /\ data - k < 0
  /\ truesize <= MaxSize
  /\ truesize' = truesize + k
  /\ end' = truesize + k
  /\ mem' = Written(Moved(Grown(truesize + k), data, k, len), data, d, k)
  /\ data' = (data + k) - k
  /\ len' = len + k
  /\ UNCHANGED <<tail, nomem>>

PushGrows(d, k) ==
  /\ data - k < 0
  /\ truesize <= MaxSize
  /\ truesize' = truesize + k
  /\ end' = truesize + k
  /\ mem' = Written(Moved(Grown(truesize + k), data, k, len), data, d, k)
  /\ tail' = tail + k
  /\ data' = (data + k) - k
  /\ len' = len + k
  /\ UNCHANGED nomem

Push(k) ==
  /\ ~nomem
  /\ \E d \in [0 .. k - 1 -> Byte] : PushFits(d, k) \/ PushGrows(d, k)

(* g_netbuf_pull: refuses (returns NULL) what the message does not have. *)
Pull(k) ==
  /\ k <= len
  /\ len' = len - k
  /\ data' = data + k
  /\ UNCHANGED <<tail, end, truesize, mem, nomem>>

(* g_netbuf_trim(msg, k), a no-op unless the message is longer than k. *)
Trim(k) ==
  /\ len > k
  /\ len' = k
  /\ tail' = data + k
  /\ UNCHANGED <<data, end, truesize, mem, nomem>>

(***************************************************************************)
(* g_netbuf_reserve has no check at all: that the message is empty and     *)
(* that there is room for k bytes is the caller's obligation.              *)
(***************************************************************************)
Reserve(k) ==
  /\ len = 0
  /\ ~nomem
  /\ k <= tailroom
  /\ data' = data + k
  /\ tail' = tail + k
  /\ UNCHANGED <<end, len, truesize, mem, nomem>>

Next ==
  \/ Recycle
  \/ \E k \in Count : Put(k) \/ Push(k) \/ Pull(k) \/ Trim(k) \/ Reserve(k)

Spec == Init /\ [][Next]_vars
-----------------------------------------------------------------------------
TypeOK ==
  /\ data \in Nat /\ tail \in Nat /\ end \in Nat /\ len \in Nat
  /\ truesize \in Nat
  /\ mem \in [0 .. truesize - 1 -> Cell]
  /\ nomem \in BOOLEAN

(***************************************************************************)
(* The picture of netbuf.h:26-34: headroom, message and tailroom, none of  *)
(* them negative, together fill the truesize bytes of the block, unless a  *)
(* put has failed since the last recycle.                                  *)
(***************************************************************************)
Layout ==
  ~nomem => /\ headroom >= 0 /\ len >= 0 /\ tailroom >= 0
            /\ headroom + len + tailroom = truesize

(***************************************************************************)
(* What every operation keeps, a failed put included: the window is        *)
(* [data, data+len) and end is the end of the block.                       *)
(***************************************************************************)
Window ==
  /\ data + len = tail
  /\ end = truesize

(* The window is inside the block as long as no put has run out of memory. *)
Bounded == ~nomem => tail <= end

IInv == TypeOK /\ Window /\ Bounded

(***************************************************************************)
(* The buffer is a string of bytes that grows and shrinks at its ends:     *)
(* reallocation, moving and recycling lose and invent nothing.  A put that *)
(* finds no memory costs the whole message, until the buffer is recycled.  *)
(***************************************************************************)
Length == IF nomem THEN 0 ELSE len
Message == [i \in 0 .. Length - 1 |-> mem[data + i]]

Deque == INSTANCE ByteDeque WITH n <- Length, msg <- Message

DequeSpec == Deque!Spec
=============================================================================
