-------------------------- MODULE LsapTrackerProofs --------------------------
(***************************************************************************)
(* irdadump's connection table, for every table size and every set of      *)
(* connections: no slot outlives its link, and when one side does all the  *)
(* asking every valid slot carries the right service.                      *)
(***************************************************************************)
EXTENDS LsapTracker, WellFoundedInduction, TLAPS

(* The frames the traffic consists of, the link's own aside. *)
Frames == [kind : Kind \ {"LAP_DISC"}, key : Sel \X Sel, dlsap : Sel,
           caddr : {0} \cup Caddr, service : Services,
           value : Sel \cup {LSAP_ANY}]

(***************************************************************************)
(* What a frame does to the tracker: a slot that is valid afterwards was   *)
(* so before, or was taken for a CONNECT_CMD; and last_ias changes with    *)
(* IAS frames only.                                                        *)
(***************************************************************************)
Kept(T, U, i) ==
  /\ T.conn[i].valid
  /\ U.conn[i].key = T.conn[i].key
  /\ U.conn[i].caddr = T.conn[i].caddr
  /\ U.conn[i].service = T.conn[i].service

Taken(T, U, i, f) ==
  /\ f.kind = "CONNECT_CMD"
  /\ f.dlsap = T.last_ias.lsap_sel
  /\ U.conn[i].key = f.key
  /\ U.conn[i].caddr = f.caddr
  /\ U.conn[i].service = T.last_ias.service

Learnt(q, f) ==
  [lsap_sel |-> IF f.kind = "IAS_COMMAND" THEN LSAP_ANY
                ELSE IF f.kind = "IAS_RESPONSE" /\ f.value # LSAP_ANY THEN f.value
                ELSE q.lsap_sel,
   service |-> IF f.kind = "IAS_COMMAND" THEN f.service ELSE q.service]

Effect(T, U, f) ==
  /\ U \in Tracker
  /\ \A i \in Slots : U.conn[i].valid => Kept(T, U, i) \/ Taken(T, U, i, f)
  /\ U.last_ias = Learnt(T.last_ias, f)
-----------------------------------------------------------------------------
(* The least element of a set of slots, or -1. *)
LEMMA FirstIn ==
  ASSUME NEW S \in SUBSET Slots
  PROVE  First(S) \in S \cup {-1}
<1>1. CASE S = {}
  BY <1>1 DEF First
<1>2. CASE S # {}
  <2>1. S \in SUBSET Nat
    BY TrackerAssumption DEF Slots
  <2>2. \E i \in S : \A j \in S : i <= j
    <3>1. PICK i \in S : \A j \in S : ~(<<j, i>> \in OpToRel(<, Nat))
      BY <2>1, <1>2, NatLessThanWellFounded, WFMin
    <3>2. ASSUME NEW j \in S
          PROVE  i <= j
      <4>1. i \in Nat /\ j \in Nat
        BY <2>1
      <4>2. ~(j < i)
        BY <3>1, <4>1 DEF OpToRel
      <4> QED
        BY <4>1, <4>2
    <3> QED
      BY <3>2
  <2>3. (CHOOSE i \in S : \A j \in S : i <= j) \in S
    BY <2>2, Zenon
  <2> QED
    BY <1>2, <2>3 DEF First
<1> QED
  BY <1>1, <1>2

(* find_connection returns a slot or -1. *)
LEMMA FindType ==
  ASSUME NEW T \in Tracker, NEW key
  PROVE  find_connection(T, key) \in Slots \cup {-1}
<1>1. {i \in Slots : T.conn[i].key = key} \in SUBSET Slots
  OBVIOUS
<1>2. First({i \in Slots : T.conn[i].key = key}) \in Slots \cup {-1}
  BY <1>1, FirstIn
<1>3. T.conn_cache \in Slots \cup {-1}
  BY DEF Tracker
<1> QED
  BY <1>2, <1>3 DEF find_connection

(* Looking a connection up changes conn_cache only. *)
LEMMA LookedType ==
  ASSUME NEW T \in Tracker, NEW f
  PROVE  /\ Looked(T, f) \in Tracker
         /\ Looked(T, f).conn = T.conn
         /\ Looked(T, f).last_ias = T.last_ias
<1>1. find_connection(T, f.key) \in Slots \cup {-1}
  BY FindType
<1> QED
  BY <1>1 DEF Looked, Tracker

(* A connection that is made. *)
LEMMA ConnectEffect ==
  ASSUME NEW T \in Tracker, NEW f \in Frames, f.kind = "CONNECT_CMD"
  PROVE  Effect(T, parse_connect_cmd(T, f), f)
<1> DEFINE i == find_free_connection(T)
           U == parse_connect_cmd(T, f)
<1>1. i \in Slots \cup {-1}
  BY FirstIn DEF find_free_connection
<1>2. CASE f.dlsap # T.last_ias.lsap_sel \/ i = -1
  <2>1. U = T
    BY <1>2 DEF parse_connect_cmd
  <2> QED
    BY <2>1 DEF Effect, Kept, Learnt, Tracker
<1>3. CASE f.dlsap = T.last_ias.lsap_sel /\ i # -1
  <2> DEFINE new == [valid |-> TRUE, key |-> f.key, caddr |-> f.caddr,
                     service |-> T.last_ias.service]
  <2>1. U = [T EXCEPT !.conn = [T.conn EXCEPT ![i] = new]]
    BY <1>3 DEF parse_connect_cmd
  <2>2. i \in Slots
    BY <1>1, <1>3
  <2>3. new \in Slot
    BY DEF Slot, Frames, Tracker
  <2> HIDE DEF i, new
  <2>4. [T.conn EXCEPT ![i] = new] \in [Slots -> Slot]
    BY <2>2, <2>3 DEF Tracker
  <2>5. /\ U \in Tracker
        /\ U.conn = [T.conn EXCEPT ![i] = new]
        /\ U.last_ias = T.last_ias
    BY <2>1, <2>4 DEF Tracker
  <2>6. U.last_ias = Learnt(T.last_ias, f)
    BY <2>5 DEF Learnt, Tracker
  <2> HIDE DEF U
  <2>7. ASSUME NEW j \in Slots, U.conn[j].valid
        PROVE  Kept(T, U, j) \/ Taken(T, U, j, f)
    <3>1. CASE j = i
      BY <3>1, <2>5, <1>3 DEF Taken, new, Tracker
    <3>2. CASE j # i
      BY <3>2, <2>5, <2>7 DEF Kept, Tracker
    <3> QED
      BY <3>1, <3>2
  <2> QED
    BY <2>5, <2>6, <2>7 DEF Effect, U
<1> QED
  BY <1>2, <1>3

(* A connection that is closed. *)
LEMMA DisconnectEffect ==
  ASSUME NEW T \in Tracker, NEW f \in Frames, f.kind = "DISCONNECT"
  PROVE  Effect(T, parse_disconnect(T, f), f)
<1> DEFINE i == find_connection(T, f.key)
           L == Looked(T, f)
           U == parse_disconnect(T, f)
<1>1. L \in Tracker /\ L.conn = T.conn /\ L.last_ias = T.last_ias
  BY LookedType
<1>2. CASE i = -1
  <2>1. U = L
    BY <1>2 DEF parse_disconnect
  <2> QED
    BY <2>1, <1>1 DEF Effect, Kept, Learnt, Tracker
<1>3. CASE i # -1
  <2> DEFINE shut == [T.conn[i] EXCEPT !.valid = FALSE]
  <2>1. U = [L EXCEPT !.conn = [L.conn EXCEPT ![i] = [L.conn[i] EXCEPT !.valid = FALSE]]]
    BY <1>3 DEF parse_disconnect
  <2>2. i \in Slots
    BY <1>3, FindType
  <2> HIDE DEF i, L
  <2>3. shut \in Slot /\ ~shut.valid
    BY <2>2, ZenonT(60) DEF Tracker, Slot
  <2> HIDE DEF shut
  <2>4. [T.conn EXCEPT ![i] = shut] \in [Slots -> Slot]
    BY <2>2, <2>3 DEF Tracker
  <2>5. /\ U \in Tracker
        /\ U.conn = [T.conn EXCEPT ![i] = shut]
        /\ U.last_ias = T.last_ias
    BY <2>1, <2>4, <1>1 DEF Tracker, shut
  <2>6. U.last_ias = Learnt(T.last_ias, f)
    BY <2>5 DEF Learnt, Tracker
  <2> HIDE DEF U
  <2>7. ASSUME NEW j \in Slots, U.conn[j].valid
        PROVE  Kept(T, U, j)
    BY <2>2, <2>3, <2>5, <2>7 DEF Kept, Tracker
  <2> QED
    BY <2>5, <2>6, <2>7 DEF Effect, U
<1> QED
  BY <1>2, <1>3

(* Every I-frame. *)
LEMMA FrameEffect ==
  ASSUME NEW T \in Tracker, NEW f \in Frames
  PROVE  Effect(T, parse_irlap_frame(T, f), f)
<1>0. parse_irlap_frame(T, f) = parse_irlmp(T, f)
  BY DEF parse_irlap_frame, Frames
<1>1. CASE f.kind = "CONNECT_CMD"
  BY <1>0, <1>1, ConnectEffect DEF parse_irlmp
<1>2. CASE f.kind = "DISCONNECT"
  BY <1>0, <1>2, DisconnectEffect DEF parse_irlmp
<1>3. CASE f.kind \in {"CONNECT_RSP", "DATA"}
  <2>1. parse_irlmp(T, f) = Looked(T, f)
    BY <1>3 DEF parse_irlmp
  <2>2. /\ Looked(T, f) \in Tracker
        /\ Looked(T, f).conn = T.conn
        /\ Looked(T, f).last_ias = T.last_ias
    BY LookedType
  <2> QED
    BY <1>0, <1>3, <2>1, <2>2 DEF Effect, Kept, Learnt, Tracker
<1>4. CASE f.kind = "IAS_COMMAND"
  <2> DEFINE V == parse_iriap_command(T, f)
  <2>1. V \in Tracker /\ V.conn = T.conn /\ V.last_ias = Learnt(T.last_ias, f)
    BY <1>4 DEF parse_iriap_command, Learnt, Tracker, Frames
  <2>2. parse_irlmp(T, f) = Looked(V, f)
    BY <1>4 DEF parse_irlmp
  <2> HIDE DEF V
  <2>3. /\ Looked(V, f) \in Tracker
        /\ Looked(V, f).conn = V.conn
        /\ Looked(V, f).last_ias = V.last_ias
    BY <2>1, LookedType
  <2> QED
    BY <1>0, <2>1, <2>2, <2>3 DEF Effect, Kept
<1>5. CASE f.kind = "IAS_RESPONSE"
  <2> DEFINE V == parse_iriap_response(T, f)
  <2>1. V \in Tracker /\ V.conn = T.conn /\ V.last_ias = Learnt(T.last_ias, f)
    BY <1>5 DEF parse_iriap_response, Learnt, Tracker, Frames
  <2>2. parse_irlmp(T, f) = Looked(V, f)
    BY <1>5 DEF parse_irlmp
  <2> HIDE DEF V
  <2>3. /\ Looked(V, f) \in Tracker
        /\ Looked(V, f).conn = V.conn
        /\ Looked(V, f).last_ias = V.last_ias
    BY <2>1, LookedType
  <2> QED
    BY <1>0, <2>1, <2>2, <2>3 DEF Effect, Kept
<1> QED
  BY <1>1, <1>2, <1>3, <1>4, <1>5 DEF Frames, Kind

(* A frame that is captured twice has the effect of one. *)
LEMMA TwiceEffect ==
  ASSUME NEW T \in Tracker, NEW f \in Frames
  PROVE  Effect(T, parse_irlap_frame(parse_irlap_frame(T, f), f), f)
<1> DEFINE U == parse_irlap_frame(T, f)
           W == parse_irlap_frame(U, f)
<1>1. Effect(T, U, f)
  BY FrameEffect
<1>2. U \in Tracker
  BY <1>1 DEF Effect
<1>3. Effect(U, W, f)
  BY <1>2, FrameEffect
<1> HIDE DEF U, W
<1>4. W.last_ias = Learnt(T.last_ias, f)
  BY <1>1, <1>3 DEF Effect, Learnt
<1>5. ASSUME NEW i \in Slots, W.conn[i].valid
      PROVE  Kept(T, W, i) \/ Taken(T, W, i, f)
  <2>1. CASE Kept(U, W, i)
    <3>1. Kept(T, U, i) \/ Taken(T, U, i, f)
      BY <1>1, <2>1 DEF Effect, Kept
    <3> QED
      BY <2>1, <3>1 DEF Kept, Taken
  <2>2. CASE Taken(U, W, i, f)
    BY <2>2, <1>1 DEF Taken, Effect, Learnt
  <2> QED
    BY <1>3, <1>5, <2>1, <2>2 DEF Effect
<1> QED
  BY <1>3, <1>4, <1>5 DEF Effect, U, W

(* A captured frame; what is missed changes nothing. *)
LEMMA CaptureEffect ==
  ASSUME TypeOK, NEW f \in Frames, Capture(f)
  PROVE  /\ tr' \in Tracker
         /\ \A i \in Slots : tr'.conn[i].valid => Kept(tr, tr', i) \/ Taken(tr, tr', i, f)
         /\ f.kind \notin Missed => tr'.last_ias = Learnt(tr.last_ias, f)
         /\ f.kind \notin {"IAS_COMMAND", "IAS_RESPONSE"} => tr'.last_ias = tr.last_ias
<1>0. tr \in Tracker
  BY DEF TypeOK
<1>1. ASSUME Effect(tr, tr', f)
      PROVE  f.kind \notin {"IAS_COMMAND", "IAS_RESPONSE"} => tr'.last_ias = tr.last_ias
  BY <1>0, <1>1 DEF Effect, Learnt, Tracker
<1>2. CASE tr' = parse_irlap_frame(tr, f)
  BY <1>0, <1>1, <1>2, FrameEffect DEF Effect
<1>3. CASE f.kind \in Missed /\ tr' = tr
  BY <1>0, <1>3 DEF Kept
<1>4. CASE tr' = parse_irlap_frame(parse_irlap_frame(tr, f), f)
  BY <1>0, <1>1, <1>4, TwiceEffect DEF Effect
<1> QED
  BY <1>2, <1>3, <1>4 DEF Capture

(* The frames of a connection are frames. *)
LEMMA FrameType ==
  ASSUME TypeOK, NEW c \in Conns, NEW kind \in Kind \ {"LAP_DISC"},
         NEW service \in Services, NEW value \in Sel \cup {LSAP_ANY}
  PROVE  Frame(kind, c, service, value) \in Frames
<1>1. c.our \in Sel /\ c.peer \in Sel
  BY TrackerAssumption
<1>2. Key(c) \in Sel \X Sel /\ Dlsap(c) \in Sel
  BY <1>1 DEF Key, Dlsap
<1> QED
  BY <1>2 DEF Frame, Frames, TypeOK

(* The end of the link. *)
LEMMA DiscEffect ==
  ASSUME TypeOK, LapDisc
  PROVE  /\ tr' \in Tracker
         /\ tr'.last_ias = tr.last_ias
         /\ \A i \in Slots : tr'.conn[i].valid => Kept(tr, tr', i)
         /\ "LAP_DISC" \notin Missed =>
              \A i \in Slots : tr'.conn[i].valid => tr.conn[i].caddr # lap
<1> DEFINE G == garbage_connection(tr, lap)
           new == [i \in Slots |-> IF tr.conn[i].caddr = lap
                                   THEN [tr.conn[i] EXCEPT !.valid = FALSE]
                                   ELSE tr.conn[i]]
<1>0. tr \in Tracker
  BY DEF TypeOK
<1>1. /\ tr' = G \/ tr' = tr
      /\ "LAP_DISC" \notin Missed => tr' = G
  BY TrackerAssumption DEF LapDisc, Capture, parse_irlap_frame
<1>2. new \in [Slots -> Slot]
  BY <1>0, ZenonT(60) DEF Tracker, Slot
<1>3. G = [tr EXCEPT !.conn = new]
  BY DEF garbage_connection
<1>4. G \in Tracker /\ G.conn = new /\ G.last_ias = tr.last_ias
  <2> HIDE DEF new, G
  <2> QED
    BY <1>0, <1>2, <1>3 DEF Tracker
<1>5. ASSUME NEW i \in Slots, new[i].valid
      PROVE  new[i] = tr.conn[i] /\ tr.conn[i].caddr # lap
  BY <1>0, <1>5 DEF Tracker, Slot
<1>6. \A i \in Slots : G.conn[i].valid => Kept(tr, G, i) /\ tr.conn[i].caddr # lap
  <2> HIDE DEF new, G
  <2> QED
    BY <1>4, <1>5 DEF Kept
<1> HIDE DEF G
<1>7. CASE tr' = G
  BY <1>4, <1>6, <1>7
<1>8. CASE tr' = tr
  BY <1>0, <1>1, <1>6, <1>4, <1>8 DEF Kept
<1> QED
  BY <1>1, <1>7, <1>8

(***************************************************************************)
(* Every step of the traffic on a connection is one captured frame on the  *)
(* link there is, which stays; last_ias changes with IAS frames only.      *)
(***************************************************************************)
LEMMA ConnStep ==
  ASSUME TypeOK, NEW c \in Conns,
         Connect(c) \/ Accept(c) \/ Disconnect(c) \/ Data(c) \/ Query(c) \/ Answer(c)
  PROVE  \E f \in Frames : Capture(f) /\ f.caddr = lap /\ lap' = lap
                             /\ f.key = Key(c) /\ f.dlsap = Dlsap(c)
                             /\ (f.kind = "CONNECT_CMD" => lap # 0)
                             /\ (f.kind \in {"IAS_COMMAND", "IAS_RESPONSE"}
                                   => Query(c) \/ Answer(c))
<1> USE DEF Kind
<1>0. NoService \in Services /\ LSAP_ANY \in Sel \cup {LSAP_ANY}
  BY DEF Services
<1>1. ASSUME NEW kind \in Kind \ {"LAP_DISC"}, NEW service \in Services,
             NEW value \in Sel \cup {LSAP_ANY},
             Capture(Frame(kind, c, service, value)), lap' = lap,
             kind = "CONNECT_CMD" => lap # 0,
             kind \in {"IAS_COMMAND", "IAS_RESPONSE"} => Query(c) \/ Answer(c)
      PROVE  \E f \in Frames : Capture(f) /\ f.caddr = lap /\ lap' = lap
                                 /\ f.key = Key(c) /\ f.dlsap = Dlsap(c)
                                 /\ (f.kind = "CONNECT_CMD" => lap # 0)
                                 /\ (f.kind \in {"IAS_COMMAND", "IAS_RESPONSE"}
                                       => Query(c) \/ Answer(c))
  <2>1. Frame(kind, c, service, value) \in Frames
    BY FrameType
  <2>2. /\ Frame(kind, c, service, value).caddr = lap
        /\ Frame(kind, c, service, value).key = Key(c)
        /\ Frame(kind, c, service, value).dlsap = Dlsap(c)
        /\ Frame(kind, c, service, value).kind = kind
    BY DEF Frame
  <2> QED
    BY <2>1, <2>2, <1>1
<1>2. CASE Connect(c)
  BY <1>0, <1>1, <1>2 DEF Connect
<1>3. CASE Accept(c)
  BY <1>0, <1>1, <1>3 DEF Accept
<1>4. CASE Disconnect(c)
  BY <1>0, <1>1, <1>4 DEF Disconnect
<1>5. CASE Data(c)
  BY <1>0, <1>1, <1>5 DEF Data
<1>6. CASE Query(c)
  <2>1. PICK s \in Side : \E l \in DOMAIN Service[s] :
          Capture(Frame("IAS_COMMAND", c, Service[s][l], LSAP_ANY))
    BY <1>6 DEF Query
  <2>2. PICK l \in DOMAIN Service[s] :
          Capture(Frame("IAS_COMMAND", c, Service[s][l], LSAP_ANY))
    BY <2>1
  <2>3. Service[s][l] \in Services
    BY DEF Services
  <2> QED
    BY <1>0, <1>1, <1>6, <2>2, <2>3 DEF Query
<1>7. CASE Answer(c)
  <2>1. PICK value \in {LSAP_ANY} \cup DOMAIN Service[Server(c)] :
          Capture(Frame("IAS_RESPONSE", c, NoService, value))
    BY <1>7 DEF Answer
  <2>2. value \in Sel \cup {LSAP_ANY}
    BY <2>1, TrackerAssumption DEF Server, Side
  <2> QED
    BY <1>0, <1>1, <1>7, <2>1, <2>2 DEF Answer
<1> QED
  BY <1>2, <1>3, <1>4, <1>5, <1>6, <1>7

(* What the traffic itself keeps. *)
LEMMA TypeStep ==
  ASSUME TypeOK, [Next]_vars
  PROVE  TypeOK'
<1>0. NoService \in Services
  BY DEF Services
<1>1. CASE UNCHANGED vars
  BY <1>1 DEF vars, TypeOK
<1>2. CASE LapConnect
  BY <1>2 DEF LapConnect, TypeOK
<1>3. CASE LapDisc
  <2>1. tr' \in Tracker
    BY <1>3, DiscEffect
  <2> QED
    BY <1>0, <1>3, <2>1 DEF LapDisc, TypeOK
<1>4. ASSUME NEW c \in Conns,
             Connect(c) \/ Accept(c) \/ Disconnect(c) \/ Data(c) \/ Query(c) \/ Answer(c)
      PROVE  TypeOK'
  <2>1. tr' \in Tracker /\ lap' = lap
    BY <1>4, ConnStep, CaptureEffect
  <2>2. c.client \in Side
    BY TrackerAssumption
  <2>3. live' \in [Conns -> {"closed", "asked", "open"}]
    BY <1>4 DEF Connect, Accept, Disconnect, Data, Query, Answer, TypeOK
  <2>4. asked' \in [Side -> Services]
    <3>1. CASE Query(c)
      <4>1. PICK s \in Side : \E l \in DOMAIN Service[s] :
              asked' = [asked EXCEPT ![c.client] = Service[s][l]]
        BY <3>1 DEF Query
      <4>2. PICK l \in DOMAIN Service[s] :
              asked' = [asked EXCEPT ![c.client] = Service[s][l]]
        BY <4>1
      <4>3. Service[s][l] \in Services
        BY DEF Services
      <4> QED
        BY <4>2, <4>3 DEF TypeOK
    <3>2. CASE ~Query(c)
      BY <1>0, <1>4, <3>2 DEF Connect, Accept, Disconnect, Data, Answer, TypeOK
    <3> QED
      BY <3>1, <3>2
  <2> QED
    BY <2>1, <2>3, <2>4 DEF TypeOK
<1> QED
  BY <1>1, <1>2, <1>3, <1>4 DEF Next

(***************************************************************************)
(* No slot outlives its link: as long as the DISC that closes the link is  *)
(* captured, whatever else is missed or repeated, every valid slot belongs *)
(* to the LAP connection there is now (garbage_connection).                *)
(***************************************************************************)
THEOREM NeverZombies ==
  ASSUME "LAP_DISC" \notin Missed
  PROVE  Spec => []NoZombies
<1>1. Init => TypeOK /\ NoZombies
  <2> SUFFICES ASSUME Init
               PROVE  TypeOK /\ NoZombies
    OBVIOUS
  <2>1. NoService \in Services
    BY DEF Services
  <2>2. tr \in Tracker
    BY <2>1 DEF Init, Tracker, Slot, Sel
  <2> QED
    BY <2>1, <2>2 DEF Init, TypeOK, NoZombies
<1>2. TypeOK /\ NoZombies /\ [Next]_vars => TypeOK' /\ NoZombies'
  <2> SUFFICES ASSUME TypeOK, NoZombies, [Next]_vars
               PROVE  TypeOK' /\ NoZombies'
    OBVIOUS
  <2>1. TypeOK'
    BY TypeStep
  <2>2. NoZombies'
    <3>1. CASE UNCHANGED vars
      BY <3>1 DEF vars, NoZombies
    <3>2. CASE LapConnect
      BY <3>2 DEF LapConnect, NoZombies
    <3>3. CASE LapDisc
      BY <3>3, DiscEffect DEF NoZombies, Kept
    <3>4. ASSUME NEW c \in Conns,
                 Connect(c) \/ Accept(c) \/ Disconnect(c) \/ Data(c) \/ Query(c) \/ Answer(c)
          PROVE  NoZombies'
      <4>1. PICK f \in Frames : Capture(f) /\ f.caddr = lap /\ lap' = lap
                                  /\ (f.kind = "CONNECT_CMD" => lap # 0)
        BY <3>4, ConnStep
      <4>2. \A i \in Slots : tr'.conn[i].valid => Kept(tr, tr', i) \/ Taken(tr, tr', i, f)
        BY <4>1, CaptureEffect
      <4> QED
        BY <4>1, <4>2 DEF NoZombies, Kept, Taken
    <3> QED
      BY <3>1, <3>2, <3>3, <3>4 DEF Next
  <2> QED
    BY <2>1, <2>2
<1> QED
  BY <1>1, <1>2, PTL DEF Spec
-----------------------------------------------------------------------------
(* When only we connect, the key of a connection tells its service. *)
LEMMA SameService ==
  ASSUME \A c \in Conns : c.client = "us",
         NEW c \in Conns, NEW d \in Conns, Key(c) = Key(d)
  PROVE  Dlsap(c) = Dlsap(d) /\ ServiceOf(c) = ServiceOf(d)
BY DEF Key, Dlsap, ServiceOf, Server

(* A step on a connection keeps every valid slot right. *)
LEMMA SoundStep ==
  ASSUME \A c \in Conns : c.client = "us", IInv, NEW c \in Conns,
         Connect(c) \/ Accept(c) \/ Disconnect(c) \/ Data(c) \/ Query(c) \/ Answer(c)
  PROVE  Sound'
<1>1. PICK f \in Frames : Capture(f) /\ f.key = Key(c) /\ f.dlsap = Dlsap(c)
  BY ConnStep DEF IInv
<1>2. \A i \in Slots : tr'.conn[i].valid => Kept(tr, tr', i) \/ Taken(tr, tr', i, f)
  BY <1>1, CaptureEffect DEF IInv
<1>3. Dlsap(c) \in Sel
  BY TrackerAssumption DEF Dlsap
<1> SUFFICES ASSUME NEW i \in Slots, NEW d \in Conns,
                    tr'.conn[i].valid, tr'.conn[i].key = Key(d)
             PROVE  tr'.conn[i].service = ServiceOf(d)
  BY DEF Sound
<1>4. CASE Kept(tr, tr', i)
  BY <1>4 DEF Kept, IInv, Sound
<1>5. CASE Taken(tr, tr', i, f)
  <2>1. Key(c) = Key(d) /\ Dlsap(c) = tr.last_ias.lsap_sel
    BY <1>1, <1>5 DEF Taken
  <2>2. ServiceOf(c) = ServiceOf(d)
    BY <2>1, SameService
  <2>3. tr.last_ias.service = ServiceOf(c)
    BY <1>3, <2>1 DEF IInv, LastIasInv, ServiceOf, Server
  <2> QED
    BY <1>5, <2>2, <2>3 DEF Taken
<1> QED
  BY <1>2, <1>4, <1>5

(* A query, an answer and everything else keep last_ias right. *)
LEMMA LastIasStep ==
  ASSUME \A c \in Conns : c.client = "us",
         {"IAS_COMMAND", "IAS_RESPONSE"} \cap Missed = {},
         IInv, NEW c \in Conns,
         Connect(c) \/ Accept(c) \/ Disconnect(c) \/ Data(c) \/ Query(c) \/ Answer(c)
  PROVE  LastIasInv'
<1>0. NoService \in Services /\ TypeOK /\ c.client = "us" /\ "us" \in Side
  BY DEF Services, IInv, Side
<1>1. CASE Query(c)
  <2>1. PICK s \in Side : \E l \in DOMAIN Service[s] :
          /\ asked' = [asked EXCEPT ![c.client] = Service[s][l]]
          /\ Capture(Frame("IAS_COMMAND", c, Service[s][l], LSAP_ANY))
    BY <1>1 DEF Query
  <2>2. PICK l \in DOMAIN Service[s] :
          /\ asked' = [asked EXCEPT ![c.client] = Service[s][l]]
          /\ Capture(Frame("IAS_COMMAND", c, Service[s][l], LSAP_ANY))
    BY <2>1
  <2> DEFINE f == Frame("IAS_COMMAND", c, Service[s][l], LSAP_ANY)
  <2>3. Service[s][l] \in Services
    BY DEF Services
  <2>4. f \in Frames
    BY <1>0, <2>3, FrameType DEF Kind
  <2>5. f.kind = "IAS_COMMAND" /\ f.service = Service[s][l]
    BY DEF Frame
  <2> HIDE DEF f
  <2>6. tr'.last_ias = Learnt(tr.last_ias, f)
    BY <1>0, <2>2, <2>4, <2>5, CaptureEffect DEF f
  <2>7. tr'.last_ias.lsap_sel = LSAP_ANY /\ tr'.last_ias.service = Service[s][l]
    BY <2>5, <2>6 DEF Learnt
  <2>8. asked'["us"] = Service[s][l]
    BY <1>0, <2>2 DEF TypeOK
  <2> QED
    BY <2>7, <2>8 DEF LastIasInv, LSAP_ANY, LSAP_IAS, Sel
<1>2. CASE Answer(c)
  <2>1. PICK value \in {LSAP_ANY} \cup {l \in DOMAIN Service["peer"] :
                                        Service["peer"][l] = asked["us"]} :
          Capture(Frame("IAS_RESPONSE", c, NoService, value))
    BY <1>0, <1>2 DEF Answer, Server
  <2> DEFINE f == Frame("IAS_RESPONSE", c, NoService, value)
  <2>2. value \in Sel \cup {LSAP_ANY}
    BY <2>1, TrackerAssumption DEF Side
  <2>3. f \in Frames
    BY <1>0, <2>2, FrameType DEF Kind
  <2>4. f.kind = "IAS_RESPONSE" /\ f.value = value
    BY DEF Frame
  <2> HIDE DEF f
  <2>5. tr'.last_ias = Learnt(tr.last_ias, f)
    BY <1>0, <2>1, <2>3, <2>4, CaptureEffect DEF f
  <2>6. /\ tr'.last_ias.lsap_sel = IF value # LSAP_ANY THEN value
                                   ELSE tr.last_ias.lsap_sel
        /\ tr'.last_ias.service = tr.last_ias.service
    BY <2>4, <2>5 DEF Learnt
  <2>7. asked["us"] # NoService /\ asked'["us"] = NoService
    BY <1>0, <1>2 DEF Answer, TypeOK
  <2>8. tr.last_ias.service = asked["us"] /\ tr.last_ias.lsap_sel = LSAP_ANY
    BY <2>7 DEF IInv, LastIasInv
  <2>9. CASE value = LSAP_ANY
    BY <2>6, <2>7, <2>8, <2>9 DEF LastIasInv, LSAP_ANY, LSAP_IAS, Sel
  <2>10. CASE value # LSAP_ANY
    <3>1. value \in DOMAIN Service["peer"] /\ Service["peer"][value] = asked["us"]
      BY <2>1, <2>10
    <3>2. value # LSAP_IAS
      BY <3>1, TrackerAssumption DEF Side
    <3> QED
      BY <2>6, <2>7, <2>8, <2>10, <3>1, <3>2 DEF LastIasInv
  <2> QED
    BY <2>9, <2>10
<1>3. CASE ~Query(c) /\ ~Answer(c)
  <2>1. PICK f \in Frames : Capture(f) /\ f.kind \notin {"IAS_COMMAND", "IAS_RESPONSE"}
    BY <1>0, <1>3, ConnStep
  <2>2. tr'.last_ias = tr.last_ias
    BY <1>0, <2>1, CaptureEffect
  <2>3. asked'["us"] \in {asked["us"], NoService}
    BY <1>0, <1>3 DEF Connect, Accept, Disconnect, Data, TypeOK
  <2> QED
    BY <2>2, <2>3 DEF IInv, LastIasInv
<1> QED
  BY <1>1, <1>2, <1>3

(***************************************************************************)
(* The inductive invariant: when one side does all the asking and no IAS   *)
(* frame is missed, last_ias (parse_iriap_command, parse_iriap_response)   *)
(* names what is asked for or what was found, and the slots are right.     *)
(***************************************************************************)
THEOREM LsapInvariant ==
  ASSUME \A c \in Conns : c.client = "us",
         {"IAS_COMMAND", "IAS_RESPONSE"} \cap Missed = {}
  PROVE  Spec => []IInv
<1>1. Init => IInv
  <2> SUFFICES ASSUME Init
               PROVE  IInv
    OBVIOUS
  <2>1. NoService \in Services
    BY DEF Services
  <2>2. tr \in Tracker
    BY <2>1 DEF Init, Tracker, Slot, Sel
  <2>3. LastIasInv
    BY DEF Init, LastIasInv, Side, LSAP_IAS, LSAP_ANY, Sel
  <2> QED
    BY <2>1, <2>2, <2>3 DEF Init, IInv, TypeOK, Sound
<1>2. IInv /\ [Next]_vars => IInv'
  <2> SUFFICES ASSUME IInv, [Next]_vars
               PROVE  IInv'
    OBVIOUS
  <2>0. TypeOK /\ TypeOK'
    BY TypeStep DEF IInv
  <2>1. CASE UNCHANGED vars \/ LapConnect
    BY <2>0, <2>1 DEF vars, LapConnect, IInv, LastIasInv, Sound
  <2>2. CASE LapDisc
    <3>1. asked'["us"] = NoService
      BY <2>2 DEF LapDisc, Side
    <3>2. LastIasInv'
      BY <2>0, <2>2, <3>1, DiscEffect DEF IInv, LastIasInv
    <3>3. Sound'
      BY <2>0, <2>2, DiscEffect DEF IInv, Sound, Kept
    <3> QED
      BY <2>0, <3>2, <3>3 DEF IInv
  <2>3. ASSUME NEW c \in Conns,
               Connect(c) \/ Accept(c) \/ Disconnect(c) \/ Data(c) \/ Query(c) \/ Answer(c)
        PROVE  IInv'
    BY <2>0, <2>3, SoundStep, LastIasStep DEF IInv
  <2> QED
    BY <2>1, <2>2, <2>3 DEF Next
<1> QED
  BY <1>1, <1>2, PTL DEF Spec

(***************************************************************************)
(* Under the same conditions irdadump never takes a connection for one to  *)
(* another service (parse_irlmp), whatever other frames are missed,        *)
(* repeated, refused or answered with a failure.                           *)
(***************************************************************************)
THEOREM AlwaysSound ==
  ASSUME \A c \in Conns : c.client = "us",
         {"IAS_COMMAND", "IAS_RESPONSE"} \cap Missed = {}
  PROVE  Spec => []Sound
<1>1. IInv => Sound
  BY DEF IInv
<1> QED
  BY <1>1, LsapInvariant, PTL
=============================================================================
