------------------------------ MODULE PortsProof ------------------------------
(***************************************************************************)
(* Proofs about Ports, for any number of vids and queue pairs and a socket *)
(* of any size.  What depends on the order in which devices appear is      *)
(* proved for Order = "dense", the order in which port ids and vids agree. *)
(***************************************************************************)
EXTENDS Ports, FiniteSetTheorems, SequenceTheorems, TLAPS

-----------------------------------------------------------------------------
(***************************************************************************)
(* The operators of ConfigManager.                                         *)
(***************************************************************************)
LEMMA InsertIs ==
   ASSUME NEW m, NEW k, NEW x
   PROVE  /\ DOMAIN Insert(m, k, x) = DOMAIN m \cup {k}
          /\ Insert(m, k, x)[k] = x
          /\ \A j \in DOMAIN m : j # k => Insert(m, k, x)[j] = m[j]
BY DEF Insert

LEMMA SetQueueStateOK ==
   ASSUME NEW m, RecordsOK(m), NEW v, NEW q \in Nat, NEW e \in BOOLEAN
   PROVE  /\ RecordsOK(SetQueueState(m, v, q, e))
          /\ DOMAIN SetQueueState(m, v, q, e) = DOMAIN m
<1> DEFINE r == m[v]
           on == r.enabled \cup {q}
           off == r.enabled \ {q}
<1>1. CASE ~(v \in DOMAIN m /\ q < 2 * m[v].pairs)
   BY <1>1 DEF SetQueueState
<1>2. CASE v \in DOMAIN m /\ q < 2 * m[v].pairs
   <2>1. /\ r \in [pairs : Nat, enabled : SUBSET Nat]
         /\ r.enabled \subseteq 0..(2 * r.pairs - 1)
      BY <1>2 DEF RecordsOK
   <2>2. PICK s \in {on, off} :
            SetQueueState(m, v, q, e) = [m EXCEPT ![v].enabled = s]
      BY <1>2 DEF SetQueueState
   <2>3. s \in SUBSET Nat /\ s \subseteq 0..(2 * r.pairs - 1)
      BY <1>2, <2>1, <2>2
   <2> HIDE DEF on, off
   <2> DEFINE n == [m EXCEPT ![v].enabled = s]
   <2>4. DOMAIN n = DOMAIN m
      OBVIOUS
   <2>5. n[v] = [pairs |-> r.pairs, enabled |-> s]
      BY <1>2, <2>1
   <2>6. \A w \in DOMAIN m : w # v => n[w] = m[w]
      OBVIOUS
   <2>7. RecordsOK(n)
      <3>1. SUFFICES ASSUME NEW w \in DOMAIN n
                     PROVE  /\ n[w] \in [pairs : Nat, enabled : SUBSET Nat]
                            /\ n[w].enabled \subseteq 0..(2 * n[w].pairs - 1)
         BY DEF RecordsOK
      <3> HIDE DEF n
      <3>2. CASE w = v
         <4>1. r.pairs \in Nat
            BY <2>1
         <4> HIDE DEF r
         <4>2. n[v] \in [pairs : Nat, enabled : SUBSET Nat]
            BY <2>3, <2>5, <4>1
         <4>3. n[v].pairs = r.pairs /\ n[v].enabled = s
            BY <2>5
         <4> QED BY <2>3, <3>2, <4>2, <4>3
      <3>3. CASE w # v
         BY <2>4, <2>6, <3>1, <3>3 DEF RecordsOK
      <3> QED BY <3>2, <3>3
   <2> QED BY <2>2, <2>4, <2>7
<1> QED BY <1>1, <1>2

LEMMA InitVhostDeviceOK ==
   ASSUME NEW m, RecordsOK(m), NEW v, NEW n \in Nat
   PROVE  /\ RecordsOK(InitVhostDevice(m, v, n))
          /\ DOMAIN InitVhostDevice(m, v, n) = DOMAIN m \cup {v}
<1> DEFINE r == [pairs |-> n, enabled |-> {}]
           new == InitVhostDevice(m, v, n)
<1>1. new = Insert(m, v, r)
   BY DEF InitVhostDevice
<1>2. DOMAIN new = DOMAIN m \cup {v} /\ new[v] = r
   BY <1>1 DEF Insert
<1>3. \A w \in DOMAIN m : w # v => new[w] = m[w]
   BY <1>1 DEF Insert
<1> HIDE DEF new
<1>4. RecordsOK(new)
   <2>1. SUFFICES ASSUME NEW w \in DOMAIN new
                  PROVE  /\ new[w] \in [pairs : Nat, enabled : SUBSET Nat]
                         /\ new[w].enabled \subseteq 0..(2 * new[w].pairs - 1)
      BY DEF RecordsOK
   <2>2. CASE w = v
      BY <1>2, <2>2
   <2>3. CASE w # v
      BY <1>2, <1>3, <2>1, <2>3 DEF RecordsOK
   <2> QED BY <2>2, <2>3
<1> QED BY <1>2, <1>4 DEF new

-----------------------------------------------------------------------------
(***************************************************************************)
(* Types, and the count of the devices.                                    *)
(***************************************************************************)
Messages == [meta : {"PORT_UP", "PORT_DOWN"}, pid : Int, vid : Vids]

LEMMA NotifyOK ==
   ASSUME chan \in Seq(Messages), Len(chan) <= ChanCap, CanNotify,
          NEW meta \in {"PORT_UP", "PORT_DOWN"}, NEW pid \in Int, NEW vid \in Vids,
          Notify(meta, pid, vid)
   PROVE  /\ chan' \in Seq(Messages) /\ Len(chan') <= ChanCap
          /\ Len(chan') = Len(chan) + 1
          /\ chan'[Len(chan) + 1] = [meta |-> meta, pid |-> pid, vid |-> vid]
          /\ \A i \in 1..Len(chan) : chan'[i] = chan[i]
<1>1. Message(meta, pid, vid) \in Messages
   BY DEF Message, Messages
<1>2. chan' = Append(chan, Message(meta, pid, vid))
   BY DEF Notify
<1>3. Len(chan) < ChanCap /\ Len(chan) \in Nat /\ ChanCap \in Nat
   BY PortsAssumption DEF CanNotify
<1> QED BY <1>1, <1>2, <1>3 DEF Message

LEMMA PidOfIsInt == TypeOK => \A v : PidOf(vpmap, v) \in Int
BY DEF TypeOK, PidOf

\* What every notification leaves alone, and what leaves nearly everything alone.
LEMMA ProcessReads ==
   ASSUME Process
   PROVE  /\ chan # << >> /\ chan' = Tail(chan)
          /\ UNCHANGED <<live, port_cntr, pmap, pvmap, vpmap, connected, hung, revived>>
BY DEF Process, ProcessUp, ProcessDown, Processes, configVars

LEMMA OthersWait ==
   ASSUME Accept \/ ProcessHangs \/ UNCHANGED vars
   PROVE  /\ UNCHANGED <<live, port_cntr, pmap, pvmap, vpmap, chan, port_handler, names>>
          /\ UNCHANGED <<revived, stale>>
BY DEF Accept, ProcessHangs, vars, configVars, handlerVars

LEMMA HandlersChange ==
   ASSUME [Next]_vars
   PROVE  ProcessUp \/ ProcessDown \/ UNCHANGED handlerVars
BY DEF Next, VhostThread, EpollWorker, NewDevice, DestroyDevice, VringStateChanged, Accept,
       Process, ProcessHangs, vars, handlerVars

LEMMA VidsFinite == IsFiniteSet(Vids)
<1>1. 0 \in Int /\ NofVids - 1 \in Int
   BY PortsAssumption
<1> QED BY <1>1, FS_Interval DEF Vids


LEMMA InitOK == Init => TypeOK
<1> SUFFICES ASSUME Init PROVE TypeOK
   OBVIOUS
<1>1. DOMAIN EmptyMap = {}
   BY DEF EmptyMap
<1>2. chan \in Seq(Messages) /\ Len(chan) <= ChanCap
   BY PortsAssumption DEF Init
<1>3. RecordsOK(pmap) /\ vpmap \in [DOMAIN pmap -> Int]
   BY <1>1 DEF Init, RecordsOK, EmptyMap
<1>4. live \subseteq Vids /\ port_cntr \in Int /\ connected \in BOOLEAN /\ hung \in BOOLEAN
   <2>1. connected \in BOOLEAN /\ hung \in BOOLEAN
      BY ZenonT(20) DEF Init
   <2>2. live \subseteq Vids /\ port_cntr \in Int
      BY SMT DEF Init
   <2> QED BY <2>1, <2>2
<1>5. /\ DOMAIN pmap = {} /\ DOMAIN pvmap = {} /\ DOMAIN port_handler = {} /\ revived = {}
   BY <1>1 DEF Init
<1> QED BY <1>2, <1>3, <1>4, <1>5 DEF TypeOK, Messages

LEMMA NewDeviceOK ==
   ASSUME TypeOK, NEW v \in Vids, NEW n \in VringCounts, NewDevice(v, n)
   PROVE  TypeOK'
<1> DEFINE k == n \div 2
           p1 == InitVhostDevice(pmap, v, k)
           p2 == SetQueueState(p1, v, 0, TRUE)
<1>1. k \in Nat
   BY PortsAssumption
<1>2. RecordsOK(pmap)
   BY DEF TypeOK
<1>3. pmap' = SetQueueState(p2, v, 1, TRUE)
   BY DEF NewDevice
<1> HIDE DEF k
<1>4. RecordsOK(p1) /\ DOMAIN p1 = DOMAIN pmap \cup {v}
   BY <1>2, <1>1, InitVhostDeviceOK
<1> HIDE DEF p1
<1>5. RecordsOK(p2) /\ DOMAIN p2 = DOMAIN pmap \cup {v}
   BY <1>4, SetQueueStateOK
<1> HIDE DEF p2
<1>6. RecordsOK(pmap') /\ DOMAIN pmap' = DOMAIN pmap \cup {v}
   BY <1>5, <1>3, SetQueueStateOK
<1>7. vpmap' \in [DOMAIN pmap' -> Int]
   BY <1>6 DEF TypeOK, NewDevice, Insert
<1>8. \A p \in DOMAIN pvmap' : pvmap'[p] \in Vids
   <2>1. pvmap' = Insert(pvmap, port_cntr, v)
      BY DEF NewDevice
   <2> QED BY <2>1 DEF TypeOK, Insert
<1>9. chan' \in Seq(Messages) /\ Len(chan') <= ChanCap
   <2>1. chan \in Seq(Messages) /\ Len(chan) <= ChanCap /\ port_cntr \in Int
      BY DEF TypeOK, Messages
   <2>2. CASE n = 2
      <3>1. CanNotify /\ Notify("PORT_UP", port_cntr, v)
         BY <2>2 DEF NewDevice
      <3> QED BY <2>1, <3>1, NotifyOK
   <2>3. CASE n # 2
      BY <2>1, <2>3 DEF NewDevice
   <2> QED BY <2>2, <2>3
<1>10. /\ live' = live \cup {v} /\ port_cntr' = port_cntr + 1 /\ revived' = revived \ {v}
      /\ UNCHANGED <<connected, port_handler, hung>>
   BY DEF NewDevice, handlerVars
<1>11. DOMAIN pmap' \subseteq Vids
   BY <1>6 DEF TypeOK
<1> QED BY <1>6, <1>7, <1>8, <1>9, <1>10, <1>11 DEF TypeOK, Messages, RecordsOK

LEMMA DestroyDeviceOK ==
   ASSUME TypeOK, NEW v \in Vids, DestroyDevice(v)
   PROVE  TypeOK'
<1>1. chan' \in Seq(Messages) /\ Len(chan') <= ChanCap
   <2>1. CanNotify /\ Notify("PORT_DOWN", PidOf(vpmap, v), v)
      BY DEF DestroyDevice
   <2>2. chan \in Seq(Messages) /\ Len(chan) <= ChanCap /\ PidOf(vpmap, v) \in Int
      BY PidOfIsInt DEF TypeOK, Messages
   <2> QED BY <2>1, <2>2, NotifyOK
<1>2. /\ live' = live \ {v} /\ port_cntr' = port_cntr - 1
      /\ UNCHANGED <<pmap, pvmap, vpmap, connected, port_handler, hung, revived>>
   BY DEF DestroyDevice, handlerVars, configVars
<1> QED BY <1>1, <1>2 DEF TypeOK, Messages, RecordsOK

LEMMA VringStateChangedOK ==
   ASSUME TypeOK, NEW v \in Vids, NEW q \in Queues, NEW e \in BOOLEAN,
          VringStateChanged(v, q, e)
   PROVE  TypeOK'
<1>1. q \in Nat
   <2>1. PICK n \in VringCounts : q \in 0..(n - 1)
      BY DEF Queues
   <2> QED BY <2>1, PortsAssumption
<1>2. RecordsOK(pmap') /\ DOMAIN pmap' = DOMAIN pmap
   BY <1>1, SetQueueStateOK DEF TypeOK, VringStateChanged
<1>3. chan' \in Seq(Messages) /\ Len(chan') <= ChanCap
   <2>1. chan \in Seq(Messages) /\ Len(chan) <= ChanCap /\ PidOf(vpmap, v) \in Int
      BY PidOfIsInt DEF TypeOK, Messages
   <2>2. CASE IsPortReady(pmap', v)
      <3>1. CanNotify /\ Notify("PORT_UP", PidOf(vpmap, v), v)
         BY <2>2 DEF VringStateChanged
      <3> QED BY <2>1, <3>1, NotifyOK
   <2>3. CASE ~IsPortReady(pmap', v)
      BY <2>1, <2>3 DEF VringStateChanged
   <2> QED BY <2>2, <2>3
<1>4. /\ UNCHANGED <<live, port_cntr, pvmap, vpmap, connected, port_handler, hung>>
      /\ revived' \subseteq revived \cup {v}
   BY DEF VringStateChanged, handlerVars
<1> QED BY <1>2, <1>3, <1>4 DEF TypeOK, Messages, RecordsOK

\* The message that is read, and the socket without it.
LEMMA HeadOK ==
   ASSUME TypeOK, chan # << >>, chan' = Tail(chan)
   PROVE  /\ Head(chan) \in Messages /\ Head(chan) = chan[1]
          /\ chan' \in Seq(Messages) /\ Len(chan') <= ChanCap
          /\ Len(chan') = Len(chan) - 1
          /\ \A i \in 1..Len(chan') : chan'[i] = chan[i + 1] /\ i + 1 \in 1..Len(chan)
<1>1. chan \in Seq(Messages) /\ Len(chan) <= ChanCap /\ ChanCap \in Nat
   BY PortsAssumption DEF TypeOK, Messages
<1> QED BY <1>1

LEMMA ProcessUpOK == ASSUME TypeOK, ProcessUp PROVE TypeOK'
<1>1. /\ Head(chan) \in Messages
      /\ chan' \in Seq(Messages) /\ Len(chan') <= ChanCap
   BY ProcessReads, HeadOK DEF Process
<1> DEFINE key == <<Head(chan).pid, Head(chan).vid>>
<1>2. key \in Int \X Vids
   BY <1>1 DEF Messages
<1>3. DOMAIN port_handler' = DOMAIN port_handler \cup {key}
   BY InsertIs DEF ProcessUp
<1>4. UNCHANGED <<live, port_cntr, pmap, pvmap, vpmap, connected, hung, revived>>
   BY ProcessReads DEF Process
<1> HIDE DEF key
<1> QED BY <1>1, <1>2, <1>3, <1>4 DEF TypeOK, Messages, RecordsOK

LEMMA ProcessDownOK == ASSUME TypeOK, ProcessDown PROVE TypeOK'
<1>1. chan' \in Seq(Messages) /\ Len(chan') <= ChanCap
   BY ProcessReads, HeadOK DEF Process
<1>2. DOMAIN port_handler' \subseteq DOMAIN port_handler
   BY DEF ProcessDown, Erase
<1>3. UNCHANGED <<live, port_cntr, pmap, pvmap, vpmap, connected, hung, revived>>
   BY ProcessReads DEF Process
<1> QED BY <1>1, <1>2, <1>3 DEF TypeOK, Messages, RecordsOK

LEMMA NextOK == ASSUME TypeOK, [Next]_vars PROVE TypeOK'
<1>1. CASE \E v \in Vids, n \in VringCounts : NewDevice(v, n)
   BY <1>1, NewDeviceOK
<1>2. CASE \E v \in Vids : DestroyDevice(v)
   BY <1>2, DestroyDeviceOK
<1>3. CASE \E v \in Vids, q \in Queues, e \in BOOLEAN : VringStateChanged(v, q, e)
   BY <1>3, VringStateChangedOK
<1>4. CASE Accept \/ ProcessHangs
   <2>1. connected' \in BOOLEAN /\ hung' \in BOOLEAN
      BY <1>4, ZenonT(20) DEF Accept, ProcessHangs, TypeOK
   <2> QED BY <1>4, <2>1, OthersWait DEF TypeOK, RecordsOK
<1>5. CASE Process
   BY <1>5, ProcessUpOK, ProcessDownOK DEF Process
<1>6. CASE UNCHANGED vars
   BY <1>6 DEF TypeOK, RecordsOK, vars
<1> QED BY <1>1, <1>2, <1>3, <1>4, <1>5, <1>6 DEF Next, VhostThread, EpollWorker

\* Every variable keeps its type: the socket only holds notifications, the maps
\* only vids, and the enabled queues of a device are queues that it has.
THEOREM TypeCorrect == Spec => []TypeOK
<1>1. Init => TypeOK
   BY InitOK
<1>2. TypeOK /\ [Next]_vars => TypeOK'
   BY NextOK
<1> QED BY <1>1, <1>2, PTL DEF Spec

\* A device is counted when it appears and no longer when it goes.
LEMMA CountStep ==
   ASSUME TypeOK, CounterMatchesDevices, [Next]_vars
   PROVE  CounterMatchesDevices'
<1>1. IsFiniteSet(live) /\ Cardinality(live) \in Nat
   BY VidsFinite, FS_Subset, FS_CardinalityType DEF TypeOK
<1>2. ASSUME NEW v \in Vids, NEW n \in VringCounts, NewDevice(v, n)
      PROVE  CounterMatchesDevices'
   <2>1. v \notin live /\ live' = live \cup {v} /\ port_cntr' = port_cntr + 1
      BY <1>2 DEF NewDevice, VidFor
   <2>2. Cardinality(live \cup {v}) = Cardinality(live) + 1
      BY <1>1, <2>1, FS_AddElement
   <2> QED BY <2>1, <2>2 DEF CounterMatchesDevices
<1>3. ASSUME NEW v \in Vids, DestroyDevice(v)
      PROVE  CounterMatchesDevices'
   <2>1. v \in live /\ live' = live \ {v} /\ port_cntr' = port_cntr - 1
      BY <1>3 DEF DestroyDevice
   <2>2. Cardinality(live \ {v}) = Cardinality(live) - 1
      BY <1>1, <2>1, FS_RemoveElement
   <2> QED BY <2>1, <2>2 DEF CounterMatchesDevices
<1>4. CASE UNCHANGED <<live, port_cntr>>
   BY <1>4 DEF CounterMatchesDevices
<1> QED
   BY <1>2, <1>3, <1>4
   DEF Next, VhostThread, EpollWorker, VringStateChanged, Accept, Process, ProcessUp, ProcessDown,
       Processes, ProcessHangs, vars

\* port_cntr_, which a callback only increments and decrements, is the number of
\* devices that are there, in whatever order they come and go.
THEOREM DeviceCount == Spec => []CounterMatchesDevices
<1>1. Init => TypeOK /\ CounterMatchesDevices
   BY InitOK, FS_EmptySet DEF Init, CounterMatchesDevices
<1>2. TypeOK /\ CounterMatchesDevices /\ [Next]_vars => (TypeOK /\ CounterMatchesDevices)'
   BY NextOK, CountStep
<1> QED BY <1>1, <1>2, PTL DEF Spec

-----------------------------------------------------------------------------
(***************************************************************************)
(* When devices appear in order, the port id of a device is its vid, so    *)
(* that looking a handler up by the wrong one of them finds the right one. *)
(***************************************************************************)
PidsAreVids ==
   /\ \A p \in DOMAIN pvmap : pvmap[p] = p
   /\ \A v \in DOMAIN vpmap : vpmap[v] = v
   /\ live \subseteq DOMAIN pvmap /\ live \subseteq DOMAIN vpmap
   /\ \A i \in 1..Len(chan) : chan[i].pid = chan[i].vid

\* A handler is kept under one number, and has been started at most once.
StartedOnce ==
   \A k \in DOMAIN port_handler :
      /\ k[1] = k[2]
      /\ \/ port_handler[k].serves = << >>
         \/ \E n \in Nat : port_handler[k].serves = <<[vid |-> k[2], pairs |-> n]>>

DenseInv == TypeOK /\ CounterMatchesDevices /\ PidsAreVids /\ StartedOnce /\ ResourcesOwned

LEMMA DenseInit == Init => DenseInv
<1> SUFFICES ASSUME Init PROVE DenseInv
   OBVIOUS
<1>1. TypeOK /\ CounterMatchesDevices
   BY InitOK, FS_EmptySet DEF Init, CounterMatchesDevices
<1>2. /\ DOMAIN pvmap = {} /\ DOMAIN vpmap = {} /\ DOMAIN port_handler = {}
      /\ live = {} /\ chan = << >> /\ names = {}
   BY DEF Init, EmptyMap
<1>3. PidsAreVids
   BY <1>2 DEF PidsAreVids
<1>4. StartedOnce /\ ResourcesOwned
   BY <1>2 DEF StartedOnce, ResourcesOwned
<1> QED BY <1>1, <1>3, <1>4 DEF DenseInv

\* In order, a device gets the vid that equals the number of devices.
LEMMA DenseVid ==
   ASSUME Order = "dense", TypeOK, CounterMatchesDevices, NEW v \in Vids, VidFor(v)
   PROVE  port_cntr = v
<1>1. live = 0..(v - 1) /\ v \in Nat
   BY PortsAssumption DEF VidFor, Vids
<1>2. Cardinality(0..(v - 1)) = v
   <2>1. 0 \in Int /\ v - 1 \in Int
      BY <1>1
   <2>2. Cardinality(0..(v - 1)) = IF 0 > v - 1 THEN 0 ELSE (v - 1) - 0 + 1
      BY <2>1, FS_Interval
   <2> QED BY <1>1, <2>2
<1> QED BY <1>1, <1>2 DEF CounterMatchesDevices

LEMMA DenseNotify ==
   ASSUME TypeOK, PidsAreVids, CanNotify,
          NEW meta \in {"PORT_UP", "PORT_DOWN"}, NEW v \in Vids, Notify(meta, v, v)
   PROVE  \A i \in 1..Len(chan') : chan'[i].pid = chan'[i].vid
<1>1. v \in Int /\ chan \in Seq(Messages) /\ Len(chan) <= ChanCap
   BY DEF Vids, TypeOK, Messages
<1>2. /\ Len(chan') = Len(chan) + 1 /\ Len(chan) \in Nat
      /\ chan'[Len(chan) + 1] = [meta |-> meta, pid |-> v, vid |-> v]
      /\ \A i \in 1..Len(chan) : chan'[i] = chan[i]
   BY <1>1, NotifyOK
<1>3. TAKE i \in 1..Len(chan')
<1>4. CASE i \in 1..Len(chan)
   BY <1>2, <1>4 DEF PidsAreVids
<1>5. CASE i = Len(chan) + 1
   BY <1>2, <1>5
<1> QED BY <1>2, <1>3, <1>4, <1>5

LEMMA DenseNewDevice ==
   ASSUME Order = "dense", DenseInv, NEW v \in Vids, NEW n \in VringCounts, NewDevice(v, n)
   PROVE  PidsAreVids'
<1>1. port_cntr = v
   BY DenseVid DEF NewDevice, DenseInv
<1>2. /\ pvmap' = Insert(pvmap, v, v) /\ vpmap' = Insert(vpmap, v, v)
      /\ live' = live \cup {v}
   BY <1>1 DEF NewDevice
<1>3. /\ \A p \in DOMAIN pvmap' : pvmap'[p] = p
      /\ \A w \in DOMAIN vpmap' : vpmap'[w] = w
      /\ live' \subseteq DOMAIN pvmap' /\ live' \subseteq DOMAIN vpmap'
   BY <1>2 DEF DenseInv, PidsAreVids, Insert
<1>4. \A i \in 1..Len(chan') : chan'[i].pid = chan'[i].vid
   <2>1. CASE n = 2
      <3>1. CanNotify /\ Notify("PORT_UP", v, v)
         BY <1>1, <2>1 DEF NewDevice
      <3> QED BY <3>1, DenseNotify DEF DenseInv
   <2>2. CASE n # 2
      BY <2>2 DEF NewDevice, DenseInv, PidsAreVids
   <2> QED BY <2>1, <2>2
<1> QED BY <1>3, <1>4 DEF PidsAreVids

LEMMA DenseDestroyDevice ==
   ASSUME DenseInv, NEW v \in Vids, DestroyDevice(v)
   PROVE  PidsAreVids'
<1>1. PidOf(vpmap, v) = v
   BY DEF DestroyDevice, DenseInv, PidsAreVids, PidOf
<1>2. \A i \in 1..Len(chan') : chan'[i].pid = chan'[i].vid
   <2>1. CanNotify /\ Notify("PORT_DOWN", v, v)
      BY <1>1 DEF DestroyDevice
   <2> QED BY <2>1, DenseNotify DEF DenseInv
<1>3. live' \subseteq live /\ UNCHANGED <<pvmap, vpmap>>
   BY DEF DestroyDevice, configVars
<1> QED BY <1>2, <1>3 DEF DenseInv, PidsAreVids

LEMMA DenseVringStateChanged ==
   ASSUME DenseInv, NEW v \in Vids, NEW q \in Queues, NEW e \in BOOLEAN,
          VringStateChanged(v, q, e)
   PROVE  PidsAreVids'
<1>1. UNCHANGED <<live, pvmap, vpmap>>
   BY DEF VringStateChanged
<1>2. \A i \in 1..Len(chan') : chan'[i].pid = chan'[i].vid
   <2>1. CASE IsPortReady(pmap', v)
      <3>1. DOMAIN pmap' = DOMAIN pmap
         BY DEF VringStateChanged, SetQueueState
      <3>2. v \in DOMAIN vpmap
         BY <2>1, <3>1 DEF IsPortReady, DenseInv, TypeOK
      <3>3. PidOf(vpmap, v) = v
         BY <3>2 DEF DenseInv, PidsAreVids, PidOf
      <3>4. CanNotify /\ Notify("PORT_UP", v, v)
         BY <2>1, <3>3 DEF VringStateChanged
      <3> QED BY <3>4, DenseNotify DEF DenseInv
   <2>2. CASE ~IsPortReady(pmap', v)
      BY <2>2 DEF VringStateChanged, DenseInv, PidsAreVids
   <2> QED BY <2>1, <2>2
<1> QED BY <1>1, <1>2 DEF DenseInv, PidsAreVids

\* A message leaves the socket.
LEMMA DenseRead ==
   ASSUME DenseInv, chan # << >>, chan' = Tail(chan), UNCHANGED <<live, pvmap, vpmap>>
   PROVE  PidsAreVids'
<1>1. /\ Len(chan') = Len(chan) - 1
      /\ \A i \in 1..Len(chan') : chan'[i] = chan[i + 1] /\ i + 1 \in 1..Len(chan)
   BY HeadOK DEF DenseInv
<1> QED BY <1>1 DEF DenseInv, PidsAreVids

-----------------------------------------------------------------------------
\* Of handlers that are kept under one number each, the one for vid v.
LEMMA HandlerFound ==
   ASSUME NEW handlers, DOMAIN handlers \subseteq Int \X Vids,
          \A k \in DOMAIN handlers : k[1] = k[2],
          NEW v \in Vids
   PROVE  /\ <<v, v>> \in DOMAIN handlers =>
                KeysWithVid(handlers, v) = {<<v, v>>} /\ HandlerByVid(handlers, v) = <<v, v>>
          /\ <<v, v>> \notin DOMAIN handlers => KeysWithVid(handlers, v) = {}
<1>1. \A k \in KeysWithVid(handlers, v) : k = <<v, v>>
   BY DEF KeysWithVid
<1>2. CASE <<v, v>> \in DOMAIN handlers
   <2>1. KeysWithVid(handlers, v) = {<<v, v>>}
      BY <1>1, <1>2 DEF KeysWithVid
   <2>2. v <= v
      BY DEF Vids
   <2>3. HandlerByVid(handlers, v) = <<v, v>>
      BY <2>1, <2>2 DEF HandlerByVid
   <2> QED BY <1>2, <2>1, <2>3
<1>3. CASE <<v, v>> \notin DOMAIN handlers
   BY <1>1, <1>3 DEF KeysWithVid
<1> QED BY <1>2, <1>3

\* Only the handler of the device is shut down by a notification about it.
LEMMA DenseShut ==
   ASSUME DenseInv, chan # << >>
   PROVE  \E v \in Vids :
             /\ Head(chan).pid = v /\ Head(chan).vid = v
             /\ ShutDown = {<<v, v>>} \cap DOMAIN port_handler
             /\ NamesKept = names \ (IF <<v, v>> \in DOMAIN port_handler
                                     THEN NamesOf(port_handler[<<v, v>>]) ELSE {})
<1> DEFINE v == Head(chan).vid
           key == <<v, v>>
<1>1. v \in Vids /\ Head(chan).pid = v /\ Head(chan).meta \in {"PORT_UP", "PORT_DOWN"}
   <2>1. Head(chan) \in Messages /\ Head(chan) = chan[1] /\ 1 \in 1..Len(chan)
      <3>1. chan \in Seq(Messages)
         BY DEF DenseInv, TypeOK, Messages
      <3> QED BY <3>1
   <2> QED BY <2>1 DEF Messages, DenseInv, PidsAreVids
<1>2. /\ key \in DOMAIN port_handler =>
            KeysWithVid(port_handler, v) = {key} /\ HandlerByVid(port_handler, v) = key
      /\ key \notin DOMAIN port_handler => KeysWithVid(port_handler, v) = {}
   <2>1. DOMAIN port_handler \subseteq Int \X Vids /\ \A k \in DOMAIN port_handler : k[1] = k[2]
      BY DEF DenseInv, TypeOK, StartedOnce
   <2> HIDE DEF v
   <2> QED BY <1>1, <2>1, HandlerFound DEF key
<1>3. ShutDown = {key} \cap DOMAIN port_handler
   <2>1. Head(chan).meta = "PORT_DOWN" => Head(chan).meta # "PORT_UP"
      OBVIOUS
   <2>2. CASE Head(chan).meta = "PORT_UP"
      BY <1>1, <2>2 DEF ShutDown
   <2>3. CASE Head(chan).meta = "PORT_DOWN" /\ key \notin DOMAIN port_handler
      BY <1>1, <1>2, <2>1, <2>3 DEF ShutDown
   <2>4. CASE Head(chan).meta = "PORT_DOWN" /\ key \in DOMAIN port_handler
      BY <1>1, <1>2, <2>1, <2>4 DEF ShutDown
   <2> QED BY <1>1, <2>2, <2>3, <2>4
<1>4. NamesKept = names \ (IF key \in DOMAIN port_handler THEN NamesOf(port_handler[key]) ELSE {})
   BY <1>3 DEF NamesKept
<1> QED BY <1>1, <1>3, <1>4

\* What ProcessUp does then: it puts a handler that has been started once, for
\* this device, in the place of the handler of this device.
LEMMA DenseUp ==
   ASSUME DenseInv, ProcessUp
   PROVE  \E v \in Vids :
             LET old == IF <<v, v>> \in DOMAIN port_handler
                        THEN NamesOf(port_handler[<<v, v>>]) ELSE {}
                 new == Started(NewHandler, names \ old, v, v)
             IN  /\ Head(chan).pid = v /\ Head(chan).vid = v
                 /\ DOMAIN port_handler' = DOMAIN port_handler \cup {<<v, v>>}
                 /\ port_handler'[<<v, v>>] = new
                 /\ \A k \in DOMAIN port_handler :
                       k # <<v, v>> => port_handler'[k] = port_handler[k]
                 /\ names' = (names \ old) \cup NamesOf(new)
<1>1. PICK v \in Vids :
         /\ Head(chan).pid = v /\ Head(chan).vid = v
         /\ NamesKept = names \ (IF <<v, v>> \in DOMAIN port_handler
                                 THEN NamesOf(port_handler[<<v, v>>]) ELSE {})
   BY DenseShut, ProcessReads DEF Process
<1> DEFINE key == <<v, v>>
           old == IF key \in DOMAIN port_handler THEN NamesOf(port_handler[key]) ELSE {}
           kept == names \ old
           added == Insert(port_handler, key, NewHandler)
           new == Started(NewHandler, kept, v, v)
<1>2. /\ DOMAIN added = DOMAIN port_handler \cup {key} /\ added[key] = NewHandler
      /\ \A k \in DOMAIN port_handler : k # key => added[k] = port_handler[k]
   BY DEF Insert
<1>3. KeysWithVid(added, v) # {} /\ HandlerByVid(added, v) = key
   <2>1. v \in Int
      BY <1>1 DEF Vids
   <2>2. DOMAIN added \subseteq Int \X Vids
      <3>1. DOMAIN port_handler \subseteq Int \X Vids
         BY DEF DenseInv, TypeOK
      <3>2. key \in Int \X Vids
         BY ONLY <2>1, v \in Vids
      <3> QED BY ONLY <1>2, <3>1, <3>2
   <2>3. \A k \in DOMAIN added : k[1] = k[2]
      BY <1>2 DEF DenseInv, StartedOnce
   <2> HIDE DEF added
   <2> QED BY <1>1, <1>2, <2>2, <2>3, HandlerFound DEF key
<1>4. /\ port_handler' = [added EXCEPT ![key] = Started(added[key], kept, v, v)]
      /\ names' = kept \cup NamesOf(Started(added[key], kept, v, v))
   BY <1>1, <1>3 DEF ProcessUp
<1>5. Started(added[key], kept, v, v) = new
   BY <1>2
<1> HIDE DEF added, new, kept
<1>6. /\ DOMAIN port_handler' = DOMAIN port_handler \cup {key}
      /\ port_handler'[key] = new
      /\ \A k \in DOMAIN port_handler : k # key => port_handler'[k] = port_handler[k]
   BY <1>2, <1>4, <1>5
<1>7. names' = kept \cup NamesOf(new)
   BY <1>4, <1>5
<1> QED BY <1>1, <1>6, <1>7 DEF new, kept

\* What ProcessDown does: the handler of the device is shut down and removed.
LEMMA DenseDown ==
   ASSUME DenseInv, ProcessDown
   PROVE  \/ /\ UNCHANGED handlerVars
             /\ <<Head(chan).vid, Head(chan).vid>> \notin DOMAIN port_handler
          \/ \E v \in Vids :
                /\ Head(chan).vid = v
                /\ <<v, v>> \in DOMAIN port_handler
                /\ DOMAIN port_handler' = DOMAIN port_handler \ {<<v, v>>}
                /\ \A k \in DOMAIN port_handler' : port_handler'[k] = port_handler[k]
                /\ names' = names \ NamesOf(port_handler[<<v, v>>])
<1>1. PICK v \in Vids :
         /\ Head(chan).pid = v /\ Head(chan).vid = v
         /\ NamesKept = names \ (IF <<v, v>> \in DOMAIN port_handler
                                 THEN NamesOf(port_handler[<<v, v>>]) ELSE {})
   BY DenseShut, ProcessReads DEF Process
<1> DEFINE key == <<v, v>>
<1>2. /\ key \in DOMAIN port_handler =>
            KeysWithVid(port_handler, v) = {key} /\ HandlerByVid(port_handler, v) = key
      /\ key \notin DOMAIN port_handler => KeysWithVid(port_handler, v) = {}
   <2>1. DOMAIN port_handler \subseteq Int \X Vids /\ \A k \in DOMAIN port_handler : k[1] = k[2]
      BY DEF DenseInv, TypeOK, StartedOnce
   <2> QED BY <1>1, <2>1, HandlerFound DEF key
<1>3. CASE key \notin DOMAIN port_handler
   <2>1. names' = names /\ port_handler' = port_handler
      BY <1>1, <1>2, <1>3 DEF ProcessDown
   <2> QED BY <1>1, <1>3, <2>1 DEF handlerVars
<1>4. CASE key \in DOMAIN port_handler
   <2>1. /\ port_handler' = Erase([port_handler EXCEPT ![key] = NewHandler], key)
         /\ names' = names \ NamesOf(port_handler[key])
      BY <1>1, <1>2, <1>4 DEF ProcessDown
   <2>2. /\ DOMAIN port_handler' = DOMAIN port_handler \ {key}
         /\ \A k \in DOMAIN port_handler' : port_handler'[k] = port_handler[k]
      BY <2>1 DEF Erase
   <2> QED BY <1>1, <1>4, <2>1, <2>2
<1> QED BY <1>3, <1>4

\* A new handler gets names that nobody holds, or none.
LEMMA NewNames ==
   ASSUME NEW taken, NEW v
   PROVE  NamesOf(Started(NewHandler, taken, v, v)) \cap taken = {}
<1> DEFINE h == Started(NewHandler, taken, v, v)
<1>1. \A q \in DOMAIN h.pools : h.pools[q] = NullPtr \/ h.pools[q] \notin taken
   BY DEF Started, NewHandler, EmptyMap
<1> HIDE DEF h
<1> QED BY <1>1 DEF NamesOf, h

LEMMA NewServes ==
   ASSUME TypeOK, NEW taken, NEW v
   PROVE  \E n \in Nat : Started(NewHandler, taken, v, v).serves = <<[vid |-> v, pairs |-> n]>>
<1>1. Started(NewHandler, taken, v, v).serves = <<[vid |-> v, pairs |-> PairsOf(pmap, v)]>>
   BY DEF Started, NewHandler
<1>2. PairsOf(pmap, v) \in Nat
   BY MaxQueuePairsAssumption DEF TypeOK, RecordsOK, PairsOf
<1> QED BY <1>1, <1>2

LEMMA DenseHandlers ==
   ASSUME DenseInv, ProcessUp \/ ProcessDown \/ UNCHANGED handlerVars
   PROVE  StartedOnce' /\ ResourcesOwned'
<1>1. CASE UNCHANGED handlerVars
   BY <1>1 DEF handlerVars, DenseInv, StartedOnce, ResourcesOwned
<1>2. CASE ProcessUp
   <2>1. PICK v \in Vids :
            LET old == IF <<v, v>> \in DOMAIN port_handler
                       THEN NamesOf(port_handler[<<v, v>>]) ELSE {}
                new == Started(NewHandler, names \ old, v, v)
            IN  /\ DOMAIN port_handler' = DOMAIN port_handler \cup {<<v, v>>}
                /\ port_handler'[<<v, v>>] = new
                /\ \A k \in DOMAIN port_handler :
                      k # <<v, v>> => port_handler'[k] = port_handler[k]
                /\ names' = (names \ old) \cup NamesOf(new)
      BY <1>2, DenseUp
   <2> DEFINE key == <<v, v>>
              old == IF key \in DOMAIN port_handler THEN NamesOf(port_handler[key]) ELSE {}
              kept == names \ old
              new == Started(NewHandler, kept, v, v)
              others == DOMAIN port_handler \ {key}
   <2>2. NamesOf(new) \cap kept = {}
      BY NewNames
   <2>3. \E n \in Nat : new.serves = <<[vid |-> v, pairs |-> n]>>
      BY NewServes DEF DenseInv
   <2>4. kept = UNION {NamesOf(port_handler[k]) : k \in others}
      BY DEF DenseInv, ResourcesOwned
   <2>5. /\ key[1] = v /\ key[2] = v
         /\ DOMAIN port_handler' = others \cup {key}
         /\ port_handler'[key] = new
         /\ \A k \in others : port_handler'[k] = port_handler[k]
         /\ names' = kept \cup NamesOf(new)
      BY <2>1
   <2> HIDE DEF key, old, kept, new
   <2>6. StartedOnce'
      BY <2>3, <2>5 DEF DenseInv, StartedOnce
   <2>7. names' = UNION {NamesOf(port_handler'[k]) : k \in DOMAIN port_handler'}
      BY <2>4, <2>5
   <2>8. ASSUME NEW k \in DOMAIN port_handler', NEW l \in DOMAIN port_handler', k # l
         PROVE  NamesOf(port_handler'[k]) \cap NamesOf(port_handler'[l]) = {}
      <3>1. CASE k \in others /\ l \in others
         BY <2>5, <2>8, <3>1 DEF DenseInv, ResourcesOwned
      <3>2. CASE k = key
         BY <2>2, <2>4, <2>5, <2>8, <3>2
      <3>3. CASE l = key
         BY <2>2, <2>4, <2>5, <2>8, <3>3
      <3> QED BY <2>5, <3>1, <3>2, <3>3
   <2> QED BY <2>6, <2>7, <2>8 DEF ResourcesOwned, NamesOf
<1>3. CASE ProcessDown /\ ~ UNCHANGED handlerVars
   <2>1. PICK v \in Vids :
            /\ <<v, v>> \in DOMAIN port_handler
            /\ DOMAIN port_handler' = DOMAIN port_handler \ {<<v, v>>}
            /\ \A k \in DOMAIN port_handler' : port_handler'[k] = port_handler[k]
            /\ names' = names \ NamesOf(port_handler[<<v, v>>])
      BY <1>3, DenseDown
   <2>2. StartedOnce'
      BY <2>1 DEF DenseInv, StartedOnce
   <2>3. names' = UNION {NamesOf(port_handler'[k]) : k \in DOMAIN port_handler'}
      BY <2>1 DEF DenseInv, ResourcesOwned
   <2>4. ASSUME NEW k \in DOMAIN port_handler', NEW l \in DOMAIN port_handler', k # l
         PROVE  NamesOf(port_handler'[k]) \cap NamesOf(port_handler'[l]) = {}
      BY <2>1, <2>4 DEF DenseInv, ResourcesOwned
   <2> QED BY <2>2, <2>3, <2>4 DEF ResourcesOwned, NamesOf
<1> QED BY <1>1, <1>2, <1>3

LEMMA DenseNext ==
   ASSUME Order = "dense", DenseInv, [Next]_vars
   PROVE  DenseInv'
<1>1. TypeOK' /\ CounterMatchesDevices'
   BY NextOK, CountStep DEF DenseInv
<1>2. PidsAreVids'
   <2>1. CASE \E v \in Vids, n \in VringCounts : NewDevice(v, n)
      BY <2>1, DenseNewDevice
   <2>2. CASE \E v \in Vids : DestroyDevice(v)
      BY <2>2, DenseDestroyDevice
   <2>3. CASE \E v \in Vids, q \in Queues, e \in BOOLEAN : VringStateChanged(v, q, e)
      BY <2>3, DenseVringStateChanged
   <2>4. CASE Process
      BY <2>4, ProcessReads, DenseRead
   <2>5. CASE Accept \/ ProcessHangs \/ UNCHANGED vars
      BY <2>5, OthersWait DEF DenseInv, PidsAreVids
   <2> QED BY <2>1, <2>2, <2>3, <2>4, <2>5 DEF Next, VhostThread, EpollWorker
<1>3. StartedOnce' /\ ResourcesOwned'
   BY HandlersChange, DenseHandlers
<1> QED BY <1>1, <1>2, <1>3 DEF DenseInv

LEMMA DenseAlways == ASSUME Order = "dense" PROVE Spec => []DenseInv
<1>1. Init => DenseInv
   BY DenseInit
<1>2. DenseInv /\ [Next]_vars => DenseInv'
   BY DenseNext
<1> QED BY <1>1, <1>2, PTL DEF Spec

-----------------------------------------------------------------------------
\* DPDK holds the resources of the handlers, none twice and none too many.
THEOREM NoResourceLost == ASSUME Order = "dense" PROVE Spec => []ResourcesOwned
<1>1. DenseInv => ResourcesOwned
   BY DEF DenseInv
<1> QED BY <1>1, DenseAlways, PTL

\* At most one start of one handler serves a device: its queues have one
\* producer and one consumer.
THEOREM SingleServer == ASSUME Order = "dense" PROVE Spec => []OneServer
<1>1. ASSUME DenseInv, NEW v \in Vids
      PROVE  Cardinality(ServersOf(v)) <= 1
   <2>1. ServersOf(v) \subseteq {<<<<v, v>>, 1>>}
      <3>1. SUFFICES ASSUME NEW k \in DOMAIN port_handler,
                            NEW i \in 1..Len(port_handler[k].serves),
                            port_handler[k].serves[i].vid = v
                     PROVE  k = <<v, v>> /\ i = 1
         BY DEF ServersOf
      <3>2. /\ k \in Int \X Vids /\ k[1] = k[2]
            /\ \/ port_handler[k].serves = << >>
               \/ \E n \in Nat : port_handler[k].serves = <<[vid |-> k[2], pairs |-> n]>>
         BY <1>1 DEF DenseInv, TypeOK, StartedOnce
      <3>3. PICK n \in Nat : port_handler[k].serves = <<[vid |-> k[2], pairs |-> n]>>
         <4>1. port_handler[k].serves # << >>
            BY <3>1
         <4> QED BY <3>2, <4>1
      <3>4. i = 1 /\ k[2] = v
         BY <3>1, <3>3
      <3> QED BY <3>2, <3>4
   <2>2. IsFiniteSet({<<<<v, v>>, 1>>}) /\ Cardinality({<<<<v, v>>, 1>>}) = 1
      BY FS_Singleton
   <2>3. Cardinality(ServersOf(v)) <= Cardinality({<<<<v, v>>, 1>>})
      BY <2>1, <2>2, FS_Subset
   <2> QED BY <2>2, <2>3
<1>2. DenseInv => OneServer
   BY <1>1 DEF OneServer
<1> QED BY <1>2, DenseAlways, PTL

\* Although process_notification looks for the handler under the port id, it
\* starts the handler of the device that the notification names.
THEOREM RightHandlerStarted == ASSUME Order = "dense" PROVE Spec => UpStartsItsHandler
<1> DEFINE Starts ==
              ProcessUp => LET m == Head(chan)
                           IN  /\ <<m.pid, m.vid>> \in DOMAIN port_handler'
                               /\ \E i \in 1..Len(port_handler'[<<m.pid, m.vid>>].serves) :
                                     port_handler'[<<m.pid, m.vid>>].serves[i].vid = m.vid
<1>1. ASSUME DenseInv, ProcessUp
      PROVE  /\ <<Head(chan).pid, Head(chan).vid>> \in DOMAIN port_handler'
             /\ \E i \in 1..Len(port_handler'[<<Head(chan).pid, Head(chan).vid>>].serves) :
                   port_handler'[<<Head(chan).pid, Head(chan).vid>>].serves[i].vid = Head(chan).vid
   <2>1. PICK v \in Vids, taken \in {names \ s : s \in SUBSET names} :
            /\ Head(chan).pid = v /\ Head(chan).vid = v
            /\ <<v, v>> \in DOMAIN port_handler'
            /\ port_handler'[<<v, v>>] = Started(NewHandler, taken, v, v)
      <3>1. PICK v \in Vids :
               LET old == IF <<v, v>> \in DOMAIN port_handler
                          THEN NamesOf(port_handler[<<v, v>>]) ELSE {}
               IN  /\ Head(chan).pid = v /\ Head(chan).vid = v
                   /\ <<v, v>> \in DOMAIN port_handler'
                   /\ port_handler'[<<v, v>>] = Started(NewHandler, names \ old, v, v)
         BY <1>1, DenseUp
      <3> DEFINE old == IF <<v, v>> \in DOMAIN port_handler
                        THEN NamesOf(port_handler[<<v, v>>]) ELSE {}
      <3>2. names \ old = names \ (names \cap old)
         OBVIOUS
      <3> HIDE DEF old
      <3> QED BY <3>1, <3>2 DEF old
   <2>2. PICK n \in Nat : port_handler'[<<v, v>>].serves = <<[vid |-> v, pairs |-> n]>>
      <3>1. \E n \in Nat : Started(NewHandler, taken, v, v).serves = <<[vid |-> v, pairs |-> n]>>
         BY <1>1, NewServes DEF DenseInv
      <3> QED BY <2>1, <3>1
   <2>3. /\ 1 \in 1..Len(port_handler'[<<v, v>>].serves)
         /\ port_handler'[<<v, v>>].serves[1].vid = v
      BY <2>2
   <2> QED BY <2>1, <2>3
<1>2. DenseInv /\ [Next]_vars => [Starts]_vars
   BY <1>1
<1> QED BY <1>2, DenseAlways, PTL DEF Spec, UpStartsItsHandler

-----------------------------------------------------------------------------
(***************************************************************************)
(* The servers of a device that has gone.                                  *)
(***************************************************************************)
EndComes(v) == \E i \in 1..Len(chan) : chan[i].meta = "PORT_DOWN" /\ chan[i].vid = v

StaleEnds ==
   \A s \in stale : \E v \in Vids :
      /\ s = <<<<v, v>>, 1>> /\ <<v, v>> \in DOMAIN port_handler
      /\ port_handler[<<v, v>>].serves # << >>
      /\ EndComes(v)

\* Who serves a vid, is the one start of the handler that is kept under it.
LEMMA DenseServers ==
   ASSUME DenseInv, NEW v \in Vids, NEW s \in ServersOf(v)
   PROVE  /\ s = <<<<v, v>>, 1>> /\ <<v, v>> \in DOMAIN port_handler
          /\ port_handler[<<v, v>>].serves # << >>
<1>1. PICK k \in DOMAIN port_handler : \E i \in 1..Len(port_handler[k].serves) :
         s = <<k, i>> /\ port_handler[k].serves[i].vid = v
   BY DEF ServersOf
<1>2. /\ k \in Int \X Vids /\ k[1] = k[2]
      /\ \/ port_handler[k].serves = << >>
         \/ \E n \in Nat : port_handler[k].serves = <<[vid |-> k[2], pairs |-> n]>>
   BY DEF DenseInv, TypeOK, StartedOnce
<1>3. port_handler[k].serves # << >>
   BY <1>1
<1>4. PICK n \in Nat : port_handler[k].serves = <<[vid |-> k[2], pairs |-> n]>>
   BY <1>2, <1>3
<1>5. s = <<k, 1>> /\ k[2] = v
   BY <1>1, <1>4
<1>6. k = <<v, v>>
   BY <1>2, <1>5
<1> QED BY <1>1, <1>3, <1>5, <1>6

\* A PORT_DOWN stays in the socket until it is read.
LEMMA EndStays ==
   ASSUME TypeOK, NEW w, EndComes(w),
          \/ chan' = chan
              \/ \E m : chan' = Append(chan, m)
          \/ chan # << >> /\ chan' = Tail(chan) /\ Head(chan).vid # w
   PROVE  EndComes(w)'
<1>1. chan \in Seq(Messages)
   BY DEF TypeOK, Messages
<1>2. PICK i \in 1..Len(chan) : chan[i].meta = "PORT_DOWN" /\ chan[i].vid = w
   BY DEF EndComes
<1>3. CASE chan' = chan
   BY <1>2, <1>3 DEF EndComes
<1>4. CASE \E m : chan' = Append(chan, m)
   <2>1. chan'[i] = chan[i] /\ i \in 1..Len(chan')
      BY <1>1, <1>4
   <2> QED BY <1>2, <2>1 DEF EndComes
<1>5. CASE chan # << >> /\ chan' = Tail(chan) /\ Head(chan).vid # w
   <2>1. Head(chan) = chan[1]
      BY <1>1, <1>5
   <2>2. i # 1
      BY <1>2, <1>5, <2>1
   <2>3. chan'[i - 1] = chan[i] /\ i - 1 \in 1..Len(chan')
      <3>1. i \in Nat /\ i > 1 /\ i <= Len(chan) /\ Len(chan) \in Nat
         BY <1>1, <2>2
      <3>2. Len(chan') = Len(chan) - 1 /\ \A j \in 1..(Len(chan) - 1) : chan'[j] = chan[j + 1]
         BY <1>1, <1>5
      <3>3. i - 1 \in 1..(Len(chan) - 1) /\ (i - 1) + 1 = i
         BY <3>1
      <3> QED BY <3>2, <3>3
   <2> QED BY <1>2, <2>3 DEF EndComes
<1> QED BY <1>3, <1>4, <1>5

LEMMA StaleStep ==
   ASSUME DenseInv, StaleEnds, [Next]_vars
   PROVE  StaleEnds'
<1>1. CASE \/ \E v \in Vids, n \in VringCounts : NewDevice(v, n)
           \/ \E v \in Vids, q \in Queues, e \in BOOLEAN : VringStateChanged(v, q, e)
           \/ Accept \/ ProcessHangs \/ UNCHANGED vars
   <2>1. UNCHANGED <<stale, port_handler>>
      BY <1>1, OthersWait DEF NewDevice, VringStateChanged, handlerVars
   <2>2. chan' = chan \/ \E m : chan' = Append(chan, m)
      BY <1>1, OthersWait DEF NewDevice, VringStateChanged, Notify
   <2>3. \A w : EndComes(w) => EndComes(w)'
      BY <2>2, EndStays DEF DenseInv
   <2> QED BY <2>1, <2>3 DEF StaleEnds
<1>2. ASSUME NEW v \in Vids, DestroyDevice(v)
      PROVE  StaleEnds'
   <2>1. /\ stale' = stale \cup ServersOf(v) /\ port_handler' = port_handler
         /\ chan' = Append(chan, Message("PORT_DOWN", PidOf(vpmap, v), v))
      BY <1>2 DEF DestroyDevice, Notify, handlerVars
   <2>2. \A w : EndComes(w) => EndComes(w)'
      BY <2>1, EndStays DEF DenseInv
   <2>3. EndComes(v)'
      <3>1. chan \in Seq(Messages) /\ Message("PORT_DOWN", PidOf(vpmap, v), v) \in Messages
         BY PidOfIsInt DEF DenseInv, TypeOK, Messages, Message
      <3>2. /\ Len(chan) + 1 \in 1..Len(chan')
            /\ chan'[Len(chan) + 1] = Message("PORT_DOWN", PidOf(vpmap, v), v)
         BY <2>1, <3>1
      <3> QED BY <3>2 DEF EndComes, Message
   <2>4. ASSUME NEW s \in ServersOf(v)
         PROVE  /\ s = <<<<v, v>>, 1>> /\ <<v, v>> \in DOMAIN port_handler
                /\ port_handler[<<v, v>>].serves # << >>
      BY DenseServers
   <2> QED BY <2>1, <2>2, <2>3, <2>4 DEF StaleEnds
<1>3. CASE Process
   <2>1. PICK v \in Vids : /\ Head(chan).vid = v
                           /\ ShutDown = {<<v, v>>} \cap DOMAIN port_handler
      BY <1>3, ProcessReads, DenseShut
   <2>2. stale' = {s \in stale : s[1] \notin ShutDown}
      BY <1>3 DEF Process, ProcessUp, ProcessDown, StaleKept
   <2>3. \A k \in DOMAIN port_handler :
            k # <<v, v>> => k \in DOMAIN port_handler' /\ port_handler'[k] = port_handler[k]
      <3>1. CASE ProcessUp
         <4>1. PICK u \in Vids : /\ Head(chan).vid = u
                                 /\ DOMAIN port_handler' = DOMAIN port_handler \cup {<<u, u>>}
                                 /\ \A k \in DOMAIN port_handler :
                                       k # <<u, u>> => port_handler'[k] = port_handler[k]
            BY <3>1, DenseUp
         <4> QED BY <2>1, <4>1
      <3>2. CASE ProcessDown
         BY <2>1, <3>2, DenseDown DEF handlerVars
      <3> QED BY <1>3, <3>1, <3>2 DEF Process
   <2>4. SUFFICES ASSUME NEW s \in stale'
                  PROVE  \E w \in Vids : /\ s = <<<<w, w>>, 1>> /\ <<w, w>> \in DOMAIN port_handler'
                                         /\ port_handler'[<<w, w>>].serves # << >>
                                         /\ EndComes(w)'
      BY DEF StaleEnds
   <2>5. PICK w \in Vids : /\ s = <<<<w, w>>, 1>> /\ <<w, w>> \in DOMAIN port_handler
                           /\ port_handler[<<w, w>>].serves # << >>
                           /\ EndComes(w)
      BY <2>2, <2>4 DEF StaleEnds
   <2>6. w # v
      BY <2>1, <2>2, <2>4, <2>5
   <2>7. EndComes(w)'
      BY <1>3, <2>1, <2>5, <2>6, ProcessReads, EndStays DEF DenseInv
   <2>8. <<w, w>> # <<v, v>>
      BY <2>6
   <2> QED BY <2>3, <2>5, <2>7, <2>8
<1> QED BY <1>1, <1>2, <1>3 DEF Next, VhostThread, EpollWorker

\* The threads of a device that has gone, which poll a vid that another guest may have
\* by then, are there only as long as the PORT_DOWN that ends them is on its way.
THEOREM StaleOnlyUntilDown == ASSUME Order = "dense" PROVE Spec => []StaleServersEnd
<1>1. Init => StaleEnds
   BY DEF Init, StaleEnds
<1>2. DenseInv /\ StaleEnds /\ [Next]_vars => StaleEnds'
   BY StaleStep
<1>3. ASSUME DenseInv, StaleEnds, NEW s \in stale
      PROVE  \E i \in 1..Len(chan) : /\ chan[i].meta = "PORT_DOWN"
                                     /\ chan[i].vid = port_handler[s[1]].serves[s[2]].vid
   <2>1. PICK v \in Vids : /\ s = <<<<v, v>>, 1>> /\ <<v, v>> \in DOMAIN port_handler
                           /\ port_handler[<<v, v>>].serves # << >>
                           /\ EndComes(v)
      BY <1>3 DEF StaleEnds
   <2>2. PICK n \in Nat : port_handler[<<v, v>>].serves = <<[vid |-> v, pairs |-> n]>>
      <3>1. <<v, v>>[2] = v
         OBVIOUS
      <3> QED BY <1>3, <2>1, <3>1 DEF DenseInv, StartedOnce
   <2>3. port_handler[s[1]].serves[s[2]].vid = v
      BY <2>1, <2>2
   <2> QED BY <2>1, <2>3 DEF EndComes
<1>4. DenseInv /\ StaleEnds => StaleServersEnd
   BY <1>3 DEF StaleServersEnd
<1> QED BY <1>1, <1>2, <1>4, DenseAlways, PTL DEF Spec
-----------------------------------------------------------------------------
(***************************************************************************)
(* The handlers agree with the devices.  The last notification about a     *)
(* device in the socket says what it has come to; when there is none, its  *)
(* handler has been brought there.  It creates its mempools and rings if   *)
(* no other port has taken their names, see NamesAreUnique.                *)
(***************************************************************************)
LastFor(v, i) == /\ i \in 1..Len(chan) /\ chan[i].vid = v
                 /\ \A j \in (i + 1)..Len(chan) : chan[j].vid # v

Here(v) == v \in live /\ IsPortReady(pmap, v)
Gone(v) == v \notin live \cup revived

Announced ==
   \A v \in Vids, i \in Nat : LastFor(v, i) => /\ Here(v) => chan[i].meta = "PORT_UP"
                                               /\ Gone(v) => chan[i].meta = "PORT_DOWN"

Brought ==
   \A v \in Vids : Settled(v) => /\ Here(v) => Serves(v, v)
                                 /\ Gone(v) => <<v, v>> \notin DOMAIN port_handler

\* The queues that have a mempool and a ring.
TransmitQueues == {q \in Queues : q % 2 = 1 /\ q < 2 * MaxQueuePairs}

\* A name is taken by one port only.
NamesAreUnique ==
   \A v, w \in Vids : \A q, r \in TransmitQueues : Name(v, q) = Name(w, r) => v = w

\* Each name is that of the port of its handler and of a transmit queue.
NamesTellPorts ==
   \A k \in DOMAIN port_handler : \A s \in NamesOf(port_handler[k]) :
      \E q \in TransmitQueues : s = Name(k[2], q)

\* A device has the pairs that its vrings make.
PairsKnown == \A v \in DOMAIN pmap : \E n \in VringCounts : pmap[v].pairs = n \div 2

AgreeInv == DenseInv /\ PairsKnown /\ NamesTellPorts /\ Announced /\ Brought

LEMMA DigitsOK == ASSUME NEW n \in Nat PROVE Digits(n) \in Seq(Int) /\ Len(Digits(n)) > 0
BY DEF Digits

LEMMA TransmitQueuesOK == \A q \in TransmitQueues : q \in Nat /\ \E n \in VringCounts : q < n
<1> SUFFICES ASSUME NEW q \in TransmitQueues PROVE q \in Nat /\ \E n \in VringCounts : q < n
   OBVIOUS
<1>1. PICK n \in VringCounts : q \in 0..(n - 1)
   BY DEF TransmitQueues, Queues
<1> QED BY <1>1, PortsAssumption

LEMMA NameNotNull ==
   ASSUME NEW v \in Nat, NEW q \in Nat
   PROVE  Name(v, q) # NullPtr
<1>1. Len(Name(v, q)) > 0
   BY DigitsOK DEF Name
<1> QED BY <1>1 DEF NullPtr

\* Names begin with the port id: with ten ports its one digit tells it.
LEMMA UniqueForTenPorts == NofVids <= 10 => NamesAreUnique
<1> SUFFICES ASSUME NofVids <= 10, NEW v \in Vids, NEW w \in Vids,
                    NEW q \in TransmitQueues, NEW r \in TransmitQueues,
                    Name(v, q) = Name(w, r)
             PROVE  v = w
   BY DEF NamesAreUnique
<1>1. v \in 0..9 /\ w \in 0..9
   BY PortsAssumption DEF Vids
<1>2. Name(v, q) = <<v>> \o Digits(q) /\ Name(w, r) = <<w>> \o Digits(r)
   BY <1>1 DEF Name, Digits
<1>3. Digits(q) \in Seq(Int) /\ Digits(r) \in Seq(Int)
   BY TransmitQueuesOK, DigitsOK
<1>4. (<<v>> \o Digits(q))[1] = v
   BY <1>1, <1>3
<1>5. (<<w>> \o Digits(r))[1] = w
   BY <1>1, <1>3
<1> QED BY <1>2, <1>4, <1>5

\* They end with the queue id: with five pairs that is one digit, and what stands
\* before it is the port id.
ThreeDigits == 0..999

LEMMA DigitsTell ==
   ASSUME NEW m \in ThreeDigits, NEW n \in ThreeDigits, Digits(m) = Digits(n)
   PROVE  m = n
<1> DEFINE value(s) == IF Len(s) = 1 THEN s[1]
                       ELSE IF Len(s) = 2 THEN 10 * s[1] + s[2]
                       ELSE 100 * s[1] + 10 * s[2] + s[3]
<1>1. ASSUME NEW k \in ThreeDigits PROVE value(Digits(k)) = k
   <2> USE DEF ThreeDigits
   <2>1. CASE k < 10
      BY <2>1 DEF Digits
   <2>2. CASE k >= 10 /\ k < 100
      BY <2>2 DEF Digits
   <2>3. CASE k >= 100
      <3>1. Digits(k) = <<k \div 100, (k \div 10) % 10, k % 10>>
         BY <2>3 DEF Digits
      <3>2. value(Digits(k)) = 100 * (k \div 100) + 10 * ((k \div 10) % 10) + (k % 10)
         BY <3>1
      <3>3. k = 10 * (k \div 10) + (k % 10) /\ k \div 10 \in Nat
         OBVIOUS
      <3>4. \A j \in Nat : j = 10 * (j \div 10) + (j % 10)
         OBVIOUS
      <3>5. (k \div 10) \div 10 = k \div 100
         OBVIOUS
      <3> QED BY <3>2, <3>3, <3>4, <3>5
   <2> QED BY <2>1, <2>2, <2>3
<1> HIDE DEF value
<1> QED BY <1>1

LEMMA UniqueForFivePairs ==
   NofVids <= 1000 /\ (\A n \in VringCounts : n <= 11) => NamesAreUnique
<1> SUFFICES ASSUME NofVids <= 1000, \A n \in VringCounts : n <= 11,
                    NEW v \in Vids, NEW w \in Vids,
                    NEW q \in TransmitQueues, NEW r \in TransmitQueues,
                    Name(v, q) = Name(w, r)
             PROVE  v = w
   BY DEF NamesAreUnique
<1>1. v \in ThreeDigits /\ w \in ThreeDigits /\ v \in Nat /\ w \in Nat
   BY PortsAssumption DEF Vids, ThreeDigits
<1>2. q \in 0..9 /\ r \in 0..9
   <2>1. \A p \in TransmitQueues : p \in Nat /\ p < 11 /\ p % 2 = 1
      BY TransmitQueuesOK, PortsAssumption DEF TransmitQueues
   <2>2. \A p \in Nat : p < 11 /\ p % 2 = 1 => p \in 0..9
      OBVIOUS
   <2> QED BY <2>1, <2>2
<1>3. Name(v, q) = Append(Digits(v), q) /\ Name(w, r) = Append(Digits(w), r)
   <2>1. \A m \in ThreeDigits : \A p \in 0..9 : Digits(m) \o <<p>> = Append(Digits(m), p)
      BY DEF Digits, ThreeDigits
   <2>2. Digits(q) = <<q>> /\ Digits(r) = <<r>>
      BY <1>2 DEF Digits
   <2> QED BY <1>1, <1>2, <2>1, <2>2 DEF Name
<1>4. Digits(v) = Digits(w)
   <2>1. Digits(v) \in Seq(Int) /\ Digits(w) \in Seq(Int)
      BY <1>1, DigitsOK
   <2>2. Append(Digits(v), q) = Append(Digits(w), r)
      BY <1>3
   <2>3. q \in Int /\ r \in Int
      BY <1>2
   <2> QED BY <2>1, <2>2, <2>3, AppendInjective
<1> QED BY <1>1, <1>4, DigitsTell

\* A message is written.
LEMMA LastWritten ==
   ASSUME chan \in Seq(Messages), NEW m \in Messages, chan' = Append(chan, m)
   PROVE  /\ \A i \in Nat : LastFor(m.vid, i)' => i = Len(chan) + 1 /\ chan'[i] = m
          /\ ~Settled(m.vid)'
          /\ \A w : w # m.vid => /\ Settled(w)' => Settled(w)
                                 /\ \A i \in Nat : LastFor(w, i)' =>
                                       LastFor(w, i) /\ chan'[i] = chan[i]
<1> DEFINE n == Len(chan)
<1>1. /\ n \in Nat /\ Len(chan') = n + 1 /\ chan'[n + 1] = m
      /\ \A i \in 1..n : chan'[i] = chan[i]
   OBVIOUS
<1> HIDE DEF n
<1>2. ASSUME NEW i \in Nat, LastFor(m.vid, i)'
      PROVE  i = n + 1 /\ chan'[i] = m
   <2>1. i \in 1..(n + 1) /\ \A j \in (i + 1)..(n + 1) : chan'[j].vid # m.vid
      BY <1>1, <1>2 DEF LastFor
   <2>2. n + 1 \notin (i + 1)..(n + 1)
      BY <1>1, <2>1
   <2> QED BY <1>1, <2>1, <2>2
<1>3. ~Settled(m.vid)'
   <2>1. n + 1 \in 1..Len(chan')
      BY <1>1
   <2> QED BY <1>1, <2>1 DEF Settled
<1>4. ASSUME NEW w, w # m.vid
      PROVE  /\ Settled(w)' => Settled(w)
             /\ \A i \in Nat : LastFor(w, i)' => LastFor(w, i) /\ chan'[i] = chan[i]
   <2>1. Settled(w)' => Settled(w)
      <3>1. ASSUME Settled(w)', NEW i \in 1..n
            PROVE  chan[i].vid # w
         <4>1. i \in 1..Len(chan') /\ chan'[i] = chan[i]
            BY <1>1
         <4> QED BY <3>1, <4>1 DEF Settled
      <3> QED BY <3>1 DEF Settled, n
   <2>2. ASSUME NEW i \in Nat, LastFor(w, i)'
         PROVE  LastFor(w, i) /\ chan'[i] = chan[i]
      <3>1. i \in 1..(n + 1) /\ chan'[i].vid = w
         BY <1>1, <2>2 DEF LastFor
      <3>2. i \in 1..n
         BY <1>1, <1>4, <3>1
      <3>3. \A j \in (i + 1)..n : chan[j].vid # w
         <4>1. TAKE j \in (i + 1)..n
         <4>2. j \in (i + 1)..(n + 1) /\ j \in 1..n
            BY <1>1, <3>2
         <4> QED BY <1>1, <2>2, <4>2 DEF LastFor
      <3> QED BY <1>1, <3>1, <3>2, <3>3 DEF LastFor, n
   <2> QED BY <2>1, <2>2
<1> QED BY <1>2, <1>3, <1>4 DEF n

\* The first message is read.
LEMMA LastRead ==
   ASSUME TypeOK, chan # << >>, chan' = Tail(chan), NEW w
   PROVE  /\ Settled(w)' => Settled(w) \/ (LastFor(w, 1) /\ Head(chan).vid = w)
          /\ Head(chan).vid # w => (Settled(w)' => Settled(w))
          /\ \A i \in Nat : LastFor(w, i)' => LastFor(w, i + 1) /\ chan'[i] = chan[i + 1]
<1> DEFINE n == Len(chan)
<1>1. /\ n \in Nat /\ Len(chan') = n - 1 /\ Head(chan) = chan[1] /\ 1 \in 1..n
      /\ \A i \in 1..(n - 1) : chan'[i] = chan[i + 1]
   <2>1. chan \in Seq(Messages)
      BY DEF TypeOK, Messages
   <2> QED BY <2>1
<1> HIDE DEF n
<1>2. ASSUME Settled(w)' PROVE \A j \in 2..n : chan[j].vid # w
   <2>1. TAKE j \in 2..n
   <2>2. j - 1 \in 1..(n - 1) /\ (j - 1) + 1 = j
      BY <1>1
   <2>3. chan'[j - 1] = chan[j]
      BY <1>1, <2>2
   <2>4. chan'[j - 1].vid # w
      BY <1>1, <1>2, <2>2 DEF Settled
   <2> QED BY <2>3, <2>4
<1>3. Settled(w)' /\ Head(chan).vid = w => LastFor(w, 1)
   <2>1. 1 + 1 = 2
      OBVIOUS
   <2> QED BY <1>1, <1>2, <2>1 DEF LastFor, n
<1>4. Settled(w)' /\ Head(chan).vid # w => Settled(w)
   <2>1. ASSUME Settled(w)', Head(chan).vid # w, NEW i \in 1..n
         PROVE  chan[i].vid # w
      <3>1. i = 1 \/ i \in 2..n
         BY <1>1
      <3> QED BY <1>1, <1>2, <2>1, <3>1
   <2> QED BY <2>1 DEF Settled, n
<1>5. ASSUME NEW i \in Nat, LastFor(w, i)'
      PROVE  LastFor(w, i + 1) /\ chan'[i] = chan[i + 1]
   <2>1. i \in 1..(n - 1) /\ chan'[i].vid = w
      BY <1>1, <1>5 DEF LastFor
   <2>2. chan'[i] = chan[i + 1] /\ i + 1 \in 1..n
      BY <1>1, <2>1
   <2>3. \A j \in ((i + 1) + 1)..n : chan[j].vid # w
      <3>1. TAKE j \in ((i + 1) + 1)..n
      <3>2. j - 1 \in 1..(n - 1) /\ (j - 1) + 1 = j /\ j - 1 \in (i + 1)..(n - 1)
         BY <1>1, <2>1
      <3>3. chan'[j - 1] = chan[j]
         BY <1>1, <3>2
      <3>4. chan'[j - 1].vid # w
         BY <1>1, <1>5, <3>2 DEF LastFor
      <3> QED BY <3>3, <3>4
   <2> QED BY <2>1, <2>2, <2>3 DEF LastFor, n
<1> QED BY <1>3, <1>4, <1>5

\* What a callback must do for device v that it is about, and for the others.
LEMMA CallbackAgrees ==
   ASSUME Order = "dense", AgreeInv, NEW v \in Vids, UNCHANGED handlerVars,
          \/ /\ chan' = chan /\ ~Here(v)' /\ (Gone(v)' => Gone(v))
          \/ \E m \in Messages : /\ chan' = Append(chan, m) /\ m.vid = v
                                 /\ Here(v)' => m.meta = "PORT_UP"
                                 /\ Gone(v)' => m.meta = "PORT_DOWN",
          \A w \in Vids : w # v => /\ Here(w)' => Here(w)
                                   /\ Gone(w)' => Gone(w)
                                   /\ PairsOf(pmap, w)' = PairsOf(pmap, w)
   PROVE  Announced' /\ Brought'
<1>1. chan \in Seq(Messages)
   BY DEF AgreeInv, DenseInv, TypeOK, Messages
<1>2. ASSUME NEW w \in Vids, w # v
      PROVE  /\ Settled(w)' => Settled(w)
             /\ \A i \in Nat : LastFor(w, i)' => LastFor(w, i) /\ chan'[i] = chan[i]
   <2>1. CASE chan' = chan
      BY <2>1 DEF Settled, LastFor
   <2>2. CASE \E m \in Messages : chan' = Append(chan, m) /\ m.vid = v
      BY <1>1, <1>2, <2>2, LastWritten
   <2> QED BY <2>1, <2>2
<1>3. Announced'
   <2>1. SUFFICES ASSUME NEW w \in Vids, NEW i \in Nat, LastFor(w, i)'
                  PROVE  /\ Here(w)' => chan'[i].meta = "PORT_UP"
                         /\ Gone(w)' => chan'[i].meta = "PORT_DOWN"
      BY DEF Announced
   <2>2. CASE w # v
      BY <1>2, <2>1, <2>2 DEF AgreeInv, Announced
   <2>3. CASE w = v /\ chan' = chan /\ ~Here(v)' /\ (Gone(v)' => Gone(v))
      <3>1. LastFor(v, i)
         BY <2>1, <2>3 DEF LastFor
      <3> QED BY <2>3, <3>1 DEF AgreeInv, Announced
   <2>4. CASE w = v /\ \E m \in Messages : /\ chan' = Append(chan, m) /\ m.vid = v
                                           /\ Here(v)' => m.meta = "PORT_UP"
                                           /\ Gone(v)' => m.meta = "PORT_DOWN"
      BY <1>1, <2>1, <2>4, LastWritten
   <2> QED BY <2>2, <2>3, <2>4
<1>4. Brought'
   <2>1. SUFFICES ASSUME NEW w \in Vids, Settled(w)'
                  PROVE  /\ Here(w)' => Serves(w, w)'
                         /\ Gone(w)' => <<w, w>> \notin DOMAIN port_handler'
      BY DEF Brought
   <2>2. port_handler' = port_handler
      BY DEF handlerVars
   <2>3. CASE w # v
      <3>1. Settled(w) /\ PairsOf(pmap', w) = PairsOf(pmap, w)
         BY <1>2, <2>1, <2>3
      <3>2. Here(w)' => Serves(w, w)
         BY <2>3, <3>1 DEF AgreeInv, Brought
      <3>3. Serves(w, w) => Serves(w, w)'
         BY <2>2, <3>1 DEF Serves
      <3>4. Gone(w)' => <<w, w>> \notin DOMAIN port_handler'
         BY <2>2, <2>3, <3>1 DEF AgreeInv, Brought
      <3> QED BY <3>2, <3>3, <3>4
   <2>4. CASE w = v /\ chan' = chan /\ ~Here(v)' /\ (Gone(v)' => Gone(v))
      <3>1. Settled(v)
         BY <2>1, <2>4 DEF Settled
      <3> QED BY <2>2, <2>4, <3>1 DEF AgreeInv, Brought
   <2>5. CASE w = v /\ \E m \in Messages : chan' = Append(chan, m) /\ m.vid = v
      BY <1>1, <2>1, <2>5, LastWritten
   <2> QED BY <2>3, <2>4, <2>5
<1> QED BY <1>3, <1>4

\* A record other than that of vid v stays as it was.
LEMMA OtherQueue ==
   ASSUME NEW m, NEW v, NEW q, NEW e, NEW w, w # v
   PROVE  /\ IsPortReady(SetQueueState(m, v, q, e), w) <=> IsPortReady(m, w)
          /\ PairsOf(SetQueueState(m, v, q, e), w) = PairsOf(m, w)
<1>1. /\ w \in DOMAIN SetQueueState(m, v, q, e) <=> w \in DOMAIN m
      /\ w \in DOMAIN m => SetQueueState(m, v, q, e)[w] = m[w]
   BY DEF SetQueueState
<1> QED BY <1>1 DEF IsPortReady, PairsOf

LEMMA OtherQueueOn ==
   ASSUME NEW m, NEW v, NEW q, NEW w, w # v
   PROVE  /\ IsPortReady(SetQueueState(m, v, q, TRUE), w) <=> IsPortReady(m, w)
          /\ PairsOf(SetQueueState(m, v, q, TRUE), w) = PairsOf(m, w)
<1>1. /\ w \in DOMAIN SetQueueState(m, v, q, TRUE) <=> w \in DOMAIN m
      /\ w \in DOMAIN m => SetQueueState(m, v, q, TRUE)[w] = m[w]
   BY DEF SetQueueState
<1> QED BY <1>1 DEF IsPortReady, PairsOf

LEMMA OtherDevice ==
   ASSUME NEW m, NEW v, NEW n, NEW w, w # v
   PROVE  /\ IsPortReady(InitVhostDevice(m, v, n), w) <=> IsPortReady(m, w)
          /\ PairsOf(InitVhostDevice(m, v, n), w) = PairsOf(m, w)
<1>1. /\ w \in DOMAIN InitVhostDevice(m, v, n) <=> w \in DOMAIN m
      /\ w \in DOMAIN m => InitVhostDevice(m, v, n)[w] = m[w]
   BY DEF InitVhostDevice, Insert
<1> QED BY <1>1 DEF IsPortReady, PairsOf

\* Enabling a queue adds it, if the device has it.
LEMMA QueueEnabled ==
   ASSUME NEW m, RecordsOK(m), NEW v \in DOMAIN m, NEW q
   PROVE  /\ SetQueueState(m, v, q, TRUE)[v].pairs = m[v].pairs
          /\ SetQueueState(m, v, q, TRUE)[v].enabled \subseteq m[v].enabled \cup {q}
<1> DEFINE n == [m EXCEPT ![v].enabled = @ \cup {q}]
<1>1. SetQueueState(m, v, q, TRUE) \in {m, n}
   BY DEF SetQueueState
<1>2. m[v] \in [pairs : Nat, enabled : SUBSET Nat]
   BY DEF RecordsOK
<1>3. n[v] = [m[v] EXCEPT !.enabled = @ \cup {q}]
   OBVIOUS
<1>4. n[v].pairs = m[v].pairs /\ n[v].enabled = m[v].enabled \cup {q}
   BY <1>2, <1>3
<1> HIDE DEF n
<1> QED BY <1>1, <1>4

\* A new device is ready at once only if it has one queue pair.
LEMMA NewRecord ==
   ASSUME NEW m, RecordsOK(m), NEW v, NEW k \in Nat,
          IsPortReady(SetQueueState(SetQueueState(InitVhostDevice(m, v, k), v, 0, TRUE),
                                    v, 1, TRUE), v)
   PROVE  k = 1
<1> DEFINE m0 == InitVhostDevice(m, v, k)
           m1 == SetQueueState(m0, v, 0, TRUE)
           m2 == SetQueueState(m1, v, 1, TRUE)
<1>1. IsPortReady(m2, v)
   OBVIOUS
<1>2. RecordsOK(m0) /\ v \in DOMAIN m0 /\ m0[v].pairs = k /\ m0[v].enabled = {}
   <2>1. RecordsOK(m0)
      BY InitVhostDeviceOK
   <2> QED BY <2>1 DEF InitVhostDevice, Insert
<1> HIDE DEF m0
<1>3. RecordsOK(m1) /\ v \in DOMAIN m1 /\ m1[v].pairs = k /\ m1[v].enabled \subseteq {0}
   <2>1. RecordsOK(m1) /\ DOMAIN m1 = DOMAIN m0
      BY <1>2, SetQueueStateOK
   <2>2. m1[v].pairs = m0[v].pairs /\ m1[v].enabled \subseteq m0[v].enabled \cup {0}
      <3>1. RecordsOK(m0) /\ v \in DOMAIN m0
         BY <1>2
      <3> QED BY <3>1, QueueEnabled
   <2> QED BY <1>2, <2>1, <2>2
<1> HIDE DEF m1
<1>4. m2[v].pairs = k /\ m2[v].enabled \subseteq {0, 1}
   <2>1. m2[v].pairs = k /\ m2[v].enabled \subseteq m1[v].enabled \cup {1}
      BY <1>3, QueueEnabled
   <2> QED BY <1>3, <2>1
<1> HIDE DEF m2
<1>5. k \in 1..MaxQueuePairs /\ 0..(2 * k - 1) \subseteq {0, 1}
   BY <1>1, <1>4 DEF IsPortReady
<1>6. CASE k > 1
   <2>1. 2 \in 0..(2 * k - 1)
      BY <1>6
   <2> QED BY <1>5, <2>1
<1> QED BY <1>5, <1>6, MaxQueuePairsAssumption

LEMMA NewDeviceAgrees ==
   ASSUME Order = "dense", \A n \in VringCounts : n % 2 = 0, AgreeInv,
          NEW v \in Vids, NEW n \in VringCounts, NewDevice(v, n)
   PROVE  Announced' /\ Brought'
<1> DEFINE k == n \div 2
           p1 == InitVhostDevice(pmap, v, k)
           p2 == SetQueueState(p1, v, 0, TRUE)
<1>1. /\ pmap' = SetQueueState(p2, v, 1, TRUE)
      /\ live' = live \cup {v} /\ revived' = revived \ {v}
      /\ UNCHANGED handlerVars
   BY DEF NewDevice
<1>2. k \in Nat /\ (k = 1 => n = 2)
   <2>1. n \in Nat /\ n % 2 = 0
      BY PortsAssumption
   <2> QED BY <2>1
<1>3. Here(v)' => n = 2
   <2>1. RecordsOK(pmap)
      BY DEF AgreeInv, DenseInv, TypeOK
   <2> QED BY <1>1, <1>2, <2>1, NewRecord DEF Here
<1>4. ~Gone(v)'
   BY <1>1 DEF Gone
<1>5. ASSUME NEW w \in Vids, w # v
      PROVE  /\ Here(w)' => Here(w)
             /\ Gone(w)' => Gone(w)
             /\ PairsOf(pmap, w)' = PairsOf(pmap, w)
   <2>1. /\ IsPortReady(p1, w) <=> IsPortReady(pmap, w)
         /\ PairsOf(p1, w) = PairsOf(pmap, w)
      BY <1>5, OtherDevice
   <2>2. /\ IsPortReady(p2, w) <=> IsPortReady(p1, w)
         /\ PairsOf(p2, w) = PairsOf(p1, w)
      BY <1>5, OtherQueueOn
   <2> HIDE DEF p1, p2
   <2>3. /\ IsPortReady(pmap', w) <=> IsPortReady(p2, w)
         /\ PairsOf(pmap', w) = PairsOf(p2, w)
      BY <1>1, <1>5, OtherQueueOn
   <2>4. /\ IsPortReady(pmap', w) <=> IsPortReady(pmap, w)
         /\ PairsOf(pmap', w) = PairsOf(pmap, w)
      BY <2>1, <2>2, <2>3
   <2> QED BY <1>1, <1>5, <2>4 DEF Here, Gone
<1>6. CASE n = 2
   <2>1. Message("PORT_UP", port_cntr, v) \in Messages
      BY DEF AgreeInv, DenseInv, TypeOK, Message, Messages
   <2>2. chan' = Append(chan, Message("PORT_UP", port_cntr, v))
      BY <1>6 DEF NewDevice, Notify
   <2>3. \E m \in Messages : /\ chan' = Append(chan, m) /\ m.vid = v
                             /\ Here(v)' => m.meta = "PORT_UP"
                             /\ Gone(v)' => m.meta = "PORT_DOWN"
      BY <1>4, <2>1, <2>2 DEF Message
   <2> QED BY <1>1, <1>5, <2>3, CallbackAgrees
<1>7. CASE n # 2
   <2>1. chan' = chan
      BY <1>7 DEF NewDevice
   <2> QED BY <1>1, <1>3, <1>4, <1>5, <1>7, <2>1, CallbackAgrees
<1> QED BY <1>6, <1>7

LEMMA DestroyDeviceAgrees ==
   ASSUME Order = "dense", AgreeInv, NEW v \in Vids, DestroyDevice(v)
   PROVE  Announced' /\ Brought'
<1> DEFINE m == Message("PORT_DOWN", PidOf(vpmap, v), v)
<1>1. m \in Messages
   BY PidOfIsInt DEF AgreeInv, DenseInv, Message, Messages
<1>2. /\ chan' = Append(chan, m) /\ live' = live \ {v}
      /\ UNCHANGED <<pmap, revived>> /\ UNCHANGED handlerVars
   BY DEF DestroyDevice, Notify, configVars
<1>3. \A w \in Vids : w # v => /\ Here(w)' => Here(w)
                               /\ Gone(w)' => Gone(w)
                               /\ PairsOf(pmap, w)' = PairsOf(pmap, w)
   BY <1>2 DEF Here, Gone
<1>4. ~Here(v)'
   BY <1>2 DEF Here
<1>5. m.vid = v /\ m.meta = "PORT_DOWN"
   BY DEF Message
<1> HIDE DEF m
<1> QED BY <1>1, <1>2, <1>3, <1>4, <1>5, CallbackAgrees

LEMMA VringStateChangedAgrees ==
   ASSUME Order = "dense", AgreeInv, NEW v \in Vids, NEW q \in Queues, NEW e \in BOOLEAN,
          VringStateChanged(v, q, e)
   PROVE  Announced' /\ Brought'
<1>1. /\ pmap' = SetQueueState(pmap, v, q, e) /\ live' = live
      /\ revived' = IF v \notin live /\ IsPortReady(pmap', v) THEN revived \cup {v} ELSE revived
      /\ UNCHANGED handlerVars
   BY DEF VringStateChanged
<1>2. ASSUME NEW w \in Vids, w # v
      PROVE  /\ Here(w)' => Here(w)
             /\ Gone(w)' => Gone(w)
             /\ PairsOf(pmap, w)' = PairsOf(pmap, w)
   <2>1. /\ IsPortReady(pmap', w) <=> IsPortReady(pmap, w)
         /\ PairsOf(pmap', w) = PairsOf(pmap, w)
      BY <1>1, <1>2, OtherQueue
   <2> QED BY <1>1, <1>2, <2>1 DEF Here, Gone
<1>3. CASE IsPortReady(pmap', v)
   <2> DEFINE m == Message("PORT_UP", PidOf(vpmap, v), v)
   <2>1. m \in Messages
      BY PidOfIsInt DEF AgreeInv, DenseInv, Message, Messages
   <2>2. chan' = Append(chan, m)
      BY <1>3 DEF VringStateChanged, Notify
   <2>3. ~Gone(v)'
      BY <1>1, <1>3 DEF Gone
   <2>4. m.vid = v /\ m.meta = "PORT_UP"
      BY DEF Message
   <2> HIDE DEF m
   <2> QED BY <1>1, <1>2, <2>1, <2>2, <2>3, <2>4, CallbackAgrees
<1>4. CASE ~IsPortReady(pmap', v)
   <2>1. chan' = chan /\ ~Here(v)' /\ (Gone(v)' => Gone(v))
      BY <1>1, <1>4 DEF VringStateChanged, Here, Gone
   <2> QED BY <1>1, <1>2, <2>1, CallbackAgrees
<1> QED BY <1>3, <1>4

\* The queues for which a handler of vid v creates mempools and rings.
LEMMA PairsGiveQueues ==
   ASSUME TypeOK, PairsKnown, NEW v
   PROVE  {2 * i - 1 : i \in 1..PairsOf(pmap, v)} \subseteq TransmitQueues
<1>1. CASE v \notin DOMAIN pmap
   BY <1>1 DEF PairsOf
<1>2. CASE v \in DOMAIN pmap
   <2>1. PICK n \in VringCounts : pmap[v].pairs = n \div 2
      BY <1>2 DEF PairsKnown
   <2>2. n \in Nat /\ MaxQueuePairs \in Nat
      BY PortsAssumption, MaxQueuePairsAssumption
   <2>3. PairsOf(pmap, v) \in Nat /\ PairsOf(pmap, v) <= n \div 2 /\ PairsOf(pmap, v) <= MaxQueuePairs
      BY <1>2, <2>1, <2>2 DEF PairsOf
   <2>4. \A i \in 1..PairsOf(pmap, v) : /\ 2 * i - 1 \in 0..(n - 1) /\ (2 * i - 1) % 2 = 1
                                        /\ 2 * i - 1 < 2 * MaxQueuePairs
      BY <2>2, <2>3
   <2>5. 0..(n - 1) \subseteq Queues
      BY DEF Queues
   <2> QED BY <2>4, <2>5 DEF TransmitQueues
<1> QED BY <1>1, <1>2

\* Vrings that change leave the pairs as they are.
LEMMA PairsKept ==
   ASSUME NEW m, RecordsOK(m), NEW v, NEW q \in Nat, NEW e \in BOOLEAN
   PROVE  \A w \in DOMAIN m : SetQueueState(m, v, q, e)[w].pairs = m[w].pairs
<1> SUFFICES ASSUME NEW w \in DOMAIN m PROVE SetQueueState(m, v, q, e)[w].pairs = m[w].pairs
   OBVIOUS
<1>1. m[w] \in [pairs : Nat, enabled : SUBSET Nat]
   BY DEF RecordsOK
<1>2. PICK x : SetQueueState(m, v, q, e) \in {m, [m EXCEPT ![v].enabled = x]}
   BY DEF SetQueueState
<1>3. [m EXCEPT ![v].enabled = x][w].pairs = m[w].pairs
   BY <1>1
<1> QED BY <1>2, <1>3

LEMMA PairsStep ==
   ASSUME TypeOK, PairsKnown, [Next]_vars
   PROVE  PairsKnown'
<1>1. CASE UNCHANGED pmap
   BY <1>1 DEF PairsKnown
<1>2. ASSUME NEW v \in Vids, NEW n \in VringCounts, NewDevice(v, n)
      PROVE  PairsKnown'
   <2> DEFINE m0 == InitVhostDevice(pmap, v, n \div 2)
              m1 == SetQueueState(m0, v, 0, TRUE)
   <2>1. n \div 2 \in Nat /\ RecordsOK(pmap)
      BY PortsAssumption DEF TypeOK
   <2>2. /\ RecordsOK(m0) /\ DOMAIN m0 = DOMAIN pmap \cup {v}
         /\ \A w \in DOMAIN m0 : m0[w].pairs = IF w = v THEN n \div 2 ELSE pmap[w].pairs
      BY <2>1, InitVhostDeviceOK DEF InitVhostDevice, Insert
   <2> HIDE DEF m0
   <2>3. /\ RecordsOK(m1) /\ DOMAIN m1 = DOMAIN m0
         /\ \A w \in DOMAIN m0 : m1[w].pairs = m0[w].pairs
      <3>1. RecordsOK(m0)
         BY <2>2
      <3>2. RecordsOK(m1) /\ DOMAIN m1 = DOMAIN m0
         BY <3>1, SetQueueStateOK
      <3>3. \A w \in DOMAIN m0 : SetQueueState(m0, v, 0, TRUE)[w].pairs = m0[w].pairs
         <4>1. 0 \in Nat /\ TRUE \in BOOLEAN
            OBVIOUS
         <4> HIDE DEF m1
         <4> QED BY ONLY <3>1, <4>1, PairsKept
      <3> QED BY <3>2, <3>3 DEF m1
   <2>4. pmap' = SetQueueState(m1, v, 1, TRUE)
      BY <1>2 DEF NewDevice, m0
   <2> HIDE DEF m1
   <2>5. DOMAIN pmap' = DOMAIN m1 /\ \A w \in DOMAIN m1 : pmap'[w].pairs = m1[w].pairs
      <3>1. DOMAIN pmap' = DOMAIN m1
         BY <2>3, <2>4, SetQueueStateOK
      <3>2. \A w \in DOMAIN m1 : SetQueueState(m1, v, 1, TRUE)[w].pairs = m1[w].pairs
         <4>1. RecordsOK(m1) /\ 1 \in Nat /\ TRUE \in BOOLEAN
            BY <2>3
         <4> QED BY ONLY <4>1, PairsKept
      <3> QED BY <2>4, <3>1, <3>2
   <2> QED BY <2>2, <2>3, <2>5 DEF PairsKnown
<1>3. ASSUME NEW v \in Vids, NEW q \in Queues, NEW e \in BOOLEAN, VringStateChanged(v, q, e)
      PROVE  PairsKnown'
   <2>1. q \in Nat
      BY PortsAssumption DEF Queues
   <2>2. pmap' = SetQueueState(pmap, v, q, e) /\ RecordsOK(pmap)
      BY <1>3 DEF VringStateChanged, TypeOK
   <2>3. DOMAIN pmap' = DOMAIN pmap /\ \A w \in DOMAIN pmap : pmap'[w].pairs = pmap[w].pairs
      <3>1. DOMAIN pmap' = DOMAIN pmap
         BY <2>1, <2>2, SetQueueStateOK
      <3>2. \A w \in DOMAIN pmap : SetQueueState(pmap, v, q, e)[w].pairs = pmap[w].pairs
         <4>1. RecordsOK(pmap)
            BY <2>2
         <4> QED BY ONLY <2>1, <4>1, e \in BOOLEAN, PairsKept
      <3> QED BY <2>2, <3>1, <3>2
   <2> QED BY <2>3 DEF PairsKnown
<1>4. \/ UNCHANGED pmap
      \/ \E v \in Vids, n \in VringCounts : NewDevice(v, n)
      \/ \E v \in Vids, q \in Queues, e \in BOOLEAN : VringStateChanged(v, q, e)
   BY DEF Next, VhostThread, EpollWorker, DestroyDevice, Accept, Process, ProcessUp,
          ProcessDown, Processes, ProcessHangs, vars, configVars
<1> QED BY <1>1, <1>2, <1>3, <1>4

\* A new handler for vid v has the names of port id v only.
LEMMA NamesOfNew ==
   ASSUME TypeOK, PairsKnown, NEW taken, NEW v,
          NEW s \in NamesOf(Started(NewHandler, taken, v, v))
   PROVE  \E q \in TransmitQueues : s = Name(v, q)
<1> DEFINE odd == {2 * i - 1 : i \in 1..PairsOf(pmap, v)}
           h == Started(NewHandler, taken, v, v)
<1>1. odd \subseteq TransmitQueues
   BY PairsGiveQueues
<1>2. DOMAIN h.pools = odd /\ \A q \in odd : h.pools[q] \in {NullPtr, Name(v, q)}
   BY DEF Started, NewHandler, EmptyMap
<1>3. PICK q \in DOMAIN h.pools : s = h.pools[q] /\ s # NullPtr
   BY DEF NamesOf
<1>4. q \in TransmitQueues
   BY <1>1, <1>2, <1>3
<1> QED BY <1>2, <1>3, <1>4

LEMMA NamesStep ==
   ASSUME AgreeInv, ProcessUp \/ ProcessDown \/ UNCHANGED handlerVars
   PROVE  NamesTellPorts'
<1>1. CASE UNCHANGED handlerVars
   BY <1>1 DEF AgreeInv, NamesTellPorts, NamesOf, handlerVars
<1>2. CASE ProcessUp
   <2>1. PICK v \in Vids :
            LET old == IF <<v, v>> \in DOMAIN port_handler
                       THEN NamesOf(port_handler[<<v, v>>]) ELSE {}
                new == Started(NewHandler, names \ old, v, v)
            IN  /\ DOMAIN port_handler' = DOMAIN port_handler \cup {<<v, v>>}
                /\ port_handler'[<<v, v>>] = new
                /\ \A k \in DOMAIN port_handler :
                      k # <<v, v>> => port_handler'[k] = port_handler[k]
      BY <1>2, DenseUp DEF AgreeInv
   <2> DEFINE key == <<v, v>>
              old == IF key \in DOMAIN port_handler THEN NamesOf(port_handler[key]) ELSE {}
              kept == names \ old
   <2>2. /\ key[2] = v /\ port_handler'[key] = Started(NewHandler, kept, v, v)
         /\ DOMAIN port_handler' = DOMAIN port_handler \cup {key}
         /\ \A k \in DOMAIN port_handler : k # key => port_handler'[k] = port_handler[k]
      BY <2>1
   <2> HIDE DEF key, kept
   <2>3. ASSUME NEW k \in DOMAIN port_handler', NEW s \in NamesOf(port_handler'[k])
         PROVE  \E q \in TransmitQueues : s = Name(k[2], q)
      <3>1. CASE k = key
         BY <2>2, <2>3, <3>1, NamesOfNew DEF AgreeInv, DenseInv
      <3>2. CASE k # key
         BY <2>2, <2>3, <3>2 DEF AgreeInv, NamesTellPorts
      <3> QED BY <3>1, <3>2
   <2> QED BY <2>3 DEF NamesTellPorts, NamesOf
<1>3. CASE ProcessDown /\ ~ UNCHANGED handlerVars
   <2>1. \E v \in Vids :
            /\ DOMAIN port_handler' = DOMAIN port_handler \ {<<v, v>>}
            /\ \A k \in DOMAIN port_handler' : port_handler'[k] = port_handler[k]
      BY <1>3, DenseDown DEF AgreeInv
   <2> QED BY <2>1 DEF AgreeInv, NamesTellPorts, NamesOf
<1> QED BY <1>1, <1>2, <1>3

\* A PORT_UP for a device brings it a handler that serves it.
LEMMA UpServes ==
   ASSUME Order = "dense", NamesAreUnique, AgreeInv, ProcessUp
   PROVE  \E v \in Vids :
             /\ Head(chan).vid = v /\ Serves(v, v)'
             /\ DOMAIN port_handler' = DOMAIN port_handler \cup {<<v, v>>}
             /\ \A k \in DOMAIN port_handler :
                   k # <<v, v>> => port_handler'[k] = port_handler[k]
<1>1. PICK v \in Vids :
         LET old == IF <<v, v>> \in DOMAIN port_handler
                    THEN NamesOf(port_handler[<<v, v>>]) ELSE {}
             new == Started(NewHandler, names \ old, v, v)
         IN  /\ Head(chan).vid = v
             /\ DOMAIN port_handler' = DOMAIN port_handler \cup {<<v, v>>}
             /\ port_handler'[<<v, v>>] = new
             /\ \A k \in DOMAIN port_handler :
                   k # <<v, v>> => port_handler'[k] = port_handler[k]
   BY DenseUp DEF AgreeInv
<1> DEFINE key == <<v, v>>
           old == IF key \in DOMAIN port_handler THEN NamesOf(port_handler[key]) ELSE {}
           kept == names \ old
           h == Started(NewHandler, kept, v, v)
           n == PairsOf(pmap, v)
           odd == {2 * i - 1 : i \in 1..n}
<1>2. /\ Head(chan).vid = v /\ port_handler'[key] = h
      /\ DOMAIN port_handler' = DOMAIN port_handler \cup {key}
      /\ \A k \in DOMAIN port_handler : k # key => port_handler'[k] = port_handler[k]
   BY <1>1
<1>3. n \in Nat /\ pmap' = pmap
   BY MaxQueuePairsAssumption, ProcessReads
   DEF AgreeInv, DenseInv, TypeOK, RecordsOK, PairsOf, Process
<1>4. v \in Nat /\ odd \subseteq TransmitQueues
   <2>1. v \in Nat
      BY PortsAssumption DEF Vids
   <2> QED BY <2>1, PairsGiveQueues DEF AgreeInv, DenseInv
<1>5. ASSUME NEW q \in odd PROVE Name(v, q) \notin kept /\ Name(v, q) # NullPtr
   <2>1. q \in Nat /\ q \in TransmitQueues
      BY <1>4, TransmitQueuesOK
   <2>2. SUFFICES ASSUME Name(v, q) \in kept PROVE FALSE
      BY <1>4, <2>1, NameNotNull
   <2>3. PICK k \in DOMAIN port_handler : Name(v, q) \in NamesOf(port_handler[k]) /\ k # key
      BY <2>2 DEF AgreeInv, DenseInv, ResourcesOwned
   <2>4. PICK r \in TransmitQueues : Name(v, q) = Name(k[2], r)
      BY <2>3 DEF AgreeInv, NamesTellPorts
   <2>5. k \in Int \X Vids /\ k[1] = k[2]
      BY DEF AgreeInv, DenseInv, TypeOK, StartedOnce
   <2>6. k[2] = v
      BY <2>1, <2>4, <2>5 DEF NamesAreUnique
   <2> QED BY <2>3, <2>5, <2>6
<1>6. /\ h.serves = <<[vid |-> v, pairs |-> n]>>
      /\ DOMAIN h.pools = odd
      /\ \A q \in odd : h.pools[q] = IF Name(v, q) \in kept THEN NullPtr ELSE Name(v, q)
   BY DEF Started, NewHandler, EmptyMap
<1>7. \A q \in odd : h.pools[q] # NullPtr
   BY <1>5, <1>6
<1>8. PairsOf(pmap', v) = n
   BY <1>3
<1> HIDE DEF h, kept, n
<1>9. Serves(v, v)'
   BY <1>2, <1>6, <1>7, <1>8 DEF Serves
<1> QED BY <1>2, <1>9

LEMMA ProcessAgrees ==
   ASSUME Order = "dense", NamesAreUnique, AgreeInv, Process
   PROVE  Announced' /\ Brought'
<1>1. /\ chan # << >> /\ chan' = Tail(chan)
      /\ UNCHANGED <<live, pmap, revived>> /\ TypeOK
   BY ProcessReads DEF AgreeInv, DenseInv
<1>2. \A w : (Here(w)' <=> Here(w)) /\ (Gone(w)' <=> Gone(w)) /\ PairsOf(pmap', w) = PairsOf(pmap, w)
   BY <1>1 DEF Here, Gone
<1>3. Announced'
   <2>1. SUFFICES ASSUME NEW w \in Vids, NEW i \in Nat, LastFor(w, i)'
                  PROVE  /\ Here(w)' => chan'[i].meta = "PORT_UP"
                         /\ Gone(w)' => chan'[i].meta = "PORT_DOWN"
      BY DEF Announced
   <2>2. LastFor(w, i + 1) /\ chan'[i] = chan[i + 1] /\ i + 1 \in Nat
      <3>1. \A j \in Nat : LastFor(w, j)' => LastFor(w, j + 1) /\ chan'[j] = chan[j + 1]
         BY <1>1, LastRead
      <3> QED BY <2>1, <3>1
   <2> QED BY <1>2, <2>2 DEF AgreeInv, Announced
<1>4. Brought'
   <2>1. SUFFICES ASSUME NEW w \in Vids, Settled(w)'
                  PROVE  /\ Here(w) => Serves(w, w)'
                         /\ Gone(w) => <<w, w>> \notin DOMAIN port_handler'
      BY <1>2 DEF Brought
   <2>2. \/ Head(chan).vid # w /\ Settled(w)
         \/ Settled(w) \/ (Head(chan).vid = w /\ LastFor(w, 1))
      BY <1>1, <2>1, LastRead
   <2>3. Head(chan).vid # w => Settled(w)
      BY <1>1, <2>1, LastRead
   <2>4. Head(chan) = chan[1] /\ 1 \in 1..Len(chan)
      <3>1. chan \in Seq(Messages)
         BY <1>1 DEF TypeOK, Messages
      <3> QED BY <1>1, <3>1
   <2>5. Head(chan).vid = w => LastFor(w, 1)
      BY <2>2, <2>4 DEF Settled
   <2>6. CASE Head(chan).vid # w /\ <<w, w>> \in DOMAIN port_handler
                /\ <<w, w>> \in DOMAIN port_handler'
                /\ port_handler'[<<w, w>>] = port_handler[<<w, w>>]
      BY <1>2, <2>3, <2>6 DEF AgreeInv, Brought, Serves
   <2>7. CASE Head(chan).vid # w /\ <<w, w>> \notin DOMAIN port_handler
                /\ <<w, w>> \notin DOMAIN port_handler'
      BY <2>3, <2>7 DEF AgreeInv, Brought, Serves
   <2>8. CASE ProcessUp
      <3>1. PICK v \in Vids :
               /\ Head(chan).vid = v /\ Serves(v, v)'
               /\ DOMAIN port_handler' = DOMAIN port_handler \cup {<<v, v>>}
               /\ \A k \in DOMAIN port_handler :
                     k # <<v, v>> => port_handler'[k] = port_handler[k]
         BY <2>8, UpServes
      <3>2. CASE v = w
         <4>1. chan[1].meta = "PORT_UP" /\ LastFor(w, 1)
            BY <2>4, <2>5, <2>8, <3>1, <3>2 DEF ProcessUp, Processes
         <4>2. ~Gone(w)
            BY <4>1 DEF AgreeInv, Announced
         <4> QED BY <3>1, <3>2, <4>2
      <3>3. CASE v # w
         <4>1. <<w, w>> # <<v, v>>
            BY <3>3
         <4> QED BY <2>6, <2>7, <3>1, <3>3, <4>1
      <3> QED BY <3>2, <3>3
   <2>9. CASE ProcessDown
      <3>1. Head(chan).vid = w => ~Here(w)
         <4>1. SUFFICES ASSUME Head(chan).vid = w PROVE ~Here(w)
            OBVIOUS
         <4>2. chan[1].meta = "PORT_DOWN" /\ LastFor(w, 1)
            BY <2>4, <2>5, <2>9, <4>1 DEF ProcessDown, Processes
         <4> QED BY <4>2 DEF AgreeInv, Announced
      <3>2. CASE /\ UNCHANGED handlerVars
                 /\ <<Head(chan).vid, Head(chan).vid>> \notin DOMAIN port_handler
         <4>1. port_handler' = port_handler
            BY <3>2 DEF handlerVars
         <4> QED BY <2>6, <2>7, <3>1, <3>2, <4>1
      <3>3. CASE \E v \in Vids :
                    /\ Head(chan).vid = v
                    /\ DOMAIN port_handler' = DOMAIN port_handler \ {<<v, v>>}
                    /\ \A k \in DOMAIN port_handler' : port_handler'[k] = port_handler[k]
         <4>1. PICK v \in Vids :
                    /\ Head(chan).vid = v
                    /\ DOMAIN port_handler' = DOMAIN port_handler \ {<<v, v>>}
                    /\ \A k \in DOMAIN port_handler' : port_handler'[k] = port_handler[k]
            BY <3>3
         <4>2. CASE v = w
            BY <3>1, <4>1, <4>2
         <4>3. CASE v # w
            <5>1. <<w, w>> # <<v, v>>
               BY <4>3
            <5> QED BY <2>6, <2>7, <4>1, <4>3, <5>1
         <4> QED BY <4>2, <4>3
      <3> QED BY <2>9, <3>2, <3>3, DenseDown DEF AgreeInv
   <2> QED BY <2>8, <2>9 DEF Process
<1> QED BY <1>3, <1>4

LEMMA AgreeNext ==
   ASSUME Order = "dense", NamesAreUnique, \A n \in VringCounts : n % 2 = 0,
          AgreeInv, [Next]_vars
   PROVE  AgreeInv'
<1>1. DenseInv'
   BY DenseNext DEF AgreeInv
<1>2. NamesTellPorts'
   BY HandlersChange, NamesStep
<1>3. Announced' /\ Brought'
   <2>1. CASE \E v \in Vids, n \in VringCounts : NewDevice(v, n)
      BY <2>1, NewDeviceAgrees
   <2>2. CASE \E v \in Vids : DestroyDevice(v)
      BY <2>2, DestroyDeviceAgrees
   <2>3. CASE \E v \in Vids, q \in Queues, e \in BOOLEAN : VringStateChanged(v, q, e)
      BY <2>3, VringStateChangedAgrees
   <2>4. CASE Process
      BY <2>4, ProcessAgrees
   <2>5. CASE Accept \/ ProcessHangs \/ UNCHANGED vars
      <3>1. UNCHANGED <<live, pmap, revived, chan, port_handler>>
         BY <2>5, OthersWait
      <3> QED BY <3>1 DEF AgreeInv, Announced, Brought, Here, Gone, LastFor, Settled, Serves
   <2> QED BY <2>1, <2>2, <2>3, <2>4, <2>5 DEF Next, VhostThread, EpollWorker
<1>4. PairsKnown'
   BY PairsStep DEF AgreeInv, DenseInv
<1> QED BY <1>1, <1>2, <1>3, <1>4 DEF AgreeInv

\* The names that create_resources gives to mempools and rings tell ports apart as
\* long as port ids have one digit, or queue ids have: then no rte_ring_create finds
\* its name in use.
THEOREM UniqueNames ==
   \/ NofVids <= 10
   \/ NofVids <= 1000 /\ \A n \in VringCounts : n <= 11
   => NamesAreUnique
BY UniqueForTenPorts, UniqueForFivePairs

\* Beyond that they do not, although create_resources means to "generate unique names":
\* queue 11 of port 1 and queue 1 of port 11 want the same name, as soon as there are
\* twelve ports and a device of six pairs.
THEOREM NamesClash ==
   ASSUME NofVids >= 12, MaxQueuePairs >= 6, \E n \in VringCounts : n >= 12
   PROVE  ~NamesAreUnique
<1>1. 1 \in Vids /\ 11 \in Vids
   BY PortsAssumption DEF Vids
<1>2. 1 \in TransmitQueues /\ 11 \in TransmitQueues
   <2>1. PICK n \in VringCounts : n >= 12
      OBVIOUS
   <2>2. 1 \in Queues /\ 11 \in Queues
      BY <2>1, PortsAssumption DEF Queues
   <2>3. 1 % 2 = 1 /\ 11 % 2 = 1 /\ 1 < 2 * MaxQueuePairs /\ 11 < 2 * MaxQueuePairs
      BY MaxQueuePairsAssumption
   <2> QED BY <2>2, <2>3 DEF TransmitQueues
<1>3. Name(1, 11) = Name(11, 1)
   BY DEF Name, Digits
<1> QED BY <1>1, <1>2, <1>3 DEF NamesAreUnique

\* A vid of which no notification is left is served as its device deserves: all
\* its queues by the one handler of its port if it is there and ready, by none if
\* it is gone.  It needs that no two ports want the same name (see UniqueNames); an
\* odd number of vrings, of which nothing would be announced, does not occur.
THEOREM HandlersAgree ==
   ASSUME Order = "dense", NamesAreUnique, \A n \in VringCounts : n % 2 = 0
   PROVE  Spec => []HandlersMatchDevices
<1>1. Init => AgreeInv
   <2> SUFFICES ASSUME Init PROVE AgreeInv
      OBVIOUS
   <2>1. live = {} /\ chan = << >> /\ DOMAIN port_handler = {}
      BY DEF Init, EmptyMap
   <2>2. Announced /\ Brought /\ NamesTellPorts
      BY <2>1 DEF Announced, Brought, NamesTellPorts, LastFor, Here
   <2>3. PairsKnown
      BY DEF Init, EmptyMap, PairsKnown
   <2> QED BY <2>2, <2>3, DenseInit DEF AgreeInv
<1>2. AgreeInv /\ [Next]_vars => AgreeInv'
   BY AgreeNext
<1>3. AgreeInv => HandlersMatchDevices
   <2> SUFFICES ASSUME AgreeInv, NEW v \in Vids, Settled(v) PROVE Agree(v)
      BY DEF HandlersMatchDevices
   <2>1. Here(v) => Serves(PidOf(vpmap, v), v)
      <3>1. Here(v) => PidOf(vpmap, v) = v
         BY DEF AgreeInv, DenseInv, PidsAreVids, PidOf, Here
      <3> QED BY <3>1 DEF AgreeInv, Brought
   <2>2. ASSUME Gone(v) PROVE KeysWithVid(port_handler, v) = {} /\ ServersOf(v) = {}
      <3>1. <<v, v>> \notin DOMAIN port_handler
         BY <2>2 DEF AgreeInv, Brought
      <3>2. \A k \in DOMAIN port_handler : k \in Int \X Vids /\ k[1] = k[2]
         BY DEF AgreeInv, DenseInv, TypeOK, StartedOnce
      <3>3. \A k \in DOMAIN port_handler : k[2] # v
         BY <3>1, <3>2
      <3>4. ASSUME NEW k \in DOMAIN port_handler, NEW i \in 1..Len(port_handler[k].serves)
            PROVE  port_handler[k].serves[i].vid # v
         <4>1. port_handler[k].serves # << >>
            OBVIOUS
         <4>2. PICK n \in Nat : port_handler[k].serves = <<[vid |-> k[2], pairs |-> n]>>
            BY <4>1 DEF AgreeInv, DenseInv, StartedOnce
         <4> QED BY <3>3, <4>2
      <3> QED BY <3>3, <3>4 DEF KeysWithVid, ServersOf
   <2> QED BY <2>1, <2>2 DEF Agree, Here, Gone
<1> QED BY <1>1, <1>2, <1>3, PTL DEF Spec
=============================================================================
