---------------------- MODULE PortHandlerLoopbackProof ----------------------
(***************************************************************************)
(* Proofs about PortHandlerLoopback, for devices with any number of queue  *)
(* pairs and in every thread mode.                                         *)
(***************************************************************************)
EXTENDS PortHandlerLoopback, TLAPS

-----------------------------------------------------------------------------
\* The queue ids: the odd numbers, then the even ones.
LEMMA QueueIdsAre ==
   ASSUME NEW n \in Nat
   PROVE  /\ Len(QueueIds(n)) = 2 * n
          /\ \A i \in 1..(2 * n) : QueueIds(n)[i] = IF i <= n THEN 2 * i - 1 ELSE 2 * (i - n) - 2
<1>1. 2 * n \in Nat
   OBVIOUS
<1> QED BY <1>1 DEF QueueIds

\* What the threads of each mode are given.
LEMMA PlanOfEachQTwoThread ==
   ASSUME mode = "EachQTwoThread", pairs \in Nat
   PROVE  /\ Len(Plan) = 2 * pairs
          /\ \A w \in 1..(2 * pairs) : Plan[w] = <<w - 1>>
<1>1. Plan = [t \in 1..(2 * pairs) |-> <<t - 1>>]
   BY QueueIdsAre DEF Plan, Dispatch
<1>2. 2 * pairs \in Nat
   OBVIOUS
<1> QED BY <1>1, <1>2

LEMMA PlanOfEachQOneThread ==
   ASSUME mode = "EachQOneThread", pairs \in Nat
   PROVE  /\ Len(Plan) = pairs
          /\ \A w \in 1..pairs : Plan[w] = <<2 * w - 2, 2 * w - 1>>
<1>1. Plan = [t \in 1..((2 * pairs + 1) \div 2) |-> <<2 * t - 2, 2 * t - 1>>]
   BY QueueIdsAre DEF Plan, Dispatch
<1>2. (2 * pairs + 1) \div 2 = pairs
   OBVIOUS
<1> QED BY <1>1, <1>2

LEMMA PlanOfAllQTwoThread ==
   ASSUME mode = "AllQTwoThread", pairs \in Nat
   PROVE  /\ Len(Plan) = 2
          /\ Len(Plan[1]) = pairs /\ Len(Plan[2]) = pairs
          /\ \A i \in 1..pairs : Plan[1][i] = 2 * i - 1 /\ Plan[2][i] = 2 * i - 2
<1> DEFINE qids == QueueIds(pairs)
<1>1. (2 * pairs) \div 2 = pairs
   OBVIOUS
<1>2. Plan = <<Slice(qids, 1, pairs), Slice(qids, pairs + 1, 2 * pairs)>>
   BY <1>1, QueueIdsAre DEF Plan, Dispatch
<1>3. /\ Len(Slice(qids, 1, pairs)) = pairs
      /\ \A i \in 1..pairs : Slice(qids, 1, pairs)[i] = qids[i]
   <2>1. pairs - 1 + 1 = pairs /\ \A i \in 1..pairs : 1 + i - 1 = i
      OBVIOUS
   <2> QED BY <2>1 DEF Slice
<1>4. /\ Len(Slice(qids, pairs + 1, 2 * pairs)) = pairs
      /\ \A i \in 1..pairs : Slice(qids, pairs + 1, 2 * pairs)[i] = qids[pairs + i]
   <2>1. 2 * pairs - (pairs + 1) + 1 = pairs /\ \A i \in 1..pairs : pairs + 1 + i - 1 = pairs + i
      OBVIOUS
   <2> QED BY <2>1 DEF Slice
<1>5. \A i \in 1..pairs : qids[i] = 2 * i - 1 /\ qids[pairs + i] = 2 * i - 2
   <2>1. TAKE i \in 1..pairs
   <2>2. i \in 1..(2 * pairs) /\ i <= pairs
      OBVIOUS
   <2>3. pairs + i \in 1..(2 * pairs) /\ ~(pairs + i <= pairs) /\ (pairs + i) - pairs = i
      OBVIOUS
   <2> QED BY <2>2, <2>3, QueueIdsAre
<1> HIDE DEF qids
<1> QED BY <1>2, <1>3, <1>4, <1>5

LEMMA PlanOfAllQOneThread ==
   ASSUME mode = "AllQOneThread", pairs \in Nat
   PROVE  Len(Plan) = 1 /\ Plan[1] = QueueIds(pairs)
BY DEF Plan, Dispatch

\* Every thread is given queues of the device, and each with the ring of its pair.
\* The two queues of the pair w of n.
LEMMA PairQueues ==
   ASSUME NEW n \in Nat, NEW w \in 1..n
   PROVE  2 * w - 2 \in 0..(2 * n - 1) /\ 2 * w - 1 \in 0..(2 * n - 1)
OBVIOUS

LEMMA PlanQueues ==
   ASSUME mode \in ThreadModes, pairs \in Nat
   PROVE  /\ Len(Plan) \in Nat
          /\ \A w \in Workers :
                /\ Len(Plan[w]) \in Nat
                /\ \A i \in 1..Len(Plan[w]) : Plan[w][i] \in 0..(2 * pairs - 1)
<1>1. CASE mode = "EachQTwoThread"
   <2>1. ASSUME NEW w \in 1..(2 * pairs) PROVE Len(Plan[w]) = 1 /\ Plan[w][1] = w - 1
      <3>1. Plan[w] = <<w - 1>>
         BY <1>1, PlanOfEachQTwoThread
      <3> QED BY <3>1
   <2>2. ASSUME NEW w \in 1..(2 * pairs) PROVE w - 1 \in 0..(2 * pairs - 1)
      OBVIOUS
   <2> QED BY <1>1, <2>1, <2>2, PlanOfEachQTwoThread DEF Workers
<1>2. CASE mode = "EachQOneThread"
   <2>1. ASSUME NEW w \in 1..pairs
         PROVE  Len(Plan[w]) = 2 /\ Plan[w][1] = 2 * w - 2 /\ Plan[w][2] = 2 * w - 1
      <3>1. Plan[w] = <<2 * w - 2, 2 * w - 1>>
         BY <1>2, PlanOfEachQOneThread
      <3> QED BY <3>1
   <2>2. ASSUME NEW w \in 1..pairs, NEW i \in 1..2 PROVE Plan[w][i] \in 0..(2 * pairs - 1)
      BY <2>1, PairQueues
   <2>3. Len(Plan) = pairs /\ \A w \in 1..pairs : Len(Plan[w]) = 2
      BY <1>2, <2>1, PlanOfEachQOneThread
   <2>4. ASSUME NEW w \in 1..pairs, NEW i \in 1..Len(Plan[w])
         PROVE  Plan[w][i] \in 0..(2 * pairs - 1)
      <3>1. i \in 1..2
         BY <2>3
      <3> QED BY <2>2, <3>1
   <2>5. Workers = 1..pairs
      BY <2>3 DEF Workers
   <2> QED BY <2>3, <2>4, <2>5
<1>3. CASE mode = "AllQTwoThread"
   <2>1. ASSUME NEW i \in 1..pairs
         PROVE  Plan[1][i] \in 0..(2 * pairs - 1) /\ Plan[2][i] \in 0..(2 * pairs - 1)
      BY <1>3, PairQueues, PlanOfAllQTwoThread
   <2>2. Workers = {1, 2}
      <3>1. Len(Plan) = 2
         BY <1>3, PlanOfAllQTwoThread
      <3> QED BY <3>1 DEF Workers
   <2> QED BY <1>3, <2>1, <2>2, PlanOfAllQTwoThread
<1>4. CASE mode = "AllQOneThread"
   <2>1. ASSUME NEW i \in 1..(2 * pairs) PROVE QueueIds(pairs)[i] \in 0..(2 * pairs - 1)
      <3>1. QueueIds(pairs)[i] = IF i <= pairs THEN 2 * i - 1 ELSE 2 * (i - pairs) - 2
         BY QueueIdsAre
      <3>2. i <= pairs => 2 * i - 1 \in 0..(2 * pairs - 1)
         OBVIOUS
      <3>3. ~(i <= pairs) => 2 * (i - pairs) - 2 \in 0..(2 * pairs - 1)
         OBVIOUS
      <3> QED BY <3>1, <3>2, <3>3
   <2>2. Workers = {1} /\ Len(Plan) = 1 /\ Plan[1] = QueueIds(pairs)
      <3>1. Len(Plan) = 1 /\ Plan[1] = QueueIds(pairs)
         BY <1>4, PlanOfAllQOneThread
      <3> QED BY <3>1 DEF Workers
   <2>3. Len(QueueIds(pairs)) = 2 * pairs /\ 2 * pairs \in Nat
      BY QueueIdsAre
   <2> QED BY <2>1, <2>2, <2>3
<1> QED BY <1>1, <1>2, <1>3, <1>4 DEF ThreadModes

LEMMA PlanRings ==
   ASSUME mode \in ThreadModes, pairs \in Nat,
          NEW w \in Workers, NEW i \in 1..Len(Plan[w])
   PROVE  RingOf(Plan[w][i]) \in Odd
<1> DEFINE q == Plan[w][i]
<1>1. q \in 0..(2 * pairs - 1)
   BY PlanQueues
<1> HIDE DEF q
<1>2. IF IsOdd(q) THEN q \in Odd ELSE q + 1 \in 0..(2 * pairs - 1) /\ (q + 1) % 2 = 1
   BY <1>1 DEF IsOdd, Odd
<1>3. RingOf(q) \in Odd
   BY <1>2 DEF RingOf, IsOdd, Odd
<1> QED BY <1>3 DEF q

\* No queue is given to two threads.
LEMMA PlanDisjoint ==
   ASSUME mode \in ThreadModes, pairs \in Nat,
          NEW v \in Workers, NEW w \in Workers, v # w,
          NEW i \in 1..Len(Plan[v]), NEW j \in 1..Len(Plan[w])
   PROVE  Plan[v][i] # Plan[w][j]
<1>1. CASE mode = "EachQTwoThread"
   BY <1>1, PlanOfEachQTwoThread DEF Workers
<1>2. CASE mode = "EachQOneThread"
   <2>1. v \in 1..pairs /\ w \in 1..pairs
      BY <1>2, PlanOfEachQOneThread DEF Workers
   <2>2. ASSUME NEW u \in 1..pairs, NEW k \in 1..Len(Plan[u])
         PROVE  Plan[u][k] = 2 * u - 2 \/ Plan[u][k] = 2 * u - 1
      <3>1. Plan[u] = <<2 * u - 2, 2 * u - 1>>
         BY <1>2, PlanOfEachQOneThread
      <3>2. k = 1 \/ k = 2
         BY <3>1
      <3> QED BY <3>1, <3>2
   <2>3. /\ Plan[v][i] = 2 * v - 2 \/ Plan[v][i] = 2 * v - 1
         /\ Plan[w][j] = 2 * w - 2 \/ Plan[w][j] = 2 * w - 1
      BY <2>1, <2>2
   <2> QED BY <2>1, <2>3
<1>3. CASE mode = "AllQTwoThread"
   <2>1. \A k \in 1..pairs, l \in 1..pairs : 2 * k - 1 # 2 * l - 2
      OBVIOUS
   <2>2. (v = 1 /\ w = 2) \/ (v = 2 /\ w = 1)
      <3>1. Len(Plan) = 2
         BY <1>3, PlanOfAllQTwoThread
      <3> QED BY <3>1 DEF Workers
   <2>3. i \in 1..pairs /\ j \in 1..pairs
      BY <1>3, <2>2, PlanOfAllQTwoThread
   <2> QED BY <1>3, <2>1, <2>2, <2>3, PlanOfAllQTwoThread
<1>4. CASE mode = "AllQOneThread"
   <2>1. Len(Plan) = 1
      BY <1>4, PlanOfAllQOneThread
   <2> QED BY <2>1 DEF Workers
<1> QED BY <1>1, <1>2, <1>3, <1>4 DEF ThreadModes

\* Every queue of the device is given to a thread.
LEMMA PlanCovers ==
   ASSUME mode \in ThreadModes, pairs \in Nat, NEW q \in 0..(2 * pairs - 1)
   PROVE  \E w \in Workers : \E i \in 1..Len(Plan[w]) : Plan[w][i] = q
<1>1. CASE mode = "EachQTwoThread"
   <2>1. q + 1 \in 1..(2 * pairs) /\ (q + 1) - 1 = q
      OBVIOUS
   <2>2. Plan[q + 1] = <<q>> /\ q + 1 \in Workers
      BY <1>1, <2>1, PlanOfEachQTwoThread DEF Workers
   <2>3. 1 \in 1..Len(Plan[q + 1]) /\ Plan[q + 1][1] = q
      BY <2>2
   <2> QED BY <2>2, <2>3
<1>2. CASE mode = "EachQOneThread"
   <2> DEFINE w == q \div 2 + 1
              i == (q % 2) + 1
   <2>1. w \in 1..pairs /\ i \in 1..2 /\ q = IF i = 1 THEN 2 * w - 2 ELSE 2 * w - 1
      OBVIOUS
   <2> HIDE DEF w, i
   <2>2. Plan[w] = <<2 * w - 2, 2 * w - 1>> /\ w \in Workers
      BY <1>2, <2>1, PlanOfEachQOneThread DEF Workers
   <2>3. i \in 1..Len(Plan[w]) /\ Plan[w][i] = q
      BY <2>1, <2>2
   <2> QED BY <2>2, <2>3
<1>3. CASE mode = "AllQTwoThread"
   <2> DEFINE i == q \div 2 + 1
   <2>1. i \in 1..pairs /\ (q = 2 * i - 1 \/ q = 2 * i - 2)
      OBVIOUS
   <2> HIDE DEF i
   <2>2. 1 \in Workers /\ 2 \in Workers
      BY <1>3, PlanOfAllQTwoThread DEF Workers
   <2>3. i \in 1..Len(Plan[1]) /\ i \in 1..Len(Plan[2]) /\ (Plan[1][i] = q \/ Plan[2][i] = q)
      BY <1>3, <2>1, PlanOfAllQTwoThread
   <2> QED BY <2>2, <2>3
<1>4. CASE mode = "AllQOneThread"
   <2>1. 1 \in Workers /\ Plan[1] = QueueIds(pairs)
      BY <1>4, PlanOfAllQOneThread DEF Workers
   <2>2. \E i \in 1..(2 * pairs) : QueueIds(pairs)[i] = q
      <3> DEFINE i == IF q % 2 = 1 THEN (q + 1) \div 2 ELSE pairs + q \div 2 + 1
      <3>1. i \in 1..(2 * pairs) /\ q = IF i <= pairs THEN 2 * i - 1 ELSE 2 * (i - pairs) - 2
         OBVIOUS
      <3> HIDE DEF i
      <3> QED BY <3>1, QueueIdsAre
   <2>3. 1..Len(Plan[1]) = 1..(2 * pairs)
      BY <2>1, QueueIdsAre
   <2> QED BY <2>1, <2>2, <2>3
<1> QED BY <1>1, <1>2, <1>3, <1>4 DEF ThreadModes

-----------------------------------------------------------------------------
Idle(w) == wpc[w] \in {"none", "exited"}

\* Which threads exist.
ThreadsKnown ==
   /\ \A w \in Workers : wpc[w] = "none" <=> w > launched
   /\ pc = "new" => launched = 0
   /\ pc = "started" => launched = Len(Plan)

\* Whoever was joined is gone, and only joined threads leave the vector.
JoinedAreGone ==
   /\ \A w \in joined : wpc[w] = "exited"
   /\ 1..cleared \subseteq joined

\* While a thread that is not late may still serve, all mempools and rings of the
\* device are there and nobody is about to free them.
ResourcesThere ==
   (\E w \in Workers \ late : ~Idle(w)) =>
      /\ Odd \subseteq resources \cap alive
      /\ \A c \in Callers : stop[c] \notin {"freeing", "emptying"}

\* The epoll worker does not launch and shut down at once; when it has got through
\* the joins of a shutdown nobody is left, late or not.
EpollAlone ==
   /\ pc = "launching" => stop["epoll"] = "out"
   /\ pc = "down" \/ stop["epoll"] \in {"freeing", "emptying"} => \A w \in Workers : Idle(w)
   /\ pc = "down" => resources = {}

AtAQueue == \A w \in Workers : wpc[w] = "serve" => at[w] \in 1..Len(Plan[w])

IndInv == /\ TypeOK /\ ThreadsKnown /\ JoinedAreGone /\ ResourcesThere
          /\ NothingDangles /\ EpollAlone /\ AtAQueue

-----------------------------------------------------------------------------
LEMMA FromTypeOK ==
   ASSUME TypeOK
   PROVE  /\ mode \in ThreadModes /\ pairs \in Nat /\ Len(Plan) \in Nat
          /\ launched \in Nat /\ launched <= Len(Plan) /\ cleared \in Nat /\ cleared <= launched
          /\ \A w \in Workers : Len(Plan[w]) \in Nat /\ w \in Nat /\ w >= 1 /\ w <= Len(Plan)
<1>1. mode \in ThreadModes /\ pairs \in Nat
   BY MaxPairsAssumption DEF TypeOK
<1>2. Len(Plan) \in Nat /\ \A w \in Workers : Len(Plan[w]) \in Nat
   BY <1>1, PlanQueues
<1>3. launched \in 0..Len(Plan) /\ cleared \in 0..launched
   BY DEF TypeOK
<1> HIDE DEF Plan
<1> QED BY <1>1, <1>2, <1>3 DEF Workers

\* The plan of the threads does not change.
LEMMA PlanFixed ==
   ASSUME UNCHANGED <<mode, pairs>>
   PROVE  Plan' = Plan /\ Workers' = Workers /\ Odd' = Odd
BY DEF Plan, Workers, Odd, QueueIds, Dispatch

\* Steps that neither create nor run a worker keep what is known of the workers.
LEMMA WorkersAsTheyWere ==
   ASSUME IndInv, UNCHANGED <<mode, pairs, launched, wpc, at>>,
          pc' = "new" => pc = "new", pc' = "started" => launched = Len(Plan)
   PROVE  ThreadsKnown' /\ AtAQueue'
<1>1. Plan' = Plan /\ Workers' = Workers
   BY PlanFixed
<1> QED BY <1>1 DEF IndInv, ThreadsKnown, AtAQueue

LEMMA InitInv == Init => IndInv
<1> SUFFICES ASSUME Init PROVE IndInv
   OBVIOUS
<1>1. mode \in ThreadModes /\ pairs \in Nat
   BY MaxPairsAssumption DEF Init
<1>2. Len(Plan) \in Nat
   BY <1>1, PlanQueues
<1>3. \A w \in Workers : wpc[w] = "none" /\ w > 0
   BY <1>2 DEF Init, Workers
<1>4. TypeOK
   <2>1. next \in [Callers -> 1..(Len(Plan) + 1)] /\ upto \in [Callers -> 0..launched]
      BY <1>2 DEF Init
   <2>2. launched \in 0..Len(Plan) /\ cleared \in 0..launched /\ joined \subseteq 1..launched
      BY <1>2 DEF Init
   <2>3. /\ wpc \in [Workers -> {"none", "spawned", "check", "serve", "exited"}]
         /\ at \in [Workers -> Nat]
         /\ stop \in [Callers -> {"out", "stopping", "joining", "freeing", "emptying"}]
      BY DEF Init
   <2> QED BY <2>1, <2>2, <2>3, <1>1, MaxPairsAssumption DEF Init, TypeOK
<1>5. ThreadsKnown /\ JoinedAreGone
   BY <1>3 DEF Init, ThreadsKnown, JoinedAreGone
<1>6. ResourcesThere /\ NothingDangles /\ EpollAlone /\ AtAQueue
   BY <1>3 DEF Init, ResourcesThere, NothingDangles, EpollAlone, AtAQueue, Idle, Callers
<1> QED BY <1>4, <1>5, <1>6 DEF IndInv

LEMMA StartInv == IndInv /\ Start => IndInv'
<1> SUFFICES ASSUME IndInv, Start PROVE IndInv'
   OBVIOUS
<1>1. Plan' = Plan /\ Workers' = Workers /\ Odd' = Odd
   BY PlanFixed DEF Start
<1>2. TypeOK'
   BY <1>1 DEF IndInv, TypeOK, Start, callVars
<1>3. \A w \in Workers : Idle(w)
   BY FromTypeOK DEF IndInv, ThreadsKnown, Start, Epoll, Idle
<1>4. ThreadsKnown' /\ AtAQueue'
   BY WorkersAsTheyWere DEF Start
<1>5. JoinedAreGone' /\ ResourcesThere' /\ NothingDangles' /\ EpollAlone'
   BY <1>1, <1>3 DEF IndInv, JoinedAreGone, ResourcesThere, NothingDangles, EpollAlone, Idle,
                     Start, callVars
<1> QED BY <1>2, <1>4, <1>5 DEF IndInv

LEMMA LaunchInv == IndInv /\ Launch => IndInv'
<1> SUFFICES ASSUME IndInv, Launch PROVE IndInv'
   OBVIOUS
<1>1. Plan' = Plan /\ Workers' = Workers /\ Odd' = Odd
   BY PlanFixed DEF Launch
<1>2. launched \in Nat /\ Len(Plan) \in Nat /\ launched' = launched + 1 /\ launched < Len(Plan)
      /\ cleared \in Nat /\ cleared <= launched
   BY FromTypeOK DEF IndInv, Launch
<1>3. launched' \in Workers /\ launched' \in 0..Len(Plan)
   BY <1>2 DEF Workers
<1>4. wpc' = [wpc EXCEPT ![launched + 1] = "spawned"]
   BY <1>2 DEF Launch
<1>5. wpc \in [Workers -> {"none", "spawned", "check", "serve", "exited"}]
   BY DEF IndInv, TypeOK
<1>6. TypeOK'
   <2>1. wpc' \in [Workers -> {"none", "spawned", "check", "serve", "exited"}]
      BY <1>4, <1>5
   <2>2. 1..launched \subseteq 1..launched' /\ 0..launched \subseteq 0..launched'
         /\ launched' \in 1..launched' /\ cleared \in 0..launched'
      BY <1>2
   <2>3. late' \subseteq 1..launched' /\ joined' \subseteq 1..launched'
         /\ upto' \in [Callers -> 0..launched']
      BY <2>2 DEF IndInv, TypeOK, Launch, callVars
   <2>4. next' \in [Callers -> 1..(Len(Plan) + 1)]
         /\ stop' \in [Callers -> {"out", "stopping", "joining", "freeing", "emptying"}]
         /\ cleared' = cleared
      BY DEF IndInv, TypeOK, Launch, callVars
   <2>5. UNCHANGED <<mode, pairs, pc, is_running, at, resources, alive, terminated>>
      BY DEF Launch
   <2> HIDE DEF Plan, Workers, Odd
   <2> QED BY <1>1, <1>3, <2>1, <2>2, <2>3, <2>4, <2>5 DEF IndInv, TypeOK
<1>7. ASSUME NEW w \in Workers PROVE wpc'[w] = IF w = launched + 1 THEN "spawned" ELSE wpc[w]
   BY <1>4, <1>5
<1>8. ThreadsKnown'
   <2>1. ASSUME NEW w \in Workers PROVE wpc'[w] = "none" <=> w > launched'
      <3>1. w \in Nat
         BY <1>2 DEF Workers
      <3>2. wpc[w] = "none" <=> w > launched
         BY DEF IndInv, ThreadsKnown
      <3> QED BY <1>2, <1>7, <3>1, <3>2
   <2>2. pc' = "launching"
      BY DEF Launch, Epoll
   <2> QED BY <1>1, <2>1, <2>2 DEF ThreadsKnown
<1>9. JoinedAreGone'
   <2>1. ASSUME NEW w \in joined PROVE wpc'[w] = "exited"
      <3>1. w \in 1..launched
         BY DEF IndInv, TypeOK
      <3>2. w \in Workers /\ w # launched + 1
         BY <1>2, <3>1 DEF Workers
      <3>3. wpc[w] = "exited"
         BY DEF IndInv, JoinedAreGone
      <3> QED BY <1>7, <3>2, <3>3
   <2> QED BY <2>1 DEF IndInv, JoinedAreGone, Launch
<1>10. ResourcesThere'
   <2> SUFFICES ASSUME NEW w \in Workers \ late', ~Idle(w)'
                PROVE  /\ Odd \subseteq resources \cap alive
                       /\ \A c \in Callers : stop[c] \notin {"freeing", "emptying"}
      BY <1>1 DEF ResourcesThere, Launch, callVars
   <2>1. CASE w = launched + 1
      <3>1. ~TooLate
         BY <1>2, <2>1 DEF Launch
      <3>2. stop["epoll"] = "out"
         BY DEF IndInv, EpollAlone, Launch, Epoll
      <3> QED BY <3>1, <3>2 DEF TooLate, Callers
   <2>2. CASE w # launched + 1
      <3>1. w \notin late
         BY DEF Launch
      <3>2. ~Idle(w)
         BY <1>7, <2>2 DEF Idle
      <3> QED BY <3>1, <3>2 DEF IndInv, ResourcesThere
   <2> QED BY <2>1, <2>2
<1>11. NothingDangles'
   BY DEF IndInv, NothingDangles, Launch, callVars
<1>12. EpollAlone'
   BY DEF IndInv, EpollAlone, Launch, callVars, Epoll
<1>13. AtAQueue'
   BY <1>1, <1>7 DEF IndInv, AtAQueue, Launch
<1> QED BY <1>6, <1>8, <1>9, <1>10, <1>11, <1>12, <1>13 DEF IndInv

LEMMA DispatchDoneInv == IndInv /\ DispatchDone => IndInv'
<1> SUFFICES ASSUME IndInv, DispatchDone PROVE IndInv'
   OBVIOUS
<1>1. Plan' = Plan /\ Workers' = Workers /\ Odd' = Odd
   BY PlanFixed DEF DispatchDone
<1>2. TypeOK'
   BY <1>1 DEF IndInv, TypeOK, DispatchDone, callVars
<1>3. ThreadsKnown' /\ AtAQueue'
   BY WorkersAsTheyWere DEF DispatchDone
<1>4. JoinedAreGone' /\ ResourcesThere' /\ NothingDangles' /\ EpollAlone'
   BY <1>1 DEF IndInv, JoinedAreGone, ResourcesThere, NothingDangles, EpollAlone, Idle,
               DispatchDone, callVars, Epoll
<1> QED BY <1>2, <1>3, <1>4 DEF IndInv

LEMMA ShutdownInv == ASSUME NEW c \in Callers PROVE IndInv /\ Shutdown(c) => IndInv'
<1> SUFFICES ASSUME IndInv, Shutdown(c) PROVE IndInv'
   OBVIOUS
<1>1. Plan' = Plan /\ Workers' = Workers /\ Odd' = Odd
   BY PlanFixed DEF Shutdown
<1>2. TypeOK'
   BY <1>1 DEF IndInv, TypeOK, Shutdown
<1>3. ThreadsKnown' /\ AtAQueue'
   BY WorkersAsTheyWere DEF Shutdown, IndInv, ThreadsKnown
<1>4. \A d \in Callers : stop'[d] = IF d = c THEN "stopping" ELSE stop[d]
   BY DEF IndInv, TypeOK, Shutdown
<1>5. JoinedAreGone'
   BY DEF IndInv, JoinedAreGone, Shutdown
<1>6. ResourcesThere'
   BY <1>1, <1>4 DEF IndInv, ResourcesThere, Shutdown, Idle
<1>7. NothingDangles'
   BY <1>4 DEF IndInv, NothingDangles, Shutdown, In
<1>8. EpollAlone'
   BY <1>1, <1>4 DEF IndInv, EpollAlone, Shutdown, In, Idle, Callers
<1> QED BY <1>2, <1>3, <1>5, <1>6, <1>7, <1>8 DEF IndInv

LEMMA EnterLoopInv == ASSUME NEW c \in Callers PROVE IndInv /\ EnterLoop(c) => IndInv'
<1> SUFFICES ASSUME IndInv, EnterLoop(c) PROVE IndInv'
   OBVIOUS
<1>1. Plan' = Plan /\ Workers' = Workers /\ Odd' = Odd
   BY PlanFixed DEF EnterLoop
<1>2. TypeOK'
   <2>1. cleared + 1 \in 1..(Len(Plan) + 1) /\ launched \in 0..launched
      BY FromTypeOK DEF IndInv
   <2>2. next' \in [Callers -> 1..(Len(Plan) + 1)] /\ upto' \in [Callers -> 0..launched]
      BY <2>1 DEF IndInv, TypeOK, EnterLoop
   <2>3. stop' \in [Callers -> {"out", "stopping", "joining", "freeing", "emptying"}]
      BY DEF IndInv, TypeOK, EnterLoop
   <2>4. UNCHANGED <<mode, pairs, pc, is_running, launched, cleared, joined, wpc, at,
                     resources, alive, late, terminated>>
      BY DEF EnterLoop
   <2> HIDE DEF Plan, Workers, Odd
   <2> QED BY <1>1, <2>2, <2>3, <2>4 DEF IndInv, TypeOK
<1>3. ThreadsKnown' /\ AtAQueue'
   BY WorkersAsTheyWere DEF EnterLoop, IndInv, ThreadsKnown
<1>4. \A d \in Callers : stop'[d] = IF d = c THEN "joining" ELSE stop[d]
   BY DEF IndInv, TypeOK, EnterLoop
<1>5. JoinedAreGone'
   BY DEF IndInv, JoinedAreGone, EnterLoop
<1>6. ResourcesThere'
   BY <1>1, <1>4 DEF IndInv, ResourcesThere, EnterLoop, Idle
<1>7. NothingDangles'
   BY <1>4 DEF IndInv, NothingDangles, EnterLoop, In
<1>8. EpollAlone'
   BY <1>1, <1>4 DEF IndInv, EpollAlone, EnterLoop, In, Idle, Callers
<1> QED BY <1>2, <1>3, <1>5, <1>6, <1>7, <1>8 DEF IndInv

LEMMA JoinInv == ASSUME NEW c \in Callers PROVE IndInv /\ Join(c) => IndInv'
<1> SUFFICES ASSUME IndInv, Join(c) PROVE IndInv'
   OBVIOUS
<1>1. Plan' = Plan /\ Workers' = Workers /\ Odd' = Odd
   BY PlanFixed DEF Join
<1>2. next[c] \in 1..launched /\ next[c] + 1 \in 1..(Len(Plan) + 1)
   <2>1. next[c] \in 1..(Len(Plan) + 1) /\ upto[c] \in 0..launched /\ next[c] <= upto[c]
      BY DEF IndInv, TypeOK, Join
   <2> QED BY <2>1, FromTypeOK DEF IndInv
<1>3. TypeOK'
   <2>1. next' \in [Callers -> 1..(Len(Plan) + 1)] /\ joined' \subseteq 1..launched
      BY <1>2 DEF IndInv, TypeOK, Join
   <2>2. UNCHANGED <<mode, pairs, pc, is_running, launched, cleared, stop, upto, wpc, at,
                     resources, alive, late, terminated>>
      BY DEF Join
   <2> HIDE DEF Plan, Workers, Odd
   <2> QED BY <1>1, <2>1, <2>2 DEF IndInv, TypeOK
<1>4. ThreadsKnown' /\ AtAQueue'
   BY WorkersAsTheyWere DEF Join, IndInv, ThreadsKnown
<1>5. JoinedAreGone'
   BY DEF IndInv, JoinedAreGone, Join
<1>6. ResourcesThere' /\ NothingDangles' /\ EpollAlone'
   BY <1>1 DEF IndInv, ResourcesThere, NothingDangles, EpollAlone, Join, Idle
<1> QED BY <1>3, <1>4, <1>5, <1>6 DEF IndInv

\* The vector is cleared only when every thread launched so far has exited.
LEMMA ClearedAreIdle ==
   ASSUME IndInv, InVector \subseteq joined
   PROVE  1..launched \subseteq joined /\ \A w \in Workers : Idle(w)
<1>1. 1..launched \subseteq joined
   <2>1. ASSUME NEW w \in 1..launched PROVE w \in joined
      <3>1. CASE w <= cleared
         <4>1. w \in 1..cleared
            BY <3>1, FromTypeOK DEF IndInv
         <4> QED BY <4>1 DEF IndInv, JoinedAreGone
      <3>2. CASE ~(w <= cleared)
         <4>1. w \in InVector
            BY <3>2, FromTypeOK DEF IndInv, InVector
         <4> QED BY <4>1
      <3> QED BY <3>1, <3>2
   <2> QED BY <2>1
<1>2. ASSUME NEW w \in Workers PROVE Idle(w)
   <2>1. CASE w > launched
      BY <2>1 DEF IndInv, ThreadsKnown, Idle
   <2>2. CASE ~(w > launched)
      <3>1. w \in 1..launched
         BY <2>2, FromTypeOK DEF IndInv
      <3> QED BY <1>1, <3>1 DEF IndInv, JoinedAreGone, Idle
   <2> QED BY <2>1, <2>2
<1> QED BY <1>1, <1>2

LEMMA ClearThreadsInv == ASSUME NEW c \in Callers PROVE IndInv /\ ClearThreads(c) => IndInv'
<1> SUFFICES ASSUME IndInv, ClearThreads(c) PROVE IndInv'
   OBVIOUS
<1>1. Plan' = Plan /\ Workers' = Workers /\ Odd' = Odd
   BY PlanFixed DEF ClearThreads
<1>2. ThreadsKnown' /\ AtAQueue'
   BY WorkersAsTheyWere DEF ClearThreads, IndInv, ThreadsKnown
<1>3. CASE InVector \subseteq joined
   <2>1. 1..launched \subseteq joined /\ \A w \in Workers : Idle(w)
      BY <1>3, ClearedAreIdle
   <2>2. stop' = [stop EXCEPT ![c] = "freeing"] /\ cleared' = launched /\ terminated' = terminated
      BY <1>3 DEF ClearThreads
   <2>3. \A d \in Callers : stop'[d] = IF d = c THEN "freeing" ELSE stop[d]
      BY <2>2 DEF IndInv, TypeOK
   <2>4. TypeOK'
      <3>1. launched \in 0..launched
         BY FromTypeOK DEF IndInv
      <3>2. stop' \in [Callers -> {"out", "stopping", "joining", "freeing", "emptying"}]
         BY <2>2 DEF IndInv, TypeOK
      <3>3. UNCHANGED <<mode, pairs, pc, is_running, launched, joined, next, upto, wpc, at,
                        resources, alive, late, terminated>>
         BY <2>2 DEF ClearThreads
      <3> HIDE DEF Plan, Workers, Odd
      <3> QED BY <1>1, <2>2, <3>1, <3>2, <3>3 DEF IndInv, TypeOK
   <2>5. JoinedAreGone'
      BY <2>1, <2>2 DEF IndInv, JoinedAreGone, ClearThreads
   <2>6. ResourcesThere'
      BY <1>1, <2>1 DEF ResourcesThere, ClearThreads, Idle
   <2>7. NothingDangles'
      BY <2>3 DEF IndInv, NothingDangles, ClearThreads, In
   <2>8. EpollAlone'
      <3>1. pc = "launching" => c # "epoll"
         BY DEF IndInv, EpollAlone, ClearThreads, In
      <3> QED BY <1>1, <2>1, <2>3, <3>1 DEF IndInv, EpollAlone, ClearThreads, Idle, Callers
   <2> QED BY <1>2, <2>4, <2>5, <2>6, <2>7, <2>8 DEF IndInv
<1>4. CASE ~(InVector \subseteq joined)
   <2>1. UNCHANGED <<mode, pairs, pc, is_running, launched, cleared, joined, stop, next, upto,
                     wpc, at, resources, alive, late>> /\ terminated' = TRUE
      BY <1>4 DEF ClearThreads
   <2> HIDE DEF Plan, Workers, Odd
   <2> QED BY <1>1, <1>2, <2>1 DEF IndInv, TypeOK, JoinedAreGone, ResourcesThere, NothingDangles,
                                   EpollAlone, Idle
<1> QED BY <1>3, <1>4

LEMMA FreeInv == ASSUME NEW c \in Callers PROVE IndInv /\ Free(c) => IndInv'
<1> SUFFICES ASSUME IndInv, Free(c) PROVE IndInv'
   OBVIOUS
<1>1. Plan' = Plan /\ Workers' = Workers /\ Odd' = Odd
   BY PlanFixed DEF Free
<1>2. TypeOK'
   BY <1>1 DEF IndInv, TypeOK, Free
<1>3. ThreadsKnown' /\ AtAQueue'
   BY WorkersAsTheyWere DEF Free, IndInv, ThreadsKnown
<1>4. \A d \in Callers : stop'[d] = IF d = c THEN "emptying" ELSE stop[d]
   BY DEF IndInv, TypeOK, Free
<1>5. JoinedAreGone'
   BY DEF IndInv, JoinedAreGone, Free
<1>6. \A w \in Workers \ late : Idle(w)
   BY DEF IndInv, ResourcesThere, Free, In
<1>7. ResourcesThere'
   BY <1>1, <1>6 DEF ResourcesThere, Free, Idle
<1>8. NothingDangles'
   BY <1>4 DEF NothingDangles
<1>9. EpollAlone'
   BY <1>1, <1>4 DEF IndInv, EpollAlone, Free, In, Idle, Callers
<1> QED BY <1>2, <1>3, <1>5, <1>7, <1>8, <1>9 DEF IndInv

LEMMA EmptyMapsInv == ASSUME NEW c \in Callers PROVE IndInv /\ EmptyMaps(c) => IndInv'
<1> SUFFICES ASSUME IndInv, EmptyMaps(c) PROVE IndInv'
   OBVIOUS
<1>1. Plan' = Plan /\ Workers' = Workers /\ Odd' = Odd
   BY PlanFixed DEF EmptyMaps
<1>2. TypeOK'
   <2>1. pc' \in {"new", "launching", "started", "down"}
      BY DEF IndInv, TypeOK, EmptyMaps
   <2>2. stop' \in [Callers -> {"out", "stopping", "joining", "freeing", "emptying"}]
      BY DEF IndInv, TypeOK, EmptyMaps
   <2>3. UNCHANGED <<mode, pairs, is_running, launched, cleared, joined, next, upto, wpc, at,
                     alive, late, terminated>> /\ resources' = {}
      BY DEF EmptyMaps
   <2> HIDE DEF Plan, Workers, Odd
   <2> QED BY <1>1, <2>1, <2>2, <2>3 DEF IndInv, TypeOK
<1>3. ThreadsKnown' /\ AtAQueue'
   BY WorkersAsTheyWere DEF EmptyMaps, IndInv, ThreadsKnown
<1>4. \A d \in Callers : stop'[d] = IF d = c THEN "out" ELSE stop[d]
   BY DEF IndInv, TypeOK, EmptyMaps
<1>5. JoinedAreGone'
   BY DEF IndInv, JoinedAreGone, EmptyMaps
<1>6. \A w \in Workers \ late : Idle(w)
   BY DEF IndInv, ResourcesThere, EmptyMaps, In
<1>7. ResourcesThere'
   BY <1>1, <1>6 DEF ResourcesThere, EmptyMaps, Idle
<1>8. NothingDangles'
   BY DEF NothingDangles, EmptyMaps
<1>9. EpollAlone'
   <2>1. c = "epoll" => \A w \in Workers : Idle(w)
      BY DEF IndInv, EpollAlone, EmptyMaps, In
   <2>2. pc' = "down" => c = "epoll" \/ pc = "down"
      BY DEF EmptyMaps
   <2>3. pc' = "launching" => stop'["epoll"] = "out"
      BY <1>4 DEF IndInv, EpollAlone, EmptyMaps, Callers
   <2>4. stop'["epoll"] \in {"freeing", "emptying"} => stop["epoll"] \in {"freeing", "emptying"}
      BY <1>4 DEF Callers
   <2>5. resources' = {} /\ wpc' = wpc
      BY DEF EmptyMaps
   <2> QED BY <1>1, <2>1, <2>2, <2>3, <2>4, <2>5 DEF IndInv, EpollAlone, Idle
<1> QED BY <1>2, <1>3, <1>5, <1>7, <1>8, <1>9 DEF IndInv

\* A thread's step: it goes on among its states, and never appears or comes back.
LEMMA WorkerInv == ASSUME NEW w \in Workers PROVE IndInv /\ Worker(w) => IndInv'
<1> SUFFICES ASSUME IndInv, Worker(w) PROVE IndInv'
   OBVIOUS
<1>1. UNCHANGED ownerVars /\ terminated' = terminated
   BY DEF Worker, WorkerBegins, WorkerChecks, WorkerServes
<1>2. Plan' = Plan /\ Workers' = Workers /\ Odd' = Odd
   BY <1>1, PlanFixed DEF ownerVars
<1>3. /\ wpc \in [Workers -> {"none", "spawned", "check", "serve", "exited"}]
      /\ at \in [Workers -> Nat] /\ Len(Plan[w]) \in Nat
   BY FromTypeOK DEF IndInv, TypeOK
<1>4. ~Idle(w)
   BY DEF Worker, WorkerBegins, WorkerChecks, WorkerServes, Idle, Does
<1>5. /\ wpc' \in [Workers -> {"none", "spawned", "check", "serve", "exited"}]
      /\ wpc'[w] # "none" /\ \A v \in Workers : v # w => wpc'[v] = wpc[v]
   BY <1>3, <1>4 DEF Worker, WorkerBegins, WorkerChecks, WorkerServes, Idle
<1>6. /\ at' \in [Workers -> Nat]
      /\ \A v \in Workers : v # w => at'[v] = at[v]
   BY <1>3 DEF Worker, WorkerBegins, WorkerChecks, WorkerServes
<1>7. wpc'[w] = "serve" => at'[w] \in 1..Len(Plan[w])
   <2>1. CASE WorkerBegins(w)
      BY <1>3, <2>1 DEF WorkerBegins
   <2>2. CASE WorkerChecks(w)
      BY <1>3, <2>2 DEF WorkerChecks
   <2>3. CASE WorkerServes(w)
      <3>1. at[w] \in 1..Len(Plan[w])
         BY <2>3 DEF IndInv, AtAQueue, WorkerServes, Does
      <3> QED BY <1>3, <2>3, <3>1 DEF WorkerServes
   <2> QED BY <2>1, <2>2, <2>3 DEF Worker
<1>8. TypeOK'
   <2>1. is_running' \in BOOLEAN
      BY DEF IndInv, TypeOK, Worker, WorkerBegins, WorkerChecks, WorkerServes
   <2> HIDE DEF Plan, Workers, Odd
   <2> QED BY <1>1, <1>2, <1>5, <1>6, <2>1 DEF IndInv, TypeOK, ownerVars, callVars
<1>9. ThreadsKnown'
   <2>1. wpc[w] # "none"
      BY <1>4 DEF Idle
   <2>2. \A v \in Workers : wpc'[v] = "none" <=> wpc[v] = "none"
      BY <1>5, <2>1
   <2> QED BY <1>1, <1>2, <2>2 DEF IndInv, ThreadsKnown, ownerVars
<1>10. JoinedAreGone'
   <2>1. ASSUME NEW v \in joined PROVE wpc'[v] = "exited"
      <3>1. wpc[v] = "exited"
         BY DEF IndInv, JoinedAreGone
      <3>2. v # w
         BY <1>4, <3>1 DEF Idle
      <3>3. v \in 1..launched
         BY DEF IndInv, TypeOK
      <3>4. v \in Workers
         BY <3>3, FromTypeOK DEF IndInv, Workers
      <3> QED BY <1>5, <3>1, <3>2, <3>4
   <2> QED BY <1>1, <2>1 DEF IndInv, JoinedAreGone, ownerVars
<1>11. ResourcesThere'
   <2> SUFFICES ASSUME NEW v \in Workers \ late, ~Idle(v)'
                PROVE  /\ Odd \subseteq resources \cap alive
                       /\ \A c \in Callers : stop[c] \notin {"freeing", "emptying"}
      BY <1>1, <1>2 DEF ResourcesThere, ownerVars, callVars
   <2>1. ~Idle(v)
      BY <1>4, <1>5 DEF Idle
   <2> QED BY <2>1 DEF IndInv, ResourcesThere
<1>12. NothingDangles'
   BY <1>1 DEF IndInv, NothingDangles, ownerVars, callVars
<1>13. EpollAlone'
   <2>1. ~(\A v \in Workers : Idle(v))
      BY <1>4
   <2> QED BY <1>1, <2>1 DEF IndInv, EpollAlone, ownerVars, callVars
<1>14. AtAQueue'
   BY <1>2, <1>5, <1>6, <1>7 DEF IndInv, AtAQueue
<1> QED BY <1>8, <1>9, <1>10, <1>11, <1>12, <1>13, <1>14 DEF IndInv

\* Steps that leave everything but the fate of the process alone.
LEMMA NothingInv ==
   ASSUME IndInv, UNCHANGED <<ownerVars, is_running, wpc, at>>, terminated' \in BOOLEAN
   PROVE  IndInv'
<1>1. Plan' = Plan /\ Workers' = Workers /\ Odd' = Odd
   BY PlanFixed DEF ownerVars
<1>2. ThreadsKnown' /\ AtAQueue'
   BY WorkersAsTheyWere DEF ownerVars, IndInv, ThreadsKnown
<1> HIDE DEF Plan, Workers, Odd
<1>3. TypeOK'
   BY <1>1 DEF IndInv, TypeOK, ownerVars, callVars
<1>4. JoinedAreGone' /\ ResourcesThere' /\ NothingDangles' /\ EpollAlone'
   BY <1>1 DEF IndInv, JoinedAreGone, ResourcesThere, NothingDangles, EpollAlone, Idle,
               ownerVars, callVars
<1> QED BY <1>2, <1>3, <1>4 DEF IndInv

LEMMA StepInv == IndInv /\ [Next]_vars => IndInv'
<1> SUFFICES ASSUME IndInv, [Next]_vars PROVE IndInv'
   OBVIOUS
<1>1. CASE UNCHANGED vars
   <2>1. terminated' \in BOOLEAN
      BY <1>1 DEF IndInv, TypeOK, vars
   <2> QED BY <1>1, <2>1, NothingInv DEF vars
<1>2. CASE RaceCrash
   BY <1>2, NothingInv DEF RaceCrash
<1>3. CASE Start \/ Launch \/ DispatchDone
   BY <1>3, StartInv, LaunchInv, DispatchDoneInv
<1>4. ASSUME NEW c \in Callers, Shutdown(c) \/ GoesOn(c) PROVE IndInv'
   BY <1>4, ShutdownInv, EnterLoopInv, JoinInv, ClearThreadsInv, FreeInv, EmptyMapsInv
   DEF GoesOn
<1>5. CASE \E w \in Workers : Worker(w)
   BY <1>5, WorkerInv
<1> QED BY <1>1, <1>2, <1>3, <1>4, <1>5 DEF Next

LEMMA Invariance == Spec => []IndInv
BY InitInv, StepInv, PTL DEF Spec

-----------------------------------------------------------------------------
\* Every variable of the handler keeps to its type.
THEOREM TypeCorrect == Spec => []TypeOK
<1>1. IndInv => TypeOK
   BY DEF IndInv
<1> QED BY <1>1, Invariance, PTL

\* No worker touches a mempool or a ring after a shutdown has freed it, whichever thread
\* calls shutdown, how often and when, except the workers that are launched after main's
\* shutdown, called within start, has cleared the vector.
THEOREM SafeFree == Spec => []NoUseAfterFree
<1>1. IndInv => NoUseAfterFree
   <2> SUFFICES ASSUME IndInv, NEW w \in Workers \ late, wpc[w] = "serve"
                PROVE  HasPool(w)
      BY DEF NoUseAfterFree
   <2>1. at[w] \in 1..Len(Plan[w])
      BY DEF IndInv, AtAQueue
   <2>2. RingOf(Queue(w)) \in Odd
      BY <2>1, PlanRings, FromTypeOK DEF IndInv, Queue
   <2>3. Odd \subseteq resources \cap alive
      BY DEF IndInv, ResourcesThere, Idle
   <2> QED BY <2>2, <2>3 DEF HasPool
<1> QED BY <1>1, Invariance, PTL

\* The maps hold nothing that was freed, between the clearings of any number of shutdowns.
THEOREM FreedOnce == Spec => []NothingDangles
<1>1. IndInv => NothingDangles
   BY DEF IndInv
<1> QED BY <1>1, Invariance, PTL

\* When the epoll worker's shutdown has returned, no worker is left, late ones included,
\* and the maps are empty, whatever main did in the meantime: so Ports and Vtb may take
\* such a shutdown as one step, when it ends.
THEOREM DownIsIdle ==
   Spec => [](pc = "down" => resources = {} /\ \A w \in Workers : wpc[w] \in {"none", "exited"})
<1>1. IndInv => (pc = "down" => resources = {} /\ \A w \in Workers : wpc[w] \in {"none", "exited"})
   BY DEF IndInv, EpollAlone, Idle
<1> QED BY <1>1, Invariance, PTL

\* A shutdown that finds no thread before its first statement, and dispatch done, cannot
\* be undone: no worker sets is_running_ again until the joins are through or the process
\* is gone.  (One that finds such a thread can, see ShutdownStops.)
THEOREM StopIsFinal ==
   ASSUME NEW c \in Callers
   PROVE  Spec => [][/\ stop[c] \in {"stopping", "joining"} /\ ~is_running
                     /\ pc \in {"started", "down"} /\ \A w \in Workers : wpc[w] # "spawned"
                     => \/ stop'[c] = "freeing" \/ terminated'
                        \/ /\ stop'[c] \in {"stopping", "joining"} /\ ~is_running'
                           /\ pc' \in {"started", "down"} /\ \A w \in Workers' : wpc'[w] # "spawned"]_vars
<1> DEFINE Stopping == /\ stop[c] \in {"stopping", "joining"} /\ ~is_running
                       /\ pc \in {"started", "down"} /\ \A w \in Workers : wpc[w] # "spawned"
           Stays == /\ stop'[c] \in {"stopping", "joining"} /\ ~is_running'
                    /\ pc' \in {"started", "down"} /\ \A w \in Workers' : wpc'[w] # "spawned"
           Stopped == stop'[c] = "freeing" \/ terminated' \/ Stays
<1>1. ASSUME IndInv, Next, Stopping PROVE Stopped
   <2>1. /\ wpc \in [Workers -> {"none", "spawned", "check", "serve", "exited"}]
         /\ stop \in [Callers -> {"out", "stopping", "joining", "freeing", "emptying"}]
      BY <1>1 DEF IndInv, TypeOK
   <2>2. UNCHANGED <<mode, pairs>>
      BY <1>1 DEF Next, Start, Launch, DispatchDone, RaceCrash, Shutdown, GoesOn, EnterLoop, Join,
                  ClearThreads, Free, EmptyMaps, Worker, WorkerBegins, WorkerChecks, WorkerServes,
                  ownerVars
   <2>3. Workers' = Workers
      BY <2>2, PlanFixed
   <2>4. CASE Start \/ Launch \/ DispatchDone \/ RaceCrash
      BY <1>1, <2>4 DEF Start, Launch, DispatchDone, RaceCrash, Epoll
   <2>5. ASSUME NEW d \in Callers, Shutdown(d) \/ GoesOn(d) PROVE Stopped
      <3>1. wpc' = wpc /\ (is_running' = is_running \/ is_running' = FALSE)
         BY <2>5 DEF Shutdown, GoesOn, EnterLoop, Join, ClearThreads, Free, EmptyMaps
      <3>2. pc' \in {"started", "down"}
         BY <1>1, <2>5 DEF Shutdown, GoesOn, EnterLoop, Join, ClearThreads, Free, EmptyMaps
      <3>3. stop'[c] \in {"stopping", "joining", "freeing"}
         BY <1>1, <2>1, <2>5
         DEF Shutdown, GoesOn, EnterLoop, Join, ClearThreads, Free, EmptyMaps, In
      <3> QED BY <1>1, <2>3, <3>1, <3>2, <3>3
   <2>6. ASSUME NEW w \in Workers, Worker(w) PROVE Stopped
      <3>1. WorkerChecks(w) \/ WorkerServes(w)
         BY <1>1, <2>6 DEF Worker, WorkerBegins, Does
      <3>2. pc' = pc /\ is_running' = is_running /\ stop' = stop
         BY <3>1 DEF WorkerChecks, WorkerServes, ownerVars, callVars
      <3>3. \A u \in Workers : wpc'[u] # "spawned"
         BY <1>1, <2>1, <3>1 DEF WorkerChecks, WorkerServes
      <3> QED BY <1>1, <2>3, <3>2, <3>3
   <2> QED BY <1>1, <2>4, <2>5, <2>6 DEF Next
<1>2. IndInv /\ [Next]_vars => [Stopping => Stopped]_vars
   BY <1>1
<1> QED BY <1>2, Invariance, PTL DEF Spec

\* Each ring has one producer and one consumer, in every thread mode.
THEOREM SingleProducerSingleConsumer == Spec => []OneProducerOneConsumer
<1>1. IndInv => OneProducerOneConsumer
   <2> SUFFICES ASSUME IndInv, NEW v \in Workers, NEW w \in Workers, v # w,
                       wpc[v] = "serve", wpc[w] = "serve"
                PROVE  Queue(v) # Queue(w)
      BY DEF OneProducerOneConsumer
   <2>1. at[v] \in 1..Len(Plan[v]) /\ at[w] \in 1..Len(Plan[w])
      BY DEF IndInv, AtAQueue
   <2> QED BY <2>1, PlanDisjoint, FromTypeOK DEF IndInv, Queue
<1> QED BY <1>1, Invariance, PTL

\* A started handler's threads are given every queue of its device, in every thread mode.
THEOREM Coverage == Spec => []AllServed
<1>1. IndInv => AllServed
   <2> SUFFICES ASSUME IndInv, pc = "started", NEW q \in 0..(2 * pairs - 1)
                PROVE  \E w \in 1..launched : \E i \in 1..Len(Plan[w]) : Plan[w][i] = q
      BY DEF AllServed
   <2>1. 1..launched = Workers
      BY DEF IndInv, ThreadsKnown, Workers
   <2> QED BY <2>1, PlanCovers, FromTypeOK DEF IndInv
<1> QED BY <1>1, Invariance, PTL
=============================================================================
