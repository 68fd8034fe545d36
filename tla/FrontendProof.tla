----------------------------- MODULE FrontendProof -----------------------------
(***************************************************************************)
(* Proofs about Frontend, for any number of ports and any sizes of rings,  *)
(* bursts and pool.                                                        *)
(***************************************************************************)
EXTENDS Frontend, WellFoundedInduction, TLAPS

RingsOK == \A f \in {parked, rx_free, rx_used, tx_pending, tx_used} : f \in [Ports -> Nat]

\* What a port can hold: the driver never gives a ring more than its descriptors.
RingBounds ==
   \A p \in Ports : /\ parked[p] <= (Queues - 1) * Descs
                     /\ rx_free[p] + rx_used[p] <= Descs
                     /\ tx_pending[p] + tx_used[p] <= Descs

\* Where the thread is decides what it holds and which port it serves; a burst
\* is only short when it emptied the pool, and a port has nothing before its setup.
Phases ==
   /\ pc \in {"alloc", "tx", "free", "rx"} => port \in Ports
   /\ pc # "free" => sent = 0
   /\ pc \notin {"tx", "free", "crashed"} => pkts = 0
   /\ pc = "tx" /\ pkts < Burst => pool = 0
   /\ pc = "setup" => \A p \in Ports : p >= port => InRings(p) = 0

IndInv == TypeOK /\ MbufsAccounted /\ RingBounds /\ Phases /\ NeverSendsNull

-----------------------------------------------------------------------------
\* Every nonempty set of natural numbers has a least element: the induction of
\* this module, by smallest counterexample.
LEMMA LeastElement ==
   ASSUME NEW T, T \subseteq Nat, T # {}
   PROVE  \E m \in T : \A k \in T : m <= k
<1> DEFINE R == OpToRel(<, Nat)
<1>1. \A x, y \in Nat : x < y => <<x, y>> \in R
   BY DEF OpToRel
<1>2. IsWellFoundedOn(R, Nat)
   BY NatLessThanWellFounded
<1> HIDE DEF R
<1>3. PICK m \in T : \A k \in T : ~(<<k, m>> \in R)
   BY <1>2, WFMin
<1>4. \A k \in T : ~(k < m)
   BY <1>1, <1>3
<1> QED BY <1>3, <1>4

\* f holds the sums of the first elements of g.
IsSum(f, g, n) ==
   f = [k \in 0..n |-> IF k = 0 THEN 0 ELSE f[k - 1] + g[k - 1]]

LEMMA SumExists ==
   ASSUME NEW g, NEW n \in Nat
   PROVE  \E f : IsSum(f, g, n)
<1> DEFINE T == {k \in Nat : ~ \E f : IsSum(f, g, k)}
<1> SUFFICES T = {}
   OBVIOUS
<1> SUFFICES ASSUME T # {} PROVE FALSE
   OBVIOUS
<1>1. PICK m \in T : \A k \in T : m <= k
   BY LeastElement
<1>2. m # 0
   <2> DEFINE f == [k \in 0..0 |-> 0]
   <2>1. IsSum(f, g, 0)
      BY DEF IsSum
   <2> QED BY <1>1, <2>1
<1>3. m - 1 \in Nat /\ m - 1 \notin T
   BY <1>1, <1>2
<1>4. PICK f : IsSum(f, g, m - 1)
   BY <1>3
<1> DEFINE h == [k \in 0..m |-> IF k = m THEN f[m - 1] + g[m - 1] ELSE f[k]]
<1>5. IsSum(h, g, m)
   <2>1. \A k \in 0..m : h[k] = IF k = 0 THEN 0 ELSE h[k - 1] + g[k - 1]
      <3> SUFFICES ASSUME NEW k \in 0..m
                   PROVE  h[k] = IF k = 0 THEN 0 ELSE h[k - 1] + g[k - 1]
         OBVIOUS
      <3>1. \A j \in 0..(m - 1) : f[j] = IF j = 0 THEN 0 ELSE f[j - 1] + g[j - 1]
         BY <1>4 DEF IsSum
      <3>2. CASE k = m
         BY <1>2, <1>3, <3>2
      <3>3. CASE k # m
         BY <1>2, <1>3, <3>1, <3>3
      <3> QED BY <3>2, <3>3
   <2> HIDE DEF h
   <2>2. h = [k \in 0..m |-> h[k]]
      BY DEF h
   <2> QED BY <2>1, <2>2 DEF IsSum
<1> QED BY <1>1, <1>5

\* What the definition says of a sum, element by element.
LEMMA SumStep ==
   ASSUME NEW f, NEW g, NEW n \in Nat, IsSum(f, g, n)
   PROVE  /\ f[0] = 0
          /\ \A k \in 1..n : k - 1 \in 0..(n - 1) /\ f[k] = f[k - 1] + g[k - 1]
<1>1. \A k \in 0..n : f[k] = IF k = 0 THEN 0 ELSE f[k - 1] + g[k - 1]
   BY DEF IsSum
<1>2. 0 \in 0..n /\ \A k \in 1..n : k \in 0..n /\ k # 0 /\ k - 1 \in 0..(n - 1)
   OBVIOUS
<1> QED BY <1>1, <1>2

LEMMA SumType ==
   ASSUME NEW n \in Nat, NEW g \in [0..(n - 1) -> Nat], NEW f, IsSum(f, g, n)
   PROVE  \A k \in 0..n : f[k] \in Nat
<1>0. /\ f[0] = 0
      /\ \A k \in 1..n : k - 1 \in 0..(n - 1) /\ f[k] = f[k - 1] + g[k - 1]
   BY SumStep
<1> DEFINE T == {k \in 0..n : f[k] \notin Nat}
<1> SUFFICES ASSUME T # {} PROVE FALSE
   OBVIOUS
<1>1. T \subseteq Nat
   OBVIOUS
<1>2. PICK m \in T : \A k \in T : m <= k
   <2> HIDE DEF T
   <2> QED BY <1>1, LeastElement
<1>4. m \in 1..n
   BY <1>2, <1>0
<1>5. m - 1 \in 0..n /\ m - 1 \notin T /\ m - 1 \in 0..(n - 1)
   BY <1>2, <1>4
<1>6. f[m - 1] \in Nat /\ g[m - 1] \in Nat
   BY <1>5
<1>7. f[m] = f[m - 1] + g[m - 1]
   BY <1>0, <1>4
<1> QED BY <1>2, <1>6, <1>7

\* The sums of n numbers; the numbers h are g but for d more at p.
Sums(f, g, n) == n \in Nat /\ g \in [0..(n - 1) -> Nat] /\ IsSum(f, g, n)
DiffersAt(g, h, n, p, d) ==
   /\ p \in 0..(n - 1) /\ d \in Int
   /\ \A q \in 0..(n - 1) : h[q] = IF q = p THEN g[q] + d ELSE g[q]

\* A change of one element is a change of every sum behind it.
LEMMA SumChanges ==
   ASSUME NEW n, NEW g, NEW h, NEW p, NEW d, NEW f, NEW e,
          Sums(f, g, n), Sums(e, h, n), DiffersAt(g, h, n, p, d)
   PROVE  e[n] = f[n] + d
<1>1. /\ n \in Nat /\ p \in 0..(n - 1) /\ d \in Int
      /\ g \in [0..(n - 1) -> Nat] /\ h \in [0..(n - 1) -> Nat]
      /\ \A q \in 0..(n - 1) : h[q] = IF q = p THEN g[q] + d ELSE g[q]
      /\ IsSum(f, g, n) /\ IsSum(e, h, n)
   BY DEF Sums, DiffersAt
<1>2. /\ f[0] = 0
      /\ \A k \in 1..n : k - 1 \in 0..(n - 1) /\ f[k] = f[k - 1] + g[k - 1]
   BY <1>1, SumStep
<1>3. /\ e[0] = 0
      /\ \A k \in 1..n : k - 1 \in 0..(n - 1) /\ e[k] = e[k - 1] + h[k - 1]
   BY <1>1, SumStep
<1>4. \A k \in 0..n : f[k] \in Nat
   BY <1>1, SumType
<1> DEFINE T == {k \in 0..n : ~(e[k] = f[k] + IF p < k THEN d ELSE 0)}
<1> SUFFICES ASSUME T # {} PROVE FALSE
   <2>1. n \in 0..n /\ p < n
      BY <1>1
   <2> QED BY <2>1
<1>5. T \subseteq Nat
   BY <1>1
<1>6. PICK m \in T : \A k \in T : m <= k
   <2> HIDE DEF T
   <2> QED BY <1>5, LeastElement
<1>7. m \in 0..n /\ ~(e[m] = f[m] + IF p < m THEN d ELSE 0)
   BY <1>6
<1>8. m # 0
   <2>1. ~(p < 0)
      BY <1>1
   <2> QED BY <1>2, <1>3, <1>7, <2>1
<1>9. m - 1 \in 0..n /\ m - 1 \in 0..(n - 1) /\ m \in 1..n /\ m - 1 < m
   BY <1>1, <1>7, <1>8
<1>10. m - 1 \notin T
   BY <1>6, <1>9
<1>11. e[m - 1] = f[m - 1] + IF p < m - 1 THEN d ELSE 0
   BY <1>9, <1>10
<1>12. f[m] = f[m - 1] + g[m - 1] /\ e[m] = e[m - 1] + h[m - 1]
   BY <1>2, <1>3, <1>9
<1>13. f[m - 1] \in Nat /\ g[m - 1] \in Nat
   BY <1>1, <1>4, <1>9
<1>14. h[m - 1] = IF m - 1 = p THEN g[m - 1] + d ELSE g[m - 1]
   BY <1>1, <1>9
<1> HIDE DEF T
<1>15. CASE m - 1 = p
   BY <1>1, <1>7, <1>11, <1>12, <1>13, <1>14, <1>15
<1>16. CASE m - 1 # p
   <2>1. p < m <=> p < m - 1
      BY <1>1, <1>7, <1>16
   <2> QED BY <1>1, <1>7, <1>11, <1>12, <1>13, <1>14, <1>16, <2>1
<1> QED BY <1>15, <1>16

\* Elements of at most b make sums of at most b apiece.
LEMMA SumBound ==
   ASSUME NEW n \in Nat, NEW g \in [0..(n - 1) -> Nat], NEW b \in Nat,
          \A q \in 0..(n - 1) : g[q] <= b,
          NEW f, IsSum(f, g, n)
   PROVE  f[n] <= n * b
<1> DEFINE T == {k \in 0..n : ~(f[k] <= k * b)}
<1> SUFFICES ASSUME T # {} PROVE FALSE
   OBVIOUS
<1>1. T \subseteq Nat
   OBVIOUS
<1>2. PICK m \in T : \A k \in T : m <= k
   <2> HIDE DEF T
   <2> QED BY <1>1, LeastElement
<1>3. /\ f[0] = 0
      /\ \A k \in 1..n : k - 1 \in 0..(n - 1) /\ f[k] = f[k - 1] + g[k - 1]
   BY SumStep
<1>4. m \in 1..n
   <2>1. 0 * b = 0
      OBVIOUS
   <2> QED BY <1>2, <1>3, <2>1
<1>5. m - 1 \in 0..n /\ m - 1 \notin T /\ m - 1 \in 0..(n - 1)
   BY <1>2, <1>4
<1>6. f[m - 1] <= (m - 1) * b /\ g[m - 1] <= b
   BY <1>5
<1>7. \A k \in 0..n : f[k] \in Nat
   BY SumType
<1>8. f[m] = f[m - 1] + g[m - 1] /\ f[m - 1] \in Nat /\ g[m - 1] \in Nat
   BY <1>3, <1>4, <1>5, <1>7
<1>9. m * b = (m - 1) * b + b /\ (m - 1) * b \in Int
   BY <1>4
<1>10. f[m] <= m * b
   BY <1>6, <1>8, <1>9
<1> QED BY <1>2, <1>10

-----------------------------------------------------------------------------
\* The sum of MbufsAccounted.

Stored == [p \in 0..(NofPorts - 1) |-> InRings(p)]

LEMMA BelowIsSum == IsSum(InRingsBelow, Stored, NofPorts)
<1> DEFINE P(f) == f = [k \in 0..NofPorts |->
                          IF k = 0 THEN 0 ELSE f[k - 1] + InRings(k - 1)]
<1>1. NofPorts \in Nat
   BY FrontendAssumption
<1>2. \A f : P(f) <=> IsSum(f, Stored, NofPorts)
   <2> SUFFICES ASSUME NEW f
                PROVE  P(f) <=> IsSum(f, Stored, NofPorts)
      OBVIOUS
   <2>1. \A k \in 0..NofPorts : k # 0 => Stored[k - 1] = InRings(k - 1)
      <3>1. \A k \in 0..NofPorts : k # 0 => k - 1 \in 0..(NofPorts - 1)
         BY <1>1
      <3> QED BY <3>1 DEF Stored
   <2> HIDE DEF Stored
   <2> QED BY <2>1 DEF IsSum
<1>3. \E f : IsSum(f, Stored, NofPorts)
   BY <1>1, SumExists
<1>4. \E f : P(f)
   BY <1>2, <1>3
<1>5. InRingsBelow = CHOOSE f : P(f)
   BY DEF InRingsBelow
<1> HIDE DEF P
<1>6. P(CHOOSE f : P(f))
   BY <1>4
<1> QED BY <1>2, <1>5, <1>6

LEMMA StoredType == RingsOK => Stored \in [0..(NofPorts - 1) -> Nat]
BY DEF RingsOK, Stored, InRings, Ports

LEMMA BelowType == RingsOK => InRingsBelow[NofPorts] \in Nat
<1>1. NofPorts \in Nat /\ NofPorts \in 0..NofPorts
   BY FrontendAssumption
<1> QED BY <1>1, BelowIsSum, StoredType, SumType

LEMMA BelowIsSumNext == IsSum(InRingsBelow, Stored, NofPorts)'
BY BelowIsSum, PTL

LEMMA StoredTypeNext == RingsOK' => (Stored \in [0..(NofPorts - 1) -> Nat])'
BY StoredType, PTL

LEMMA BelowTypeNext == RingsOK' => (InRingsBelow[NofPorts] \in Nat)'
BY BelowType, PTL

\* The sum changes as the rings of one port do.
LEMMA BelowChanges ==
   ASSUME RingsOK, RingsOK', NEW p \in Ports, NEW d \in Int,
          \A q \in Ports : InRings(q)' = IF q = p THEN InRings(q) + d ELSE InRings(q)
   PROVE  InRingsBelow[NofPorts]' = InRingsBelow[NofPorts] + d
<1>1. NofPorts \in Nat /\ NofPorts \in 0..NofPorts /\ p \in Nat /\ p < NofPorts
   BY FrontendAssumption DEF Ports
<1>2. IsSum(InRingsBelow, Stored, NofPorts) /\ IsSum(InRingsBelow', Stored', NofPorts)
   BY BelowIsSum, BelowIsSumNext
<1>3. /\ Stored \in [0..(NofPorts - 1) -> Nat]
      /\ Stored' \in [0..(NofPorts - 1) -> Nat]
   BY StoredType, StoredTypeNext
<1>4. Sums(InRingsBelow, Stored, NofPorts) /\ Sums(InRingsBelow', Stored', NofPorts)
   BY <1>1, <1>2, <1>3 DEF Sums
<1>5. DiffersAt(Stored, Stored', NofPorts, p, d)
   BY DEF Stored, Ports, DiffersAt
<1> QED BY <1>4, <1>5, SumChanges

LEMMA BelowUnchanged == UNCHANGED rings => InRingsBelow' = InRingsBelow
BY DEF rings, InRingsBelow, InRings

\* All rings together hold no more than their descriptors.
LEMMA BelowBound ==
   RingsOK /\ RingBounds => InRingsBelow[NofPorts] <= NofPorts * (Queues * Descs + Descs)
<1> SUFFICES ASSUME RingsOK, RingBounds
             PROVE  InRingsBelow[NofPorts] <= NofPorts * (Queues * Descs + Descs)
   OBVIOUS
<1>1. NofPorts \in Nat /\ Queues \in Nat \ {0} /\ Descs \in Nat \ {0}
   BY FrontendAssumption
<1>2. (Queues - 1) * Descs + Descs = Queues * Descs
   BY <1>1
<1>3. Queues * Descs \in Nat /\ (Queues - 1) * Descs \in Nat
   BY <1>1
<1> DEFINE all == Queues * Descs
           others == (Queues - 1) * Descs
<1> HIDE DEF all, others
<1>4. \A p \in Ports : InRings(p) <= all + Descs
   <2>1. TAKE p \in Ports
   <2>2. /\ parked[p] \in Nat /\ rx_free[p] \in Nat /\ rx_used[p] \in Nat
         /\ tx_pending[p] \in Nat /\ tx_used[p] \in Nat
      BY <2>1 DEF RingsOK
   <2>3. parked[p] <= others /\ rx_free[p] + rx_used[p] <= Descs
         /\ tx_pending[p] + tx_used[p] <= Descs
      BY <2>1 DEF RingBounds, others
   <2>4. others \in Nat /\ all \in Nat /\ others + Descs = all
      BY <1>2, <1>3 DEF all, others
   <2> QED BY <1>1, <2>2, <2>3, <2>4 DEF InRings
<1>5. all + Descs \in Nat
   BY <1>1, <1>3 DEF all
<1>6. \A p \in 0..(NofPorts - 1) : Stored[p] <= all + Descs
   BY <1>4 DEF Stored, Ports
<1>7. InRingsBelow[NofPorts] <= NofPorts * (all + Descs)
   BY <1>1, <1>5, <1>6, BelowIsSum, StoredType, SumBound
<1> QED BY <1>7 DEF all

-----------------------------------------------------------------------------
\* The invariant holds at first, and each step keeps it.

LEMMA InvTypes ==
   IndInv => /\ RingsOK /\ line \in [Ports -> Nat]
             /\ NofPorts \in Nat /\ LineCap \in Nat /\ port \in 0..NofPorts
             /\ {Queues, Descs, Burst} \subseteq Nat \ {0}
             /\ size \in Nat /\ size \in PoolSizes /\ pool \in 0..size
             /\ pkts \in 0..Burst /\ sent \in 0..pkts /\ InRingsBelow[NofPorts] \in Nat
             /\ (Queues - 1) * Descs \in Nat
<1> SUFFICES ASSUME IndInv
             PROVE  /\ RingsOK /\ line \in [Ports -> Nat]
                    /\ size \in Nat /\ size \in PoolSizes /\ pool \in 0..size
                    /\ pkts \in 0..Burst /\ sent \in 0..pkts /\ port \in 0..NofPorts
                    /\ InRingsBelow[NofPorts] \in Nat /\ (Queues - 1) * Descs \in Nat
   BY FrontendAssumption
<1>1. Queues \in Nat \ {0} /\ Descs \in Nat \ {0}
   BY FrontendAssumption
<1>2. Queues - 1 \in Nat /\ Descs \in Nat
   BY <1>1
<1>3. (Queues - 1) * Descs \in Nat
   BY <1>2
<1>4. RingsOK /\ line \in [Ports -> Nat]
   BY DEF IndInv, TypeOK, RingsOK
<1> QED BY <1>3, <1>4, BelowType, FrontendAssumption DEF IndInv, TypeOK

\* The pool never holds more than it was made of.
LEMMA PoolInSize ==
   ASSUME RingsOK', MbufsAccounted', pool' \in Nat, size' \in Nat,
          pkts' \in Nat, sent' \in 0..pkts'
   PROVE  pool' \in 0..size'
<1>1. InRingsBelow'[NofPorts] \in Nat
   BY BelowTypeNext
<1>2. pool' + (IF pc' = "free" THEN pkts' - sent' ELSE pkts') + InRingsBelow'[NofPorts] = size'
   BY DEF MbufsAccounted
<1>3. (IF pc' = "free" THEN pkts' - sent' ELSE pkts') \in Nat
   <2>1. \A m \in Nat : \A n \in 0..m : m - n \in Nat
      OBVIOUS
   <2>2. pkts' - sent' \in Nat
      BY <2>1
   <2> QED BY <2>2
<1> DEFINE held == IF pc' = "free" THEN pkts' - sent' ELSE pkts'
<1>4. held \in Nat /\ pool' + held + InRingsBelow'[NofPorts] = size'
   BY <1>2, <1>3
<1> HIDE DEF held
<1> QED BY <1>1, <1>4

LEMMA InitInv == Init => IndInv
<1> SUFFICES ASSUME Init PROVE IndInv
   OBVIOUS
<1>1. NofPorts \in Nat /\ PoolSizes \subseteq Nat /\ Burst \in Nat \ {0}
      /\ LineCap \in Nat /\ Queues \in Nat \ {0} /\ Descs \in Nat \ {0}
   BY FrontendAssumption
<1>2. Zero \in [Ports -> Nat] /\ \A p \in Ports : Zero[p] = 0
   BY DEF Zero
<1>3. RingsOK /\ \A p \in Ports : InRings(p) = 0
   BY <1>2 DEF Init, RingsOK, InRings
<1>4. size \in Nat
   BY <1>1 DEF Init
<1>5. TypeOK
   <2>1. 0 \in 0..NofPorts /\ size \in 0..size /\ 0 \in 0..Burst /\ 0 \in 0..0
      BY <1>1, <1>4
   <2> QED BY <1>2, <2>1 DEF Init, TypeOK
<1>6. MbufsAccounted
   <2>1. \A q \in 0..(NofPorts - 1) : Stored[q] <= 0
      BY <1>3 DEF Stored, Ports
   <2>2. InRingsBelow[NofPorts] <= NofPorts * 0
      BY <1>1, <1>3, <2>1, BelowIsSum, StoredType, SumBound
   <2>3. NofPorts * 0 = 0
      BY <1>1
   <2>4. InRingsBelow[NofPorts] = 0
      BY <1>3, <2>2, <2>3, BelowType
   <2> QED BY <1>4, <2>4 DEF Init, MbufsAccounted
<1>7. RingBounds
   <2>1. (Queues - 1) * Descs \in Nat
      <3>1. Queues - 1 \in Nat /\ Descs \in Nat
         BY <1>1
      <3> QED BY <3>1
   <2> DEFINE others == (Queues - 1) * Descs
   <2>2. others \in Nat
      BY <2>1
   <2> HIDE DEF others
   <2>3. \A p \in Ports : /\ parked[p] <= others
                           /\ rx_free[p] + rx_used[p] <= Descs
                           /\ tx_pending[p] + tx_used[p] <= Descs
      BY <1>1, <1>2, <2>2 DEF Init
   <2> QED BY <2>3 DEF RingBounds, others
<1>8. Phases
   BY <1>3 DEF Init, Phases
<1>9. NeverSendsNull
   BY DEF Init, NeverSendsNull
<1> QED BY <1>5, <1>6, <1>7, <1>8, <1>9 DEF IndInv

\* A step that leaves the rings alone disturbs neither their sum nor their bounds.
LEMMA RingsUnchanged ==
   ASSUME IndInv, UNCHANGED rings
   PROVE  /\ RingsOK' /\ RingBounds' /\ InRingsBelow'[NofPorts] = InRingsBelow[NofPorts]
          /\ \A p \in Ports : InRings(p)' = InRings(p)
<1>1. UNCHANGED <<parked, rx_free, rx_used, tx_pending, tx_used>>
   BY DEF rings
<1> QED BY <1>1, InvTypes, BelowUnchanged DEF RingsOK, RingBounds, InRings, IndInv

LEMMA ControlInv == IndInv /\ (SetupDone \/ While \/ StopDone \/ CtrlC) => IndInv'
<1> SUFFICES ASSUME IndInv, SetupDone \/ While \/ StopDone \/ CtrlC PROVE IndInv'
   OBVIOUS
<1>1. /\ UNCHANGED <<size, pool, pkts, sent, rings, line>>
      /\ pc \notin {"tx", "free", "crashed"} \/ pc' = pc
      /\ pc' \notin {"tx", "free", "setup", "crashed"} \/ (pc' = pc /\ port' = port)
   BY DEF SetupDone, While, StopDone, CtrlC
<1>2. /\ RingsOK' /\ RingBounds' /\ InRingsBelow'[NofPorts] = InRingsBelow[NofPorts]
      /\ \A p \in Ports : InRings(p)' = InRings(p)
   BY <1>1, RingsUnchanged
<1>3. TypeOK'
   <2>1. port' \in 0..NofPorts
      <3>1. port' = 0 \/ port' = port
         BY DEF SetupDone, While, StopDone, CtrlC
      <3> QED BY <3>1, InvTypes
   <2>2. force_quit' \in BOOLEAN
      <3>1. force_quit' = force_quit \/ force_quit' = TRUE
         BY DEF SetupDone, While, StopDone, CtrlC
      <3> QED BY <3>1 DEF IndInv, TypeOK
   <2>3. pc' \in {"setup", "while", "alloc", "tx", "free", "rx", "stop", "done",
                  "failed", "crashed"}
      BY DEF IndInv, TypeOK, SetupDone, While, StopDone, CtrlC
   <2> QED BY <1>1, <1>2, <2>1, <2>2, <2>3, InvTypes DEF TypeOK, RingsOK
<1>4. MbufsAccounted'
   <2>1. pc' = "free" <=> pc = "free"
      BY DEF SetupDone, While, StopDone, CtrlC
   <2> QED BY <1>1, <1>2, <2>1 DEF IndInv, MbufsAccounted
<1>5. Phases'
   <2>1. pc' \in {"alloc", "tx", "free", "rx"} => port' \in Ports
      BY InvTypes DEF IndInv, Phases, Ports, SetupDone, While, StopDone, CtrlC
   <2>2. pc' = "setup" => \A p \in Ports : p >= port' => InRings(p)' = 0
      BY <1>1, <1>2 DEF IndInv, Phases
   <2> QED BY <1>1, <2>1, <2>2 DEF IndInv, Phases
<1>6. NeverSendsNull'
   BY <1>1 DEF IndInv, NeverSendsNull
<1> QED BY <1>2, <1>3, <1>4, <1>5, <1>6 DEF IndInv

LEMMA LoseInv == ASSUME IndInv, NEW p \in Ports, Lose(p) PROVE IndInv'
<1>1. UNCHANGED <<pc, port, force_quit, size, pool, pkts, sent, rings>>
   BY DEF Lose
<1>2. /\ RingsOK' /\ RingBounds' /\ InRingsBelow'[NofPorts] = InRingsBelow[NofPorts]
      /\ \A q \in Ports : InRings(q)' = InRings(q)
   BY <1>1, RingsUnchanged
<1>3. line' \in [Ports -> Nat]
   <2>1. line \in [Ports -> Nat] /\ line[p] > 0
      BY InvTypes DEF Lose
   <2>2. line[p] + (-1) \in Nat
      BY <2>1
   <2>3. Add(line, p, -1) \in [Ports -> Nat]
      BY <2>1, <2>2 DEF Add
   <2> QED BY <2>3 DEF Lose
<1>4. TypeOK'
   BY <1>1, <1>2, <1>3 DEF IndInv, TypeOK, RingsOK
<1> QED BY <1>1, <1>2, <1>4 DEF IndInv, MbufsAccounted, Phases, NeverSendsNull

\* A burst takes what the pool has, and leaves it empty if that is less.
LEMMA AllocInv == IndInv /\ Alloc => IndInv'
<1> SUFFICES ASSUME IndInv, Alloc PROVE IndInv'
   OBVIOUS
<1>1. /\ pc = "alloc" /\ pc' = "tx" /\ pkts' = LeastOf(Burst, pool) /\ pool' = pool - pkts'
      /\ UNCHANGED <<port, force_quit, size, sent, rings, line>>
   BY DEF Alloc
<1>2. /\ RingsOK' /\ RingBounds' /\ InRingsBelow'[NofPorts] = InRingsBelow[NofPorts]
   BY <1>1, RingsUnchanged
<1>3. sent = 0 /\ pkts = 0 /\ port \in Ports
   BY <1>1 DEF IndInv, Phases
<1>4. Burst \in Nat /\ pool \in 0..size /\ size \in Nat /\ InRingsBelow[NofPorts] \in Nat
   BY InvTypes
<1>5. /\ pkts' \in 0..Burst /\ pool' \in 0..size /\ pool' + pkts' = pool
      /\ pkts' < Burst => pool' = 0
   BY <1>1, <1>4 DEF LeastOf
<1>6. TypeOK'
   <2>1. 0 \in 0..pkts'
      BY <1>4, <1>5
   <2> QED BY <1>1, <1>2, <1>3, <1>5, <2>1 DEF IndInv, TypeOK, RingsOK
<1>7. MbufsAccounted'
   <2>1. pool + pkts + InRingsBelow[NofPorts] = size
      BY <1>1 DEF IndInv, MbufsAccounted
   <2>2. pool' + pkts' + InRingsBelow'[NofPorts] = size'
      BY <1>1, <1>2, <1>3, <1>4, <1>5, <2>1
   <2> QED BY <1>1, <2>2 DEF MbufsAccounted
<1>8. Phases'
   BY <1>1, <1>3, <1>5 DEF Phases
<1>9. NeverSendsNull'
   BY <1>1 DEF NeverSendsNull
<1> QED BY <1>2, <1>6, <1>7, <1>8, <1>9 DEF IndInv

LEMMA FreeUnsentInv == IndInv /\ FreeUnsent => IndInv'
<1> SUFFICES ASSUME IndInv, FreeUnsent PROVE IndInv'
   OBVIOUS
<1>1. /\ pc = "free" /\ pc' = "rx" /\ pool' = pool + (pkts - sent)
      /\ pkts' = 0 /\ sent' = 0
      /\ UNCHANGED <<port, force_quit, size, rings, line>>
   BY DEF FreeUnsent
<1>2. /\ RingsOK' /\ RingBounds' /\ InRingsBelow'[NofPorts] = InRingsBelow[NofPorts]
   BY <1>1, RingsUnchanged
<1>3. /\ Burst \in Nat /\ pool \in 0..size /\ size \in Nat /\ InRingsBelow[NofPorts] \in Nat
      /\ pkts \in Nat /\ sent \in 0..pkts
   BY InvTypes
<1>4. MbufsAccounted'
   <2>1. pool + (pkts - sent) + InRingsBelow[NofPorts] = size
      BY <1>1 DEF IndInv, MbufsAccounted
   <2>2. pool' + pkts' + InRingsBelow'[NofPorts] = size'
      BY <1>1, <1>2, <1>3, <2>1
   <2> QED BY <1>1, <2>2 DEF MbufsAccounted
<1>5. TypeOK'
   <2>1. pool' \in Nat /\ 0 \in 0..0 /\ 0 \in 0..Burst
      BY <1>1, <1>3
   <2>2. pool' \in 0..size'
      BY <1>1, <1>2, <1>3, <1>4, <2>1, PoolInSize
   <2> QED BY <1>1, <1>2, <2>1, <2>2 DEF IndInv, TypeOK, RingsOK
<1>6. Phases'
   BY <1>1 DEF IndInv, Phases
<1>7. NeverSendsNull'
   BY <1>1 DEF NeverSendsNull
<1> QED BY <1>2, <1>4, <1>5, <1>6, <1>7 DEF IndInv

-----------------------------------------------------------------------------
\* vtb moves buffers between the rings of one port.
LEMMA TakeInv == ASSUME IndInv, NEW p \in Ports, Take(p) PROVE IndInv'
<1>1. /\ tx_pending' = Add(tx_pending, p, -1) /\ tx_used' = Add(tx_used, p, 1)
      /\ line' = Add(line, p, 1) /\ tx_pending[p] > 0
      /\ UNCHANGED <<pc, port, force_quit, size, pool, pkts, sent, parked, rx_free, rx_used>>
   BY DEF Take
<1>2. /\ tx_pending \in [Ports -> Nat] /\ tx_used \in [Ports -> Nat] /\ line \in [Ports -> Nat]
      /\ parked \in [Ports -> Nat] /\ rx_free \in [Ports -> Nat] /\ rx_used \in [Ports -> Nat]
   BY InvTypes DEF RingsOK
<1>3. tx_pending[p] + (-1) \in Nat /\ tx_used[p] + 1 \in Nat /\ line[p] + 1 \in Nat
   BY <1>1, <1>2
<1>4. /\ tx_pending' \in [Ports -> Nat] /\ tx_used' \in [Ports -> Nat]
      /\ line' \in [Ports -> Nat]
      /\ \A q \in Ports :
            /\ tx_pending'[q] = IF q = p THEN tx_pending[p] + (-1) ELSE tx_pending[q]
            /\ tx_used'[q] = IF q = p THEN tx_used[p] + 1 ELSE tx_used[q]
   <2>1. /\ Add(tx_pending, p, -1) \in [Ports -> Nat]
         /\ \A q \in Ports : Add(tx_pending, p, -1)[q] = IF q = p THEN tx_pending[p] + (-1) ELSE tx_pending[q]
      BY <1>2, <1>3 DEF Add
   <2>2. /\ Add(tx_used, p, 1) \in [Ports -> Nat]
         /\ \A q \in Ports : Add(tx_used, p, 1)[q] = IF q = p THEN tx_used[p] + 1 ELSE tx_used[q]
      BY <1>2, <1>3 DEF Add
   <2>3. Add(line, p, 1) \in [Ports -> Nat]
      BY <1>2, <1>3 DEF Add
   <2> QED BY <1>1, <2>1, <2>2, <2>3
<1>5. RingsOK /\ RingsOK'
   BY <1>1, <1>2, <1>4 DEF RingsOK
<1>6. \A q \in Ports : InRings(q)' = IF q = p THEN InRings(q) + 0 ELSE InRings(q)
   BY <1>1, <1>2, <1>4 DEF InRings
<1>7. InRingsBelow'[NofPorts] = InRingsBelow[NofPorts]
   <2>1. InRingsBelow[NofPorts]' = InRingsBelow[NofPorts] + 0
      BY <1>5, <1>6, BelowChanges
   <2> QED BY <2>1, InvTypes
<1>8. RingBounds'
   <2>1. \A q \in Ports : tx_pending'[q] + tx_used'[q] = tx_pending[q] + tx_used[q]
      BY <1>2, <1>4
   <2> QED BY <1>1, <2>1 DEF IndInv, RingBounds
<1>9. TypeOK'
   BY <1>1, <1>4, <1>5 DEF IndInv, TypeOK, RingsOK
<1>10. Phases'
   <2>1. \A q \in Ports : InRings(q)' = InRings(q)
      BY <1>2, <1>6 DEF InRings
   <2> QED BY <1>1, <2>1 DEF IndInv, Phases
<1> QED BY <1>1, <1>7, <1>8, <1>9, <1>10 DEF IndInv, MbufsAccounted, NeverSendsNull

LEMMA DeliverInv == ASSUME IndInv, NEW p \in Ports, Deliver(p) PROVE IndInv'
<1>1. /\ rx_free' = Add(rx_free, p, -1) /\ rx_used' = Add(rx_used, p, 1)
      /\ line' = Add(line, p, -1) /\ rx_free[p] > 0 /\ line[p] > 0
      /\ UNCHANGED <<pc, port, force_quit, size, pool, pkts, sent, parked, tx_pending, tx_used>>
   BY DEF Deliver
<1>2. /\ tx_pending \in [Ports -> Nat] /\ tx_used \in [Ports -> Nat] /\ line \in [Ports -> Nat]
      /\ parked \in [Ports -> Nat] /\ rx_free \in [Ports -> Nat] /\ rx_used \in [Ports -> Nat]
   BY InvTypes DEF RingsOK
<1>3. rx_free[p] + (-1) \in Nat /\ rx_used[p] + 1 \in Nat /\ line[p] + (-1) \in Nat
   BY <1>1, <1>2
<1>4. /\ rx_free' \in [Ports -> Nat] /\ rx_used' \in [Ports -> Nat]
      /\ line' \in [Ports -> Nat]
      /\ \A q \in Ports :
            /\ rx_free'[q] = IF q = p THEN rx_free[p] + (-1) ELSE rx_free[q]
            /\ rx_used'[q] = IF q = p THEN rx_used[p] + 1 ELSE rx_used[q]
   <2>1. /\ Add(rx_free, p, -1) \in [Ports -> Nat]
         /\ \A q \in Ports : Add(rx_free, p, -1)[q] = IF q = p THEN rx_free[p] + (-1) ELSE rx_free[q]
      BY <1>2, <1>3 DEF Add
   <2>2. /\ Add(rx_used, p, 1) \in [Ports -> Nat]
         /\ \A q \in Ports : Add(rx_used, p, 1)[q] = IF q = p THEN rx_used[p] + 1 ELSE rx_used[q]
      BY <1>2, <1>3 DEF Add
   <2>3. Add(line, p, -1) \in [Ports -> Nat]
      BY <1>2, <1>3 DEF Add
   <2> QED BY <1>1, <2>1, <2>2, <2>3
<1>5. RingsOK /\ RingsOK'
   BY <1>1, <1>2, <1>4 DEF RingsOK
<1>6. \A q \in Ports : InRings(q)' = IF q = p THEN InRings(q) + 0 ELSE InRings(q)
   BY <1>1, <1>2, <1>4 DEF InRings
<1>7. InRingsBelow'[NofPorts] = InRingsBelow[NofPorts]
   <2>1. InRingsBelow[NofPorts]' = InRingsBelow[NofPorts] + 0
      BY <1>5, <1>6, BelowChanges
   <2> QED BY <2>1, InvTypes
<1>8. RingBounds'
   <2>1. \A q \in Ports : rx_free'[q] + rx_used'[q] = rx_free[q] + rx_used[q]
      BY <1>2, <1>4
   <2> QED BY <1>1, <2>1 DEF IndInv, RingBounds
<1>9. TypeOK'
   BY <1>1, <1>4, <1>5 DEF IndInv, TypeOK, RingsOK
<1>10. Phases'
   <2>1. \A q \in Ports : InRings(q)' = InRings(q)
      BY <1>2, <1>6 DEF InRings
   <2> QED BY <1>1, <2>1 DEF IndInv, Phases
<1> QED BY <1>1, <1>7, <1>8, <1>9, <1>10 DEF IndInv, MbufsAccounted, NeverSendsNull

-----------------------------------------------------------------------------
\* The start of a port moves mbufs from the pool into its receive queues.
LEMMA SetupPortInv == IndInv /\ SetupPort => IndInv'
<1> SUFFICES ASSUME IndInv, SetupPort PROVE IndInv'
   OBVIOUS
<1> DEFINE parking == (Queues - 1) * Descs
           first == LeastOf(Descs, pool)
           others == LeastOf(parking, pool - first)
<1>1. /\ pc = "setup" /\ port \in Ports
      /\ UNCHANGED <<force_quit, size, pkts, sent, rx_used, tx_pending, tx_used, line>>
   BY DEF SetupPort
<1>2. \/ /\ rx_free' = Add(rx_free, port, first) /\ parked' = Add(parked, port, others)
         /\ pool' = pool - first - others /\ port' = port + 1 /\ pc' = pc
      \/ pc' = "failed" /\ UNCHANGED <<rx_free, parked, pool, port>>
   BY DEF SetupPort
<1>3. /\ Descs \in Nat /\ parking \in Nat /\ pool \in 0..size /\ size \in Nat
      /\ NofPorts \in Nat /\ InRingsBelow[NofPorts] \in Nat
   BY InvTypes
<1> HIDE DEF parking
<1>4. /\ first \in Nat /\ others \in Nat /\ first <= Descs /\ others <= parking
      /\ first + others <= pool
   BY <1>3 DEF LeastOf
<1> HIDE DEF first, others
<1>5. /\ tx_pending \in [Ports -> Nat] /\ tx_used \in [Ports -> Nat] /\ line \in [Ports -> Nat]
      /\ parked \in [Ports -> Nat] /\ rx_free \in [Ports -> Nat] /\ rx_used \in [Ports -> Nat]
   BY InvTypes DEF RingsOK
<1>6. CASE pc' = "failed" /\ UNCHANGED <<rx_free, parked, pool, port>>
   <2>1. UNCHANGED rings
      BY <1>1, <1>6 DEF rings
   <2>2. RingsOK' /\ RingBounds' /\ InRingsBelow'[NofPorts] = InRingsBelow[NofPorts]
      BY <2>1, RingsUnchanged
   <2>3. TypeOK'
      BY <1>1, <1>6, <2>2, InvTypes DEF IndInv, TypeOK, RingsOK
   <2>4. MbufsAccounted' /\ Phases' /\ NeverSendsNull'
      BY <1>1, <1>6, <2>2 DEF IndInv, MbufsAccounted, Phases, NeverSendsNull
   <2> QED BY <2>2, <2>3, <2>4 DEF IndInv
<1>7. CASE /\ rx_free' = Add(rx_free, port, first) /\ parked' = Add(parked, port, others)
           /\ pool' = pool - first - others /\ port' = port + 1 /\ pc' = pc
   <2>1. rx_free[port] + first \in Nat /\ parked[port] + others \in Nat
      BY <1>1, <1>4, <1>5
   <2>2. /\ rx_free' \in [Ports -> Nat]
         /\ \A q \in Ports : rx_free'[q] = IF q = port THEN rx_free[port] + first ELSE rx_free[q]
      BY <1>1, <1>5, <1>7, <2>1 DEF Add
   <2>3. /\ parked' \in [Ports -> Nat]
         /\ \A q \in Ports : parked'[q] = IF q = port THEN parked[port] + others ELSE parked[q]
      BY <1>1, <1>5, <1>7, <2>1 DEF Add
   <2>4. RingsOK /\ RingsOK'
      BY <1>1, <1>5, <2>2, <2>3 DEF RingsOK
   <2>5. \A q \in Ports : InRings(q)' = IF q = port THEN InRings(q) + (first + others)
                                         ELSE InRings(q)
      BY <1>1, <1>4, <1>5, <2>2, <2>3 DEF InRings
   <2>6. InRingsBelow'[NofPorts] = InRingsBelow[NofPorts] + (first + others)
      <3>1. first + others \in Int
         BY <1>4
      <3> QED BY <1>1, <2>4, <2>5, <3>1, BelowChanges
   <2>7. pkts = 0 /\ sent = 0
      BY <1>1 DEF IndInv, Phases
   <2>8. MbufsAccounted'
      <3>1. pool + 0 + InRingsBelow[NofPorts] = size
         BY <1>1, <2>7 DEF IndInv, MbufsAccounted
      <3>2. pool' + 0 + InRingsBelow'[NofPorts] = size'
         BY <1>1, <1>3, <1>4, <1>7, <2>6, <3>1
      <3> QED BY <1>1, <1>7, <2>7, <3>2 DEF MbufsAccounted
   <2>9. TypeOK'
      <3>1. pool' \in 0..size' /\ port' \in 0..NofPorts
         BY <1>1, <1>3, <1>4, <1>7 DEF Ports
      <3> QED BY <1>1, <1>5, <1>7, <2>4, <3>1 DEF IndInv, TypeOK, RingsOK
   <2>10. InRings(port) = 0
      BY <1>1, <1>3 DEF IndInv, Phases, Ports
   <2>11. rx_free[port] = 0 /\ rx_used[port] = 0 /\ parked[port] = 0
      BY <1>1, <1>5, <2>10 DEF InRings
   <2>12. RingBounds'
      <3>1. SUFFICES ASSUME NEW q \in Ports
                     PROVE  /\ parked'[q] <= parking
                            /\ rx_free'[q] + rx_used'[q] <= Descs
                            /\ tx_pending'[q] + tx_used'[q] <= Descs
         BY DEF RingBounds, parking
      <3>2. /\ parked[q] <= parking /\ rx_free[q] + rx_used[q] <= Descs
            /\ tx_pending[q] + tx_used[q] <= Descs
         BY DEF IndInv, RingBounds, parking
      <3>3. CASE q = port
         BY <1>1, <1>4, <2>2, <2>3, <2>11, <3>2, <3>3
      <3>4. CASE q # port
         BY <1>1, <2>2, <2>3, <3>2, <3>4
      <3> QED BY <3>3, <3>4
   <2>13. Phases'
      <3>1. \A q \in Ports : q >= port' => InRings(q)' = 0
         <4>1. \A q \in Ports : q >= port + 1 => q >= port /\ q # port
            BY <1>1, <1>3 DEF Ports
         <4> QED BY <1>1, <1>7, <2>5, <4>1 DEF IndInv, Phases
      <3> QED BY <1>1, <1>7, <2>7, <3>1 DEF Phases
   <2>14. NeverSendsNull'
      BY <1>1, <1>7 DEF NeverSendsNull
   <2> QED BY <2>8, <2>9, <2>12, <2>13, <2>14 DEF IndInv
<1> QED BY <1>2, <1>6, <1>7

\* The driver gives back what vtb has read and takes the burst as far as its
\* descriptors go; only a short burst lets it read a null pointer.
LEMMA TxBurstInv == IndInv /\ TxBurst => IndInv'
<1> SUFFICES ASSUME IndInv, TxBurst PROVE IndInv'
   OBVIOUS
<1>1. /\ pc = "tx"
      /\ UNCHANGED <<port, force_quit, size, pkts, parked, rx_free, rx_used, line>>
   BY DEF TxBurst
<1>2. /\ port \in Ports /\ sent = 0 /\ (pkts < Burst => pool = 0)
   BY <1>1 DEF IndInv, Phases
<1>3. /\ Descs \in Nat /\ Burst \in Nat /\ pool \in 0..size /\ size \in Nat
      /\ NofPorts \in Nat /\ InRingsBelow[NofPorts] \in Nat /\ pkts \in 0..Burst
   BY InvTypes
<1>4. /\ tx_pending \in [Ports -> Nat] /\ tx_used \in [Ports -> Nat] /\ line \in [Ports -> Nat]
      /\ parked \in [Ports -> Nat] /\ rx_free \in [Ports -> Nat] /\ rx_used \in [Ports -> Nat]
   BY InvTypes DEF RingsOK
<1>5. pool + pkts + InRingsBelow[NofPorts] = size
   BY <1>1 DEF IndInv, MbufsAccounted
<1>. PICK back \in 0..tx_used[port] :
         \E n \in 0..LeastOf(Burst, Descs - tx_pending[port] - tx_used[port] + back) :
            IF n > pkts
            THEN pc' = "crashed" /\ UNCHANGED <<pool, sent, tx_used, tx_pending>>
            ELSE /\ pc' = "free" /\ sent' = n
                 /\ pool' = pool + back
                 /\ tx_used' = Add(tx_used, port, -back)
                 /\ tx_pending' = Add(tx_pending, port, n)
   BY DEF TxBurst
<1>6. PICK n \in 0..LeastOf(Burst, Descs - tx_pending[port] - tx_used[port] + back) :
            IF n > pkts
            THEN pc' = "crashed" /\ UNCHANGED <<pool, sent, tx_used, tx_pending>>
            ELSE /\ pc' = "free" /\ sent' = n
                 /\ pool' = pool + back
                 /\ tx_used' = Add(tx_used, port, -back)
                 /\ tx_pending' = Add(tx_pending, port, n)
   OBVIOUS
<1>7. /\ tx_pending[port] \in Nat /\ tx_used[port] \in Nat
      /\ tx_pending[port] + tx_used[port] <= Descs
   BY <1>2, <1>4 DEF IndInv, RingBounds
<1>8. /\ back \in Nat /\ back <= tx_used[port] /\ n \in Nat /\ n <= Burst
      /\ n <= Descs - tx_pending[port] - tx_used[port] + back
   BY <1>3, <1>6, <1>7 DEF LeastOf
<1>9. CASE n > pkts
   <2>1. pc' = "crashed" /\ UNCHANGED <<pool, sent, tx_used, tx_pending>>
      BY <1>6, <1>9
   <2>2. UNCHANGED rings
      BY <1>1, <2>1 DEF rings
   <2>3. RingsOK' /\ RingBounds' /\ InRingsBelow'[NofPorts] = InRingsBelow[NofPorts]
      BY <2>2, RingsUnchanged
   <2>4. TypeOK'
      BY <1>1, <2>1, <2>3 DEF IndInv, TypeOK, RingsOK
   <2>5. MbufsAccounted' /\ Phases'
      BY <1>1, <1>2, <2>1, <2>3 DEF IndInv, MbufsAccounted, Phases
   <2>6. NeverSendsNull'
      <3>1. InRingsBelow[NofPorts] <= NofPorts * (Queues * Descs + Descs)
         BY InvTypes, BelowBound DEF IndInv
      <3>2. NofPorts * (Queues * Descs + Descs) \in Nat
         <4>1. Queues \in Nat /\ Descs \in Nat /\ NofPorts \in Nat
            BY FrontendAssumption
         <4>2. Queues * Descs \in Nat
            BY <4>1
         <4>3. Queues * Descs + Descs \in Nat
            BY <4>1, <4>2
         <4> QED BY <4>1, <4>3
      <3> DEFINE capacity == NofPorts * (Queues * Descs + Descs)
      <3>3. InRingsBelow[NofPorts] <= capacity /\ capacity \in Nat
         BY <3>1, <3>2
      <3> HIDE DEF capacity
      <3>4. pool = 0 /\ pkts < Burst
         BY <1>2, <1>3, <1>8, <1>9
      <3>5. ~(size >= capacity + Burst)
         BY <1>3, <1>5, <3>3, <3>4
      <3> QED BY <1>1, <3>5 DEF NeverSendsNull, capacity
   <2> QED BY <2>3, <2>4, <2>5, <2>6 DEF IndInv
<1>10. CASE ~(n > pkts)
   <2>1. /\ pc' = "free" /\ sent' = n /\ pool' = pool + back
         /\ tx_used' = Add(tx_used, port, -back) /\ tx_pending' = Add(tx_pending, port, n)
      BY <1>6, <1>10
   <2>2. tx_used[port] + (-back) \in Nat /\ tx_pending[port] + n \in Nat
      BY <1>7, <1>8
   <2>3. /\ tx_used' \in [Ports -> Nat]
         /\ \A q \in Ports : tx_used'[q] = IF q = port THEN tx_used[port] + (-back) ELSE tx_used[q]
      BY <1>2, <1>4, <2>1, <2>2 DEF Add
   <2>4. /\ tx_pending' \in [Ports -> Nat]
         /\ \A q \in Ports : tx_pending'[q] = IF q = port THEN tx_pending[port] + n ELSE tx_pending[q]
      BY <1>2, <1>4, <2>1, <2>2 DEF Add
   <2>5. RingsOK /\ RingsOK'
      BY <1>1, <1>4, <2>3, <2>4 DEF RingsOK
   <2>6. \A q \in Ports : InRings(q)' = IF q = port THEN InRings(q) + (n - back) ELSE InRings(q)
      BY <1>1, <1>4, <1>8, <2>3, <2>4 DEF InRings
   <2>7. InRingsBelow'[NofPorts] = InRingsBelow[NofPorts] + (n - back)
      <3>1. n - back \in Int
         BY <1>8
      <3> QED BY <1>2, <2>5, <2>6, <3>1, BelowChanges
   <2>8. MbufsAccounted'
      <3>1. pool' + (pkts' - sent') + InRingsBelow'[NofPorts] = size'
         BY <1>1, <1>3, <1>5, <1>8, <2>1, <2>7
      <3> QED BY <2>1, <3>1 DEF MbufsAccounted
   <2>9. TypeOK'
      <3>1. pool' \in Nat /\ pkts' \in Nat /\ size' \in Nat /\ sent' \in 0..pkts'
         BY <1>1, <1>3, <1>8, <1>10, <2>1
      <3>2. pool' \in 0..size'
         BY <2>5, <2>8, <3>1, PoolInSize
      <3> QED BY <1>1, <1>4, <2>1, <2>5, <3>1, <3>2 DEF IndInv, TypeOK, RingsOK
   <2>10. RingBounds'
      <3>1. SUFFICES ASSUME NEW q \in Ports
                     PROVE  tx_pending'[q] + tx_used'[q] <= Descs
         BY <1>1 DEF IndInv, RingBounds
      <3>2. tx_pending[q] + tx_used[q] <= Descs
         BY DEF IndInv, RingBounds
      <3>3. CASE q = port
         <4>1. /\ tx_used'[q] = tx_used[port] + (-back)
               /\ tx_pending'[q] = tx_pending[port] + n
            BY <1>2, <2>3, <2>4, <3>3
         <4> QED BY <1>3, <1>7, <1>8, <4>1
      <3>4. CASE q # port
         BY <2>3, <2>4, <3>2, <3>4
      <3> QED BY <3>3, <3>4
   <2>11. Phases' /\ NeverSendsNull'
      BY <1>1, <1>2, <2>1 DEF Phases, NeverSendsNull
   <2> QED BY <2>8, <2>9, <2>10, <2>11 DEF IndInv
<1> QED BY <1>9, <1>10

\* A receive call frees what vtb has written and may give fresh buffers.
LEMMA ReceiveInv == IndInv /\ Receive => IndInv'
<1> SUFFICES ASSUME IndInv, Receive PROVE IndInv'
   OBVIOUS
<1>1. /\ pc = "rx" /\ port' = port + 1
      /\ pc' = IF port + 1 = NofPorts THEN "while" ELSE "alloc"
      /\ UNCHANGED <<force_quit, size, pkts, sent, parked, tx_pending, tx_used, line>>
   BY DEF Receive
<1>2. port \in Ports /\ sent = 0 /\ pkts = 0
   BY <1>1 DEF IndInv, Phases
<1>3. /\ Descs \in Nat /\ Burst \in Nat /\ pool \in 0..size /\ size \in Nat
      /\ NofPorts \in Nat /\ InRingsBelow[NofPorts] \in Nat
   BY InvTypes
<1>4. /\ tx_pending \in [Ports -> Nat] /\ tx_used \in [Ports -> Nat] /\ line \in [Ports -> Nat]
      /\ parked \in [Ports -> Nat] /\ rx_free \in [Ports -> Nat] /\ rx_used \in [Ports -> Nat]
   BY InvTypes DEF RingsOK
<1>5. pool + 0 + InRingsBelow[NofPorts] = size
   BY <1>1, <1>2 DEF IndInv, MbufsAccounted
<1>. PICK n \in 0..LeastOf(Burst, rx_used[port]) :
        \E fresh \in 0..LeastOf(Descs - rx_free[port] - rx_used[port] + n, pool) :
           /\ rx_used' = Add(rx_used, port, -n)
           /\ rx_free' = Add(rx_free, port, fresh)
           /\ pool' = pool - fresh + n
   BY DEF Receive
<1>6. PICK fresh \in 0..LeastOf(Descs - rx_free[port] - rx_used[port] + n, pool) :
           /\ rx_used' = Add(rx_used, port, -n)
           /\ rx_free' = Add(rx_free, port, fresh)
           /\ pool' = pool - fresh + n
   OBVIOUS
<1>7. /\ rx_free[port] \in Nat /\ rx_used[port] \in Nat
      /\ rx_free[port] + rx_used[port] <= Descs
   BY <1>2, <1>4 DEF IndInv, RingBounds
<1>8. /\ n \in Nat /\ n <= rx_used[port] /\ fresh \in Nat /\ fresh <= pool
      /\ fresh <= Descs - rx_free[port] - rx_used[port] + n
   BY <1>3, <1>6, <1>7 DEF LeastOf
<1>9. rx_used[port] + (-n) \in Nat /\ rx_free[port] + fresh \in Nat
   BY <1>7, <1>8
<1>10. /\ rx_used' \in [Ports -> Nat]
       /\ \A q \in Ports : rx_used'[q] = IF q = port THEN rx_used[port] + (-n) ELSE rx_used[q]
   BY <1>2, <1>4, <1>6, <1>9 DEF Add
<1>11. /\ rx_free' \in [Ports -> Nat]
       /\ \A q \in Ports : rx_free'[q] = IF q = port THEN rx_free[port] + fresh ELSE rx_free[q]
   BY <1>2, <1>4, <1>6, <1>9 DEF Add
<1>12. RingsOK /\ RingsOK'
   BY <1>1, <1>4, <1>10, <1>11 DEF RingsOK
<1>13. \A q \in Ports : InRings(q)' = IF q = port THEN InRings(q) + (fresh - n) ELSE InRings(q)
   BY <1>1, <1>4, <1>8, <1>10, <1>11 DEF InRings
<1>14. InRingsBelow'[NofPorts] = InRingsBelow[NofPorts] + (fresh - n)
   <2>1. fresh - n \in Int
      BY <1>8
   <2> QED BY <1>2, <1>12, <1>13, <2>1, BelowChanges
<1>15. MbufsAccounted'
   <2>1. pool' + 0 + InRingsBelow'[NofPorts] = size'
      BY <1>1, <1>3, <1>5, <1>6, <1>8, <1>14
   <2> QED BY <1>1, <1>2, <2>1 DEF MbufsAccounted
<1>16. TypeOK'
   <2>1. pool' \in Nat /\ pkts' \in Nat /\ size' \in Nat /\ sent' \in 0..pkts'
      BY <1>1, <1>2, <1>3, <1>6, <1>8
   <2>2. pool' \in 0..size'
      BY <1>12, <1>15, <2>1, PoolInSize
   <2>3. port' \in 0..NofPorts
      BY <1>1, <1>2, <1>3 DEF Ports
   <2> QED BY <1>1, <1>4, <1>12, <2>1, <2>2, <2>3 DEF IndInv, TypeOK, RingsOK
<1>17. RingBounds'
   <2>1. SUFFICES ASSUME NEW q \in Ports
                  PROVE  rx_free'[q] + rx_used'[q] <= Descs
      BY <1>1 DEF IndInv, RingBounds
   <2>2. rx_free[q] + rx_used[q] <= Descs
      BY DEF IndInv, RingBounds
   <2>3. CASE q = port
      <3>1. rx_used'[q] = rx_used[port] + (-n) /\ rx_free'[q] = rx_free[port] + fresh
         BY <1>2, <1>10, <1>11, <2>3
      <3> QED BY <1>3, <1>7, <1>8, <3>1
   <2>4. CASE q # port
      BY <1>10, <1>11, <2>2, <2>4
   <2> QED BY <2>3, <2>4
<1>18. Phases' /\ NeverSendsNull'
   <2>1. pc' = "alloc" => port' \in Ports
      BY <1>1, <1>2, <1>3 DEF Ports
   <2> QED BY <1>1, <1>2, <2>1 DEF Phases, NeverSendsNull
<1> QED BY <1>15, <1>16, <1>17, <1>18 DEF IndInv

\* The end of a port gives back all it holds.
LEMMA StopPortInv == IndInv /\ StopPort => IndInv'
<1> SUFFICES ASSUME IndInv, StopPort PROVE IndInv'
   OBVIOUS
<1>1. /\ pc = "stop" /\ port \in Ports /\ pool' = pool + InRings(port) /\ port' = port + 1
      /\ parked' = [parked EXCEPT ![port] = 0]
      /\ rx_free' = [rx_free EXCEPT ![port] = 0] /\ rx_used' = [rx_used EXCEPT ![port] = 0]
      /\ tx_pending' = [tx_pending EXCEPT ![port] = 0]
      /\ tx_used' = [tx_used EXCEPT ![port] = 0]
      /\ UNCHANGED <<pc, force_quit, size, pkts, sent, line>>
   BY DEF StopPort
<1>2. sent = 0 /\ pkts = 0
   BY <1>1 DEF IndInv, Phases
<1>3. /\ pool \in 0..size /\ size \in Nat /\ NofPorts \in Nat
      /\ InRingsBelow[NofPorts] \in Nat /\ (Queues - 1) * Descs \in Nat /\ Descs \in Nat
   BY InvTypes
<1>4. /\ tx_pending \in [Ports -> Nat] /\ tx_used \in [Ports -> Nat] /\ line \in [Ports -> Nat]
      /\ parked \in [Ports -> Nat] /\ rx_free \in [Ports -> Nat] /\ rx_used \in [Ports -> Nat]
   BY InvTypes DEF RingsOK
<1>5. RingsOK /\ RingsOK'
   BY <1>1, <1>4 DEF RingsOK
<1>6. InRings(port) \in Nat
   BY <1>1, <1>4 DEF InRings
<1>7. \A q \in Ports : InRings(q)' = IF q = port THEN InRings(q) + (-InRings(port)) ELSE InRings(q)
   <2> SUFFICES ASSUME NEW q \in Ports
                PROVE  InRings(q)' = IF q = port THEN InRings(q) + (-InRings(port)) ELSE InRings(q)
      OBVIOUS
   <2>1. CASE q = port
      <3>1. InRings(q)' = 0
         BY <1>1, <1>4, <2>1 DEF InRings
      <3> QED BY <1>6, <2>1, <3>1
   <2>2. CASE q # port
      BY <1>1, <1>4, <2>2 DEF InRings
   <2> QED BY <2>1, <2>2
<1>8. InRingsBelow'[NofPorts] = InRingsBelow[NofPorts] + (-InRings(port))
   <2>1. -InRings(port) \in Int
      BY <1>6
   <2> QED BY <1>1, <1>5, <1>7, <2>1, BelowChanges
<1>9. MbufsAccounted'
   <2>1. pool + 0 + InRingsBelow[NofPorts] = size
      BY <1>1, <1>2 DEF IndInv, MbufsAccounted
   <2>2. pool' + 0 + InRingsBelow'[NofPorts] = size'
      BY <1>1, <1>3, <1>6, <1>8, <2>1
   <2> QED BY <1>1, <1>2, <2>2 DEF MbufsAccounted
<1>10. TypeOK'
   <2>1. pool' \in Nat /\ pkts' \in Nat /\ size' \in Nat /\ sent' \in 0..pkts'
      BY <1>1, <1>2, <1>3, <1>6
   <2>2. pool' \in 0..size'
      BY <1>5, <1>9, <2>1, PoolInSize
   <2>3. port' \in 0..NofPorts
      BY <1>1, <1>3 DEF Ports
   <2> QED BY <1>1, <1>5, <2>2, <2>3 DEF IndInv, TypeOK, RingsOK
<1>11. RingBounds'
   <2> DEFINE parking == (Queues - 1) * Descs
   <2>1. parking \in Nat
      BY <1>3
   <2> HIDE DEF parking
   <2>2. \A q \in Ports : /\ parked[q] <= parking
                           /\ rx_free[q] + rx_used[q] <= Descs
                           /\ tx_pending[q] + tx_used[q] <= Descs
      BY DEF IndInv, RingBounds, parking
   <2>3. \A q \in Ports : /\ parked'[q] <= parking
                           /\ rx_free'[q] + rx_used'[q] <= Descs
                           /\ tx_pending'[q] + tx_used'[q] <= Descs
      BY <1>1, <1>3, <1>4, <2>1, <2>2
   <2> QED BY <2>3 DEF RingBounds, parking
<1>12. Phases' /\ NeverSendsNull'
   BY <1>1, <1>2 DEF Phases, NeverSendsNull
<1> QED BY <1>9, <1>10, <1>11, <1>12 DEF IndInv

-----------------------------------------------------------------------------
LEMMA StepInv == IndInv /\ [Next]_vars => IndInv'
<1> SUFFICES ASSUME IndInv, [Next]_vars PROVE IndInv'
   OBVIOUS
<1>1. CASE SetupPort
   BY <1>1, SetupPortInv
<1>2. CASE SetupDone \/ While \/ StopDone \/ CtrlC
   BY <1>2, ControlInv
<1>3. CASE Alloc \/ FreeUnsent
   BY <1>3, AllocInv, FreeUnsentInv
<1>4. CASE TxBurst \/ Receive
   BY <1>4, TxBurstInv, ReceiveInv
<1>5. CASE StopPort
   BY <1>5, StopPortInv
<1>6. CASE \E p \in Ports : Take(p) \/ Lose(p) \/ Deliver(p)
   BY <1>6, TakeInv, LoseInv, DeliverInv
<1>7. CASE UNCHANGED vars
   <2>1. UNCHANGED <<pc, port, force_quit, size, pool, pkts, sent, rings, line>>
      BY <1>7 DEF vars
   <2>2. /\ RingsOK' /\ RingBounds' /\ InRingsBelow'[NofPorts] = InRingsBelow[NofPorts]
         /\ \A q \in Ports : InRings(q)' = InRings(q)
      BY <2>1, RingsUnchanged
   <2>3. TypeOK'
      BY <2>1, <2>2 DEF IndInv, TypeOK, RingsOK
   <2> QED BY <2>1, <2>2, <2>3 DEF IndInv, MbufsAccounted, Phases, NeverSendsNull
<1> QED BY <1>1, <1>2, <1>3, <1>4, <1>5, <1>6, <1>7 DEF Next, Run

LEMMA Invariance == Spec => []IndInv
BY InitInv, StepInv, PTL DEF Spec

\* The ports, the array of the burst and the rings keep their types, and the pool
\* stays between nothing and all its mbufs, for any number of ports and any sizes.
THEOREM TypeCorrect == Spec => []TypeOK
<1>1. IndInv => TypeOK
   BY DEF IndInv
<1> QED BY <1>1, Invariance, PTL

\* No mbuf leaks and none is freed twice, whatever send and receive bursts do.
THEOREM Conservation == Spec => []MbufsAccounted
<1>1. IndInv => MbufsAccounted
   BY DEF IndInv
<1> QED BY <1>1, Invariance, PTL

\* A pool larger by a burst than all rings of all ports keeps the null pointers
\* of a short burst away from the driver.
THEOREM LargePoolIsSafe == Spec => []NeverSendsNull
<1>1. IndInv => NeverSendsNull
   BY DEF IndInv
<1> QED BY <1>1, Invariance, PTL
=============================================================================
