-------------------------- MODULE LoopbackPathProof --------------------------
(***************************************************************************)
(* Proofs about LoopbackPath, for every size of pool, ring and burst and   *)
(* any number of packets: its invariants, the order that the line of       *)
(* LossyFifo keeps, and that the path implements that line (its safety     *)
(* part), so that what is proved of the line holds of the data path.       *)
(***************************************************************************)
EXTENDS LoopbackPath, SequenceTheorems, TLAPS

\* Where the workers are decides what they hold.
Phases ==
   /\ txPc = "idle" => txPkts = << >>
   /\ txPc = "push" => Len(txPkts) \in 1..txBurst
   /\ rxPc \in {"idle", "drain"} => rxPkts = << >>
   /\ rxPc \in {"send", "free"} => Len(rxPkts) <= Burst /\ sent <= Len(rxPkts)

\* A worker that serves both queues brings at most one burst into the ring and
\* takes it out again before it fetches the next.
OneBurst ==
   OneThread =>
      /\ txPc = "push" => turn = "tx" /\ rxPc = "idle" /\ Len(ring) + Len(txPkts) <= Burst
      /\ turn = "tx" => rxPc = "idle"
      /\ turn = "tx" /\ txPc = "idle" => ring = << >>
      /\ rxPc = "idle" => Len(ring) <= Burst
      /\ rxPc # "idle" => ring = << >>

IndInv == TypeOK /\ MbufsConserved /\ StatsAgree /\ Phases /\ OneBurst

-----------------------------------------------------------------------------
\* A sequence cut in two, as every burst call does it.
LEMMA CutSeq ==
   ASSUME NEW S, NEW s \in Seq(S), NEW n \in 0..Len(s)
   PROVE  /\ First(s, n) \in Seq(S) /\ Len(First(s, n)) = n
          /\ Rest(s, n) \in Seq(S) /\ Len(Rest(s, n)) = Len(s) - n
          /\ First(s, n) \o Rest(s, n) = s
<1>1. Len(s) \in Nat /\ n \in Nat /\ n <= Len(s)
   BY LenProperties
<1>2. \A i \in 1..Len(s) : s[i] \in S
   BY ElementOfSeq
<1>3. /\ SubSeq(s, 1, n) \in Seq(S)
      /\ Len(SubSeq(s, 1, n)) = IF 1 <= n THEN n - 1 + 1 ELSE 0
   <2>1. \A i \in 1..n : s[i] \in S
      BY <1>1, <1>2
   <2> QED BY <1>1, <2>1, SubSeqProperties
<1>4. /\ SubSeq(s, n + 1, Len(s)) \in Seq(S)
      /\ Len(SubSeq(s, n + 1, Len(s))) = IF n + 1 <= Len(s) THEN Len(s) - (n + 1) + 1 ELSE 0
   <2>1. \A i \in (n + 1)..Len(s) : s[i] \in S
      BY <1>1, <1>2
   <2> QED BY <1>1, <2>1, SubSeqProperties
<1>5. SubSeq(s, 1, n) \o SubSeq(s, n + 1, Len(s)) = SubSeq(s, 1, Len(s))
   <2>1. 1 \in 1..(Len(s) + 1) /\ n \in (1 - 1)..Len(s) /\ Len(s) \in n..Len(s)
      BY <1>1
   <2> QED BY <2>1, ConcatAdjacentSubSeq
<1>6. SubSeq(s, 1, Len(s)) = s
   BY SubSeqFull
<1>7. Len(SubSeq(s, 1, n)) = n /\ Len(SubSeq(s, n + 1, Len(s))) = Len(s) - n
   BY <1>1, <1>3, <1>4
<1> QED BY <1>3, <1>4, <1>5, <1>6, <1>7 DEF First, Rest

\* The packets of one burst, read from the guest.
LEMMA FromGuestSeq ==
   ASSUME taken \in Nat, NEW n \in Nat
   PROVE  FromGuest(n) \in Seq(Nat) /\ Len(FromGuest(n)) = n
BY DEF FromGuest

\* Part of a burst, accepted by the guest.
LEMMA PartOfBurst ==
   ASSUME NEW S, NEW s \in Seq(S), NEW m \in Nat, NEW n \in Nat, m + n <= Len(s)
   PROVE  SubSeq(s, m + 1, m + n) \in Seq(S) /\ Len(SubSeq(s, m + 1, m + n)) = n
<1>1. \A i \in (m + 1)..(m + n) : s[i] \in S
   BY ElementOfSeq, LenProperties
<1> QED BY <1>1, SubSeqProperties

-----------------------------------------------------------------------------
LEMMA InitInv == Init => IndInv
BY SizesAssumption, EmptySeq
   DEF Init, IndInv, TypeOK, MbufsConserved, StatsAgree, Phases, OneBurst, OneThread

LEMMA TxDequeueInv == IndInv /\ TxDequeue => IndInv'
<1> SUFFICES ASSUME IndInv, TxDequeue PROVE IndInv'
   OBVIOUS
<1> USE SizesAssumption
<1>1. PICK n \in 1..Least(Burst, Least(free, MaxPkts - taken)) :
         /\ txPkts' = FromGuest(n) /\ txBurst' = n
         /\ taken' = taken + n /\ free' = free - n
   BY DEF TxDequeue
<1>2. n \in Nat /\ n >= 1 /\ n <= Burst /\ n <= free /\ n <= MaxPkts - taken
   BY <1>1 DEF Least, IndInv, TypeOK
<1>3. txPkts' \in Seq(Nat) /\ Len(txPkts') = n
   BY <1>1, <1>2, FromGuestSeq DEF IndInv, TypeOK
<1>4. txPkts = << >> /\ Len(txPkts) = 0
   BY EmptySeq DEF IndInv, Phases, TxDequeue
<1>5. TypeOK'
   BY <1>1, <1>2, <1>3 DEF IndInv, TypeOK, TxDequeue, rxVars
<1>6. MbufsConserved'
   BY <1>1, <1>2, <1>3, <1>4, LenProperties DEF IndInv, TypeOK, MbufsConserved, TxDequeue, rxVars
<1>7. StatsAgree'
   BY <1>1, <1>2 DEF IndInv, TypeOK, StatsAgree, TxDequeue, rxVars
<1>8. Phases'
   BY <1>1, <1>2, <1>3 DEF IndInv, Phases, TxDequeue, rxVars
<1>9. OneBurst'
   BY <1>2, <1>3, EmptySeq
   DEF IndInv, TypeOK, OneBurst, OneThread, MayServe, TxDequeue, rxVars
<1> QED BY <1>5, <1>6, <1>7, <1>8, <1>9 DEF IndInv

LEMMA TxPushInv == IndInv /\ TxPush => IndInv'
<1> SUFFICES ASSUME IndInv, TxPush PROVE IndInv'
   OBVIOUS
<1> USE SizesAssumption
<1> DEFINE pushed == Least(Len(txPkts), RingRoom)
<1>1. Len(txPkts) \in Nat /\ Len(ring) \in Nat /\ Len(rxPkts) \in Nat
   BY LenProperties DEF IndInv, TypeOK
<1>2. Len(ring) + Len(txPkts) <= PoolSize
   BY <1>1 DEF IndInv, TypeOK, MbufsConserved
<1>3. pushed = Len(txPkts)
   BY <1>1, <1>2, PoolFitsRing DEF Least, RingRoom
<1>4. /\ First(txPkts, pushed) \in Seq(Nat) /\ Len(First(txPkts, pushed)) = Len(txPkts)
      /\ Rest(txPkts, pushed) \in Seq(Nat) /\ Len(Rest(txPkts, pushed)) = 0
   <2>1. txPkts \in Seq(Nat) /\ pushed \in 0..Len(txPkts)
      BY <1>1, <1>3 DEF IndInv, TypeOK
   <2> HIDE DEF pushed
   <2>2. /\ First(txPkts, pushed) \in Seq(Nat) /\ Len(First(txPkts, pushed)) = pushed
         /\ Rest(txPkts, pushed) \in Seq(Nat)
         /\ Len(Rest(txPkts, pushed)) = Len(txPkts) - pushed
      BY <2>1, CutSeq
   <2> QED BY <1>1, <1>3, <2>2
<1>5. txPkts' = << >> /\ Len(txPkts') = 0
   BY <1>4, EmptySeq DEF TxPush
<1>6. ring' \in Seq(Nat) /\ Len(ring') = Len(ring) + Len(txPkts)
   <2>1. ring' = ring \o First(txPkts, pushed) /\ ring \in Seq(Nat)
      BY DEF TxPush, IndInv, TypeOK
   <2> HIDE DEF pushed
   <2> QED BY <1>4, <2>1, ConcatProperties
<1>7. txPc = "push" /\ txPc' = "idle" /\ tx_frames' = tx_frames + txBurst /\ Served("tx")
   BY <1>3 DEF TxPush
<1>8. TypeOK'
   BY <1>5, <1>6, <1>7, EmptySeq DEF IndInv, TypeOK, TxPush, Served, OneThread, rxVars
<1>9. MbufsConserved'
   BY <1>1, <1>5, <1>6 DEF IndInv, TypeOK, MbufsConserved, TxPush, rxVars
<1>10. StatsAgree'
   BY <1>7 DEF IndInv, TypeOK, StatsAgree, TxPush, rxVars
<1>11. Phases'
   BY <1>5, <1>7 DEF IndInv, Phases, TxPush, rxVars
<1>12. OneBurst'
   BY <1>1, <1>6, <1>7 DEF IndInv, TypeOK, OneBurst, OneThread, TxPush, Served, rxVars
<1> QED BY <1>8, <1>9, <1>10, <1>11, <1>12 DEF IndInv

LEMMA EmptyCallsInv == IndInv /\ (TxEmpty \/ RxEmpty) => IndInv'
<1> SUFFICES ASSUME IndInv, TxEmpty \/ RxEmpty PROVE IndInv'
   OBVIOUS
<1>1. /\ UNCHANGED <<taken, free, txPc, txPkts, txBurst, ring, rxPc, rxPkts, sent,
                     retries, delivered, tx_frames, rx_frames>>
      /\ Served("tx") \/ Served("rx")
   BY DEF TxEmpty, RxEmpty, txVars, rxVars
<1>2. TypeOK'
   BY <1>1 DEF IndInv, TypeOK, Served
<1>3. MbufsConserved' /\ StatsAgree' /\ Phases'
   BY <1>1 DEF IndInv, MbufsConserved, StatsAgree, Phases
<1>4. OneBurst'
   <2>1. ring = << >> => Len(ring) = 0
      BY EmptySeq
   <2> QED BY <1>1, <2>1 DEF IndInv, TypeOK, OneBurst, OneThread, MayServe, TxEmpty, RxEmpty, Served
<1> QED BY <1>2, <1>3, <1>4 DEF IndInv

LEMMA RxDequeueInv == IndInv /\ RxDequeue => IndInv'
<1> SUFFICES ASSUME IndInv, RxDequeue PROVE IndInv'
   OBVIOUS
<1> USE SizesAssumption
<1> DEFINE n == Least(Burst, Len(ring))
<1>1. Len(ring) \in Nat \ {0}
   BY EmptySeq DEF IndInv, TypeOK, RxDequeue
<1>2. n \in 0..Len(ring) /\ n <= Burst
   BY <1>1 DEF Least
<1>3. /\ First(ring, n) \in Seq(Nat) /\ Len(First(ring, n)) = n
      /\ Rest(ring, n) \in Seq(Nat) /\ Len(Rest(ring, n)) = Len(ring) - n
   BY <1>2, CutSeq DEF IndInv, TypeOK
<1>4. rxPkts' = First(ring, n) /\ ring' = Rest(ring, n)
   BY DEF RxDequeue
<1>5. rxPkts = << >> /\ Len(rxPkts) = 0
   BY EmptySeq DEF IndInv, Phases, RxDequeue
<1>6. TypeOK'
   BY <1>3, <1>4 DEF IndInv, TypeOK, RxDequeue, txVars
<1>7. MbufsConserved'
   BY <1>1, <1>2, <1>3, <1>4, <1>5, LenProperties
   DEF IndInv, TypeOK, MbufsConserved, RxDequeue, txVars
<1>8. StatsAgree'
   BY DEF IndInv, TypeOK, StatsAgree, RxDequeue, txVars
<1>9. Phases'
   BY <1>2, <1>3, <1>4 DEF IndInv, Phases, RxDequeue, txVars
<1>10. OneBurst'
   <2>1. ASSUME OneThread PROVE ring' = << >> /\ turn = "rx" /\ txPc = "idle"
      <3>1. turn = "rx" /\ txPc = "idle" /\ Len(ring) <= Burst
         BY <2>1 DEF IndInv, OneBurst, OneThread, MayServe, RxDequeue
      <3>2. n = Len(ring)
         BY <1>1, <3>1 DEF Least
      <3>3. Len(ring') = 0
         <4> HIDE DEF n
         <4> QED BY <1>1, <1>3, <1>4, <3>2
      <3> QED BY <1>3, <1>4, <3>1, <3>3, EmptySeq
   <2> QED BY <2>1 DEF OneBurst, OneThread, RxDequeue, txVars
<1> QED BY <1>6, <1>7, <1>8, <1>9, <1>10 DEF IndInv

LEMMA RxSendInv == IndInv /\ RxSend => IndInv'
<1> SUFFICES ASSUME IndInv, RxSend PROVE IndInv'
   OBVIOUS
<1> USE SizesAssumption
<1>1. PICK n \in 0..(Len(rxPkts) - sent) :
         /\ delivered' = delivered \o SubSeq(rxPkts, sent + 1, sent + n)
         /\ sent' = sent + n
         /\ retries' = IF sent + n < Len(rxPkts) THEN retries + 1 ELSE retries
   BY DEF RxSend
<1>2. /\ Len(rxPkts) \in Nat /\ Len(rxPkts) <= Burst
      /\ n \in Nat /\ sent \in Nat /\ sent + n <= Len(rxPkts)
   BY <1>1, LenProperties DEF IndInv, TypeOK, Phases, RxSend
<1>3. /\ SubSeq(rxPkts, sent + 1, sent + n) \in Seq(Nat)
      /\ Len(SubSeq(rxPkts, sent + 1, sent + n)) = n
   BY <1>2, PartOfBurst DEF IndInv, TypeOK
<1>4. delivered' \in Seq(Nat) /\ Len(delivered') = Len(delivered) + n
   BY <1>1, <1>3, ConcatProperties DEF IndInv, TypeOK
<1>5. TypeOK'
   BY <1>1, <1>2, <1>4 DEF IndInv, TypeOK, RxSend, txVars
<1>6. MbufsConserved'
   BY DEF IndInv, MbufsConserved, RxSend, txVars
<1>7. StatsAgree'
   <2>1. Len(delivered) \in Nat /\ rxPc = "send" /\ rxPc' = "send"
      BY LenProperties DEF IndInv, TypeOK, RxSend
   <2>2. Len(delivered) = rx_frames + sent /\ rx_frames' = rx_frames /\ rx_frames \in Nat
      BY <2>1 DEF IndInv, TypeOK, StatsAgree, RxSend
   <2>3. Len(delivered') = rx_frames' + sent'
      BY <1>1, <1>2, <1>4, <2>2
   <2> QED BY <2>1, <2>3 DEF IndInv, StatsAgree, RxSend, txVars
<1>8. Phases' /\ OneBurst'
   BY <1>1, <1>2 DEF IndInv, Phases, OneBurst, OneThread, RxSend, txVars
<1> QED BY <1>5, <1>6, <1>7, <1>8 DEF IndInv

LEMMA RxSendEndsInv == IndInv /\ RxSendEnds => IndInv'
BY DEF IndInv, TypeOK, MbufsConserved, StatsAgree, Phases, OneBurst, OneThread,
       RxSendEnds, txVars

LEMMA RxFreeInv == IndInv /\ RxFree => IndInv'
<1> SUFFICES ASSUME IndInv, RxFree PROVE IndInv'
   OBVIOUS
<1>1. /\ Len(rxPkts) \in Nat /\ sent \in Nat /\ sent <= Len(rxPkts)
      /\ Len(ring) \in Nat /\ Len(txPkts) \in Nat
   BY SizesAssumption, LenProperties DEF IndInv, TypeOK, Phases, RxFree
<1>2. free' = free + Len(rxPkts) /\ free' \in Nat
   BY <1>1 DEF IndInv, TypeOK, RxFree
<1>3. rxPkts' = << >> /\ Len(rxPkts') = 0 /\ rxPkts' \in Seq(Nat)
   BY EmptySeq DEF RxFree
<1>4. TypeOK'
   BY <1>2, <1>3 DEF IndInv, TypeOK, RxFree, txVars
<1>5. MbufsConserved'
   BY <1>1, <1>2, <1>3 DEF IndInv, TypeOK, MbufsConserved, RxFree, txVars
<1>6. StatsAgree' /\ Phases' /\ OneBurst'
   BY <1>3 DEF IndInv, StatsAgree, Phases, OneBurst, OneThread, RxFree, txVars
<1> QED BY <1>4, <1>5, <1>6 DEF IndInv

LEMMA RxDrainInv == IndInv /\ RxDrain => IndInv'
<1> SUFFICES ASSUME IndInv, RxDrain PROVE IndInv'
   OBVIOUS
<1> USE SizesAssumption
<1> DEFINE n == Least(Burst, Len(ring))
<1>1. Len(ring) \in Nat /\ Len(txPkts) \in Nat /\ Len(rxPkts) \in Nat
   BY LenProperties DEF IndInv, TypeOK
<1>2. n \in 0..Len(ring) /\ (n = 0 => Len(ring) = 0)
   BY <1>1 DEF Least
<1>3. Rest(ring, n) \in Seq(Nat) /\ Len(Rest(ring, n)) = Len(ring) - n
   BY <1>2, CutSeq DEF IndInv, TypeOK
<1>4. ring' = Rest(ring, n) /\ free' = free + n
   BY DEF RxDrain
<1>5. \/ n = 0 /\ rxPc' = "idle" /\ rx_frames' = rx_frames + sent /\ Served("rx")
      \/ UNCHANGED <<rxPc, rx_frames, turn>>
   BY DEF RxDrain
<1>6. TypeOK'
   BY <1>2, <1>3, <1>4, <1>5, SMTT(20) DEF IndInv, TypeOK, RxDrain, Served, txVars
<1>7. MbufsConserved'
   <2>1. n \in Nat /\ free \in Nat /\ UNCHANGED <<txPkts, rxPkts>>
      BY <1>1, <1>2 DEF IndInv, TypeOK, RxDrain, txVars
   <2> HIDE DEF n
   <2> QED BY <1>1, <1>3, <1>4, <2>1, SizesAssumption DEF IndInv, MbufsConserved
<1>8. StatsAgree' /\ Phases'
   BY <1>5 DEF IndInv, TypeOK, StatsAgree, Phases, RxDrain, txVars
<1>9. OneBurst'
   <2>1. OneThread => ring' = << >> /\ Len(ring') = 0
      BY <1>1, <1>2, <1>3, <1>4, EmptySeq
      DEF IndInv, TypeOK, OneBurst, OneThread, RxDrain
   <2> QED BY <1>5, <2>1 DEF IndInv, OneBurst, OneThread, RxDrain, Served, txVars
<1> QED BY <1>6, <1>7, <1>8, <1>9 DEF IndInv

LEMMA StepInv == IndInv /\ [Next]_vars => IndInv'
<1> SUFFICES ASSUME IndInv, [Next]_vars PROVE IndInv'
   OBVIOUS
<1>1. CASE UNCHANGED vars
   BY <1>1 DEF vars, IndInv, TypeOK, MbufsConserved, StatsAgree, Phases, OneBurst, OneThread
<1>2. CASE TxStep
   BY <1>2, TxDequeueInv, EmptyCallsInv, TxPushInv DEF TxStep
<1>3. CASE RxStep
   BY <1>3, RxDequeueInv, EmptyCallsInv, RxSendInv, RxSendEndsInv, RxFreeInv, RxDrainInv
   DEF RxStep
<1> QED BY <1>1, <1>2, <1>3 DEF Next

LEMMA Invariance == Spec => []IndInv
BY InitInv, StepInv, PTL DEF Spec

-----------------------------------------------------------------------------
\* Every variable keeps to its type: no burst, retry count or pool level leaves
\* its range.
THEOREM TypeCorrect == Spec => []TypeOK
<1>1. IndInv => TypeOK
   BY DEF IndInv
<1> QED BY <1>1, Invariance, PTL

\* No mbuf is leaked or freed twice by the two functions, however their calls
\* interleave.
THEOREM Conservation == Spec => []MbufsConserved
<1>1. IndInv => MbufsConserved
   BY DEF IndInv
<1> QED BY <1>1, Invariance, PTL

\* With no more mbufs than ring slots, the push loop of dequeue_tx_packets never
\* waits for the consumer.
THEOREM NoBackpressure == Spec => []RingNeverFull
<1>1. IndInv => RingNeverFull
   <2> SUFFICES ASSUME IndInv PROVE Len(txPkts) <= RingRoom
      BY DEF RingNeverFull
   <2>1. Len(txPkts) \in Nat /\ Len(ring) \in Nat /\ Len(rxPkts) \in Nat
      BY LenProperties DEF IndInv, TypeOK
   <2> QED BY <2>1, SizesAssumption, PoolFitsRing
           DEF IndInv, TypeOK, MbufsConserved, RingRoom
<1> QED BY <1>1, Invariance, PTL

\* The statistics of the two queues tell what was taken and given back.
THEOREM StatsCorrect == Spec => []StatsAgree
<1>1. IndInv => StatsAgree
   BY DEF IndInv
<1> QED BY <1>1, Invariance, PTL

\* In the one-thread modes the drain loop of enqueue_rx_packets discards nothing.
THEOREM OneThreadDrainsNothing == Spec => []SingleWorkerDrainsNothing
<1>1. IndInv => SingleWorkerDrainsNothing
   BY DEF IndInv, OneBurst, SingleWorkerDrainsNothing
<1> QED BY <1>1, Invariance, PTL

-----------------------------------------------------------------------------
\* The line of LossyFifo, whose packets this path holds in three places.

Held == Unsent \o ring \o txPkts

Bounded(s, k) == \A i \in 1..Len(s) : s[i] <= k

\* What was delivered and what still waits is in order and was accepted before.
LineInv(accepted, pending, done) ==
   /\ accepted \in Nat /\ pending \in Seq(Nat) /\ done \in Seq(Nat)
   /\ Line!Increasing(done \o pending)
   /\ Bounded(done \o pending, accepted)

\* Concatenation is associative.
LEMMA Assoc ==
   ASSUME NEW s \in Seq(Nat), NEW t \in Seq(Nat), NEW u \in Seq(Nat)
   PROVE  (s \o t) \o u = s \o (t \o u)
BY ConcatAssociative, SMTT(20)

\* What the parts of a cut sequence hold.
LEMMA CutElements ==
   ASSUME NEW s \in Seq(Nat), NEW n \in 0..Len(s)
   PROVE  /\ First(s, n) \in Seq(Nat) /\ Len(First(s, n)) = n
          /\ \A i \in 1..n : First(s, n)[i] = s[i]
          /\ Rest(s, n) \in Seq(Nat) /\ Len(Rest(s, n)) = Len(s) - n
          /\ \A i \in 1..(Len(s) - n) : Rest(s, n)[i] = s[i + n]
          /\ First(s, n) \o Rest(s, n) = s
<1>1. Len(s) \in Nat /\ n \in Nat /\ n <= Len(s)
   BY LenProperties
<1>2. \A i \in 1..Len(s) : s[i] \in Nat
   BY ElementOfSeq
<1>3. /\ SubSeq(s, 1, n) \in Seq(Nat)
      /\ Len(SubSeq(s, 1, n)) = IF 1 <= n THEN n - 1 + 1 ELSE 0
      /\ \A i \in 1..(n - 1 + 1) : SubSeq(s, 1, n)[i] = s[1 + i - 1]
   <2>1. \A i \in 1..n : s[i] \in Nat
      BY <1>1, <1>2
   <2> QED BY <1>1, <2>1, SubSeqProperties
<1>4. /\ SubSeq(s, n + 1, Len(s)) \in Seq(Nat)
      /\ Len(SubSeq(s, n + 1, Len(s))) = IF n + 1 <= Len(s) THEN Len(s) - (n + 1) + 1 ELSE 0
      /\ \A i \in 1..(Len(s) - (n + 1) + 1) : SubSeq(s, n + 1, Len(s))[i] = s[n + 1 + i - 1]
   <2>1. \A i \in (n + 1)..Len(s) : s[i] \in Nat
      BY <1>1, <1>2
   <2> QED BY <1>1, <2>1, SubSeqProperties
<1>5. SubSeq(s, 1, n) \o SubSeq(s, n + 1, Len(s)) = SubSeq(s, 1, Len(s))
   <2>1. 1 \in 1..(Len(s) + 1) /\ n \in (1 - 1)..Len(s) /\ Len(s) \in n..Len(s)
      BY <1>1
   <2> QED BY <2>1, ConcatAdjacentSubSeq
<1>6. SubSeq(s, 1, Len(s)) = s
   BY SubSeqFull
<1>7. Len(SubSeq(s, 1, n)) = n /\ Len(SubSeq(s, n + 1, Len(s))) = Len(s) - n
   BY <1>1, <1>3, <1>4
<1>8. /\ \A i \in 1..n : SubSeq(s, 1, n)[i] = s[i]
      /\ \A i \in 1..(Len(s) - n) : SubSeq(s, n + 1, Len(s))[i] = s[i + n]
   <2>1. \A i \in 1..n : i \in 1..(n - 1 + 1) /\ 1 + i - 1 = i
      BY <1>1
   <2>2. \A i \in 1..(Len(s) - n) : i \in 1..(Len(s) - (n + 1) + 1) /\ n + 1 + i - 1 = i + n
      BY <1>1
   <2> QED BY <1>3, <1>4, <2>1, <2>2
<1> QED BY <1>3, <1>4, <1>5, <1>6, <1>7, <1>8 DEF First, Rest

\* Accepted packets go to the end of an ordered line.
LEMMA FreshKeepsOrder ==
   ASSUME NEW s \in Seq(Nat), NEW k \in Nat, NEW n \in Nat, Line!Increasing(s), Bounded(s, k)
   PROVE  /\ Line!Fresh(k, n) \in Seq(Nat)
          /\ Line!Increasing(s \o Line!Fresh(k, n))
          /\ Bounded(s \o Line!Fresh(k, n), k + n)
<1>1. Line!Fresh(k, n) \in Seq(Nat) /\ Len(Line!Fresh(k, n)) = n
   BY DEF Line!Fresh
<1>2. \A i \in 1..n : Line!Fresh(k, n)[i] = k + i
   BY DEF Line!Fresh
<1> DEFINE f == Line!Fresh(k, n)
           t == s \o f
<1>3. Len(s) \in Nat /\ \A i \in 1..Len(s) : s[i] \in Nat
   BY LenProperties, ElementOfSeq
<1>4. /\ Len(t) = Len(s) + n
      /\ \A i \in 1..(Len(s) + n) : t[i] = IF i <= Len(s) THEN s[i] ELSE f[i - Len(s)]
   BY <1>1, ConcatProperties
<1>5. \A i \in 1..(Len(s) + n) : t[i] = IF i <= Len(s) THEN s[i] ELSE k + (i - Len(s))
   <2>1. TAKE i \in 1..(Len(s) + n)
   <2>2. CASE i <= Len(s)
      BY <1>4, <2>2
   <2>3. CASE i > Len(s)
      <3>1. i - Len(s) \in 1..n
         BY <1>3, <2>3
      <3>2. t[i] = f[i - Len(s)]
         BY <1>3, <1>4, <2>3
      <3>3. f[i - Len(s)] = k + (i - Len(s))
         BY <1>2, <3>1
      <3>4. ~(i <= Len(s))
         BY <1>3, <2>3
      <3> HIDE DEF f, t
      <3> QED BY <3>2, <3>3, <3>4
   <2>4. i <= Len(s) \/ i > Len(s)
      BY <1>3
   <2> HIDE DEF f, t
   <2> QED BY <2>2, <2>3, <2>4
<1> HIDE DEF t
<1>6. Line!Increasing(t)
   BY <1>3, <1>4, <1>5, SMTT(20) DEF Line!Increasing, Bounded
<1>7. Bounded(t, k + n)
   BY <1>3, <1>4, <1>5 DEF Bounded
<1> QED BY <1>1, <1>6, <1>7 DEF t

\* Packets may leave the middle of an ordered line.
LEMMA LossKeepsOrder ==
   ASSUME NEW d \in Seq(Nat), NEW p \in Seq(Nat), NEW k \in Nat, NEW n \in 0..Len(p),
          Line!Increasing(d \o p), Bounded(d \o p, k)
   PROVE  Line!Increasing(d \o Rest(p, n)) /\ Bounded(d \o Rest(p, n), k)
<1> DEFINE r == Rest(p, n)
           s == d \o p
           t == d \o r
<1>1. Len(d) \in Nat /\ Len(p) \in Nat /\ n \in Nat /\ n <= Len(p)
   BY LenProperties
<1>2. r \in Seq(Nat) /\ Len(r) = Len(p) - n /\ \A i \in 1..(Len(p) - n) : r[i] = p[i + n]
   BY CutElements
<1>3. /\ s \in Seq(Nat) /\ Len(s) = Len(d) + Len(p)
      /\ \A i \in 1..(Len(d) + Len(p)) : s[i] = IF i <= Len(d) THEN d[i] ELSE p[i - Len(d)]
   BY ConcatProperties
<1>4. /\ t \in Seq(Nat) /\ Len(t) = Len(d) + Len(r)
      /\ \A i \in 1..(Len(d) + Len(r)) : t[i] = IF i <= Len(d) THEN d[i] ELSE r[i - Len(d)]
   BY <1>2, ConcatProperties
<1>5. Line!Increasing(s) /\ Bounded(s, k)
   OBVIOUS
<1> HIDE DEF r, s, t
<1>6. Len(t) = Len(s) - n /\ Len(s) \in Nat /\ Len(t) \in Nat
   BY <1>1, <1>2, <1>3, <1>4
<1>7. ASSUME NEW i \in 1..Len(t)
      PROVE  /\ i <= Len(d) => t[i] = s[i] /\ i \in 1..Len(s)
             /\ i > Len(d) => t[i] = s[i + n] /\ i + n \in 1..Len(s)
   <2>1. i \in 1..(Len(d) + Len(r)) /\ i \in 1..(Len(d) + Len(p))
      BY <1>1, <1>2, <1>4
   <2>2. CASE i <= Len(d)
      <3>1. t[i] = d[i] /\ s[i] = d[i]
         BY <1>3, <1>4, <2>1, <2>2
      <3>2. ~(i > Len(d))
         BY <1>1, <2>2
      <3> QED BY <1>3, <2>1, <3>1, <3>2
   <2>3. CASE i > Len(d)
      <3>1. i - Len(d) \in 1..(Len(p) - n) /\ i + n \in 1..(Len(d) + Len(p)) /\ ~(i + n <= Len(d))
         BY <1>1, <1>2, <2>1, <2>3
      <3>2. t[i] = r[i - Len(d)]
         BY <1>1, <1>4, <2>1, <2>3
      <3>3. r[i - Len(d)] = p[(i - Len(d)) + n]
         BY <1>2, <3>1
      <3>4. s[i + n] = p[(i + n) - Len(d)]
         BY <1>3, <3>1
      <3>5. (i - Len(d)) + n = (i + n) - Len(d)
         BY <1>1
      <3>6. t[i] = s[i + n]
         BY <3>2, <3>3, <3>4, <3>5
      <3> QED BY <1>1, <1>3, <2>3, <3>1, <3>6
   <2> QED BY <1>1, <2>2, <2>3
<1>8. Line!Increasing(t)
   <2> SUFFICES ASSUME NEW i \in 1..Len(t), NEW j \in 1..Len(t), i < j
                PROVE  t[i] < t[j]
      BY DEF Line!Increasing
   <2>1. CASE j <= Len(d)
      <3>1. i <= Len(d)
         BY <1>1, <1>6, <2>1
      <3> QED BY <1>5, <1>7, <2>1, <3>1 DEF Line!Increasing
   <2>2. CASE i <= Len(d) /\ j > Len(d)
      <3>1. i < j + n
         BY <1>1
      <3> QED BY <1>5, <1>7, <2>2, <3>1 DEF Line!Increasing
   <2>3. CASE i > Len(d)
      <3>1. i + n < j + n /\ j > Len(d)
         BY <1>1, <2>3
      <3> QED BY <1>5, <1>7, <2>3, <3>1 DEF Line!Increasing
   <2> QED BY <1>1, <2>1, <2>2, <2>3
<1>9. Bounded(t, k)
   <2> SUFFICES ASSUME NEW i \in 1..Len(t) PROVE t[i] <= k
      BY DEF Bounded
   <2>1. i <= Len(d) \/ i > Len(d)
      BY <1>1
   <2> QED BY <1>5, <1>7, <2>1 DEF Bounded
<1> QED BY <1>8, <1>9 DEF t, r

\* Each step of the line keeps it in order, whatever variables it is made of.
LEMMA AcceptKeepsLine ==
   ASSUME NEW a, NEW p, NEW d, LineInv(a, p, d), NEW n \in Nat
   PROVE  LineInv(a + n, p \o Line!Fresh(a, n), d)
<1>1. a \in Nat /\ p \in Seq(Nat) /\ d \in Seq(Nat) /\ d \o p \in Seq(Nat)
   BY ConcatProperties DEF LineInv
<1>2. /\ Line!Fresh(a, n) \in Seq(Nat)
      /\ Line!Increasing((d \o p) \o Line!Fresh(a, n))
      /\ Bounded((d \o p) \o Line!Fresh(a, n), a + n)
   BY <1>1, FreshKeepsOrder DEF LineInv
<1>3. (d \o p) \o Line!Fresh(a, n) = d \o (p \o Line!Fresh(a, n))
   BY <1>1, <1>2, Assoc
<1>4. p \o Line!Fresh(a, n) \in Seq(Nat)
   BY <1>1, <1>2, ConcatProperties
<1> QED BY <1>1, <1>2, <1>3, <1>4 DEF LineInv

LEMMA DeliverKeepsLine ==
   ASSUME NEW a, NEW p, NEW d, LineInv(a, p, d), NEW n \in 0..Len(p)
   PROVE  LineInv(a, Rest(p, n), d \o First(p, n))
<1>1. a \in Nat /\ p \in Seq(Nat) /\ d \in Seq(Nat)
   BY DEF LineInv
<1>2. /\ First(p, n) \in Seq(Nat) /\ Rest(p, n) \in Seq(Nat)
      /\ First(p, n) \o Rest(p, n) = p
   BY <1>1, CutElements
<1>3. (d \o First(p, n)) \o Rest(p, n) = d \o p
   <2>1. (d \o First(p, n)) \o Rest(p, n) = d \o (First(p, n) \o Rest(p, n))
      BY <1>1, <1>2, Assoc
   <2> QED BY <1>2, <2>1
<1>4. d \o First(p, n) \in Seq(Nat)
   BY <1>1, <1>2, ConcatProperties
<1> QED BY <1>1, <1>2, <1>3, <1>4 DEF LineInv

LEMMA LoseKeepsLine ==
   ASSUME NEW a, NEW p, NEW d, LineInv(a, p, d), NEW n \in 0..Len(p)
   PROVE  LineInv(a, Rest(p, n), d)
<1>1. a \in Nat /\ p \in Seq(Nat) /\ d \in Seq(Nat)
   BY DEF LineInv
<1>2. Rest(p, n) \in Seq(Nat)
   BY <1>1, CutElements
<1>3. Line!Increasing(d \o Rest(p, n)) /\ Bounded(d \o Rest(p, n), a)
   BY <1>1, LossKeepsOrder DEF LineInv
<1> QED BY <1>1, <1>2, <1>3 DEF LineInv

LEMMA LineInit == Line!Init => LineInv(taken, Held, delivered)
<1> SUFFICES ASSUME Line!Init PROVE LineInv(taken, Held, delivered)
   OBVIOUS
<1>1. taken = 0 /\ Held = << >> /\ delivered = << >>
   BY DEF Line!Init, Held
<1>2. << >> \in Seq(Nat) /\ Len(<< >>) = 0
   BY EmptySeq
<1>3. << >> \o << >> = << >>
   BY <1>2, ConcatEmptySeq
<1> QED BY <1>1, <1>2, <1>3 DEF LineInv, Line!Increasing, Bounded

LEMMA LineStep ==
   ASSUME LineInv(taken, Held, delivered), [Line!Next]_(Line!vars)
   PROVE  LineInv(taken', Held', delivered')
<1>0. taken \in Nat /\ Held \in Seq(Nat) /\ Len(Held) \in Nat
   BY LenProperties DEF LineInv
<1>1. CASE Line!Accept
   <2>1. /\ taken' \in Nat /\ taken' > taken /\ delivered' = delivered
         /\ Held' = Held \o Line!Fresh(taken, taken' - taken)
      BY <1>1 DEF Line!Accept, Held
   <2>2. taken' - taken \in Nat /\ taken' = taken + (taken' - taken)
      <3>1. \A m, n \in Nat : n > m => n - m \in Nat /\ n = m + (n - m)
         OBVIOUS
      <3>2. taken \in Nat /\ taken' \in Nat /\ taken' > taken
         BY <1>0, <2>1
      <3> QED BY <3>1, <3>2
   <2>3. LineInv(taken + (taken' - taken), Held \o Line!Fresh(taken, taken' - taken), delivered)
      BY <2>2, AcceptKeepsLine
   <2> QED BY <2>1, <2>2, <2>3
<1>2. CASE Line!Deliver
   <2>1. PICK n \in 1..Len(Held) :
            /\ delivered' = delivered \o First(Held, n)
            /\ Held' = Rest(Held, n) /\ taken' = taken
      BY <1>2 DEF Line!Deliver, Line!First, Line!Rest, First, Rest, Held
   <2>2. n \in 0..Len(Held)
      BY <1>0
   <2> QED BY <2>1, <2>2, DeliverKeepsLine
<1>3. CASE Line!Lose
   <2>1. PICK n \in 1..Len(Held) :
            Held' = Rest(Held, n) /\ taken' = taken /\ delivered' = delivered
      BY <1>3 DEF Line!Lose, Line!Rest, Rest, Held
   <2>2. n \in 0..Len(Held)
      BY <1>0
   <2> QED BY <2>1, <2>2, LoseKeepsLine
<1>4. CASE UNCHANGED <<taken, Held, delivered>>
   BY <1>4
<1> QED BY <1>1, <1>2, <1>3, <1>4 DEF Line!Next, Line!vars, Held

LEMMA LineInOrder == LineInv(taken, Held, delivered) => Line!InOrder
BY DEF LineInv, Line!InOrder, Held

\* Packets leave the line of LossyFifo in the order in which they were accepted,
\* and none twice, whatever is lost in between.
THEOREM Ordered == Line!Spec => []Line!InOrder
<1>1. LineInv(taken, Held, delivered) /\ [Line!Next]_(Line!vars)
         => LineInv(taken, Held, delivered)'
   BY LineStep
<1> QED BY <1>1, LineInit, LineInOrder, PTL DEF Line!Spec

-----------------------------------------------------------------------------
\* A concatenation, cut where its parts meet.
LEMMA CutAtSeam ==
   ASSUME NEW s \in Seq(Nat), NEW t \in Seq(Nat)
   PROVE  First(s \o t, Len(s)) = s /\ Rest(s \o t, Len(s)) = t
<1> DEFINE c == s \o t
           f == First(c, Len(s))
           r == Rest(c, Len(s))
<1>1. Len(s) \in Nat /\ Len(t) \in Nat
   BY LenProperties
<1>2. /\ c \in Seq(Nat) /\ Len(c) = Len(s) + Len(t)
      /\ \A i \in 1..(Len(s) + Len(t)) : c[i] = IF i <= Len(s) THEN s[i] ELSE t[i - Len(s)]
   BY ConcatProperties
<1> HIDE DEF c
<1>3. Len(s) \in 0..Len(c)
   BY <1>1, <1>2
<1>4. f \in Seq(Nat) /\ Len(f) = Len(s) /\ r \in Seq(Nat) /\ Len(r) = Len(t)
   <2>1. /\ First(c, Len(s)) \in Seq(Nat) /\ Len(First(c, Len(s))) = Len(s)
         /\ Rest(c, Len(s)) \in Seq(Nat) /\ Len(Rest(c, Len(s))) = Len(c) - Len(s)
      BY <1>2, <1>3, CutSeq
   <2> QED BY <1>1, <1>2, <2>1
<1>5. \A i \in 1..Len(c) : c[i] \in Nat
   BY <1>2, ElementOfSeq
<1>6. \A i \in 1..Len(s) : f[i] = s[i]
   <2>1. \A i \in 1..Len(s) : c[i] \in Nat
      BY <1>1, <1>2, <1>5
   <2>2. \A i \in 1..(Len(s) - 1 + 1) : SubSeq(c, 1, Len(s))[i] = c[1 + i - 1]
      BY <1>1, <2>1, SubSeqProperties
   <2>3. \A i \in 1..Len(s) : /\ i \in 1..(Len(s) - 1 + 1) /\ 1 + i - 1 = i
                              /\ i \in 1..(Len(s) + Len(t)) /\ i <= Len(s)
      BY <1>1
   <2> QED BY <1>2, <2>2, <2>3 DEF First
<1>7. \A i \in 1..Len(t) : r[i] = t[i]
   <2>1. \A i \in (Len(s) + 1)..Len(c) : c[i] \in Nat
      BY <1>1, <1>2, <1>5
   <2>2. \A i \in 1..(Len(c) - (Len(s) + 1) + 1) :
            SubSeq(c, Len(s) + 1, Len(c))[i] = c[Len(s) + 1 + i - 1]
      BY <1>1, <1>2, <2>1, SubSeqProperties
   <2>3. \A i \in 1..Len(t) : /\ i \in 1..(Len(c) - (Len(s) + 1) + 1)
                              /\ Len(s) + 1 + i - 1 = Len(s) + i
                              /\ Len(s) + i \in 1..(Len(s) + Len(t))
                              /\ ~(Len(s) + i <= Len(s)) /\ (Len(s) + i) - Len(s) = i
      BY <1>1, <1>2
   <2> QED BY <1>2, <2>2, <2>3 DEF Rest
<1>8. f = s
   BY <1>4, <1>6, SeqEqual
<1>9. r = t
   BY <1>4, <1>7, SeqEqual
<1> QED BY <1>8, <1>9 DEF c

\* A cut in the first part of a concatenation.
LEMMA CutBeforeSeam ==
   ASSUME NEW s \in Seq(Nat), NEW t \in Seq(Nat), NEW n \in 0..Len(s)
   PROVE  First(s \o t, n) = First(s, n) /\ Rest(s \o t, n) = Rest(s, n) \o t
<1>1. /\ First(s, n) \in Seq(Nat) /\ Len(First(s, n)) = n
      /\ Rest(s, n) \in Seq(Nat) /\ First(s, n) \o Rest(s, n) = s
   BY CutSeq
<1>2. s \o t = First(s, n) \o (Rest(s, n) \o t)
   <2>1. (First(s, n) \o Rest(s, n)) \o t = First(s, n) \o (Rest(s, n) \o t)
      BY <1>1, Assoc
   <2> QED BY <1>1, <2>1
<1>3. Rest(s, n) \o t \in Seq(Nat)
   BY <1>1, ConcatProperties
<1>4. /\ First(First(s, n) \o (Rest(s, n) \o t), Len(First(s, n))) = First(s, n)
      /\ Rest(First(s, n) \o (Rest(s, n) \o t), Len(First(s, n))) = Rest(s, n) \o t
   BY <1>1, <1>3, CutAtSeam
<1> QED BY <1>1, <1>2, <1>4

-----------------------------------------------------------------------------
\* The parts of the line are sequences of packets, and what the guest has not
\* accepted of a receive burst is its rest.
LEMMA Parts ==
   ASSUME IndInv
   PROVE  /\ Unsent \in Seq(Nat) /\ ring \in Seq(Nat) /\ txPkts \in Seq(Nat)
          /\ Unsent \o ring \in Seq(Nat)
          /\ rxPc \in {"idle", "drain"} => Unsent = << >>
          /\ rxPc \in {"send", "free"} => Len(Unsent) = Len(rxPkts) - sent
<1>1. ring \in Seq(Nat) /\ txPkts \in Seq(Nat) /\ rxPkts \in Seq(Nat) /\ sent \in Nat
   BY SizesAssumption DEF IndInv, TypeOK
<1>2. CASE rxPc \in {"idle", "drain"}
   <2>1. rxPkts = << >> /\ Len(rxPkts) = 0
      BY <1>2, EmptySeq DEF IndInv, Phases
   <2>2. SubSeq(rxPkts, sent + 1, 0) = << >>
      BY <1>1, SubSeqEmpty
   <2>3. Unsent = << >>
      BY <2>1, <2>2 DEF Unsent, Rest
   <2> QED BY <1>1, <1>2, <2>3, EmptySeq, ConcatProperties
<1>3. CASE rxPc \in {"send", "free"}
   <2>1. sent \in 0..Len(rxPkts)
      BY <1>1, <1>3 DEF IndInv, Phases
   <2>2. Unsent \in Seq(Nat) /\ Len(Unsent) = Len(rxPkts) - sent
      BY <1>1, <2>1, CutSeq DEF Unsent
   <2> QED BY <1>1, <1>3, <2>2, ConcatProperties
<1> QED BY <1>2, <1>3 DEF IndInv, TypeOK

LEMMA HeldAbs == Held = (Unsent \o ring) \o txPkts
BY DEF Held

\* dequeue_tx_packets accepts a burst at the end of the line.
LEMMA TxDequeueAccepts == IndInv /\ TxDequeue => Line!Accept
<1> SUFFICES ASSUME IndInv, TxDequeue PROVE Line!Accept
   OBVIOUS
<1>1. PICK n \in 1..Least(Burst, Least(free, MaxPkts - taken)) :
         txPkts' = FromGuest(n) /\ taken' = taken + n
   BY DEF TxDequeue
<1>2. n \in 1..(MaxPkts - taken)
   BY SizesAssumption, <1>1 DEF Least, IndInv, TypeOK
<1>3. txPkts = << >> /\ UNCHANGED <<rxPkts, sent, ring, delivered>>
   BY DEF IndInv, Phases, TxDequeue, rxVars
<1>4. Unsent' = Unsent
   BY <1>3 DEF Unsent
<1>5. Held = Unsent \o ring
   BY <1>3, Parts, ConcatEmptySeq, HeldAbs
<1>6. Held' = Held \o FromGuest(n)
   BY <1>1, <1>3, <1>4, <1>5 DEF Held
<1>7. taken' \in Nat /\ taken' > taken /\ taken' - taken = n
   BY <1>1, <1>2, SizesAssumption DEF IndInv, TypeOK
<1> QED BY <1>1, <1>3, <1>6, <1>7 DEF Line!Accept, Line!Fresh, FromGuest, Held

\* The push loop moves packets within the line.
LEMMA TxPushKeepsLine == IndInv /\ TxPush => Held' = Held
<1> SUFFICES ASSUME IndInv, TxPush PROVE Held' = Held
   OBVIOUS
<1> DEFINE n == Least(Len(txPkts), RingRoom)
<1>1. ring' = ring \o First(txPkts, n) /\ txPkts' = Rest(txPkts, n)
   BY DEF TxPush
<1>2. Unsent' = Unsent
   BY DEF TxPush, rxVars, Unsent
<1>3. Len(txPkts) \in Nat /\ Len(ring) \in Nat /\ Len(rxPkts) \in Nat
   BY LenProperties DEF IndInv, TypeOK
<1>4. n \in 0..Len(txPkts)
   BY <1>3, SizesAssumption, PoolFitsRing
   DEF Least, RingRoom, IndInv, TypeOK, MbufsConserved
<1> HIDE DEF n
<1>5. /\ First(txPkts, n) \in Seq(Nat) /\ Rest(txPkts, n) \in Seq(Nat)
      /\ First(txPkts, n) \o Rest(txPkts, n) = txPkts
   BY <1>4, Parts, CutSeq
<1>6. /\ Unsent \in Seq(Nat) /\ ring \in Seq(Nat) /\ Unsent \o ring \in Seq(Nat)
   BY Parts
<1>7. Unsent \o (ring \o First(txPkts, n)) = (Unsent \o ring) \o First(txPkts, n)
   BY ONLY <1>5, <1>6, Assoc
<1>8. ((Unsent \o ring) \o First(txPkts, n)) \o Rest(txPkts, n)
         = (Unsent \o ring) \o (First(txPkts, n) \o Rest(txPkts, n))
   BY ONLY <1>5, <1>6, Assoc
<1> QED BY <1>1, <1>2, <1>5, <1>7, <1>8 DEF Held

\* So does taking a burst off the ring.
LEMMA RxDequeueKeepsLine == IndInv /\ RxDequeue => Held' = Held
<1> SUFFICES ASSUME IndInv, RxDequeue PROVE Held' = Held
   OBVIOUS
<1> DEFINE n == Least(Burst, Len(ring))
<1>1. rxPkts' = First(ring, n) /\ ring' = Rest(ring, n) /\ txPkts' = txPkts /\ sent' = 0
   BY DEF RxDequeue, txVars
<1>2. Len(ring) \in Nat
   BY LenProperties DEF IndInv, TypeOK
<1>3. n \in 0..Len(ring)
   BY <1>2, SizesAssumption DEF Least
<1> HIDE DEF n
<1>4. /\ First(ring, n) \in Seq(Nat) /\ Rest(ring, n) \in Seq(Nat)
      /\ First(ring, n) \o Rest(ring, n) = ring
   BY <1>3, Parts, CutSeq
<1>5. Unsent' = First(ring, n)
   <2>1. SubSeq(First(ring, n), 1, Len(First(ring, n))) = First(ring, n)
      BY <1>4, SubSeqFull
   <2> QED BY <1>1, <2>1 DEF Unsent, Rest
<1>6. Unsent = << >>
   BY Parts DEF RxDequeue
<1>7. Unsent \o ring = ring
   BY <1>6, Parts, ConcatEmptySeq
<1> QED BY <1>1, <1>4, <1>5, <1>7 DEF Held

\* What the guest accepts of a receive burst is delivered from the head.
LEMMA RxSendDelivers == IndInv /\ RxSend => Line!Deliver \/ UNCHANGED <<taken, Held, delivered>>
<1> SUFFICES ASSUME IndInv, RxSend
             PROVE  Line!Deliver \/ UNCHANGED <<taken, Held, delivered>>
   OBVIOUS
<1>1. PICK n \in 0..(Len(rxPkts) - sent) :
         /\ delivered' = delivered \o SubSeq(rxPkts, sent + 1, sent + n)
         /\ sent' = sent + n
   BY DEF RxSend
<1>2. UNCHANGED <<rxPkts, ring, txPkts, taken>>
   BY DEF RxSend, txVars
<1>3. /\ rxPkts \in Seq(Nat) /\ Len(rxPkts) \in Nat /\ sent \in Nat /\ n \in Nat
      /\ sent + n <= Len(rxPkts) /\ rxPc = "send" /\ delivered \in Seq(Nat)
   BY <1>1, LenProperties, SizesAssumption DEF IndInv, TypeOK, RxSend
<1>4. Len(Unsent) = Len(rxPkts) - sent /\ Unsent \in Seq(Nat) /\ n \in 0..Len(Unsent)
   BY <1>1, <1>3, Parts
<1> DEFINE part == SubSeq(rxPkts, sent + 1, sent + n)
<1>5. part \in Seq(Nat) /\ Len(part) = n
   BY <1>3, PartOfBurst
<1>6. Unsent = part \o Unsent'
   <2>1. /\ sent + 1 \in 1..(Len(rxPkts) + 1)
         /\ sent + n \in ((sent + 1) - 1)..Len(rxPkts)
         /\ Len(rxPkts) \in (sent + n)..Len(rxPkts)
      BY <1>3
   <2>2. SubSeq(rxPkts, sent + 1, sent + n) \o SubSeq(rxPkts, (sent + n) + 1, Len(rxPkts))
            = SubSeq(rxPkts, sent + 1, Len(rxPkts))
      BY <1>3, <2>1, ConcatAdjacentSubSeq
   <2>3. Unsent' = SubSeq(rxPkts, (sent + n) + 1, Len(rxPkts))
      BY <1>1, <1>2 DEF Unsent, Rest
   <2> QED BY <2>2, <2>3 DEF Unsent, Rest
<1>7. Unsent' \in Seq(Nat)
   <2>1. IndInv'
      BY RxSendInv
   <2>2. rxPc' = "send"
      BY <1>3 DEF RxSend
   <2>3. sent' \in 0..Len(rxPkts)
      BY <1>1, <1>3
   <2>4. Rest(rxPkts, sent') \in Seq(Nat)
      BY <1>3, <2>3, CutSeq
   <2> QED BY <1>2, <2>4 DEF Unsent
<1> HIDE DEF part
<1>8. Held = part \o Held'
   <2>1. Held = ((part \o Unsent') \o ring) \o txPkts
      BY <1>6 DEF Held
   <2>2. (part \o Unsent') \o ring = part \o (Unsent' \o ring)
      BY <1>5, <1>7, Parts, Assoc
   <2>3. Unsent' \o ring \in Seq(Nat)
      BY <1>7, Parts, ConcatProperties
   <2>4. (part \o (Unsent' \o ring)) \o txPkts = part \o ((Unsent' \o ring) \o txPkts)
      BY <1>5, <2>3, Parts, Assoc
   <2>5. Held' = (Unsent' \o ring) \o txPkts
      BY <1>2 DEF Held
   <2> QED BY <2>1, <2>2, <2>4, <2>5
<1>9. Held' \in Seq(Nat)
   <2>1. Unsent' \o ring \in Seq(Nat)
      BY <1>7, Parts, ConcatProperties
   <2>2. (Unsent' \o ring) \o txPkts \in Seq(Nat)
      BY <2>1, Parts, ConcatProperties
   <2> QED BY <1>2, <2>2 DEF Held
<1>10. First(Held, n) = part /\ Rest(Held, n) = Held'
   BY <1>5, <1>8, <1>9, CutAtSeam
<1>11. Len(Held) \in Nat /\ n <= Len(Held)
   <2>1. Len(Held) = Len(part) + Len(Held')
      BY <1>5, <1>8, <1>9, ConcatProperties
   <2> QED BY <1>3, <1>5, <1>9, <2>1, LenProperties
<1>12. CASE n = 0
   <2>1. part = << >>
      BY <1>5, <1>12, EmptySeq
   <2>2. Held = Held'
      BY <1>8, <1>9, <2>1, ConcatEmptySeq
   <2>3. delivered' = delivered
      BY <1>1, <1>3, <2>1, ConcatEmptySeq DEF part
   <2> QED BY <1>2, <2>2, <2>3
<1>13. CASE n # 0
   <2>1. n \in 1..Len(Held)
      BY <1>3, <1>11, <1>13
   <2>2. delivered' = delivered \o First(Held, n) /\ Held' = Rest(Held, n) /\ taken' = taken
      BY <1>1, <1>2, <1>10 DEF part
   <2> QED BY <2>1, <2>2 DEF Line!Deliver, Line!First, Line!Rest, First, Rest, Held
<1> QED BY <1>12, <1>13

\* Packets freed undelivered, be it a refused rest of a burst or what the drain
\* loop finds, are lost from the head.
LEMMA HeadIsLost ==
   ASSUME NEW a \in Seq(Nat), NEW b \in Seq(Nat), Held = a \o b, Held' = b,
          UNCHANGED <<taken, delivered>>
   PROVE  Line!Lose \/ UNCHANGED <<taken, Held, delivered>>
<1>1. CASE a = << >>
   BY <1>1, ConcatEmptySeq
<1>2. CASE a # << >>
   <2>1. Len(a) \in 1..Len(Held)
      <3>1. Len(Held) = Len(a) + Len(b) /\ Len(a) \in Nat \ {0} /\ Len(b) \in Nat
         BY <1>2, ConcatProperties, LenProperties, EmptySeq
      <3> QED BY <3>1
   <2>2. Held' = Rest(Held, Len(a))
      BY CutAtSeam
   <2> QED BY <2>1, <2>2 DEF Line!Lose, Line!Rest, Rest, Held
<1> QED BY <1>1, <1>2

LEMMA RxFreeLoses == IndInv /\ RxFree => Line!Lose \/ UNCHANGED <<taken, Held, delivered>>
<1> SUFFICES ASSUME IndInv, RxFree
             PROVE  Line!Lose \/ UNCHANGED <<taken, Held, delivered>>
   OBVIOUS
<1>1. UNCHANGED <<ring, txPkts, taken, delivered>>
   BY DEF RxFree, txVars
<1>2. Unsent' = << >>
   <2>1. IndInv' /\ rxPc' = "drain"
      BY RxFreeInv DEF RxFree
   <2>2. rxPkts' = << >> /\ Len(rxPkts') = 0 /\ sent' \in Nat
      BY <2>1, EmptySeq, SizesAssumption DEF RxFree, IndInv, TypeOK
   <2>3. SubSeq(rxPkts', sent' + 1, 0) = << >>
      BY <2>2, SubSeqEmpty
   <2> QED BY <2>2, <2>3 DEF Unsent, Rest
<1>3. Held' = ring \o txPkts
   <2>1. Held' = (<< >> \o ring) \o txPkts
      BY <1>1, <1>2 DEF Held
   <2>2. << >> \o ring = ring
      BY Parts, ConcatEmptySeq
   <2> QED BY <2>1, <2>2
<1>4. Held = Unsent \o (ring \o txPkts)
   BY Parts, Assoc DEF Held
<1>5. ring \o txPkts \in Seq(Nat)
   BY Parts, ConcatProperties
<1> QED BY <1>1, <1>3, <1>4, <1>5, Parts, HeadIsLost

LEMMA RxDrainLoses == IndInv /\ RxDrain => Line!Lose \/ UNCHANGED <<taken, Held, delivered>>
<1> SUFFICES ASSUME IndInv, RxDrain
             PROVE  Line!Lose \/ UNCHANGED <<taken, Held, delivered>>
   OBVIOUS
<1> DEFINE n == Least(Burst, Len(ring))
<1>1. ring' = Rest(ring, n) /\ UNCHANGED <<rxPkts, sent, txPkts, taken, delivered>>
   BY DEF RxDrain, txVars
<1>2. Len(ring) \in Nat
   BY LenProperties DEF IndInv, TypeOK
<1>3. n \in 0..Len(ring)
   BY <1>2, SizesAssumption DEF Least
<1> HIDE DEF n
<1>4. /\ First(ring, n) \in Seq(Nat) /\ Rest(ring, n) \in Seq(Nat)
      /\ First(ring, n) \o Rest(ring, n) = ring
   BY <1>3, Parts, CutSeq
<1>5. Unsent = << >> /\ Unsent' = << >>
   <2>1. Unsent = << >>
      BY Parts DEF RxDrain
   <2> QED BY <1>1, <2>1 DEF Unsent
<1>6. Held = ring \o txPkts /\ Held' = Rest(ring, n) \o txPkts
   <2>1. << >> \o ring = ring /\ << >> \o Rest(ring, n) = Rest(ring, n)
      BY <1>4, Parts, ConcatEmptySeq
   <2> QED BY <1>1, <1>5, <2>1 DEF Held
<1>7. Held = First(ring, n) \o Held'
   <2>1. (First(ring, n) \o Rest(ring, n)) \o txPkts = First(ring, n) \o (Rest(ring, n) \o txPkts)
      BY <1>4, Parts, Assoc
   <2> QED BY <1>4, <1>6, <2>1
<1>8. Rest(ring, n) \o txPkts \in Seq(Nat)
   BY <1>4, Parts, ConcatProperties
<1> QED BY <1>1, <1>4, <1>6, <1>7, <1>8, HeadIsLost

LEMMA StepSimulates == IndInv /\ [Next]_vars => [Line!Next]_(Line!vars)
<1> SUFFICES ASSUME IndInv, [Next]_vars
             PROVE  Line!Next \/ UNCHANGED <<taken, Held, delivered>>
   BY DEF Line!vars, Held
<1>1. CASE TxDequeue
   BY <1>1, TxDequeueAccepts DEF Line!Next
<1>2. CASE TxPush
   BY <1>2, TxPushKeepsLine DEF TxPush, rxVars
<1>3. CASE RxDequeue
   BY <1>3, RxDequeueKeepsLine DEF RxDequeue, txVars
<1>4. CASE RxSend
   BY <1>4, RxSendDelivers DEF Line!Next
<1>5. CASE RxFree
   BY <1>5, RxFreeLoses DEF Line!Next
<1>6. CASE RxDrain
   BY <1>6, RxDrainLoses DEF Line!Next
<1>7. CASE TxEmpty \/ RxEmpty \/ RxSendEnds \/ UNCHANGED vars
   BY <1>7 DEF TxEmpty, RxEmpty, RxSendEnds, vars, txVars, rxVars, Held, Unsent
<1> QED BY <1>1, <1>2, <1>3, <1>4, <1>5, <1>6, <1>7 DEF Next, TxStep, RxStep

LEMMA InitSimulates == Init => Line!Init
<1> SUFFICES ASSUME Init PROVE Line!Init
   OBVIOUS
<1>1. Unsent = << >>
   <2>1. SubSeq(<< >>, 1, 0) = << >>
      BY SubSeqEmpty
   <2>2. Len(<< >>) = 0
      BY EmptySeq
   <2> QED BY <2>1, <2>2 DEF Init, Unsent, Rest
<1>2. Unsent \o ring \o txPkts = << >>
   BY <1>1, EmptySeq, ConcatEmptySeq DEF Init
<1> QED BY <1>2 DEF Init, Line!Init

\* Every behaviour of the data path is, apart from steps within the path, one of
\* the line of LossyFifo: what leaves, leaves at its head.
THEOREM Refinement == Spec => Line!Init /\ [][Line!Next]_(Line!vars)
BY InitSimulates, StepSimulates, Invariance, PTL DEF Spec

\* The guest gets its packets back in the order in which it sent them, and none
\* twice, whatever the burst sizes, refusals, retries and thread mode.
THEOREM InOrderDelivery == Spec => []InOrder
<1>1. LineInv(taken, Held, delivered) => InOrder
   BY LineInOrder DEF InOrder
<1>2. Init => LineInv(taken, Held, delivered)
   BY InitSimulates, LineInit
<1>3. LineInv(taken, Held, delivered) /\ [Line!Next]_(Line!vars)
         => LineInv(taken, Held, delivered)'
   BY LineStep
<1> QED BY <1>1, <1>2, <1>3, InitSimulates, StepSimulates, Invariance, PTL DEF Spec
=============================================================================
