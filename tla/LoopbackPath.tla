---------------------------- MODULE LoopbackPath ----------------------------
(***************************************************************************)
(* The data path of one queue pair of one device, as the worker threads of *)
(* a loopback port handler run it: dequeue_tx_packets moves packets from   *)
(* the guest's transmit queue through a mempool into a ring,               *)
(* enqueue_rx_packets moves them from the ring to the guest's receive      *)
(* queue.  In the thread modes EachQOneThread and AllQOneThread one worker *)
(* calls both in turn, in EachQTwoThread and AllQTwoThread two workers     *)
(* call them concurrently.                                                 *)
(*                                                                         *)
(* A packet is the number of its place in the guest's transmit queue.  The *)
(* guest and the DPDK calls are the environment: a burst call may accept   *)
(* any number of packets up to what it is offered.                         *)
(***************************************************************************)
EXTENDS Naturals, Sequences

CONSTANTS PoolSize,     \* mbufs in the mempool of the queue pair (8191)
          RingCap,      \* packets the ring holds (131072 slots, one unused)
          Burst,        \* PKT_BURST_SZ
          MaxRetries,   \* MAX_ENQUEUE_RETRIES
          MaxPkts       \* bound: packets the guest sends in a behaviour

ASSUME SizesAssumption ==
          /\ PoolSize \in Nat \ {0}
          /\ RingCap \in Nat \ {0}
          /\ Burst \in Nat \ {0}
          /\ MaxRetries \in Nat \ {0}
          /\ MaxPkts \in Nat

\* create_resources gives every pool fewer mbufs than its ring has slots.
ASSUME PoolFitsRing == PoolSize <= RingCap

VARIABLES
   taken,        \* packets dequeued from the guest so far
   free,         \* mbufs in the pool
   turn,         \* one worker: the queue it serves next; two workers: "any"
   txPc,         \* "idle", or "push": inside the loop that fills the ring
   txPkts,       \* pkts[sent..] of dequeue_tx_packets: dequeued, not yet pushed
   txBurst,      \* nb_tx
   ring,         \* the ring, oldest packet first
   rxPc,         \* "idle", "send", "free" or "drain"
   rxPkts,       \* pkts of enqueue_rx_packets
   sent,         \* how many of rxPkts the guest has accepted
   retries,
   delivered,    \* packets written to the guest's receive queue, in order
   tx_frames,    \* QueueStats of the odd queue
   rx_frames     \* QueueStats of the even queue

txVars == <<taken, txPc, txPkts, txBurst, tx_frames>>
rxVars == <<rxPc, rxPkts, sent, retries, delivered, rx_frames>>
vars == <<taken, free, turn, txPc, txPkts, txBurst, ring, rxPc, rxPkts, sent,
          retries, delivered, tx_frames, rx_frames>>

-----------------------------------------------------------------------------
First(s, n) == SubSeq(s, 1, n)
Rest(s, n) == SubSeq(s, n + 1, Len(s))
Least(a, b) == IF a <= b THEN a ELSE b

\* The next n packets of the guest's transmit queue.
FromGuest(n) == [i \in 1..n |-> taken + i]

\* Mutant of RingRoom: a ring of PKT_BURST_SZ slots.
RingRoomOfABurst == Burst - Len(ring)

\* Free slots of the ring.
RingRoom == RingCap - Len(ring)

Init == /\ taken = 0
        /\ free = PoolSize
        /\ turn \in {"tx", "rx", "any"}
        /\ txPc = "idle" /\ txPkts = << >> /\ txBurst = 0
        /\ ring = << >>
        /\ rxPc = "idle" /\ rxPkts = << >> /\ sent = 0 /\ retries = 0
        /\ delivered = << >>
        /\ tx_frames = 0 /\ rx_frames = 0

-----------------------------------------------------------------------------
(***************************************************************************)
(* A single worker alternates: the two queues of a pair are in its qids    *)
(* once each, so it serves one after the other and starts over.  Workers   *)
(* of their own do not wait for each other.                                *)
(***************************************************************************)
OneThread == turn # "any"

MayServe(q) == OneThread => turn = q /\ txPc = "idle" /\ rxPc = "idle"

Served(q) == turn' = IF ~OneThread THEN "any" ELSE IF q = "tx" THEN "rx" ELSE "tx"

\* dequeue_tx_packets up to its push loop.  rte_vhost_dequeue_burst allocates
\* one mbuf per packet; with nothing to dequeue or no mbuf the call returns.
TxDequeue ==
   /\ txPc = "idle" /\ MayServe("tx")
   /\ \E n \in 1..Least(Burst, Least(free, MaxPkts - taken)) :
         /\ txPkts' = FromGuest(n)
         /\ txBurst' = n
         /\ taken' = taken + n
         /\ free' = free - n
   /\ txPc' = "push"
   /\ UNCHANGED <<turn, ring, tx_frames, rxVars>>

\* The guest has nothing to send, or the pool has no mbuf for it.
TxEmpty ==
   /\ txPc = "idle" /\ MayServe("tx")
   /\ Served("tx")
   /\ UNCHANGED <<free, ring, txVars, rxVars>>

\* Mutant of TxPush: a single worker does not leave the transmit queue after a
\* burst, only when the queue is empty.
TxPushStays ==
   /\ txPc = "push"
   /\ LET pushed == Least(Len(txPkts), RingRoom)
      IN  /\ ring' = ring \o First(txPkts, pushed)
          /\ txPkts' = Rest(txPkts, pushed)
          /\ IF pushed = Len(txPkts)
             THEN txPc' = "idle" /\ tx_frames' = tx_frames + txBurst
             ELSE UNCHANGED <<txPc, tx_frames>>
   /\ UNCHANGED <<taken, free, turn, txBurst, rxVars>>

\* One iteration of the push loop: the ring takes what it has room for; the
\* loop ends, and the burst is counted, when all of it is in.
TxPush ==
   /\ txPc = "push"
   /\ LET pushed == Least(Len(txPkts), RingRoom)
      IN  /\ ring' = ring \o First(txPkts, pushed)
          /\ txPkts' = Rest(txPkts, pushed)
          /\ IF pushed = Len(txPkts)
             THEN txPc' = "idle" /\ tx_frames' = tx_frames + txBurst /\ Served("tx")
             ELSE UNCHANGED <<txPc, tx_frames, turn>>
   /\ UNCHANGED <<taken, free, txBurst, rxVars>>

\* Mutant of RxDequeue: the last packet of the burst stays in the ring.
RxDequeueLeavesLast ==
   /\ rxPc = "idle" /\ MayServe("rx") /\ ring # << >>
   /\ LET n == Least(Burst, Len(ring))
      IN  /\ rxPkts' = First(ring, n)
          /\ ring' = Rest(ring, n - 1)
   /\ rxPc' = "send" /\ sent' = 0 /\ retries' = 0
   /\ UNCHANGED <<free, turn, delivered, rx_frames, txVars>>

\* enqueue_rx_packets takes a burst off the ring.
RxDequeue ==
   /\ rxPc = "idle" /\ MayServe("rx") /\ ring # << >>
   /\ LET n == Least(Burst, Len(ring))
      IN  /\ rxPkts' = First(ring, n)
          /\ ring' = Rest(ring, n)
   /\ rxPc' = "send" /\ sent' = 0 /\ retries' = 0
   /\ UNCHANGED <<free, turn, delivered, rx_frames, txVars>>

\* An empty ring ends the call.
RxEmpty ==
   /\ rxPc = "idle" /\ MayServe("rx") /\ ring = << >>
   /\ Served("rx")
   /\ UNCHANGED <<free, ring, txVars, rxVars>>

\* Mutants of RxSend: the retries are not bounded; every retry offers the burst
\* from its start.
RxSendForEver ==
   /\ rxPc = "send"
   /\ sent < Len(rxPkts)
   /\ \E n \in 0..(Len(rxPkts) - sent) :
         /\ delivered' = delivered \o SubSeq(rxPkts, sent + 1, sent + n)
         /\ sent' = sent + n
         /\ retries' = IF sent + n < Len(rxPkts) THEN retries + 1 ELSE retries
   /\ UNCHANGED <<free, turn, ring, rxPc, rxPkts, rx_frames, txVars>>

RxSendFromStart ==
   /\ rxPc = "send"
   /\ sent < Len(rxPkts) /\ retries < MaxRetries
   /\ \E n \in 0..(Len(rxPkts) - sent) :
         /\ delivered' = delivered \o SubSeq(rxPkts, 1, n)
         /\ sent' = sent + n
         /\ retries' = IF sent + n < Len(rxPkts) THEN retries + 1 ELSE retries
   /\ UNCHANGED <<free, turn, ring, rxPc, rxPkts, rx_frames, txVars>>

\* One iteration of the send loop: the guest accepts the next n packets, and
\* the call counts a retry when that was not all.
RxSend ==
   /\ rxPc = "send"
   /\ sent < Len(rxPkts) /\ retries < MaxRetries
   /\ \E n \in 0..(Len(rxPkts) - sent) :
         /\ delivered' = delivered \o SubSeq(rxPkts, sent + 1, sent + n)
         /\ sent' = sent + n
         /\ retries' = IF sent + n < Len(rxPkts) THEN retries + 1 ELSE retries
   /\ UNCHANGED <<free, turn, ring, rxPc, rxPkts, rx_frames, txVars>>

\* Everything was accepted, or the retries are used up.
RxSendEnds ==
   /\ rxPc = "send"
   /\ sent = Len(rxPkts) \/ retries >= MaxRetries
   /\ rxPc' = "free"
   /\ UNCHANGED <<free, turn, ring, rxPkts, sent, retries, delivered, rx_frames, txVars>>

\* Mutant of RxFree: the mbufs that were not accepted are forgotten.
RxFreeSentOnly ==
   /\ rxPc = "free"
   /\ free' = free + sent
   /\ rxPkts' = << >>
   /\ rxPc' = "drain"
   /\ UNCHANGED <<turn, ring, sent, retries, delivered, rx_frames, txVars>>

\* The mbufs that were not accepted go back to the pool, then the others.
RxFree ==
   /\ rxPc = "free"
   /\ free' = free + (Len(rxPkts) - sent) + sent
   /\ rxPkts' = << >>
   /\ rxPc' = "drain"
   /\ UNCHANGED <<turn, ring, sent, retries, delivered, rx_frames, txVars>>

\* Mutant of RxDrain: the statistics are updated in the loop.
RxDrainCounts ==
   /\ rxPc = "drain"
   /\ LET remaining == Least(Burst, Len(ring))
      IN  /\ ring' = Rest(ring, remaining)
          /\ free' = free + remaining
          /\ rx_frames' = rx_frames + sent
          /\ IF remaining = 0
             THEN rxPc' = "idle" /\ Served("rx")
             ELSE UNCHANGED <<rxPc, turn>>
   /\ UNCHANGED <<rxPkts, sent, retries, delivered, txVars>>

\* One iteration of the drain loop: a further burst leaves the ring and is
\* freed undelivered; an empty ring ends the loop and the call.
RxDrain ==
   /\ rxPc = "drain"
   /\ LET remaining == Least(Burst, Len(ring))
      IN  /\ ring' = Rest(ring, remaining)
          /\ free' = free + remaining
          /\ IF remaining = 0
             THEN rxPc' = "idle" /\ rx_frames' = rx_frames + sent /\ Served("rx")
             ELSE UNCHANGED <<rxPc, rx_frames, turn>>
   /\ UNCHANGED <<rxPkts, sent, retries, delivered, txVars>>

TxStep == TxDequeue \/ TxEmpty \/ TxPush
RxStep == RxDequeue \/ RxEmpty \/ RxSend \/ RxSendEnds \/ RxFree \/ RxDrain

Next == TxStep \/ RxStep

Spec == Init /\ [][Next]_vars

\* The workers of a running handler call the two functions for ever and the
\* operating system schedules them; whether the guest sends is up to the guest.
Fairness == WF_vars(TxPush) /\ WF_vars(TxEmpty) /\ WF_vars(RxStep)

FairSpec == Spec /\ Fairness

-----------------------------------------------------------------------------
TypeOK == /\ taken \in 0..MaxPkts
          /\ free \in Nat
          /\ turn \in {"tx", "rx", "any"}
          /\ txPc \in {"idle", "push"}
          /\ txPkts \in Seq(Nat)
          /\ txBurst \in 0..Burst
          /\ ring \in Seq(Nat)
          /\ rxPc \in {"idle", "send", "free", "drain"}
          /\ rxPkts \in Seq(Nat)
          /\ sent \in 0..Burst
          /\ retries \in 0..MaxRetries
          /\ delivered \in Seq(Nat)
          /\ tx_frames \in Nat /\ rx_frames \in Nat

\* The packets of a receive burst that the guest has not accepted.
Unsent == Rest(rxPkts, sent)

\* No mbuf is leaked or freed twice: those in the pool, in the hands of either
\* worker and in the ring are always the whole pool (every rte_pktmbuf_free in
\* enqueue_rx_packets against the allocation in rte_vhost_dequeue_burst).
MbufsConserved ==
   free + Len(txPkts) + Len(ring) + Len(rxPkts) = PoolSize

\* A burst always fits the ring as a whole: the "ring full, let consumer drain"
\* wait in the push loop of dequeue_tx_packets, which does not look at
\* is_running_ and would keep a stopping handler, is never entered.
RingNeverFull == txPc = "push" => Len(txPkts) <= RingRoom

\* What the report prints: tx_frames is what was taken from the guest and
\* rx_frames what was given back, up to the calls that are still running.
StatsAgree ==
   /\ taken = tx_frames + (IF txPc = "idle" THEN 0 ELSE txBurst)
   /\ Len(delivered) = rx_frames + (IF rxPc = "idle" THEN 0 ELSE sent)

\* A worker that serves both queues of a pair finds the ring empty when it
\* comes to the drain loop of enqueue_rx_packets: the loop discards nothing.
SingleWorkerDrainsNothing ==
   OneThread /\ rxPc = "drain" => ring = << >>

\* The path is a first-in first-out line that loses packets only at its head.
Line == INSTANCE LossyFifo
           WITH accepted <- taken, pending <- Unsent \o ring \o txPkts
ImplementsLine == Line!Spec

\* The guest gets its packets back in the order it sent them, none twice.
InOrder == Line!InOrder

\* "Lossless enqueue to guest RX" (enqueue_rx_packets): a packet that leaves the
\* ring is one of the burst that the call then offers to the guest.
Lossless ==
   [][\A i \in 1..Len(ring) :
        \/ \E j \in 1..Len(ring') : ring'[j] = ring[i]
        \/ \E j \in 1..Len(rxPkts') : rxPkts'[j] = ring[i]]_vars
=============================================================================
