----------------------------- MODULE FinalReport -----------------------------
(***************************************************************************)
(* print_final_report, which main calls while the workers still move       *)
(* packets and the vhost thread may still add devices.  It walks through   *)
(* the vids from 0 on, asks pmap_ for the queue pairs of each with         *)
(* operator[], and reads the two counters of a pair one after the other.   *)
(*                                                                         *)
(* The workers of a pair are those of LoopbackPath, burst by burst: a      *)
(* burst is pushed into the ring, then counted; it is delivered from the   *)
(* ring, then counted.  A burst counts as one packet here.                 *)
(***************************************************************************)
EXTENDS ConfigManager, FiniteSets

CONSTANTS NofVids,       \* bound: the vids are 0..NofVids-1
          MaxBursts,     \* bound: bursts of a queue pair in a behaviour
          MaxBusy        \* bound: queue pairs that carry packets in a behaviour

ASSUME ReportAssumption == NofVids \in Nat /\ MaxBursts \in Nat /\ MaxBusy \in Nat

Vids == 0..(NofVids - 1)
Pairs == Vids \X (0..(MaxQueuePairs - 1))

VARIABLES
   pmap,
   oneThread,       \* one worker serves both queues of a pair, or two do
   pushed,          \* bursts that were pushed into the ring of a pair
   delivered,       \* bursts of it that were delivered to the guest
   tx_frames,       \* stats_table_: the counter of the odd queue
   rx_frames,       \* and that of the even queue of a pair
   rpc,             \* the report: "idle", "vid", "rx", "tx" or "done"
   v, q,            \* its loop variables; q counts pairs
   nof_queues,
   rx,              \* rx_frames of the pair, as read
   rows,            \* the rows that are printed, by pair
   known            \* history: how many queue pairs each vid that the report found
                    \* has had all the time since then

workVars == <<pushed, delivered, tx_frames, rx_frames>>
reportVars == <<rpc, v, q, nof_queues, rx, rows, known>>
vars == <<pmap, oneThread, workVars, reportVars>>

None == [e \in Pairs |-> 0]

\* The report may find any devices: they go, but their records stay.
Init == /\ \E vids \in SUBSET Vids :
              pmap \in [vids -> {[pairs |-> n, enabled |-> {}] : n \in 1..MaxQueuePairs}]
        /\ oneThread \in BOOLEAN
        /\ pushed = None /\ delivered = None /\ tx_frames = None /\ rx_frames = None
        /\ rpc = "idle" /\ v = 0 /\ q = 0 /\ nof_queues = 0 /\ rx = 0
        /\ rows = EmptyMap /\ known = EmptyMap

-----------------------------------------------------------------------------
\* A device with n queue pairs appears, under a vid that has no record yet or in the
\* place of what is recorded.
NewDevice(vid, n) ==
   /\ pmap' = InitVhostDevice(pmap, vid, n)
   /\ known' = [u \in DOMAIN known |-> IF u = vid /\ n < known[u] THEN n ELSE known[u]]
   /\ UNCHANGED <<oneThread, workVars, rpc, v, q, nof_queues, rx, rows>>

\* The queue pairs of the recorded devices, and those whose workers go on although a
\* device with fewer pairs has taken the place of theirs.
Served == {e \in Pairs : e[2] < PairsOf(pmap, e[1]) \/ pushed[e] > 0}

\* Traffic on e keeps to the bounds.
MayPush(e) == /\ pushed[e] < MaxBursts
              /\ Cardinality({f \in Pairs : pushed[f] > 0} \cup {e}) <= MaxBusy

\* Mutant of Push: the bursts are not counted one by one.
PushUncounted(e) ==
   /\ MayPush(e)
   /\ oneThread => rx_frames[e] = delivered[e]
   /\ pushed' = [pushed EXCEPT ![e] = @ + 1]
   /\ UNCHANGED <<pmap, oneThread, delivered, tx_frames, rx_frames, reportVars>>

\* dequeue_tx_packets: a burst is in the ring; one worker is not in
\* enqueue_rx_packets at that time.
Push(e) == /\ MayPush(e) /\ tx_frames[e] = pushed[e]
           /\ oneThread => rx_frames[e] = delivered[e]
           /\ pushed' = [pushed EXCEPT ![e] = @ + 1]
           /\ UNCHANGED <<pmap, oneThread, delivered, tx_frames, rx_frames, reportVars>>

CountTx(e) == /\ tx_frames[e] < pushed[e]
              /\ tx_frames' = [tx_frames EXCEPT ![e] = pushed[e]]
              /\ UNCHANGED <<pmap, oneThread, pushed, delivered, rx_frames, reportVars>>

\* enqueue_rx_packets: a burst from the ring is delivered.
Deliver(e) == /\ delivered[e] < pushed[e] /\ rx_frames[e] = delivered[e]
              /\ oneThread => tx_frames[e] = pushed[e]
              /\ delivered' = [delivered EXCEPT ![e] = @ + 1]
              /\ UNCHANGED <<pmap, oneThread, pushed, tx_frames, rx_frames, reportVars>>

CountRx(e) == /\ rx_frames[e] < delivered[e]
              /\ rx_frames' = [rx_frames EXCEPT ![e] = delivered[e]]
              /\ UNCHANGED <<pmap, oneThread, pushed, delivered, tx_frames, reportVars>>

Work(e) == Push(e) \/ CountTx(e) \/ Deliver(e) \/ CountRx(e)

-----------------------------------------------------------------------------
Begin == /\ rpc = "idle"
         /\ rpc' = "vid" /\ v' = 0
         /\ known' = [vid \in DOMAIN pmap |-> pmap[vid].pairs]
         /\ UNCHANGED <<pmap, oneThread, workVars, q, nof_queues, rx, rows>>

\* pmap_[vid]: operator[] inserts a record without queue pairs if there is none.
Touched(vid) ==
   IF vid \in DOMAIN pmap THEN pmap ELSE Insert(pmap, vid, [pairs |-> 0, enabled |-> {}])

\* Mutants of NextVid: pmap_ is searched, and not extended; one vid too many.
NextVidFinds ==
   /\ rpc = "vid" /\ v < Cardinality(DOMAIN pmap)
   /\ nof_queues' = IF v \in DOMAIN pmap THEN pmap[v].pairs ELSE 0
   /\ q' = 0 /\ rpc' = "rx"
   /\ UNCHANGED <<pmap, oneThread, workVars, v, rx, rows, known>>

NextVidOneMore ==
   /\ rpc = "vid" /\ v <= Cardinality(DOMAIN pmap)
   /\ pmap' = Touched(v) /\ nof_queues' = pmap'[v].pairs
   /\ q' = 0 /\ rpc' = "rx"
   /\ UNCHANGED <<oneThread, workVars, v, rx, rows, known>>

\* The loop over the vids: up to get_nof_vids, the number of records there are
\* then; get_nof_queues may add one.
NextVid ==
   /\ rpc = "vid" /\ v < Cardinality(DOMAIN pmap)
   /\ pmap' = Touched(v) /\ nof_queues' = pmap'[v].pairs
   /\ q' = 0 /\ rpc' = "rx"
   /\ UNCHANGED <<oneThread, workVars, v, rx, rows, known>>

End == /\ rpc = "vid" /\ v >= Cardinality(DOMAIN pmap)
       /\ rpc' = "done"
       /\ UNCHANGED <<pmap, oneThread, workVars, v, q, nof_queues, rx, rows, known>>

\* The row of a queue pair: the receive counter is read first.
ReadRx == /\ rpc = "rx" /\ q < nof_queues
          /\ rx' = rx_frames[<<v, q>>]
          /\ rpc' = "tx"
          /\ UNCHANGED <<pmap, oneThread, workVars, v, q, nof_queues, rows, known>>

ReadTx == /\ rpc = "tx"
          /\ rows' = Insert(rows, <<v, q>>, [tx |-> tx_frames[<<v, q>>], rx |-> rx])
          /\ q' = q + 1 /\ rpc' = "rx"
          /\ UNCHANGED <<pmap, oneThread, workVars, v, nof_queues, rx, known>>

\* Mutant of RowsEnd: the vid stays the same.
RowsEndStays == /\ rpc = "rx" /\ q >= nof_queues
                /\ rpc' = "vid"
                /\ UNCHANGED <<pmap, oneThread, workVars, v, q, nof_queues, rx, rows, known>>

RowsEnd == /\ rpc = "rx" /\ q >= nof_queues
           /\ v' = v + 1 /\ rpc' = "vid"
           /\ UNCHANGED <<pmap, oneThread, workVars, q, nof_queues, rx, rows, known>>

Report == NextVid \/ End \/ ReadRx \/ ReadTx \/ RowsEnd

Next == \/ \E vid \in Vids, n \in 1..MaxQueuePairs : NewDevice(vid, n)
        \/ \E e \in Served : Work(e)
        \/ Begin \/ Report

Spec == Init /\ [][Next]_vars

\* The thread of main is scheduled.
FairSpec == Spec /\ WF_vars(Report)

-----------------------------------------------------------------------------
TypeOK == /\ DOMAIN pmap \subseteq Vids
          /\ \A vid \in DOMAIN pmap : pmap[vid] \in [pairs : 0..MaxQueuePairs, enabled : {{}}]
          /\ oneThread \in BOOLEAN
          /\ pushed \in [Pairs -> 0..MaxBursts] /\ delivered \in [Pairs -> 0..MaxBursts]
          /\ tx_frames \in [Pairs -> 0..MaxBursts] /\ rx_frames \in [Pairs -> 0..MaxBursts]
          /\ rpc \in {"idle", "vid", "rx", "tx", "done"}
          /\ v \in 0..NofVids /\ q \in 0..MaxQueuePairs /\ nof_queues \in 0..MaxQueuePairs
          /\ rx \in 0..MaxBursts
          /\ DOMAIN rows \subseteq Pairs
          /\ \A e \in DOMAIN rows : rows[e] \in [tx : 0..MaxBursts, rx : 0..MaxBursts]
          /\ DOMAIN known \subseteq Vids
          /\ known \in [DOMAIN known -> 0..MaxQueuePairs]

\* No queue pair is missing that its vid had all the time, whatever the gaps between
\* the vids and whatever devices came meanwhile, in the place of others too: the loop
\* goes up to the number of records, and the records it adds for the gaps make it go
\* far enough.
EveryDeviceReported ==
   rpc = "done" => \A vid \in DOMAIN known : \A p \in 0..(known[vid] - 1) :
                      <<vid, p>> \in DOMAIN rows

\* A row never shows more packets received than transmitted by more than the
\* burst that a second worker may be counting, although it is read while the
\* workers run.
RowsPlausible ==
   \A e \in DOMAIN rows : rows[e].rx <= rows[e].tx + IF oneThread THEN 0 ELSE 1

\* The report comes to its end, although its loop moves its own bound.
ReportEnds == rpc = "vid" ~> rpc = "done"
=============================================================================
