-------------------------- MODULE FinalReportProof --------------------------
(***************************************************************************)
(* Proofs about FinalReport, for any number of devices, queue pairs and    *)
(* bursts, whatever gaps there are between the vids.                       *)
(***************************************************************************)
EXTENDS FinalReport, FiniteSetTheorems, TLAPS

\* What a worker has moved, against what it has counted.
Counts ==
   \A e \in Pairs : /\ rx_frames[e] <= delivered[e] /\ delivered[e] <= pushed[e]
                    /\ tx_frames[e] <= pushed[e] /\ pushed[e] <= tx_frames[e] + 1
                    /\ oneThread => delivered[e] <= tx_frames[e]

Slack == IF oneThread THEN 0 ELSE 1

\* The value of the receive counter that the report holds stays plausible.
Read == rpc = "tx" => rx <= tx_frames[<<v, q>>] + Slack

\* The records that the report found are there, with the pairs they had all the time.
Kept == \A vid \in DOMAIN known : vid \in DOMAIN pmap /\ known[vid] <= pmap[vid].pairs

Walking == rpc \in {"vid", "rx", "tx"}

\* Every vid that the loop has passed has a record, and its rows.
Walked == Walking => /\ 0..(v - 1) \subseteq DOMAIN pmap
                     /\ \A vid \in DOMAIN known : vid < v =>
                           \A p \in 0..(known[vid] - 1) : <<vid, p>> \in DOMAIN rows

\* The vid that the loop is at.
Current == /\ rpc \in {"rx", "tx"} => /\ v \in DOMAIN pmap
                                      /\ v \in DOMAIN known => known[v] <= nof_queues
                                      /\ \A p \in 0..(q - 1) : <<v, p>> \in DOMAIN rows
                                      /\ q <= nof_queues
           /\ rpc = "tx" => q < nof_queues

IndInv == /\ TypeOK /\ Counts /\ Read /\ RowsPlausible
          /\ Kept /\ Walked /\ Current /\ EveryDeviceReported

-----------------------------------------------------------------------------
\* There are no more records than vids.
LEMMA VidsAreFinite ==
   ASSUME NEW S, S \subseteq Vids
   PROVE  /\ IsFiniteSet(S) /\ Cardinality(S) \in Nat /\ Cardinality(S) <= NofVids
<1>1. IsFiniteSet(Vids) /\ Cardinality(Vids) = NofVids
   <2>1. NofVids \in Nat /\ 0 \in Int /\ NofVids - 1 \in Int
      BY ReportAssumption
   <2>2. IsFiniteSet(0..(NofVids - 1))
      BY <2>1, FS_Interval
   <2>3. Cardinality(0..(NofVids - 1)) = IF 0 > NofVids - 1 THEN 0 ELSE NofVids - 1 - 0 + 1
      BY <2>1, FS_Interval
   <2>4. Cardinality(0..(NofVids - 1)) = NofVids
      BY <2>1, <2>3
   <2> QED BY <2>2, <2>4 DEF Vids
<1>2. IsFiniteSet(S) /\ Cardinality(S) <= Cardinality(Vids)
   BY <1>1, FS_Subset
<1>3. Cardinality(S) \in Nat
   BY <1>2, FS_CardinalityType
<1> QED BY <1>1, <1>2, <1>3

\* As many records as vids passed: the loop has passed all of them.
LEMMA AllPassed ==
   ASSUME NEW S, S \subseteq Vids, NEW n \in Nat, 0..(n - 1) \subseteq S,
          n >= Cardinality(S)
   PROVE  S = 0..(n - 1)
<1>1. IsFiniteSet(S) /\ Cardinality(S) \in Nat
   BY VidsAreFinite
<1>2. Cardinality(0..(n - 1)) = n
   <2>1. 0 \in Int /\ n - 1 \in Int
      OBVIOUS
   <2>2. Cardinality(0..(n - 1)) = IF 0 > n - 1 THEN 0 ELSE n - 1 - 0 + 1
      BY <2>1, FS_Interval
   <2> QED BY <2>2
<1>3. Cardinality(0..(n - 1)) <= Cardinality(S)
   BY <1>1, FS_Subset
<1>4. Cardinality(0..(n - 1)) = Cardinality(S)
   BY <1>1, <1>2, <1>3
<1> QED BY <1>1, <1>4, FS_Subset

LEMMA InitInv == Init => IndInv
<1> SUFFICES ASSUME Init PROVE IndInv
   OBVIOUS
<1>1. NofVids \in Nat /\ MaxBursts \in Nat /\ MaxQueuePairs \in Nat
   BY ReportAssumption, MaxQueuePairsAssumption
<1>2. /\ DOMAIN pmap \subseteq Vids
      /\ \A vid \in DOMAIN pmap : pmap[vid] \in [pairs : 0..MaxQueuePairs, enabled : {{}}]
   <2>1. PICK vids \in SUBSET Vids :
            pmap \in [vids -> {[pairs |-> n, enabled |-> {}] : n \in 1..MaxQueuePairs}]
      BY DEF Init
   <2>2. ASSUME NEW vid \in vids
         PROVE  pmap[vid] \in [pairs : 0..MaxQueuePairs, enabled : {{}}]
      <3>1. PICK n \in 1..MaxQueuePairs : pmap[vid] = [pairs |-> n, enabled |-> {}]
         BY <2>1
      <3> QED BY <1>1, <3>1
   <2> QED BY <2>1, <2>2
<1>3. DOMAIN rows = {} /\ DOMAIN known = {} /\ known \in [DOMAIN known -> 0..MaxQueuePairs]
   BY DEF Init, EmptyMap
<1>4. TypeOK
   BY <1>1, <1>2, <1>3 DEF Init, TypeOK, None
<1>5. Counts
   BY DEF Init, Counts, None
<1>6. Read /\ RowsPlausible /\ Walked /\ Current /\ EveryDeviceReported /\ Kept
   BY <1>2, <1>3
   DEF Init, Read, RowsPlausible, Walked, Walking, Current, EveryDeviceReported, Kept
<1> QED BY <1>4, <1>5, <1>6 DEF IndInv

\* The workers leave the report and the records alone, and their counters only
\* grow.
LEMMA WorkInv ==
   ASSUME IndInv, NEW e \in Pairs, Work(e)
   PROVE  IndInv'
<1>1. /\ UNCHANGED <<pmap, oneThread, reportVars>>
      /\ UNCHANGED <<rpc, v, q, nof_queues, rx, rows, known>>
   BY DEF Work, Push, CountTx, Deliver, CountRx, reportVars
<1>2. MaxBursts \in Nat
   BY ReportAssumption
<1>3. /\ pushed \in [Pairs -> 0..MaxBursts] /\ delivered \in [Pairs -> 0..MaxBursts]
      /\ tx_frames \in [Pairs -> 0..MaxBursts] /\ rx_frames \in [Pairs -> 0..MaxBursts]
   BY DEF IndInv, TypeOK
<1>4. /\ pushed' \in [Pairs -> 0..MaxBursts] /\ delivered' \in [Pairs -> 0..MaxBursts]
      /\ tx_frames' \in [Pairs -> 0..MaxBursts] /\ rx_frames' \in [Pairs -> 0..MaxBursts]
      /\ Counts'
      /\ \A f \in Pairs : tx_frames[f] <= tx_frames'[f]
   <2>1. CASE Push(e)
      <3>1. /\ UNCHANGED <<delivered, tx_frames, rx_frames>> /\ tx_frames[e] = pushed[e]
            /\ pushed[e] < MaxBursts /\ pushed' = [pushed EXCEPT ![e] = @ + 1]
         BY <2>1 DEF Push, MayPush
      <3> QED BY <1>1, <1>2, <1>3, <3>1 DEF IndInv, Counts
   <2>2. CASE CountTx(e)
      BY <1>1, <1>2, <1>3, <2>2 DEF IndInv, Counts, CountTx
   <2>3. CASE Deliver(e)
      <3>1. /\ UNCHANGED <<pushed, tx_frames, rx_frames>> /\ delivered[e] < pushed[e]
            /\ oneThread => tx_frames[e] = pushed[e]
            /\ delivered' = [delivered EXCEPT ![e] = @ + 1]
         BY <2>3 DEF Deliver
      <3> QED BY <1>1, <1>2, <1>3, <3>1 DEF IndInv, Counts
   <2>4. CASE CountRx(e)
      BY <1>1, <1>2, <1>3, <2>4 DEF IndInv, Counts, CountRx
   <2> QED BY <2>1, <2>2, <2>3, <2>4 DEF Work
<1>5. TypeOK'
   BY <1>1, <1>4 DEF IndInv, TypeOK
<1>6. Read'
   <2>1. CASE rpc = "tx"
      <3>1. <<v, q>> \in Pairs
         <4>1. v \in Vids /\ q \in Nat /\ q < MaxQueuePairs
            BY <2>1, MaxQueuePairsAssumption DEF IndInv, TypeOK, Current
         <4> QED BY <4>1, MaxQueuePairsAssumption DEF Pairs
      <3>2. tx_frames[<<v, q>>] <= tx_frames'[<<v, q>>]
         BY <1>4, <3>1
      <3>3. /\ tx_frames[<<v, q>>] \in Nat /\ tx_frames'[<<v, q>>] \in Nat
            /\ rx \in Nat /\ Slack \in Nat
         BY <1>3, <1>4, <3>1, <1>2 DEF IndInv, TypeOK, Slack
      <3>4. rx <= tx_frames[<<v, q>>] + Slack
         BY <2>1 DEF IndInv, Read
      <3>5. Slack' = Slack
         BY <1>1 DEF Slack
      <3>6. rx <= tx_frames'[<<v, q>>] + Slack
         BY <3>2, <3>3, <3>4
      <3> QED BY <1>1, <3>5, <3>6 DEF Read
   <2>2. CASE rpc # "tx"
      BY <1>1, <2>2 DEF Read
   <2> QED BY <2>1, <2>2
<1>7. RowsPlausible' /\ Kept' /\ Walked' /\ Current' /\ EveryDeviceReported'
   BY <1>1
   DEF IndInv, RowsPlausible, Kept, Walked, Walking, Current, EveryDeviceReported
<1> QED BY <1>4, <1>5, <1>6, <1>7 DEF IndInv

\* A new device may leave its vid fewer queue pairs than the report found, and those
\* that are left are still below the ones that the report will find, or has found.
LEMMA NewDeviceInv ==
   ASSUME IndInv, NEW vid \in Vids, NEW n \in 1..MaxQueuePairs, NewDevice(vid, n)
   PROVE  IndInv'
<1>1. /\ UNCHANGED <<oneThread, pushed, delivered, tx_frames, rx_frames>>
      /\ UNCHANGED <<rpc, v, q, nof_queues, rx, rows>>
   BY DEF NewDevice, workVars
<1>2. pmap' = Insert(pmap, vid, [pairs |-> n, enabled |-> {}])
   BY DEF NewDevice, InitVhostDevice
<1>3. n \in Nat /\ n \in 0..MaxQueuePairs /\ MaxQueuePairs \in Nat
   BY MaxQueuePairsAssumption
<1>4. /\ DOMAIN pmap' = DOMAIN pmap \cup {vid}
      /\ pmap'[vid] = [pairs |-> n, enabled |-> {}]
      /\ \A u \in DOMAIN pmap : u # vid => pmap'[u] = pmap[u]
   BY <1>2 DEF Insert
<1>5. known \in [DOMAIN known -> 0..MaxQueuePairs] /\ DOMAIN known \subseteq Vids
   BY DEF IndInv, TypeOK
<1>6. /\ DOMAIN known' = DOMAIN known
      /\ \A u \in DOMAIN known : /\ known'[u] \in 0..MaxQueuePairs /\ known'[u] <= known[u]
                                 /\ u = vid => known'[u] <= n
   <2>1. known' = [u \in DOMAIN known |-> IF u = vid /\ n < known[u] THEN n ELSE known[u]]
      BY DEF NewDevice
   <2>2. \A u \in DOMAIN known : known[u] \in 0..MaxQueuePairs
      BY <1>5
   <2> QED BY <1>3, <2>1, <2>2
<1>7. known' \in [DOMAIN known' -> 0..MaxQueuePairs]
   <2>1. known' = [u \in DOMAIN known' |-> known'[u]]
      BY DEF NewDevice
   <2> QED BY <1>6, <2>1
<1>8. TypeOK'
   <2>1. \A u \in DOMAIN pmap' : pmap'[u] \in [pairs : 0..MaxQueuePairs, enabled : {{}}]
      BY <1>3, <1>4 DEF IndInv, TypeOK
   <2> QED BY <1>1, <1>4, <1>5, <1>6, <1>7, <2>1 DEF IndInv, TypeOK
<1>9. Counts' /\ Read' /\ RowsPlausible'
   BY <1>1 DEF IndInv, Counts, Read, Slack, RowsPlausible
<1>10. Kept'
   <2>1. SUFFICES ASSUME NEW u \in DOMAIN known
                  PROVE  u \in DOMAIN pmap' /\ known'[u] <= pmap'[u].pairs
      BY <1>6 DEF Kept
   <2>2. CASE u = vid
      BY <1>4, <1>6, <2>2
   <2>3. CASE u # vid
      <3>1. u \in DOMAIN pmap /\ known[u] <= pmap[u].pairs /\ pmap[u].pairs \in Nat
         BY <1>3 DEF IndInv, Kept, TypeOK
      <3>2. known[u] \in Nat /\ known'[u] \in Nat /\ known'[u] <= known[u]
         BY <1>3, <1>5, <1>6
      <3> QED BY <1>4, <2>3, <3>1, <3>2
   <2> QED BY <2>2, <2>3
<1>11. \A u \in DOMAIN known : 0..(known'[u] - 1) \subseteq 0..(known[u] - 1)
   <2>1. \A u \in DOMAIN known : known[u] \in Nat /\ known'[u] \in Nat /\ known'[u] <= known[u]
      BY <1>3, <1>5, <1>6
   <2> QED BY <2>1
<1>12. EveryDeviceReported'
   BY <1>1, <1>6, <1>11 DEF IndInv, EveryDeviceReported
<1>13. Walked'
   BY <1>1, <1>4, <1>6, <1>11 DEF IndInv, Walked, Walking
<1>14. Current'
   <2>1. ASSUME v \in DOMAIN known, known[v] <= nof_queues
         PROVE  known'[v] <= nof_queues
      <3>1. known[v] \in Nat /\ known'[v] \in Nat /\ nof_queues \in Nat
         BY <1>3, <1>5, <1>6, <2>1 DEF IndInv, TypeOK
      <3> QED BY <1>6, <2>1, <3>1
   <2> QED BY <1>1, <1>4, <1>6, <2>1 DEF IndInv, Current
<1> QED BY <1>8, <1>9, <1>10, <1>12, <1>13, <1>14 DEF IndInv

LEMMA BeginInv ==
   ASSUME IndInv, Begin
   PROVE  IndInv'
<1>1. /\ UNCHANGED <<pmap, oneThread, pushed, delivered, tx_frames, rx_frames>>
      /\ UNCHANGED <<q, nof_queues, rx, rows>>
      /\ rpc = "idle" /\ rpc' = "vid" /\ v' = 0
      /\ known' = [vid \in DOMAIN pmap |-> pmap[vid].pairs]
   BY DEF Begin, workVars
<1>2. \A vid \in DOMAIN pmap : pmap[vid].pairs \in 0..MaxQueuePairs
   BY DEF IndInv, TypeOK
<1>3. DOMAIN known' = DOMAIN pmap /\ known' \in [DOMAIN known' -> 0..MaxQueuePairs]
   BY <1>1, <1>2
<1>4. TypeOK'
   <2>1. 0 \in 0..NofVids
      BY ReportAssumption
   <2> QED BY <1>1, <1>3, <2>1 DEF IndInv, TypeOK
<1>5. Counts' /\ Read' /\ RowsPlausible'
   BY <1>1 DEF IndInv, Counts, Read, Slack, RowsPlausible
<1>6. Kept'
   <2>1. \A n \in 0..MaxQueuePairs : n <= n
      BY MaxQueuePairsAssumption
   <2> QED BY <1>1, <1>2, <2>1 DEF Kept
<1>7. Walked' /\ Current' /\ EveryDeviceReported'
   <2>1. 0..(0 - 1) = {} /\ \A vid \in DOMAIN pmap : ~(vid < 0)
      BY DEF IndInv, TypeOK, Vids
   <2> QED BY <1>1, <1>3, <2>1 DEF Walked, Walking, Current, EveryDeviceReported
<1> QED BY <1>4, <1>5, <1>6, <1>7 DEF IndInv

\* The next vid has a record from here on.
LEMMA NextVidInv ==
   ASSUME IndInv, NextVid
   PROVE  IndInv'
<1>1. /\ UNCHANGED <<oneThread, pushed, delivered, tx_frames, rx_frames, v, rx, rows, known>>
      /\ rpc = "vid" /\ rpc' = "rx" /\ q' = 0
      /\ v < Cardinality(DOMAIN pmap)
      /\ pmap' = Touched(v) /\ nof_queues' = pmap'[v].pairs
   BY DEF NextVid, workVars
<1>2. v \in Vids
   <2>1. Cardinality(DOMAIN pmap) \in Nat /\ Cardinality(DOMAIN pmap) <= NofVids
      BY VidsAreFinite DEF IndInv, TypeOK
   <2> QED BY <1>1, <2>1, ReportAssumption DEF IndInv, TypeOK, Vids
<1>3. /\ DOMAIN pmap' = DOMAIN pmap \cup {v}
      /\ \A u \in DOMAIN pmap : pmap'[u] = pmap[u]
      /\ v \notin DOMAIN pmap => pmap'[v] = [pairs |-> 0, enabled |-> {}]
   BY <1>1 DEF Touched, Insert
<1>4. 0 \in 0..MaxQueuePairs
   BY MaxQueuePairsAssumption
<1>5. \A u \in DOMAIN pmap' : pmap'[u] \in [pairs : 0..MaxQueuePairs, enabled : {{}}]
   BY <1>3, <1>4 DEF IndInv, TypeOK
<1>6. nof_queues' \in 0..MaxQueuePairs
   BY <1>1, <1>3, <1>5
<1>7. TypeOK'
   BY <1>1, <1>2, <1>3, <1>4, <1>5, <1>6 DEF IndInv, TypeOK
<1>8. Counts' /\ Read' /\ RowsPlausible' /\ EveryDeviceReported'
   BY <1>1 DEF IndInv, Counts, Read, RowsPlausible, EveryDeviceReported
<1>9. Kept' /\ Walked'
   BY <1>1, <1>3 DEF IndInv, Kept, Walked, Walking
<1>10. Current'
   <2>1. v \in DOMAIN known => known[v] <= nof_queues'
      BY <1>1, <1>3 DEF IndInv, Kept
   <2>2. 0..(0 - 1) = {} /\ 0 <= nof_queues'
      BY <1>6, MaxQueuePairsAssumption
   <2> QED BY <1>1, <1>3, <2>1, <2>2 DEF Current
<1> QED BY <1>7, <1>8, <1>9, <1>10 DEF IndInv

\* The loop ends when it has passed as many vids as there are records: all.
LEMMA EndInv ==
   ASSUME IndInv, End
   PROVE  IndInv'
<1>1. /\ UNCHANGED <<pmap, oneThread, pushed, delivered, tx_frames, rx_frames>>
      /\ UNCHANGED <<v, q, nof_queues, rx, rows, known>>
      /\ rpc = "vid" /\ rpc' = "done" /\ v >= Cardinality(DOMAIN pmap)
   BY DEF End, workVars
<1>2. TypeOK' /\ Counts' /\ Read' /\ RowsPlausible' /\ Kept' /\ Walked' /\ Current'
   BY <1>1
   DEF IndInv, TypeOK, Counts, Read, RowsPlausible, Kept, Walked, Walking, Current
<1>3. EveryDeviceReported'
   <2>1. v \in Nat
      BY ReportAssumption DEF IndInv, TypeOK
   <2>2. DOMAIN pmap = 0..(v - 1)
      BY <1>1, <2>1, AllPassed DEF IndInv, TypeOK, Walked, Walking
   <2>3. ASSUME NEW vid \in DOMAIN known
         PROVE  vid < v
      <3>1. vid \in 0..(v - 1)
         BY <1>1, <2>2 DEF IndInv, Kept
      <3> QED BY <2>1, <3>1
   <2> QED BY <1>1, <2>3 DEF IndInv, Walked, Walking, EveryDeviceReported
<1> QED BY <1>2, <1>3 DEF IndInv

\* A receive counter is plausible when it is read.
LEMMA ReadRxInv ==
   ASSUME IndInv, ReadRx
   PROVE  IndInv'
<1>1. /\ UNCHANGED <<pmap, oneThread, pushed, delivered, tx_frames, rx_frames>>
      /\ UNCHANGED <<v, q, nof_queues, rows, known>>
      /\ rpc = "rx" /\ rpc' = "tx" /\ q < nof_queues /\ rx' = rx_frames[<<v, q>>]
   BY DEF ReadRx, workVars
<1>2. <<v, q>> \in Pairs
   <2>1. v \in Vids /\ q \in Nat /\ q < MaxQueuePairs
      BY <1>1, MaxQueuePairsAssumption DEF IndInv, TypeOK, Current
   <2> QED BY <2>1, MaxQueuePairsAssumption DEF Pairs
<1>3. rx_frames[<<v, q>>] \in 0..MaxBursts
   BY <1>2 DEF IndInv, TypeOK
<1>4. TypeOK'
   BY <1>1, <1>3 DEF IndInv, TypeOK
<1>5. Read'
   <2> DEFINE e == <<v, q>>
   <2>1. /\ rx_frames[e] \in Nat /\ delivered[e] \in Nat /\ pushed[e] \in Nat
         /\ tx_frames[e] \in Nat
      BY <1>2, ReportAssumption DEF IndInv, TypeOK
   <2>2. /\ rx_frames[e] <= delivered[e] /\ delivered[e] <= pushed[e]
         /\ pushed[e] <= tx_frames[e] + 1
         /\ oneThread => delivered[e] <= tx_frames[e]
      BY <1>2 DEF IndInv, Counts
   <2>3. rx_frames[e] <= tx_frames[e] + Slack
      BY <2>1, <2>2 DEF Slack
   <2> QED BY <1>1, <2>3 DEF Read, Slack
<1>6. Counts' /\ RowsPlausible' /\ Kept' /\ EveryDeviceReported' /\ Walked' /\ Current'
   BY <1>1
   DEF IndInv, Counts, RowsPlausible, Kept, EveryDeviceReported, Walked, Walking, Current
<1> QED BY <1>4, <1>5, <1>6 DEF IndInv

\* A row is complete.
LEMMA ReadTxInv ==
   ASSUME IndInv, ReadTx
   PROVE  IndInv'
<1> DEFINE e == <<v, q>>
           row == [tx |-> tx_frames[e], rx |-> rx]
<1>1. /\ UNCHANGED <<pmap, oneThread, pushed, delivered, tx_frames, rx_frames>>
      /\ UNCHANGED <<v, nof_queues, rx, known>>
      /\ rpc = "tx" /\ rpc' = "rx" /\ q' = q + 1 /\ rows' = Insert(rows, e, row)
   BY DEF ReadTx, workVars
<1>2. q \in Nat /\ nof_queues \in Nat /\ q < nof_queues /\ nof_queues <= MaxQueuePairs
   BY <1>1, MaxQueuePairsAssumption DEF IndInv, TypeOK, Current
<1>3. e \in Pairs
   <2>1. v \in Vids
      BY <1>1 DEF IndInv, TypeOK, Current
   <2> QED BY <1>2, <2>1, MaxQueuePairsAssumption DEF Pairs
<1>4. row \in [tx : 0..MaxBursts, rx : 0..MaxBursts]
   BY <1>3 DEF IndInv, TypeOK
<1>5. /\ DOMAIN rows' = DOMAIN rows \cup {e}
      /\ rows'[e] = row
      /\ \A f \in DOMAIN rows : f # e => rows'[f] = rows[f]
   BY <1>1 DEF Insert
<1>6. row.tx = tx_frames[e] /\ row.rx = rx
   OBVIOUS
<1> HIDE DEF row
<1>7. TypeOK'
   <2>1. \A f \in DOMAIN rows' : rows'[f] \in [tx : 0..MaxBursts, rx : 0..MaxBursts]
      BY <1>4, <1>5 DEF IndInv, TypeOK
   <2>2. DOMAIN rows' \subseteq Pairs
      BY <1>3, <1>5 DEF IndInv, TypeOK
   <2>3. q' \in 0..MaxQueuePairs
      BY <1>1, <1>2, MaxQueuePairsAssumption
   <2> QED BY <1>1, <2>1, <2>2, <2>3 DEF IndInv, TypeOK
<1>8. RowsPlausible'
   <2>1. rx <= tx_frames[e] + Slack
      BY <1>1 DEF IndInv, Read
   <2>2. \A f \in DOMAIN rows : rows[f].rx <= rows[f].tx + Slack
      BY DEF IndInv, RowsPlausible, Slack
   <2> HIDE DEF e
   <2>3. \A f \in DOMAIN rows' : rows'[f].rx <= rows'[f].tx + Slack
      BY <1>5, <1>6, <2>1, <2>2
   <2> QED BY <1>1, <2>3 DEF RowsPlausible, Slack
<1>9. Current'
   <2>1. ASSUME NEW p \in 0..(q + 1 - 1)
         PROVE  <<v, p>> \in DOMAIN rows'
      <3>1. CASE p = q
         BY <1>5, <3>1
      <3>2. CASE p # q
         <4>1. p \in 0..(q - 1)
            BY <1>2, <3>2
         <4> QED BY <1>1, <1>5, <4>1 DEF IndInv, Current
      <3> QED BY <3>1, <3>2
   <2>2. \A p \in 0..(q' - 1) : <<v', p>> \in DOMAIN rows'
      <3>1. q' = q + 1 /\ v' = v
         BY <1>1
      <3>2. q' - 1 = q + 1 - 1
         BY <1>2, <3>1
      <3> QED BY <2>1, <3>1, <3>2
   <2>3. q' <= nof_queues'
      BY <1>1, <1>2
   <2>4. /\ v' \in DOMAIN pmap'
         /\ v' \in DOMAIN known' => known'[v'] <= nof_queues'
      BY <1>1 DEF IndInv, Current
   <2>5. rpc' # "tx"
      BY <1>1
   <2> QED BY <2>2, <2>3, <2>4, <2>5 DEF Current
<1>10. Counts' /\ Read' /\ Kept' /\ EveryDeviceReported'
   BY <1>1 DEF IndInv, Counts, Read, Kept, EveryDeviceReported
<1>11. Walked'
   BY <1>1, <1>5 DEF IndInv, Walked, Walking
<1> QED BY <1>7, <1>8, <1>9, <1>10, <1>11 DEF IndInv

\* All rows of the vid are there.
LEMMA RowsEndInv ==
   ASSUME IndInv, RowsEnd
   PROVE  IndInv'
<1>1. /\ UNCHANGED <<pmap, oneThread, pushed, delivered, tx_frames, rx_frames>>
      /\ UNCHANGED <<q, nof_queues, rx, rows, known>>
      /\ rpc = "rx" /\ rpc' = "vid" /\ v' = v + 1 /\ q >= nof_queues
   BY DEF RowsEnd, workVars
<1>2. v \in Vids /\ v \in Nat /\ NofVids \in Nat /\ v < NofVids
   BY <1>1, ReportAssumption DEF IndInv, TypeOK, Current, Vids
<1>3. q \in Nat /\ nof_queues \in Nat /\ q = nof_queues
   BY <1>1, MaxQueuePairsAssumption DEF IndInv, TypeOK, Current
<1>4. TypeOK'
   BY <1>1, <1>2 DEF IndInv, TypeOK
<1>5. Walked'
   <2>1. 0..(v + 1 - 1) \subseteq DOMAIN pmap
      <3>1. 0..(v + 1 - 1) = 0..(v - 1) \cup {v}
         BY <1>2
      <3> QED BY <1>1, <3>1 DEF IndInv, Walked, Walking, Current
   <2>2. ASSUME NEW vid \in DOMAIN known, vid < v + 1, NEW p \in 0..(known[vid] - 1)
         PROVE  <<vid, p>> \in DOMAIN rows
      <3>1. vid \in Nat
         BY DEF IndInv, TypeOK, Vids
      <3>2. CASE vid < v
         BY <1>1, <3>2 DEF IndInv, Walked, Walking
      <3>3. CASE vid = v
         <4>1. known[v] <= q /\ \A r \in 0..(q - 1) : <<v, r>> \in DOMAIN rows
            BY <1>1, <1>3, <3>3 DEF IndInv, Current
         <4>2. known[v] \in Nat
            BY <3>3, MaxQueuePairsAssumption DEF IndInv, TypeOK
         <4>3. p \in 0..(q - 1)
            BY <1>3, <2>2, <3>3, <4>1, <4>2
         <4> QED BY <3>3, <4>1, <4>3
      <3> QED BY <1>2, <2>2, <3>1, <3>2, <3>3
   <2>3. 0..(v' - 1) \subseteq DOMAIN pmap'
      <3>1. v' = v + 1 /\ pmap' = pmap
         BY <1>1
      <3>2. v' - 1 = v + 1 - 1
         BY <1>2, <3>1
      <3> QED BY <2>1, <3>1, <3>2
   <2>4. \A vid \in DOMAIN known' : vid < v' =>
            \A p \in 0..(known'[vid] - 1) : <<vid, p>> \in DOMAIN rows'
      BY <1>1, <2>2
   <2> QED BY <2>3, <2>4 DEF Walked
<1>6. Counts' /\ Read' /\ RowsPlausible' /\ Kept' /\ EveryDeviceReported' /\ Current'
   BY <1>1 DEF IndInv, Counts, Read, RowsPlausible, Kept, EveryDeviceReported, Current
<1> QED BY <1>4, <1>5, <1>6 DEF IndInv

LEMMA StepInv == IndInv /\ [Next]_vars => IndInv'
<1> SUFFICES ASSUME IndInv, [Next]_vars PROVE IndInv'
   OBVIOUS
<1>1. CASE UNCHANGED vars
   BY <1>1
   DEF vars, workVars, reportVars, IndInv, TypeOK, Counts, Read, Slack, RowsPlausible,
       Kept, Walked, Walking, Current, EveryDeviceReported
<1>2. ASSUME NEW e \in Served, Work(e)
      PROVE  IndInv'
   BY <1>2, WorkInv DEF Served
<1>3. CASE Next
   BY <1>2, <1>3, NewDeviceInv, BeginInv, NextVidInv, EndInv, ReadRxInv, ReadTxInv, RowsEndInv
   DEF Next, Report
<1> QED BY <1>1, <1>3

LEMMA Invariance == Spec => []IndInv
BY InitInv, StepInv, PTL DEF Spec

-----------------------------------------------------------------------------
\* Every variable keeps to its type: the loop of print_final_report stays
\* within the vids, and its inner one within the queue pairs.
THEOREM TypeCorrect == Spec => []TypeOK
<1>1. IndInv => TypeOK
   BY DEF IndInv
<1> QED BY <1>1, Invariance, PTL

\* print_final_report leaves out no queue pair that a vid had from its beginning on,
\* whatever gaps there are between the vids, and whatever devices appear meanwhile, in
\* the place of others too.
THEOREM ReportComplete == Spec => []EveryDeviceReported
<1>1. IndInv => EveryDeviceReported
   BY DEF IndInv
<1> QED BY <1>1, Invariance, PTL

\* No row of the report shows more received than transmitted, up to a burst that
\* a second worker has not counted yet.
THEOREM ReportPlausible == Spec => []RowsPlausible
<1>1. IndInv => RowsPlausible
   BY DEF IndInv
<1> QED BY <1>1, Invariance, PTL
=============================================================================
