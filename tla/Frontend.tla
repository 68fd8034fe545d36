------------------------------- MODULE Frontend -------------------------------
(***************************************************************************)
(* The traffic generator of src/frontend: a guest without a VM.  One thread *)
(* sends and receives bursts on the first queue pair of every port, with   *)
(* mbufs from one pool, until Ctrl+C; at the other end vtb takes packets   *)
(* from the transmit ring, loses some and writes the others into buffers   *)
(* of the receive ring (what LossyFifo says of it, in numbers).            *)
(*                                                                         *)
(* The virtio driver is external: at start it fills every receive queue    *)
(* from the pool, in a transmit call it may give back sent mbufs, takes as *)
(* many as it has descriptors for and reads each, in a receive call it may *)
(* refill the ring.                                                        *)
(***************************************************************************)
EXTENDS Integers

CONSTANTS NofPorts,      \* ports on the command line
          Queues,        \* max_rx_queues of a port
          Descs,         \* descriptors of a ring
          Burst,         \* PKT_BURST_SZ
          PoolSizes,     \* values of MBUF_POOL_SIZE to look at
          LineCap        \* bound: packets of a port inside vtb

ASSUME FrontendAssumption ==
          /\ NofPorts \in Nat /\ LineCap \in Nat
          /\ PoolSizes \subseteq Nat
          /\ {Queues, Descs, Burst} \subseteq Nat \ {0}

Ports == 0..(NofPorts - 1)

VARIABLES
   pc,           \* "setup", "while", "alloc", "tx", "free", "rx", "stop", "done",
                 \* "failed" (exception) or "crashed"
   port,         \* port_id of the loop that is running
   force_quit,
   size,         \* MBUF_POOL_SIZE
   pool,         \* mbufs in mbuf_pool_
   pkts,         \* mbufs in pkts of send_burst; the other entries are null
   sent,         \* what rte_eth_tx_burst returned
   parked,       \* by port: mbufs in the receive queues but the first
   rx_free,      \* by port: empty buffers in the first receive queue
   rx_used,      \* and buffers that vtb has written
   tx_pending,   \* by port: packets in the first transmit queue
   tx_used,      \* and those that vtb has read
   line          \* by port: packets inside vtb

rings == <<parked, rx_free, rx_used, tx_pending, tx_used>>
vars == <<pc, port, force_quit, size, pool, pkts, sent, rings, line>>

Zero == [p \in Ports |-> 0]

Init == /\ pc = "setup" /\ port = 0 /\ force_quit = FALSE
        /\ size \in PoolSizes /\ pool = size /\ pkts = 0 /\ sent = 0
        /\ parked = Zero /\ rx_free = Zero /\ rx_used = Zero
        /\ tx_pending = Zero /\ tx_used = Zero /\ line = Zero

LeastOf(m, n) == IF m < n THEN m ELSE n
Add(f, p, n) == [f EXCEPT ![p] = @ + n]

-----------------------------------------------------------------------------
\* The constructor: the queues of each port and its start, which fills the receive
\* queues as far as the pool goes; each call may fail, which is an exception.
SetupPort ==
   /\ pc = "setup" /\ port \in Ports
   /\ \/ LET first == LeastOf(Descs, pool)
             others == LeastOf((Queues - 1) * Descs, pool - first)
         IN  /\ rx_free' = Add(rx_free, port, first)
             /\ parked' = Add(parked, port, others)
             /\ pool' = pool - first - others
             /\ port' = port + 1 /\ UNCHANGED pc
      \/ pc' = "failed" /\ UNCHANGED <<rx_free, parked, pool, port>>
   /\ UNCHANGED <<force_quit, size, pkts, sent, rx_used, tx_pending, tx_used, line>>

SetupDone == /\ pc = "setup" /\ port = NofPorts
             /\ pc' = "while" /\ port' = 0
             /\ UNCHANGED <<force_quit, size, pool, pkts, sent, rings, line>>

\* run: the flag is looked at once per pass over the ports.
While == /\ pc = "while"
         /\ pc' = IF force_quit THEN "stop" ELSE IF NofPorts = 0 THEN "while" ELSE "alloc"
         /\ port' = 0
         /\ UNCHANGED <<force_quit, size, pool, pkts, sent, rings, line>>

\* send_burst: "if (!pkts[i]) continue", an empty pool leaves null pointers at the
\* end of the array.
Alloc == /\ pc = "alloc"
         /\ pkts' = LeastOf(Burst, pool) /\ pool' = pool - pkts'
         /\ pc' = "tx"
         /\ UNCHANGED <<port, force_quit, size, sent, rings, line>>

\* rte_eth_tx_burst of all entries: back mbufs are given back, n entries taken;
\* the driver reads a null pointer when it takes more than there are mbufs.
TxBurst ==
   /\ pc = "tx"
   /\ \E back \in 0..tx_used[port] :
         LET room == Descs - tx_pending[port] - tx_used[port] + back
         IN  \E n \in 0..LeastOf(Burst, room) :
                IF n > pkts
                THEN pc' = "crashed" /\ UNCHANGED <<pool, sent, tx_used, tx_pending>>
                ELSE /\ pc' = "free" /\ sent' = n
                     /\ pool' = pool + back
                     /\ tx_used' = Add(tx_used, port, -back)
                     /\ tx_pending' = Add(tx_pending, port, n)
   /\ UNCHANGED <<port, force_quit, size, pkts, parked, rx_free, rx_used, line>>

\* Mutant of FreeUnsent: the loop starts behind the first unsent mbuf.
FreeUnsentLate ==
   /\ pc = "free"
   /\ pool' = pool + (IF sent < pkts THEN pkts - sent - 1 ELSE 0)
   /\ pkts' = 0 /\ sent' = 0 /\ pc' = "rx"
   /\ UNCHANGED <<port, force_quit, size, rings, line>>

\* Mutant of FreeUnsent: the loop starts at the first mbuf of the burst.
FreeUnsentAll ==
   /\ pc = "free"
   /\ pool' = pool + pkts
   /\ pkts' = 0 /\ sent' = 0 /\ pc' = "rx"
   /\ UNCHANGED <<port, force_quit, size, rings, line>>

\* The unsent mbufs are freed (a null pointer is ignored).
FreeUnsent == /\ pc = "free"
              /\ pool' = pool + (pkts - sent)
              /\ pkts' = 0 /\ sent' = 0 /\ pc' = "rx"
              /\ UNCHANGED <<port, force_quit, size, rings, line>>

\* Mutant of Receive: what was received is not freed.
ReceiveKeeps ==
   /\ pc = "rx"
   /\ \E n \in 0..LeastOf(Burst, rx_used[port]) :
         LET empty == Descs - rx_free[port] - rx_used[port] + n
         IN  \E fresh \in 0..LeastOf(empty, pool) :
                /\ rx_used' = Add(rx_used, port, -n)
                /\ rx_free' = Add(rx_free, port, fresh)
                /\ pool' = pool - fresh
   /\ port' = port + 1
   /\ pc' = IF port + 1 = NofPorts THEN "while" ELSE "alloc"
   /\ UNCHANGED <<force_quit, size, pkts, sent, parked, tx_pending, tx_used, line>>

\* receive_burst: n packets are received and freed, the ring gets fresh buffers.
Receive ==
   /\ pc = "rx"
   /\ \E n \in 0..LeastOf(Burst, rx_used[port]) :
         LET empty == Descs - rx_free[port] - rx_used[port] + n
         IN  \E fresh \in 0..LeastOf(empty, pool) :
                /\ rx_used' = Add(rx_used, port, -n)
                /\ rx_free' = Add(rx_free, port, fresh)
                /\ pool' = pool - fresh + n
   /\ port' = port + 1
   /\ pc' = IF port + 1 = NofPorts THEN "while" ELSE "alloc"
   /\ UNCHANGED <<force_quit, size, pkts, sent, parked, tx_pending, tx_used, line>>

InRings(p) == parked[p] + rx_free[p] + rx_used[p] + tx_pending[p] + tx_used[p]

\* rte_eth_dev_stop and rte_eth_dev_close give the mbufs of the port back.
StopPort ==
   /\ pc = "stop" /\ port \in Ports
   /\ pool' = pool + InRings(port)
   /\ parked' = [parked EXCEPT ![port] = 0]
   /\ rx_free' = [rx_free EXCEPT ![port] = 0] /\ rx_used' = [rx_used EXCEPT ![port] = 0]
   /\ tx_pending' = [tx_pending EXCEPT ![port] = 0]
   /\ tx_used' = [tx_used EXCEPT ![port] = 0]
   /\ port' = port + 1
   /\ UNCHANGED <<pc, force_quit, size, pkts, sent, line>>

StopDone == /\ pc = "stop" /\ port = NofPorts
            /\ pc' = "done"
            /\ UNCHANGED <<port, force_quit, size, pool, pkts, sent, rings, line>>

Run == \/ SetupPort \/ SetupDone \/ While \/ Alloc \/ TxBurst \/ FreeUnsent \/ Receive
       \/ StopPort \/ StopDone

\* signal_handler.
CtrlC == /\ ~force_quit /\ pc \notin {"done", "failed", "crashed"}
         /\ force_quit' = TRUE
         /\ UNCHANGED <<pc, port, size, pool, pkts, sent, rings, line>>

-----------------------------------------------------------------------------
\* vtb: a packet is read, lost, or written into a buffer of the receive ring.
Take(p) == /\ tx_pending[p] > 0 /\ line[p] < LineCap
           /\ tx_pending' = Add(tx_pending, p, -1) /\ tx_used' = Add(tx_used, p, 1)
           /\ line' = Add(line, p, 1)
           /\ UNCHANGED <<pc, port, force_quit, size, pool, pkts, sent, parked, rx_free, rx_used>>

Lose(p) == /\ line[p] > 0
           /\ line' = Add(line, p, -1)
           /\ UNCHANGED <<pc, port, force_quit, size, pool, pkts, sent, rings>>

Deliver(p) == /\ line[p] > 0 /\ rx_free[p] > 0
              /\ line' = Add(line, p, -1)
              /\ rx_free' = Add(rx_free, p, -1) /\ rx_used' = Add(rx_used, p, 1)
              /\ UNCHANGED <<pc, port, force_quit, size, pool, pkts, sent, parked,
                             tx_pending, tx_used>>

Next == Run \/ CtrlC \/ \E p \in Ports : Take(p) \/ Lose(p) \/ Deliver(p)

Spec == Init /\ [][Next]_vars

-----------------------------------------------------------------------------
TypeOK == /\ pc \in {"setup", "while", "alloc", "tx", "free", "rx", "stop", "done",
                     "failed", "crashed"}
          /\ port \in 0..NofPorts /\ force_quit \in BOOLEAN
          /\ size \in PoolSizes /\ pool \in 0..size /\ pkts \in 0..Burst /\ sent \in 0..pkts
          /\ \A f \in {parked, rx_free, rx_used, tx_pending, tx_used, line} :
                f \in [Ports -> Nat]

\* The mbufs in the rings of the first n ports.
InRingsBelow[n \in 0..NofPorts] ==
   IF n = 0 THEN 0 ELSE InRingsBelow[n - 1] + InRings(n - 1)

\* Every mbuf is in the pool, in the array of the burst or in a ring of one port:
\* unsent and received packets are freed once, also when the pool was empty.
MbufsAccounted ==
   pool + (IF pc = "free" THEN pkts - sent ELSE pkts) + InRingsBelow[NofPorts] = size

\* rte_eth_tx_burst never reads a null pointer, as long as the pool is larger than
\* what the rings of all ports can hold, by a burst.
NeverSendsNull ==
   size >= NofPorts * (Queues * Descs + Descs) + Burst => pc # "crashed"
=============================================================================
