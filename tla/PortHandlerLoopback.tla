------------------------- MODULE PortHandlerLoopback -------------------------
(***************************************************************************)
(* One loopback port handler.  The epoll worker of the port controller     *)
(* starts it, which creates a mempool and a ring per transmit queue and    *)
(* launches the worker threads that its thread mode asks for; later it     *)
(* shuts it down, any number of times, the destructor included.  main may  *)
(* shut it down too (PortController::shutdown), without a lock and at any  *)
(* time: also within start, or within the other shutdown.  The workers     *)
(* serve their queues until they see is_running_ reset.  What a worker     *)
(* does with the packets of a queue is the business of LoopbackPath; here  *)
(* one call of dequeue_tx_packets or enqueue_rx_packets is one step.       *)
(***************************************************************************)
EXTENDS Integers, Sequences

CONSTANTS MaxPairs      \* MAX_QUEUE_PAIRS: get_queue_ids_by_vid returns no more

ASSUME MaxPairsAssumption == MaxPairs \in Nat

ThreadModes == {"EachQTwoThread", "EachQOneThread", "AllQTwoThread", "AllQOneThread"}

\* The threads that call shutdown; "epoll" is also the one that calls start.
Callers == {"epoll", "main"}

VARIABLES
   mode,          \* --threading-mode
   pairs,         \* queue pairs of the device, 0 when its vid is unknown
   pc,            \* what "epoll" did: "new", "launching", "started", "down"
   is_running,    \* is_running_
   launched,      \* how many threads dispatch has launched
   cleared,       \* worker_threads_ holds the threads cleared + 1 .. launched
   joined,        \* the threads somebody has joined
   stop,          \* each caller: "out" of shutdown, "stopping", "joining", "freeing", "emptying"
   next,          \* each caller, in the join loop: the thread it comes to ...
   upto,          \* ... and the last one in the vector when the loop began
   wpc,           \* worker: "none", "spawned", "check", "serve" or "exited"
   at,            \* worker: place in its qids of the queue it serves
   resources,     \* keys of mempools_ and rings_
   alive,         \* queues whose mempool and ring exist in DPDK
   late,          \* history: workers launched behind the back of a shutdown
   terminated     \* the process is gone

callVars == <<stop, next, upto>>
ownerVars == <<mode, pairs, pc, launched, cleared, joined, callVars, resources, alive, late>>
vars == <<ownerVars, is_running, wpc, at, terminated>>

-----------------------------------------------------------------------------
IsOdd(q) == q % 2 = 1

\* get_queue_ids_by_vid: the transmit queues of the n pairs, then the receive
\* queues.
QueueIds(n) == [i \in 1..(2 * n) |-> IF i <= n THEN 2 * i - 1 ELSE 2 * (i - n) - 2]

Slice(s, from, to) == [i \in 1..(to - from + 1) |-> s[from + i - 1]]

\* Mutants of Dispatch: EachQOneThread goes from queue to queue instead of from
\* pair to pair; the second thread of AllQTwoThread starts one queue late.
DispatchByOne(m, qids) ==
   LET size == Len(qids)
       mid == size \div 2
   IN  CASE m = "EachQTwoThread" -> [t \in 1..size |-> <<t - 1>>]
         [] m = "EachQOneThread" -> [t \in 1..size |-> <<t - 1, t>>]
         [] m = "AllQTwoThread" -> <<Slice(qids, 1, mid), Slice(qids, mid + 1, size)>>
         [] m = "AllQOneThread" -> <<qids>>

DispatchLate(m, qids) ==
   LET size == Len(qids)
       mid == size \div 2
   IN  CASE m = "EachQTwoThread" -> [t \in 1..size |-> <<t - 1>>]
         [] m = "EachQOneThread" -> [t \in 1..((size + 1) \div 2) |-> <<2 * t - 2, 2 * t - 1>>]
         [] m = "AllQTwoThread" -> <<Slice(qids, 1, mid), Slice(qids, mid + 2, size)>>
         [] m = "AllQOneThread" -> <<qids>>

\* dispatch: the queues of each thread it launches, in launch order.  The modes
\* that launch per queue count the queues instead of reading their numbers.
Dispatch(m, qids) ==
   LET size == Len(qids)
       mid == size \div 2
   IN  CASE m = "EachQTwoThread" -> [t \in 1..size |-> <<t - 1>>]
         [] m = "EachQOneThread" -> [t \in 1..((size + 1) \div 2) |-> <<2 * t - 2, 2 * t - 1>>]
         [] m = "AllQTwoThread" -> <<Slice(qids, 1, mid), Slice(qids, mid + 1, size)>>
         [] m = "AllQOneThread" -> <<qids>>

\* What this handler's threads are to be.
Plan == Dispatch(mode, QueueIds(pairs))
Workers == 1..Len(Plan)

\* The transmit queue whose mempool and ring serve queue q.
RingOf(q) == IF IsOdd(q) THEN q ELSE q + 1

\* The queue that worker w is serving.
Queue(w) == Plan[w][at[w]]

-----------------------------------------------------------------------------
\* The transmit queues, each with a mempool and a ring.
Odd == {q \in 0..(2 * pairs - 1) : IsOdd(q)}

\* The threads in worker_threads_.
InVector == (cleared + 1)..launched

Init == /\ mode \in ThreadModes
        /\ pairs \in 0..MaxPairs
        /\ pc = "new" /\ is_running = TRUE
        /\ launched = 0 /\ cleared = 0 /\ joined = {}
        /\ stop = [c \in Callers |-> "out"]
        /\ next = [c \in Callers |-> 1] /\ upto = [c \in Callers |-> 0]
        /\ wpc = [w \in Workers |-> "none"]
        /\ at = [w \in Workers |-> 1]
        /\ resources = {} /\ alive = {} /\ late = {}
        /\ terminated = FALSE

\* Where the threads are, in a process that is not gone.
Epoll(place) == ~terminated /\ pc = place
In(c, place) == ~terminated /\ stop[c] = place
Does(w, place) == ~terminated /\ wpc[w] = place

\* start up to dispatch: create_resources makes a mempool and a ring for every
\* odd queue.
Start == /\ Epoll("new") /\ stop["epoll"] = "out"
         /\ pc' = "launching"
         /\ resources' = resources \cup Odd /\ alive' = alive \cup Odd
         /\ UNCHANGED <<mode, pairs, is_running, launched, cleared, joined, callVars,
                        wpc, at, late, terminated>>

\* main's shutdown has looked at worker_threads_ for the last time and will free, or
\* has freed, what a thread launched now is going to use.
TooLate == stop["main"] \in {"freeing", "emptying"} \/ ~(Odd \subseteq resources \cap alive)

\* Mutant of Launch: the loop over the queues does not stop at the last.
LaunchOneMore ==
   /\ Epoll("launching") /\ launched <= Len(Plan)
   /\ launched' = launched + 1
   /\ wpc' = [wpc EXCEPT ![launched'] = "spawned"]
   /\ late' = IF TooLate THEN late \cup {launched'} ELSE late
   /\ UNCHANGED <<mode, pairs, pc, is_running, cleared, joined, callVars, at,
                  resources, alive, terminated>>

\* One launch of dispatch; the new thread is not scheduled yet.
Launch == /\ Epoll("launching") /\ launched < Len(Plan)
          /\ launched' = launched + 1
          /\ wpc' = [wpc EXCEPT ![launched'] = "spawned"]
          /\ late' = IF TooLate THEN late \cup {launched'} ELSE late
          /\ UNCHANGED <<mode, pairs, pc, is_running, cleared, joined, callVars, at,
                         resources, alive, terminated>>

DispatchDone == /\ Epoll("launching") /\ launched = Len(Plan)
                /\ pc' = "started"
                /\ UNCHANGED <<mode, pairs, is_running, launched, cleared, joined, callVars,
                               wpc, at, resources, alive, late, terminated>>

\* shutdown is called: by the epoll worker (process_notification and the destructor),
\* also on a handler that was never started or is down; by main whenever it gets there.
Shutdown(c) ==
   /\ In(c, "out")
   /\ c = "epoll" => pc # "launching"
   /\ stop' = [stop EXCEPT ![c] = "stopping"]
   /\ is_running' = FALSE
   /\ UNCHANGED <<mode, pairs, pc, launched, cleared, joined, next, upto, wpc, at,
                  resources, alive, late, terminated>>

\* The loop over worker_threads_ begins: its end is fixed here.
EnterLoop(c) ==
   /\ In(c, "stopping")
   /\ stop' = [stop EXCEPT ![c] = "joining"]
   /\ next' = [next EXCEPT ![c] = cleared + 1] /\ upto' = [upto EXCEPT ![c] = launched]
   /\ UNCHANGED <<mode, pairs, pc, is_running, launched, cleared, joined, wpc, at,
                  resources, alive, late, terminated>>

\* The join loop waits for the threads in the order they were launched; one that
\* the other caller has joined is not joinable.
Join(c) == /\ In(c, "joining") /\ next[c] <= upto[c]
           /\ wpc[next[c]] = "exited"
           /\ joined' = joined \cup {next[c]}
           /\ next' = [next EXCEPT ![c] = @ + 1]
           /\ UNCHANGED <<mode, pairs, pc, is_running, launched, cleared, stop, upto,
                          wpc, at, resources, alive, late, terminated>>

\* Mutant of ClearThreads: the threads are detached instead of joined.
ClearUnjoined(c) ==
   /\ In(c, "joining")
   /\ stop' = [stop EXCEPT ![c] = "freeing"] /\ cleared' = launched
   /\ UNCHANGED <<mode, pairs, pc, is_running, launched, joined, next, upto, wpc, at,
                  resources, alive, late, terminated>>

\* worker_threads_.clear() destroys the threads: one that nobody has joined, because it
\* was launched after the loop began, ends the process (std::terminate).
ClearThreads(c) ==
   /\ In(c, "joining") /\ next[c] > upto[c]
   /\ IF InVector \subseteq joined
      THEN /\ stop' = [stop EXCEPT ![c] = "freeing"] /\ cleared' = launched
           /\ UNCHANGED terminated
      ELSE terminated' = TRUE /\ UNCHANGED <<stop, cleared>>
   /\ UNCHANGED <<mode, pairs, pc, is_running, launched, joined, next, upto, wpc, at,
                  resources, alive, late>>

\* The mempools and rings in the maps are freed ...
Free(c) == /\ In(c, "freeing")
           /\ stop' = [stop EXCEPT ![c] = "emptying"]
           /\ alive' = alive \ resources
           /\ UNCHANGED <<mode, pairs, pc, is_running, launched, cleared, joined, next, upto,
                          wpc, at, resources, late, terminated>>

\* Mutant of EmptyMaps: the maps are not cleared.
KeepMaps(c) ==
   /\ In(c, "emptying")
   /\ stop' = [stop EXCEPT ![c] = "out"]
   /\ pc' = IF c = "epoll" THEN "down" ELSE pc
   /\ UNCHANGED <<mode, pairs, is_running, launched, cleared, joined, next, upto, wpc, at,
                  resources, alive, late, terminated>>

\* ... and the maps cleared; shutdown returns.
EmptyMaps(c) ==
   /\ In(c, "emptying")
   /\ stop' = [stop EXCEPT ![c] = "out"]
   /\ pc' = IF c = "epoll" THEN "down" ELSE pc
   /\ resources' = {}
   /\ UNCHANGED <<mode, pairs, is_running, launched, cleared, joined, next, upto, wpc, at,
                  alive, late, terminated>>

GoesOn(c) == EnterLoop(c) \/ Join(c) \/ ClearThreads(c) \/ Free(c) \/ EmptyMaps(c)

-----------------------------------------------------------------------------
\* The first statements of worker, up to its loop.
WorkerBegins(w) == /\ Does(w, "spawned")
                   /\ is_running' = TRUE
                   /\ wpc' = [wpc EXCEPT ![w] = "check"]
                   /\ UNCHANGED <<ownerVars, at, terminated>>

\* The condition of the while loop; a pass over no queue comes straight back.
WorkerChecks(w) == /\ Does(w, "check")
                   /\ wpc' = [wpc EXCEPT ![w] = IF ~is_running THEN "exited"
                                                ELSE IF Len(Plan[w]) = 0 THEN "check"
                                                ELSE "serve"]
                   /\ at' = [at EXCEPT ![w] = 1]
                   /\ UNCHANGED <<ownerVars, is_running, terminated>>

\* Mutant of WorkerServes: the pass over the queues starts again by itself.
WorkerServesOn(w) == /\ Does(w, "serve")
                     /\ at' = [at EXCEPT ![w] = IF @ < Len(Plan[w]) THEN @ + 1 ELSE 1]
                     /\ UNCHANGED <<ownerVars, is_running, wpc, terminated>>

\* One call of dequeue_tx_packets or enqueue_rx_packets.
WorkerServes(w) == /\ Does(w, "serve")
                   /\ IF at[w] < Len(Plan[w])
                      THEN at' = [at EXCEPT ![w] = @ + 1] /\ wpc' = wpc
                      ELSE wpc' = [wpc EXCEPT ![w] = "check"] /\ at' = at
                   /\ UNCHANGED <<ownerVars, is_running, terminated>>

Worker(w) == WorkerBegins(w) \/ WorkerChecks(w) \/ WorkerServes(w)

\* The queue that w serves has its mempool and ring in the maps, and in DPDK.
HasPool(w) == RingOf(Queue(w)) \in resources \cap alive

\* The vector or the maps are in two hands, or a worker uses a pool that is gone or null.
Undefined == \/ stop["main"] # "out" /\ (pc = "launching" \/ stop["epoll"] # "out")
             \/ \E w \in Workers : wpc[w] = "serve" /\ ~HasPool(w)

\* What has no defined behaviour may end the process; or it goes on.
RaceCrash == /\ Undefined /\ ~terminated
             /\ terminated' = TRUE
             /\ UNCHANGED <<ownerVars, is_running, wpc, at>>

Next == \/ Start \/ Launch \/ DispatchDone \/ RaceCrash
        \/ \E c \in Callers : Shutdown(c) \/ GoesOn(c)
        \/ \E w \in Workers : Worker(w)

Spec == Init /\ [][Next]_vars

\* Worker w serves a receive queue, whose drain loop goes on while it finds packets
\* in the ring, and another thread may still push packets into it.
Fed(w) == /\ w \in Workers /\ wpc[w] = "serve" /\ ~IsOdd(Queue(w))
          /\ \E v \in Workers \ {w} :
                /\ wpc[v] \in {"check", "serve"}
                /\ \E i \in 1..Len(Plan[v]) : Plan[v][i] = RingOf(Queue(w))

\* Every thread is scheduled, and every call ends but a drain that is fed; a caller,
\* once it has called start or shutdown, goes on with it.  Nobody has to call shutdown.
Fairness ==
   /\ WF_vars(Launch) /\ WF_vars(DispatchDone)
   /\ \A c \in Callers : WF_vars(GoesOn(c))
   /\ \A w \in 1..(2 * MaxPairs + 2) : WF_vars(w \in Workers /\ ~Fed(w) /\ Worker(w))

FairSpec == Spec /\ Fairness

-----------------------------------------------------------------------------
TypeOK == /\ mode \in ThreadModes
          /\ pairs \in 0..MaxPairs
          /\ pc \in {"new", "launching", "started", "down"}
          /\ is_running \in BOOLEAN
          /\ launched \in 0..Len(Plan) /\ cleared \in 0..launched
          /\ joined \subseteq 1..launched
          /\ stop \in [Callers -> {"out", "stopping", "joining", "freeing", "emptying"}]
          /\ next \in [Callers -> 1..(Len(Plan) + 1)] /\ upto \in [Callers -> 0..launched]
          /\ wpc \in [Workers -> {"none", "spawned", "check", "serve", "exited"}]
          /\ at \in [Workers -> Nat]
          /\ resources \subseteq Odd /\ alive \subseteq Odd
          /\ late \subseteq 1..launched
          /\ terminated \in BOOLEAN

\* A worker only touches a mempool and a ring that exist: shutdown frees them after
\* the last worker has left its loop, in every thread mode and whenever and by whom it
\* is called.  The one exception are the workers that dispatch goes on to launch after
\* main's shutdown, called in the middle of it, has cleared the vector.
NoUseAfterFree == \A w \in Workers \ late : wpc[w] = "serve" => HasPool(w)

\* The maps never hold a freed mempool or ring when shutdown is called or has returned:
\* a second shutdown (the destructor's) frees nothing again, unless it overlaps the first.
NothingDangles == resources \subseteq alive \/ \E c \in Callers : stop[c] = "emptying"

\* The rings are single-producer and single-consumer: no two workers are in
\* dequeue_tx_packets, or in enqueue_rx_packets, for the same ring.
OneProducerOneConsumer ==
   \A v, w \in Workers : v # w /\ wpc[v] = "serve" /\ wpc[w] = "serve" => Queue(v) # Queue(w)

\* Every queue of the device is given to a thread, once start has returned.
AllServed == pc = "started" =>
   \A q \in 0..(2 * pairs - 1) :
      \E w \in 1..launched : \E i \in 1..Len(Plan[w]) : Plan[w][i] = q

\* A shutdown, by whichever thread, that finds dispatch done and every launched thread
\* past its first statement (which sets is_running_) gets through its joins: all workers
\* leave their loops, the transmit workers first, so that no drain is fed any more.
ShutdownReturns ==
   \A c \in Callers :
      (/\ stop[c] \in {"stopping", "joining"} /\ ~is_running
       /\ c = "main" => pc \in {"started", "down"}
       /\ \A w \in Workers : wpc[w] # "spawned")
         ~> (stop[c] \in {"freeing", "emptying"} \/ terminated)

\* "stop threading loop", "wait for threads to finish" (shutdown): the loops
\* stop and the threads finish.  Stated of a shutdown that main does not meddle with.
ShutdownStops ==
   (stop["epoll"] = "joining" /\ stop["main"] = "out")
      ~> (stop["epoll"] = "freeing" \/ stop["main"] # "out" \/ terminated)
=============================================================================
