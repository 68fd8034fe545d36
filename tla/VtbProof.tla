------------------------------- MODULE VtbProof -------------------------------
(***************************************************************************)
(* Proofs about Vtb, for any number of devices and signals and a socket of *)
(* any size.                                                               *)
(***************************************************************************)
EXTENDS Vtb, TLAPS

-----------------------------------------------------------------------------
(***************************************************************************)
(* Types.                                                                  *)
(***************************************************************************)
Messages == [meta : {"PORT_UP", "PORT_DOWN"}, vid : Vids]

\* The part of TypeOK about the socket, which only three actions change.
SocketOK == chan \in Seq(Messages) /\ Len(chan) <= ChanCap

LEMMA NotifyOK ==
   ASSUME SocketOK, NEW v \in Vids, NEW meta \in {"PORT_UP", "PORT_DOWN"}, Notify(meta, v)
   PROVE  SocketOK'
<1> DEFINE m == [meta |-> meta, vid |-> v]
<1>1. m \in Messages /\ ChanCap \in Nat
   BY VtbAssumption DEF Messages
<1>2. CASE ClientSocket = "own"
   <2>1. Len(chan) < ChanCap /\ chan' = Append(chan, m)
      BY <1>2 DEF Notify
   <2> QED BY <1>1, <2>1 DEF SocketOK
<1>3. CASE ClientSocket # "own"
   BY <1>3 DEF Notify, SocketOK
<1> QED BY <1>2, <1>3

LEMMA HeadOK ==
   ASSUME SocketOK, chan # << >>, chan' = Tail(chan)
   PROVE  SocketOK' /\ Head(chan) \in Messages
BY VtbAssumption DEF SocketOK


LEMMA InitOK == Init => TypeOK
<1> SUFFICES ASSUME Init PROVE TypeOK
   OBVIOUS
<1>1. SocketOK
   BY VtbAssumption DEF Init, SocketOK
<1>2. at \in 0..NofVids /\ signals \in 0..MaxSignals
   BY VtbAssumption DEF Init
<1> QED BY <1>1, <1>2 DEF Init, TypeOK, SocketOK, Messages

\* The steps of main.
LEMMA MainOK == ASSUME TypeOK, Main PROVE TypeOK'
<1> USE DEF signalVars, epollVars, handlerVars
<1>1. CASE Configure
   BY <1>1 DEF Configure, TypeOK
<1>2. CASE StartController
   <2>1. is_running' \in BOOLEAN
      BY <1>2, Zenon DEF StartController, TypeOK
   <2>2. pc' \in {pc, "eal"} /\ epc' \in {epc, "wait"} /\ process' \in {process, "crashed"}
      BY <1>2 DEF StartController
   <2>3. UNCHANGED <<args, at, lcore, signalVars, mutex, live, chan, vid, raced, handlerVars>>
      BY <1>2 DEF StartController
   <2> QED BY <2>1, <2>2, <2>3 DEF TypeOK
<1>3. CASE StartBackend
   BY <1>3 DEF StartBackend, Terminate, TypeOK, Threads
<1>4. CASE LaunchKeepAlive
   BY <1>4 DEF LaunchKeepAlive, TypeOK
<1>5. CASE Report
   BY <1>5 DEF Report, TypeOK
<1>6. CASE DecideShutdown
   BY <1>6, VtbAssumption DEF DecideShutdown, TypeOK
<1>7. CASE SkipShutdown
   BY <1>7 DEF SkipShutdown, TypeOK
<1>8. CASE ShutdownHandlers
   <2>1. /\ pc' \in {pc, "unregister"}
         /\ UNCHANGED <<args, process, lcore, signalVars, mutex, live, chan, epollVars, is_running>>
      BY <1>8 DEF ShutdownHandlers
   <2>2. at' \in 0..NofVids
      BY <1>8, VtbAssumption DEF ShutdownHandlers, TypeOK, Vids
   <2>3. handler' \in [Vids -> {"none", "starting", "running", "down"}]
      BY <1>8 DEF ShutdownHandlers, TypeOK
   <2>4. lost' \subseteq {"main", "epoll"}
      BY <1>8 DEF ShutdownHandlers, TypeOK
   <2> QED BY <2>1, <2>2, <2>3, <2>4 DEF TypeOK
<1>9. CASE Unregister
   <2>1. SocketOK'
      <3>1. SocketOK
         BY DEF TypeOK, SocketOK, Messages
      <3>2. CASE chan' = chan
         BY <3>1, <3>2 DEF SocketOK
      <3>3. CASE \E v \in live : Notify("PORT_DOWN", v)
         BY <3>1, <3>3, NotifyOK DEF TypeOK
      <3> QED BY <1>9, <3>2, <3>3 DEF Unregister
   <2>2. is_running' \in BOOLEAN
      BY <1>9, Zenon DEF Unregister, TypeOK
   <2>3. /\ live' \subseteq Vids /\ pc' \in {pc, "destroy"} /\ at' \in {at, 0}
         /\ UNCHANGED <<args, process, lcore, signalVars, mutex, epollVars, handlerVars>>
      BY <1>9 DEF Unregister, TypeOK
   <2> QED BY <2>1, <2>2, <2>3, VtbAssumption DEF TypeOK, SocketOK, Messages
<1>10. CASE DestroyController
   <2>1. /\ pc' \in {pc, "exit"}
         /\ UNCHANGED <<args, process, lcore, signalVars, mutex, live, chan, epollVars, is_running>>
      BY <1>10 DEF DestroyController
   <2>2. at' \in 0..NofVids
      BY <1>10, VtbAssumption DEF DestroyController, TypeOK, Vids
   <2>3. handler' \in [Vids -> {"none", "starting", "running", "down"}]
      BY <1>10 DEF DestroyController, TypeOK
   <2>4. lost' \subseteq {"main", "epoll"}
      BY <1>10 DEF DestroyController, TypeOK
   <2> QED BY <2>1, <2>2, <2>3, <2>4 DEF TypeOK
<1>11. CASE Exit
   BY <1>11 DEF Exit, TypeOK
<1> QED
   BY <1>1, <1>2, <1>3, <1>4, <1>5, <1>6, <1>7, <1>8, <1>9, <1>10, <1>11 DEF Main

\* The steps of the other threads, of the guest and of signal handlers.
LEMMA OthersOK == ASSUME TypeOK, Next, ~Main PROVE TypeOK'
<1> USE DEF signalVars, epollVars, handlerVars
<1>1. CASE KeepAlive
   BY <1>1 DEF KeepAlive, TypeOK
<1>2. CASE EpollRead
   <2>1. SocketOK' /\ Head(chan) \in Messages
      BY <1>2, HeadOK DEF EpollRead, TypeOK, SocketOK, Messages
   <2> QED BY <1>2, <2>1 DEF EpollRead, TypeOK, SocketOK, Messages
<1>3. CASE EpollUp
   BY <1>3 DEF EpollUp, Terminate, NextPass, Teardown, TypeOK, Threads
<1>4. CASE EpollDown
   <2>1. raced' \in BOOLEAN
      BY <1>4, Zenon DEF EpollDown, Teardown, TypeOK
   <2>2. /\ epc' \in {"wait", "gone"}
         /\ UNCHANGED <<args, process, pc, at, lcore, signalVars, mutex, live, chan, vid,
                        is_running>>
      BY <1>4 DEF EpollDown, NextPass
   <2>3. handler' \in [Vids -> {"none", "starting", "running", "down"}]
      BY <1>4 DEF EpollDown, TypeOK
   <2>4. lost' \subseteq {"main", "epoll"}
      BY <1>4 DEF EpollDown, TypeOK
   <2> QED BY <2>1, <2>2, <2>3, <2>4 DEF TypeOK
<1>5. CASE EpollLate
   BY <1>5 DEF EpollLate, TypeOK
<1>6. CASE RaceCrash
   BY <1>6 DEF RaceCrash, TypeOK
<1>7. CASE Guest
   <2>1. PICK v \in Vids, meta \in {"PORT_UP", "PORT_DOWN"} :
            /\ Notify(meta, v) /\ live' \in {live \cup {v}, live \ {v}}
            /\ UNCHANGED <<args, process, pc, at, lcore, signalVars, mutex, epollVars,
                           is_running, handlerVars>>
      BY <1>7 DEF Guest, NewDevice, DestroyDevice
   <2>2. SocketOK'
      BY <2>1, NotifyOK DEF TypeOK, SocketOK, Messages
   <2> QED BY <2>1, <2>2 DEF TypeOK, SocketOK, Messages
<1>8. CASE Handlers
   <2>1. CASE \E v \in Vids : WorkersBegin(v)
      <3>1. /\ UNCHANGED <<args, process, pc, at, lcore, signalVars, mutex, live, chan,
                          epollVars, is_running, lost>>
            /\ handler' \in [Vids -> {"none", "starting", "running", "down"}]
         BY <2>1 DEF WorkersBegin, TypeOK
      <3> QED BY <3>1 DEF TypeOK
   <2>2. CASE \E t \in {"main", "epoll"} : StopEarly(t)
      <3>1. /\ UNCHANGED <<args, process, pc, at, lcore, signalVars, mutex, live, chan,
                          epollVars, is_running, handler>>
            /\ lost' \subseteq {"main", "epoll"}
         BY <2>2 DEF StopEarly, TypeOK
      <3> QED BY <3>1 DEF TypeOK
   <2> QED BY <1>8, <2>1, <2>2 DEF Handlers
<1>9. ASSUME NEW t \in Threads,
             LogLock(t) \/ LogUnlock(t) \/ Signal(t) \/ SignalHandler(t)
      PROVE  TypeOK'
   <2>1. CASE LogLock(t) \/ LogUnlock(t)
      <3>1. /\ mutex' \in Threads \cup {NoThread}
            /\ UNCHANGED <<args, process, pc, at, lcore, signalVars, live, chan, epollVars,
                          is_running, handlerVars>>
         BY <2>1 DEF LogLock, LogUnlock
      <3> QED BY <3>1 DEF TypeOK
   <2>2. CASE Signal(t)
      BY <2>2, VtbAssumption DEF Signal, TypeOK
   <2>3. CASE SignalLogs(t)
      BY <2>3 DEF SignalLogs, TypeOK
   <2>4. CASE SignalKeeps(t)
      BY <2>4 DEF SignalKeeps, TypeOK
   <2>5. CASE SignalReturns(t)
      BY <2>5 DEF SignalReturns, TypeOK
   <2> QED BY <1>9, <2>1, <2>2, <2>3, <2>4, <2>5 DEF SignalHandler
<1> QED
   BY <1>1, <1>2, <1>3, <1>4, <1>5, <1>6, <1>7, <1>8, <1>9 DEF Next, EpollWorker

LEMMA NextOK == ASSUME TypeOK, [Next]_vars PROVE TypeOK'
<1>1. CASE Main
   BY <1>1, MainOK
<1>2. CASE Next /\ ~Main
   BY <1>2, OthersOK
<1>3. CASE UNCHANGED vars
   BY <1>3 DEF vars, signalVars, epollVars, handlerVars, TypeOK
<1> QED BY <1>1, <1>2, <1>3 DEF Next

\* Every variable keeps its type; the socket never holds more than it can.
THEOREM TypeCorrect == Spec => []TypeOK
<1>1. TypeOK /\ [Next]_vars => TypeOK'
   BY NextOK
<1> QED BY <1>1, InitOK, PTL DEF Spec

-----------------------------------------------------------------------------
(***************************************************************************)
(* The destructors.  Main goes through the map, and behind it the epoll    *)
(* worker puts a handler only by racing with it.                           *)
(***************************************************************************)
StoppedSoFar ==
   ~raced => /\ pc = "destroy" => \A v \in Vids : v < at => handler[v] = "none"
             /\ pc = "exit" => \A v \in Vids : handler[v] = "none"

LEMMA StoppedStep ==
   ASSUME TypeOK, StoppedSoFar, [Next]_vars
   PROVE  StoppedSoFar'
<1> USE DEF signalVars, epollVars, handlerVars
<1>1. CASE UNCHANGED <<raced, pc, at, handler>>
   BY <1>1 DEF StoppedSoFar
<1>2. CASE \/ Configure \/ StartController \/ StartBackend \/ LaunchKeepAlive \/ Report
           \/ DecideShutdown \/ SkipShutdown \/ ShutdownHandlers
   <2>1. UNCHANGED pc \/ pc' \notin {"destroy", "exit"}
      BY <1>2 DEF Configure, StartController, StartBackend, LaunchKeepAlive, Report,
                  DecideShutdown, SkipShutdown, ShutdownHandlers
   <2>2. pc \notin {"destroy", "exit"}
      BY <1>2 DEF Configure, StartController, StartBackend, LaunchKeepAlive, Report,
                  DecideShutdown, SkipShutdown, ShutdownHandlers
   <2> QED BY <2>1, <2>2 DEF StoppedSoFar
<1>3. CASE Unregister
   <2>1. CASE UNCHANGED <<pc, at>>
      BY <1>3, <2>1 DEF Unregister, StoppedSoFar
   <2>2. CASE pc' = "destroy" /\ at' = 0
      BY <2>2 DEF StoppedSoFar, Vids
   <2> QED BY <1>3, <2>1, <2>2 DEF Unregister
<1>4. CASE DestroyController
   <2>1. CASE at \in Vids
      <3>1. /\ handler' = [handler EXCEPT ![at] = "none"] /\ at' = at + 1
            /\ UNCHANGED <<pc, raced>> /\ pc = "destroy"
         BY <1>4, <2>1 DEF DestroyController
      <3>2. ASSUME ~raced, NEW v \in Vids, v < at + 1
            PROVE  handler'[v] = "none"
         <4>1. v = at \/ v < at
            BY <2>1, <3>2 DEF Vids
         <4>2. handler \in [Vids -> {"none", "starting", "running", "down"}]
            BY DEF TypeOK
         <4> QED BY <3>1, <3>2, <4>1, <4>2 DEF StoppedSoFar
      <3> QED BY <3>1, <3>2 DEF StoppedSoFar
   <2>2. CASE at \notin Vids
      <3>1. /\ handler' = handler /\ UNCHANGED raced /\ pc = "destroy" /\ pc' = "exit"
         BY <1>4, <2>2 DEF DestroyController
      <3>2. \A v \in Vids : v < at
         BY <2>2, VtbAssumption DEF TypeOK, Vids
      <3> QED BY <3>1, <3>2 DEF StoppedSoFar
   <2> QED BY <2>1, <2>2
<1>5. CASE EpollUp \/ EpollDown
   <2>1. (raced' <=> raced \/ pc \in {"destroy", "exit"}) /\ UNCHANGED pc
      BY <1>5, Zenon DEF EpollUp, EpollDown, Teardown
   <2> QED BY <2>1 DEF StoppedSoFar
<1>6. CASE EpollLate
   BY <1>6 DEF EpollLate, StoppedSoFar
<1>7. ASSUME NEW v \in Vids, WorkersBegin(v)
      PROVE  StoppedSoFar'
   <2>1. /\ handler[v] # "none" /\ handler' = [handler EXCEPT ![v] = "running"]
         /\ UNCHANGED <<pc, at, raced>>
      BY <1>7 DEF WorkersBegin
   <2>2. \A w \in Vids : handler[w] = "none" => handler'[w] = "none"
      BY <2>1
   <2> QED BY <2>1, <2>2 DEF StoppedSoFar
<1> QED
   BY <1>1, <1>2, <1>3, <1>4, <1>5, <1>6, <1>7
   DEF Next, Main, Exit, KeepAlive, EpollWorker, EpollRead, RaceCrash, Guest, NewDevice,
       DestroyDevice, LogLock, LogUnlock, Signal, SignalHandler, SignalLogs, SignalKeeps,
       SignalReturns, Handlers, StopEarly, vars

\* When main returns, every handler has been shut down, whether PortController's
\* shutdown was skipped or not, as long as the epoll worker has not gone on in a
\* controller that was being destroyed.
THEOREM AllStopped == Spec => []StoppedAtReturn
<1>1. Init => StoppedSoFar
   BY DEF Init, StoppedSoFar
<1>2. TypeOK /\ StoppedSoFar /\ [Next]_vars => StoppedSoFar'
   BY StoppedStep
<1>3. StoppedSoFar => StoppedAtReturn
   BY DEF StoppedSoFar, StoppedAtReturn
<1> QED BY <1>1, <1>2, <1>3, TypeCorrect, PTL DEF Spec

-----------------------------------------------------------------------------
(***************************************************************************)
(* Why main wakes up, and what it then finds.                              *)
(***************************************************************************)
Window ==
   /\ lcore = "done" => keep_running
   /\ keep_running /\ ~ctrl_c_detected => \E t \in Threads : frame[t] = "ctrl"
   /\ pc \in {"wait", "decide"} => lcore # "idle" \/ args.lcores = 1
   /\ pc = "decide" => lcore # "spin"

LEMMA WindowStep ==
   ASSUME TypeOK, Window, [Next]_vars
   PROVE  Window'
<1> USE DEF signalVars, epollVars, handlerVars
<1>1. CASE UNCHANGED <<args, pc, lcore, keep_running, ctrl_c_detected, frame>>
   BY <1>1 DEF Window
<1>2. CASE \/ Configure \/ DecideShutdown \/ SkipShutdown \/ ShutdownHandlers \/ Unregister
           \/ DestroyController \/ StartController
   <2>1. /\ UNCHANGED <<args, lcore, keep_running, ctrl_c_detected, frame>>
         /\ UNCHANGED pc \/ pc' \notin {"wait", "decide"}
      BY <1>2 DEF Configure, DecideShutdown, SkipShutdown, ShutdownHandlers, Unregister,
                  DestroyController, StartController
   <2> QED BY <2>1 DEF Window
<1>3. CASE StartBackend
   <2>1. /\ UNCHANGED <<args, lcore, keep_running, ctrl_c_detected>>
         /\ pc' \notin {"wait", "decide"}
         /\ frame["main"] = "none" /\ frame' \in {frame, [frame EXCEPT !["main"] = "log"]}
      BY <1>3 DEF StartBackend, Terminate, Logs, Runs
   <2>2. frame \in [Threads -> {"none", "log", "keep", "ctrl"}]
      BY DEF TypeOK
   <2>3. \A t \in Threads : frame[t] = "ctrl" => frame'[t] = "ctrl"
      BY <2>1, <2>2
   <2> QED BY <2>1, <2>3 DEF Window
<1>4. CASE LaunchKeepAlive
   <2>1. /\ UNCHANGED <<args, keep_running, ctrl_c_detected, frame>>
         /\ pc' = "wait" /\ lcore' = IF args.lcores > 1 THEN "spin" ELSE "idle"
      BY <1>4 DEF LaunchKeepAlive
   <2>2. args.lcores \in {1, 2}
      BY DEF TypeOK, Arguments
   <2> QED BY <2>1, <2>2 DEF Window
<1>5. CASE KeepAlive
   BY <1>5 DEF KeepAlive, Window
<1>6. CASE Report
   BY <1>6 DEF Report, Window
<1>7. CASE EpollUp
   <2>1. /\ UNCHANGED <<args, pc, lcore, keep_running, ctrl_c_detected>>
         /\ frame["epoll"] = "none" /\ frame' \in {frame, [frame EXCEPT !["epoll"] = "log"]}
      BY <1>7 DEF EpollUp, Terminate, Logs, Runs
   <2>2. frame \in [Threads -> {"none", "log", "keep", "ctrl"}]
      BY DEF TypeOK
   <2>3. \A t \in Threads : frame[t] = "ctrl" => frame'[t] = "ctrl"
      BY <2>1, <2>2
   <2> QED BY <2>1, <2>3 DEF Window
<1>8. ASSUME NEW s \in Threads, Signal(s) \/ SignalHandler(s)
      PROVE  Window'
   <2>1. frame \in [Threads -> {"none", "log", "keep", "ctrl"}]
      BY DEF TypeOK
   <2>2. CASE Signal(s)
      <3>1. \A t \in Threads : frame[t] = "ctrl" => frame'[t] = "ctrl"
         BY <2>1, <2>2 DEF Signal, Runs
      <3> QED BY <2>2, <3>1 DEF Signal, Window
   <2>3. CASE SignalLogs(s)
      <3>1. \A t \in Threads : frame[t] = "ctrl" => frame'[t] = "ctrl"
         BY <2>1, <2>3 DEF SignalLogs
      <3> QED BY <2>3, <3>1 DEF SignalLogs, Window
   <2>4. CASE SignalKeeps(s)
      <3>1. frame'[s] = "ctrl"
         BY <2>1, <2>4 DEF SignalKeeps
      <3> QED BY <2>4, <3>1 DEF SignalKeeps, Window
   <2>5. CASE SignalReturns(s)
      BY <2>5 DEF SignalReturns, Window
   <2> QED BY <1>8, <2>2, <2>3, <2>4, <2>5 DEF SignalHandler
<1> QED
   BY <1>1, <1>2, <1>3, <1>4, <1>5, <1>6, <1>7, <1>8
   DEF Next, Main, Exit, EpollWorker, EpollRead, EpollDown, EpollLate, RaceCrash, Guest,
       NewDevice, DestroyDevice, LogLock, LogUnlock, Handlers, WorkersBegin, StopEarly, vars

\* Main skips the shutdown of the handlers only in the window between the two
\* assignments of a signal handler, or when it had no lcore to wait for.
THEOREM SkipWindow == Spec => SkipsOnlyInWindow
<1> DEFINE InWindow == SkipShutdown => \/ \E t \in Threads \ {"main"} : frame[t] = "ctrl"
                                       \/ args.lcores = 1
<1>1. Init => Window
   BY DEF Init, Window
<1>2. TypeOK /\ Window /\ [Next]_vars => Window'
   BY WindowStep
<1>3. TypeOK /\ Window /\ [Next]_vars => [InWindow]_vars
   <2>1. SUFFICES ASSUME TypeOK, Window, SkipShutdown
                  PROVE  \/ \E t \in Threads \ {"main"} : frame[t] = "ctrl"
                         \/ args.lcores = 1
      OBVIOUS
   <2>2. pc = "decide" /\ ~ctrl_c_detected /\ frame["main"] = "none"
      BY <2>1 DEF SkipShutdown, Logs, Runs
   <2>3. lcore = "done" \/ args.lcores = 1
      BY <2>1, <2>2 DEF Window, TypeOK
   <2>4. CASE lcore = "done"
      <3>1. PICK t \in Threads : frame[t] = "ctrl"
         BY <2>1, <2>2, <2>4 DEF Window
      <3>2. t # "main"
         BY <2>2, <3>1
      <3> QED BY <3>1, <3>2
   <2> QED BY <2>3, <2>4
<1> QED BY <1>1, <1>2, <1>3, TypeCorrect, PTL DEF Spec, SkipsOnlyInWindow
=============================================================================
