---------------------------------- MODULE Vtb ----------------------------------
(***************************************************************************)
(* The life of the process: main starts the port controller and the vhost  *)
(* driver, waits for the lcore that looks at keep_running, prints the      *)
(* report, shuts the handlers down and destroys the controllers, while the *)
(* detached epoll worker goes on with the notifications and a signal may   *)
(* interrupt any thread.  Ports has the control plane in detail,           *)
(* PortHandlerLoopback the threads of a handler, AsyncLogger the logger;   *)
(* here a device has one port handler, whose workers begin some time after *)
(* its start and are waited for by its shutdown, and of the logger there   *)
(* is only the mutex.                                                      *)
(***************************************************************************)
EXTENDS Integers, Sequences

CONSTANTS NofVids,       \* bound: devices
          ChanCap,       \* bound: notifications the socket buffers; a write waits
          MaxSignals     \* bound: signals in a behaviour

ASSUME VtbAssumption == NofVids \in Nat /\ ChanCap \in Nat /\ MaxSignals \in Nat

Vids == 0..(NofVids - 1)

\* "worker" stands for the worker threads of all handlers, "vhost" is the thread of
\* the vhost library that calls the callbacks, "flush" that of the logger.
Threads == {"main", "lcore", "epoll", "worker", "vhost", "flush"}
NoThread == "nobody"

\* What the program is given: --mode, --client, whether --threading-mode is a
\* mode, whether --abstract-sockname is "free", "taken" by another process or
\* too "long", the number of lcores.
Arguments == [mode : {"Loopback", "Back2Back", "Emulator"}, client : BOOLEAN,
              thread_mode : BOOLEAN, sockname : {"free", "taken", "long"},
              lcores : {1, 2}]

VARIABLES
   args,
   process,          \* "up", "returned" from main, "crashed" or "aborted"
   pc,               \* main
   at,               \* the handler that main's walk has come to
   lcore,            \* keep_alive_thread: "idle", "spin" or "done"
   keep_running, ctrl_c_detected,
   signals,          \* how many there were
   frame,            \* signal_handler on a thread: "none", "log", "keep" or "ctrl"
   aborting,         \* the thread that std::terminate was called on
   mutex,            \* the thread that holds the logger's mutex
   live,             \* devices that are there
   chan,             \* the abstract socket: notifications, oldest first
   epc,              \* epoll worker: "none", "wait", "PORT_UP", "PORT_DOWN" or "gone"
   vid,              \* the device of the notification that it processes
   is_running,       \* PortController::is_running_
   handler,          \* port_handler_ by device: "none", "starting" until its workers
                     \* have begun, "running" or "down"
   lost,             \* the threads in a shutdown that was there before the workers
                     \* began, which have overwritten its is_running_ = false
   raced             \* history: the epoll worker has used the handlers of a
                     \* controller that was being destroyed, or was destroyed

signalVars == <<keep_running, ctrl_c_detected, signals, frame, aborting>>
epollVars == <<epc, vid, raced>>
handlerVars == <<handler, lost>>
vars == <<args, process, pc, at, lcore, signalVars, mutex, live, chan, epollVars,
          is_running, handlerVars>>

Init == /\ args \in Arguments
        /\ process = "up" /\ pc = "config" /\ at = 0 /\ lcore = "idle"
        /\ keep_running = FALSE /\ ctrl_c_detected = FALSE /\ signals = 0
        /\ frame = [t \in Threads |-> "none"]
        /\ aborting = NoThread /\ mutex = NoThread
        /\ live = {} /\ chan = << >>
        /\ epc = "none" /\ vid = 0 /\ raced = FALSE
        /\ is_running = FALSE /\ handler = [v \in Vids |-> "none"] /\ lost = {}

-----------------------------------------------------------------------------
\* Thread t can take a step of its own, and can log in it.
Runs(t) == process = "up" /\ frame[t] = "none"
Logs(t) == Runs(t) /\ mutex = NoThread

\* create_server_socket: the name must fit in sun_path, and bind must find it
\* free; both failures close the socket again.  create_client_socket: the name
\* must fit; then it connects to the process that has bound it, which need not
\* be this one.
ServerSocket == IF args.sockname \in {"long", "taken"} THEN -1 ELSE 1
ClientSocket == IF args.sockname = "long" THEN "none"
                ELSE IF ServerSocket = -1 THEN "other" ELSE "own"

\* An exception nobody catches: graceful_exit logs and returns, so abort raises
\* SIGABRT on the thread, which runs signal_handler before the process dies.
Terminate(t) == aborting' = t /\ frame' = [frame EXCEPT ![t] = "log"]

\* Main or the epoll worker comes to shut the handler of v down.
Stops(t, v) == CASE t = "main" -> pc \in {"shutdown", "destroy"} /\ at = v
                 [] t = "epoll" -> epc \in {"PORT_UP", "PORT_DOWN"} /\ vid = v

\* It can go on: there is no handler or it is down, or the workers see that it is
\* told to stop and leave their loops.
CanStop(t, v) == /\ handler[v] # "starting"
                 /\ handler[v] = "running" => t \notin lost /\ frame["worker"] = "none"

\* config.init: false for --help and arguments it refuses.
Configure == /\ Logs("main") /\ pc = "config"
             /\ \/ pc' = "start" /\ UNCHANGED process
                \/ process' = "returned" /\ UNCHANGED pc
             /\ UNCHANGED <<args, at, lcore, signalVars, mutex, live, chan, epollVars,
                            is_running, handlerVars>>

\* create_controller and PortController::start: the socket, then launch_worker.
\* There is no controller for the other modes; main dereferences null.
StartController ==
   /\ Logs("main") /\ pc = "start"
   /\ IF args.mode = "Loopback"
      THEN pc' = "eal" /\ is_running' = TRUE /\ epc' = "wait" /\ UNCHANGED process
      ELSE process' = "crashed" /\ UNCHANGED <<pc, is_running, epc>>
   /\ UNCHANGED <<args, at, lcore, signalVars, mutex, live, chan, vid, raced, handlerVars>>

\* VhostController and its init and start, up to each call that may throw: EAL,
\* then the callbacks and the driver (a register that fails is only logged).
StartBackend ==
   /\ Logs("main")
   /\ \/ pc = "eal" /\ pc' = "driver" /\ UNCHANGED signalVars
      \/ pc = "driver" /\ pc' = "launch" /\ UNCHANGED signalVars
      \/ /\ pc \in {"eal", "driver"} /\ pc' = "dead" /\ Terminate("main")
         /\ UNCHANGED <<keep_running, ctrl_c_detected, signals>>
   /\ UNCHANGED <<args, process, at, lcore, mutex, live, chan, epollVars, is_running,
                  handlerVars>>

\* rte_eal_remote_launch, its result ignored: there may be no lcore but main's.
LaunchKeepAlive ==
   /\ Runs("main") /\ pc = "launch"
   /\ pc' = "wait"
   /\ lcore' = IF args.lcores > 1 THEN "spin" ELSE "idle"
   /\ UNCHANGED <<args, process, at, signalVars, mutex, live, chan, epollVars, is_running,
                  handlerVars>>

\* keep_alive_thread sees the flag.
KeepAlive == /\ Runs("lcore") /\ lcore = "spin" /\ keep_running
             /\ lcore' = "done"
             /\ UNCHANGED <<args, process, pc, at, signalVars, mutex, live, chan,
                            epollVars, is_running, handlerVars>>

\* Mutant of Report: main waits for an lcore that has run the function.
ReportAfterLcore ==
   /\ Logs("main") /\ pc = "wait" /\ lcore = "done"
   /\ pc' = "decide"
   /\ UNCHANGED <<args, process, at, lcore, signalVars, mutex, live, chan, epollVars,
                  is_running, handlerVars>>

\* rte_eal_mp_wait_lcore returns; print_final_report.
Report == /\ Logs("main") /\ pc = "wait" /\ lcore # "spin"
          /\ pc' = "decide"
          /\ UNCHANGED <<args, process, at, lcore, signalVars, mutex, live, chan,
                         epollVars, is_running, handlerVars>>

\* As a vhost client, or after Ctrl+C, the handlers are shut down; or else not.
DecideShutdown ==
   /\ Logs("main") /\ pc = "decide" /\ (args.client \/ ctrl_c_detected)
   /\ pc' = "shutdown" /\ at' = 0
   /\ UNCHANGED <<args, process, lcore, signalVars, mutex, live, chan, epollVars,
                  is_running, handlerVars>>

SkipShutdown ==
   /\ Logs("main") /\ pc = "decide" /\ ~args.client /\ ~ctrl_c_detected
   /\ pc' = "unregister"
   /\ UNCHANGED <<args, process, at, lcore, signalVars, mutex, live, chan, epollVars,
                  is_running, handlerVars>>

\* PortController::shutdown, handler by handler, each waiting for its workers.
ShutdownHandlers ==
   /\ Logs("main") /\ pc = "shutdown"
   /\ IF at \in Vids
      THEN /\ CanStop("main", at)
           /\ handler' = [handler EXCEPT ![at] = IF @ = "running" THEN "down" ELSE @]
           /\ lost' = lost \ {"main"} /\ at' = at + 1 /\ UNCHANGED pc
      ELSE pc' = "unregister" /\ UNCHANGED <<handlerVars, at>>
   /\ UNCHANGED <<args, process, lcore, signalVars, mutex, live, chan, epollVars, is_running>>

\* A notification is written, if the socket is connected to the own controller.
Notify(meta, v) ==
   IF ClientSocket = "own"
   THEN Len(chan) < ChanCap /\ chan' = Append(chan, [meta |-> meta, vid |-> v])
   ELSE UNCHANGED chan

\* ~VhostController: unregistering the driver destroys the devices on this thread.
Unregister ==
   /\ Logs("main") /\ pc = "unregister"
   /\ \/ \E v \in live : live' = live \ {v} /\ Notify("PORT_DOWN", v)
                         /\ UNCHANGED <<pc, at, is_running>>
      \/ live = {} /\ pc' = "destroy" /\ at' = 0 /\ is_running' = FALSE
         /\ UNCHANGED <<live, chan>>
   /\ UNCHANGED <<args, process, lcore, signalVars, mutex, epollVars, handlerVars>>

\* Mutant of DestroyController: the destructor of a handler does not shut it down.
DestroyControllerOnly ==
   /\ Logs("main") /\ pc = "destroy"
   /\ IF at \in Vids
      THEN at' = at + 1 /\ UNCHANGED <<handlerVars, pc>>
      ELSE pc' = "exit" /\ UNCHANGED <<handlerVars, at>>
   /\ UNCHANGED <<args, process, lcore, signalVars, mutex, live, chan, epollVars, is_running>>

\* ~PortControllerLoopback: is_running_ is FALSE, the detached worker is not
\* joined, and the map goes with its handlers, whose destructors shut them down.
DestroyController ==
   /\ Logs("main") /\ pc = "destroy"
   /\ IF at \in Vids
      THEN /\ CanStop("main", at) /\ handler' = [handler EXCEPT ![at] = "none"]
           /\ lost' = lost \ {"main"} /\ at' = at + 1 /\ UNCHANGED pc
      ELSE pc' = "exit" /\ UNCHANGED <<handlerVars, at>>
   /\ UNCHANGED <<args, process, lcore, signalVars, mutex, live, chan, epollVars, is_running>>

\* main has returned, the static objects are destroyed, of which the logger waits for
\* its thread, and the process ends.
Exit == /\ Logs("main") /\ Logs("flush") /\ pc = "exit"
        /\ process' = "returned"
        /\ UNCHANGED <<args, pc, at, lcore, signalVars, mutex, live, chan, epollVars,
                       is_running, handlerVars>>

Main == \/ Configure \/ StartController \/ StartBackend \/ LaunchKeepAlive \/ Report
        \/ DecideShutdown \/ SkipShutdown \/ ShutdownHandlers \/ Unregister
        \/ DestroyController \/ Exit

-----------------------------------------------------------------------------
\* The epoll worker uses port_handler_ while main walks through it or destroys it.
Teardown == pc \in {"destroy", "exit"}
Racing == epc \in {"PORT_UP", "PORT_DOWN"} /\ (pc = "shutdown" \/ Teardown)

NextPass == IF is_running THEN "wait" ELSE "gone"

\* epoll_wait returns and a notification is read, into a controller that is there.
EpollRead == /\ Logs("epoll") /\ epc = "wait" /\ chan # << >> /\ pc # "exit"
             /\ epc' = Head(chan).meta /\ vid' = Head(chan).vid
             /\ chan' = Tail(chan)
             /\ UNCHANGED <<args, process, pc, at, lcore, signalVars, mutex, live, raced,
                            is_running, handlerVars>>

\* PORT_UP: a handler in the place of the one that may be there, and its start,
\* which throws for a thread mode that is none.
EpollUp == /\ Logs("epoll") /\ epc = "PORT_UP" /\ CanStop("epoll", vid)
           /\ lost' = lost \ {"epoll"}
           /\ IF args.thread_mode
              THEN /\ handler' = [handler EXCEPT ![vid] = "starting"]
                   /\ epc' = NextPass /\ UNCHANGED signalVars
              ELSE /\ handler' = [handler EXCEPT ![vid] = "down"]
                   /\ Terminate("epoll")
                   /\ UNCHANGED <<epc, keep_running, ctrl_c_detected, signals>>
           /\ raced' = (raced \/ Teardown)
           /\ UNCHANGED <<args, process, pc, at, lcore, mutex, live, chan, vid, is_running>>

\* PORT_DOWN: the handler, if there is one, is shut down and removed.
EpollDown == /\ Logs("epoll") /\ epc = "PORT_DOWN" /\ CanStop("epoll", vid)
             /\ handler' = [handler EXCEPT ![vid] = "none"] /\ lost' = lost \ {"epoll"}
             /\ epc' = NextPass
             /\ raced' = (raced \/ Teardown)
             /\ UNCHANGED <<args, process, pc, at, lcore, signalVars, mutex, live, chan,
                            vid, is_running>>

\* The worker wakes up after the controller: it may find is_running_ reset in the
\* freed memory.
EpollLate == /\ Logs("epoll") /\ epc = "wait" /\ chan # << >> /\ pc = "exit"
             /\ epc' = "gone" /\ raced' = TRUE
             /\ UNCHANGED <<args, process, pc, at, lcore, signalVars, mutex, live, chan,
                            vid, is_running, handlerVars>>

EpollWorker == EpollRead \/ EpollUp \/ EpollDown \/ EpollLate

\* The threads of a started handler begin; each sets is_running_ of the handler.
WorkersBegin(v) ==
   /\ Runs("worker") /\ handler[v] = "starting"
   /\ handler' = [handler EXCEPT ![v] = "running"]
   /\ UNCHANGED <<args, process, pc, at, lcore, signalVars, mutex, live, chan, epollVars,
                  is_running, lost>>

\* A shutdown resets is_running_ before that, and waits for threads that will not stop.
StopEarly(t) ==
   /\ Runs(t) /\ t \notin lost
   /\ \E v \in Vids : Stops(t, v) /\ handler[v] = "starting"
   /\ lost' = lost \cup {t}
   /\ UNCHANGED <<args, process, pc, at, lcore, signalVars, mutex, live, chan, epollVars,
                  is_running, handler>>

Handlers == (\E v \in Vids : WorkersBegin(v)) \/ (\E t \in {"main", "epoll"} : StopEarly(t))

\* Two threads in one map, or a worker in a controller that is gone: the process
\* may also crash.
RaceCrash == /\ process = "up"
             /\ Racing \/ (pc = "exit" /\ epc = "wait" /\ chan # << >>)
             /\ process' = "crashed"
             /\ UNCHANGED <<args, pc, at, lcore, signalVars, mutex, live, chan,
                            epollVars, is_running, handlerVars>>

-----------------------------------------------------------------------------
\* Devices come and go while the driver is registered; the callbacks log.
Registered == pc \in {"launch", "wait", "decide", "shutdown"}
DriverUp == Logs("vhost") /\ Registered

\* Mutant of NewDevice: the write does not wait for room.
NewDeviceUnbounded(v) ==
   /\ DriverUp /\ v \notin live
   /\ live' = live \cup {v}
   /\ chan' = IF ClientSocket = "own"
              THEN Append(chan, [meta |-> "PORT_UP", vid |-> v]) ELSE chan
   /\ UNCHANGED <<args, process, pc, at, lcore, signalVars, mutex, epollVars, is_running,
                  handlerVars>>

NewDevice(v) == /\ DriverUp /\ v \notin live
                /\ live' = live \cup {v} /\ Notify("PORT_UP", v)
                /\ UNCHANGED <<args, process, pc, at, lcore, signalVars, mutex,
                               epollVars, is_running, handlerVars>>

DestroyDevice(v) == /\ DriverUp /\ v \in live
                    /\ live' = live \ {v} /\ Notify("PORT_DOWN", v)
                    /\ UNCHANGED <<args, process, pc, at, lcore, signalVars, mutex,
                                   epollVars, is_running, handlerVars>>

Guest == \E v \in Vids : NewDevice(v) \/ DestroyDevice(v)

-----------------------------------------------------------------------------
\* The threads that exist, and where they log: main nowhere while it waits.
Exists(t) == CASE t = "main" -> TRUE
               [] t = "lcore" -> lcore = "spin"
               [] t = "epoll" -> epc \notin {"none", "gone"}
               [] t = "worker" -> \E v \in Vids : handler[v] \in {"starting", "running"}
               [] t = "vhost" -> Registered \/ pc \in {"unregister", "destroy", "exit"}
               [] t = "flush" -> TRUE
MayLog(t) == CASE t = "main" -> /\ pc \notin {"launch", "exit", "dead"}
                               /\ pc = "wait" => lcore # "spin"
               [] t = "lcore" -> FALSE
               [] t = "epoll" -> epc \in {"PORT_UP", "PORT_DOWN"}
               [] t = "worker" -> Exists(t)
               [] t = "vhost" -> Registered
               [] t = "flush" -> TRUE

\* A thread is inside Logger::log, or that of the logger takes the buffer.
LogLock(t) == /\ Logs(t) /\ MayLog(t)
              /\ mutex' = t
              /\ UNCHANGED <<args, process, pc, at, lcore, signalVars, live, chan,
                             epollVars, is_running, handlerVars>>

LogUnlock(t) == /\ Runs(t) /\ mutex = t
                /\ mutex' = NoThread
                /\ UNCHANGED <<args, process, pc, at, lcore, signalVars, live, chan,
                               epollVars, is_running, handlerVars>>

\* A signal interrupts a thread, wherever it is.
Signal(t) == /\ Runs(t) /\ Exists(t) /\ signals < MaxSignals
             /\ signals' = signals + 1
             /\ frame' = [frame EXCEPT ![t] = "log"]
             /\ UNCHANGED <<args, process, pc, at, lcore, keep_running, ctrl_c_detected,
                            aborting, mutex, live, chan, epollVars, is_running, handlerVars>>

\* signal_handler: its message, which takes the mutex; the two flags, one after
\* the other; an abort goes on when it returns.
SignalLogs(t) == /\ process = "up" /\ frame[t] = "log" /\ mutex = NoThread
                 /\ frame' = [frame EXCEPT ![t] = "keep"]
                 /\ UNCHANGED <<args, process, pc, at, lcore, keep_running,
                                ctrl_c_detected, signals, aborting, mutex, live, chan,
                                epollVars, is_running, handlerVars>>

SignalKeeps(t) == /\ process = "up" /\ frame[t] = "keep"
                  /\ keep_running' = TRUE
                  /\ frame' = [frame EXCEPT ![t] = "ctrl"]
                  /\ UNCHANGED <<args, process, pc, at, lcore, ctrl_c_detected, signals,
                                 aborting, mutex, live, chan, epollVars, is_running, handlerVars>>

\* Mutant of SignalReturns: ctrl_c_detected is forgotten.
SignalReturnsOnly(t) ==
   /\ process = "up" /\ frame[t] = "ctrl"
   /\ frame' = [frame EXCEPT ![t] = "none"]
   /\ process' = IF aborting = t THEN "aborted" ELSE process
   /\ UNCHANGED <<args, pc, at, lcore, keep_running, ctrl_c_detected, signals, aborting,
                  mutex, live, chan, epollVars, is_running, handlerVars>>

SignalReturns(t) == /\ process = "up" /\ frame[t] = "ctrl"
                    /\ ctrl_c_detected' = TRUE
                    /\ frame' = [frame EXCEPT ![t] = "none"]
                    /\ process' = IF aborting = t THEN "aborted" ELSE process
                    /\ UNCHANGED <<args, pc, at, lcore, keep_running, signals, aborting,
                                   mutex, live, chan, epollVars, is_running, handlerVars>>

SignalHandler(t) == SignalLogs(t) \/ SignalKeeps(t) \/ SignalReturns(t)

Next == \/ Main \/ KeepAlive \/ EpollWorker \/ Handlers \/ RaceCrash \/ Guest
        \/ \E t \in Threads : LogLock(t) \/ LogUnlock(t) \/ Signal(t) \/ SignalHandler(t)

Spec == Init /\ [][Next]_vars

\* Every thread is scheduled, and whoever waits for the mutex gets it when it is
\* free again and again.  No signal, device or crash has to happen.
Fairness == /\ SF_vars(Main) /\ WF_vars(KeepAlive) /\ SF_vars(EpollWorker)
            /\ \A v \in Vids : WF_vars(WorkersBegin(v))
            /\ WF_vars(\E t \in Threads : LogUnlock(t))
            /\ SF_vars(\E t \in Threads : SignalHandler(t))

FairSpec == Spec /\ Fairness

-----------------------------------------------------------------------------
TypeOK ==
   /\ args \in Arguments
   /\ process \in {"up", "returned", "crashed", "aborted"}
   /\ pc \in {"config", "start", "eal", "driver", "launch", "wait", "decide", "shutdown",
              "unregister", "destroy", "exit", "dead"}
   /\ at \in 0..NofVids
   /\ lcore \in {"idle", "spin", "done"}
   /\ keep_running \in BOOLEAN /\ ctrl_c_detected \in BOOLEAN
   /\ signals \in 0..MaxSignals
   /\ frame \in [Threads -> {"none", "log", "keep", "ctrl"}]
   /\ aborting \in Threads \cup {NoThread} /\ mutex \in Threads \cup {NoThread}
   /\ live \subseteq Vids
   /\ chan \in Seq([meta : {"PORT_UP", "PORT_DOWN"}, vid : Vids]) /\ Len(chan) <= ChanCap
   /\ epc \in {"none", "wait", "PORT_UP", "PORT_DOWN", "gone"}
   /\ vid \in Vids \cup {0}
   /\ is_running \in BOOLEAN /\ raced \in BOOLEAN
   /\ handler \in [Vids -> {"none", "starting", "running", "down"}]
   /\ lost \subseteq {"main", "epoll"}

\* When main has returned no worker thread is left: whatever main has shut down
\* or skipped, the destructors stop every handler, unless the epoll worker, which
\* nobody waits for, has gone on in a controller that was being destroyed.
StoppedAtReturn == pc = "exit" /\ ~raced => \A v \in Vids : handler[v] = "none"

\* Main goes past the shutdown of the handlers after a signal only when it woke up
\* between the two assignments of a signal handler on another thread ("if
\* (ctrl_c_detected ..."), or never waited because there is no second lcore.
SkipsOnlyInWindow ==
   [][SkipShutdown => \/ \E t \in Threads \ {"main"} : frame[t] = "ctrl"
                      \/ args.lcores = 1]_vars

\* A signal handler that waits for the mutex of the logger on the thread that
\* holds it.
SelfDeadlock == \E t \in Threads : frame[t] = "log" /\ mutex = t

\* A shutdown that waits for workers which began after it told them to stop.
LostStop == \E t \in lost, v \in Vids : Stops(t, v) /\ handler[v] = "running"

\* "detect ctrl+c", "terminate from os": once a signal handler has set the flag, the
\* process ends, unless a signal has hit a thread inside the logger, or main or the
\* epoll worker has come to shut a handler down before its workers began, and neither
\* is ever resolved.
SignalEndsProcess ==
   <>keep_running => <>(process # "up") \/ <>[]SelfDeadlock \/ <>[]LostStop
=============================================================================
