# vtb: specification and proofs

vtb is a DPDK vhost-user test bench. QEMU guests (or a virtio-user program)
connect to a vhost socket; for every device vtb creates a *port* whose handler
loops the packets of each transmit queue back into the receive queue of the same
pair. This directory holds a TLA+ model of the program, TLC configurations that
check it on small instances, and TLAPS proofs that hold for every instance. All
paths below are relative to `src/src/` unless they say otherwise.

    tlc -workers 2 -config ports.cfg MCPorts      # one run
    tlapm PortsProof.tla                           # one module of proofs

## 1. Inventory

Threads of the running program: *main*, the *vhost thread* of DPDK (device
callbacks), the *epoll worker* of the port controller, the *worker threads* of
each port handler, the *flush thread* of the logger, and the lcore that waits for
Ctrl+C. Signal handlers run on any of them.

| component | state | operations | talks to |
|---|---|---|---|
| `CmdlineParser`, `ConfigManager::init` | arguments, found/value | `parse`, `get<>` | called by main, once |
| `ConfigManager` (device table) | `pmap_` by vid, `pvmap_`/`vpmap_` between port ids and vids, `stats_table_` | `init_vhost_device`, `set_queue_state`, `is_port_ready`, lookups, `print_final_report` | vhost thread writes, epoll worker and main read, workers count |
| `VhostController` | `port_cntr_`, the abstract socket | `on_new_device`, `on_destroy_device`, `on_vring_state_changed`, `notify_port_controller` | callbacks from DPDK; notifications to the port controller |
| `PortController(Loopback)` | `port_handler_` (port id, vid), `is_running_` | `epoll_worker`, `process_notification`, `add_handler`, `remove_handler`, `shutdown` | reads the socket; owns the handlers |
| `PortHandlerLoopback` | `is_running_`, `worker_threads_`, `mempools_`, `rings_` | `start`, `create_resources`, `dispatch`, `launch`, `worker`, `shutdown` | started and stopped by the epoll worker (and by main at the end) |
| packet path | a mempool and a ring per queue pair, two counters | `dequeue_tx_packets`, `enqueue_rx_packets` | one or two workers; DPDK vhost queues |
| `Logger` | `active_buffer_`, `running_`, the files | `log`, `flush_loop`, `rotate_logs`, destructor, `direct_append`, `emergency_flush` | every thread; the crash handler |
| main and signals (`vtb.cpp`) | `keep_running`, `ctrl_c_detected` | start-up, wait, report, shutdown, destructors; `signal_handler` | everything |
| helpers (`common.cpp`, log stream) | - | `create_controller`, sockets, `string_to_thread_mode`, `graceful_exit`; names, formatting | called by the above |
| traffic generator (`src/frontend`) | a mempool, the rings of its ports, `force_quit` | `send_burst`, `receive_burst`, `run` | a guest of vtb |
| `src/scripts` | - | start QEMU | - |

What is hard, and what makes each component correct:

* *Packet path.* Two threads share a single-producer/single-consumer ring and a
  mempool; a retry loop gives up in the middle of a burst; a drain loop empties
  the ring. Correct: every mbuf is returned once, order is kept, counters tell
  what happened, nobody waits for ever.
* *Port handler.* Threads are launched, told to stop through one flag, joined,
  and their memory is freed, by the epoll worker and, at the end, by main, without a
  lock. Correct: nothing is used after it is freed or freed twice, every queue has one
  server, shutdown ends.
* *Control plane.* Callbacks arrive in the order guests connect; notifications
  are read later by another thread; port ids are counted, vids are given. Correct:
  every ready device, and no other, has its own running handler; resources belong
  to one handler; the workers of a device that is gone are stopped.
* *Logger.* Buffer swap, rotation, the destructor and a crash may meet at any
  step. Correct: no message lost or doubled, crash reported, exit ends.
* *Final report.* Reads tables and counters others are writing. Correct: no
  device is missing, rows make sense, it ends.
* *main.* Signals interrupt any thread, also inside the logger; the epoll worker is
  detached and works on the handlers that main shuts down and destroys; start-up
  throws. Correct: the process ends when it is told to, and no worker outlives main.
* *Traffic generator.* The pool may run dry in the middle of a burst. Correct: every
  mbuf is freed once, and no null pointer is sent.
* *Command line.* Options and values are told apart token by token. Correct: what
  is accepted means what it says.

`PROJECT.json` lists these hazards line by line.

## 2. Modules

| module | models | correspondence |
|---|---|---|
| `LoopbackPath` | `dequeue_tx_packets` / `enqueue_rx_packets` of one queue pair | `TxDequeue`, `TxEmpty`, `TxPush` (one iteration of the push loop) and `RxDequeue`, `RxEmpty`, `RxSend` (one iteration of the send loop), `RxSendEnds`, `RxFree`, `RxDrain` (one pass of the drain loop). `turn` says whether one worker alternates between the queues or two work at once. DPDK's burst calls take any number of packets up to what they are offered |
| `LossyFifo` | abstract: what a looped queue pair promises | a line that accepts at its end and delivers or loses at its head |
| `PortHandlerLoopback` | one handler and its threads | epoll worker: `Start`, `Launch`, `DispatchDone`; it and main (`Callers`): `Shutdown`, `EnterLoop`, `Join`, `ClearThreads`, `Free`, `EmptyMaps`, interleaved with each other and with `Start`; worker: `WorkerBegins` (its first statement), `WorkerChecks` (loop condition), `WorkerServes` (one burst call). `Dispatch` and `QueueIds` are the pure functions that give threads their queues |
| `ConfigManager` | the device table | one operator per method on maps |
| `Ports` | vhost thread, socket, epoll worker, handler map | `NewDevice`, `DestroyDevice`, `VringStateChanged` are the callbacks; `Accept`, `ProcessUp`, `ProcessDown`, `ProcessHangs` (a shutdown inside a notification that never returns) the epoll worker. `chan` is the socket. Uses `ConfigManager` |
| `AsyncLogger` | logger and crash handler | `LogLock`/`LogAppend`; `FlushWhile`, `FlushWait`, `FlushSwap`, `FlushWrite`, `FlushRename`, `FlushReopen`, `FlushFile`, `FlushConsole`; `Stop`, `JoinFlusher`, `DrainFile`, `DrainConsole` (destructor); `Crash`, `CrashAppend`, `CrashTry`, `CrashFile`, `CrashStderr`, `CrashClear`, `CrashExit`: each write and each call on the file is a step |
| `FinalReport` | `print_final_report` against workers and new devices | `NewDevice`, which may overwrite a record; `Begin`, `NextVid`, `ReadRx`, `ReadTx`, `RowsEnd`, `End`; workers: `Push`, `CountTx`, `Deliver`, `CountRx`. Uses `ConfigManager` |
| `CmdlineParser` | `parse`, `get<bool>`, `ConfigManager::init` | `FindSeparator`, `TakeOption`, `Reject`, `Finish`, `Configure` |
| `Vtb` | main, signals, the epoll worker and the destructors | main: `Configure`, `StartController`, `StartBackend`, `LaunchKeepAlive`, `Report`, `DecideShutdown` / `SkipShutdown`, `ShutdownHandlers`, `Unregister` (`~VhostController`), `DestroyController`, `Exit`; `EpollRead`, `EpollUp`, `EpollDown`, `EpollLate`; `WorkersBegin` and `StopEarly` (a shutdown before it, which is lost); `Signal` and, in three steps, `signal_handler`: `SignalLogs`, `SignalKeeps`, `SignalReturns` |
| `Frontend` | the traffic generator of `src/frontend` | `SetupPort`, `While`, `Alloc`, `TxBurst`, `FreeUnsent`, `Receive`, `StopPort`; the driver and vtb are external |
| `MC...` | instances of the modules for TLC | values of constants only |
| `...Proof` | TLAPS proofs | section 5 |

Operators named "Mutant of X" are not part of a specification. Each is X with a
plausible mistake; with X replaced by it, TLC finds the property violated that
`PROJECT.json` names. They show that the properties can fail.

The modules meet at these seams: `Ports` takes a handler's start, and a shutdown that
returns, as one step, whose inside is `PortHandlerLoopback`; one that does not return
(`handler_shutdown`) is `ProcessHangs`. There a burst call is one step, whose
inside is `LoopbackPath` (of it the handler keeps what matters to a shutdown: which
calls may go on, and while who runs); `FinalReport` sees the workers of `LoopbackPath`
as their pushes, deliveries and counts. `Vtb` looks at the same control plane from the
outside: a device has one handler, which is starting until its workers have begun,
running, down or gone; a shutdown waits until the workers are out of a signal handler,
and for ever when it came before they began. Of the logger only the mutex is there, and
its thread, which may hold it. `Frontend` sees vtb as a line that loses packets,
which is what `LoopbackPath` is shown to be.

## 3. Runs

| run | question | result |
|---|---|---|
| `path` | Does a queue pair keep its mbufs, order and counters, in both thread arrangements, and implement `LossyFifo`? | yes |
| `path_lossless` | Is a packet that leaves the ring always offered to the guest, as the comment "Lossless enqueue to guest RX" says? | no: `RxDrain` frees what the other thread has just pushed |
| `handler` | Are memory, thread modes and shutdown right when the epoll worker and main shut the handler down in each other's way, also within start? | yes, but for workers that dispatch launches behind main's back (below) |
| `handler_shutdown` | Does every shutdown stop the threads? | no: a worker that starts late sets `is_running_` again (`port_handler_loopback.cpp:89`) |
| `ports` | With devices that come in vid order, and vrings that change at any time: do handlers and resources agree with the devices, do workers of a device that is gone end, is a device that stays ready served in the end unless the epoll worker hangs? | yes |
| `ports_lowest` | With devices in the order the vhost library uses: does a PORT_UP always start the handler it names? | no: after a device other than the newest has gone, the next gets the port id of a live one, and `port_controller_loopback.cpp:128` looks the handler up by port id |
| `logger` | No message lost, files in step with what goes to the console wherever a crash ends the process, exit ends, crash reported unless the crashed thread is logging? | yes |
| `logger_crash` | Is a crash reported even when the crashed thread owns the mutex, as the comment in `emergency_flush` says? | no: `direct_append` locks first |
| `report` | Is the report complete and plausible while the program works? | yes |
| `cmdline` | Does `parse` accept exactly the well-formed command lines and set the values they give? | yes |
| `vtb` | Is no worker thread left when main has returned, is the shutdown skipped only in the window between the two assignments of `signal_handler`, does a signal end the process unless it hits a thread inside the logger or a shutdown comes before the workers began? | yes |
| `frontend` | Is every mbuf accounted for, also when the pool is empty, and which pool is large enough never to send a null pointer? | yes |

### Bounds

* `path`: pool 4, ring 5, bursts of 2, 2 retries, 6 packets. Several bursts are in
  flight at once, a burst can be cut short anywhere by the retry limit, the pool
  runs dry, and the ring holds several bursts when the drain comes. The ring is
  larger than the pool, as in the code (131072 and 8191; `PoolFitsRing`).
* `handler`: up to 2 queue pairs, so up to 4 workers, all four modes, also a
  device that is not recorded (0 pairs); any number of shutdowns by the epoll worker and
  by main. Two pairs are the least at which workers share out pairs; the theorems hold
  for any number. `handler_shutdown` needs one pair.
* `ports`: 2 vids, devices of one or two pairs, a socket that holds 2
  notifications (a callback waits when it is full). Devices come and go without
  limit, so records of earlier devices, lagging notifications and restarted
  handlers all occur.
* `logger`: 2 threads, 4 messages, files of size 2: several rotations, each of which
  may leave the program without a log file.
* `vtb`: 2 devices, a socket that holds one notification while another is processed,
  one signal besides the SIGABRT of an exception; every mode, client or server, valid
  and invalid thread mode, a socket name that is free, taken or too long, one or two
  lcores. The theorems of `VtbProof` cover more devices and signals.
* `frontend`: 2 ports with 2 receive queues, rings and bursts of 2. The pools have 2
  mbufs (dry at once), 12 (what the rings hold) and 14 (a burst more, where
  `NeverSendsNull` begins to promise).
* `report`: 2 vids of one or two pairs, so that there may be a gap before a device and
  a record may be overwritten by a larger or a smaller one; 2 bursts on one pair at a
  time. The theorems hold for any number of vids and pairs.
* `cmdline`: every command line of up to 5 tokens over two arguments (one
  required, one with a default), three plain values, one that begins with a dash,
  and the separator. The program itself registers no required argument; the class
  supports them.

`MaxPkts`, `MaxMsgs`, `MaxBursts`, `MaxBusy`, `MaxTokens`, `MaxSignals`, `LineCap`,
`NofVids` and `ChanCap` are bounds of the model; the other constants are sizes of the code.

### What the runs assume

* `Order = "dense"` (`ports`, and the theorems that name it): the device that gets
  ready next has the lowest free vid and no lower vid is free, and after an unplug
  none appears before the rest is 0..k again. It is the condition under which port
  ids and vids coincide. `"lowest"`, where gaps are filled, is what the library does,
  `"any"` any order. With `"lowest"` port ids stop being unique: after devices 0 and 1
  came and 0 went, the next device gets port id 1, which device 1 still has
  (`vhost_controller.cpp:162` only decrements the counter), and its PORT_UP starts the
  handler of device 1. That is what `ports_lowest` shows. So what `ports` says holds as
  long as only the newest device is unplugged, or all are.
* Vrings of any vid may change at any time. A vring change that makes the old record of
  an absent device ready starts a handler for it; `revived` remembers such vids until
  the next device or its end, and `HandlersMatchDevices` excepts them.
* A callback, and the handling of a notification, is one step; `pmap_` is not read
  while it is written. A shutdown inside a notification may never return
  (`handler_shutdown` shows how): then the epoll worker is `hung`, and `EventuallyServed`
  promises nothing more. `Ports` does not tell when the workers of a handler begin, so
  any handler with workers may hang it. In `Vtb` a shutdown that comes before the workers
  have begun (`StopEarly`) never ends once they have (`LostStop`).
* main may shut a handler down while the epoll worker is inside `start` of it
  (`port_controller.cpp:5-19` takes no lock). The workers that dispatch launches after
  main has cleared the vector are in `late`: they serve queues whose mempools and rings
  are freed, and gone from the maps. `NoUseAfterFree` excepts these workers and no other,
  because the code does nothing to keep them from it; the outcome is then undefined
  (`Undefined`, `RaceCrash`: the process ends or goes on), and so it is while two
  shutdowns of one handler overlap. When `create_resources` runs between main's freeing
  and its clearing of the maps, main clears entries that it has not freed: the pools
  leak. `NothingDangles` speaks of the other direction, what is freed and still there.
* In `AsyncLogger` the accesses of `emergency_flush` without the mutex and of the
  destructor's drain, which takes no mutex, to `active_buffer_` and `file_` are data
  races. They are interleaved as whole operations, one per step; a torn string or
  stream buffer is not modelled.
* In `Vtb` what has no defined behaviour goes either way: when the epoll worker and main
  are in the handler map at once, or the worker is in a controller that is gone, the
  process crashes (`RaceCrash`) or goes on. A call of `rte_eal_remote_launch` with no
  second lcore has no effect.
* Relaxed atomics are read and updated in program order, as on x86 (`report`).

### Fairness

Threads are scheduled, nothing more: weak fairness of each worker, of the epoll
worker, of the flush thread, and of main within a call that it has begun. No device,
guest or caller has to do anything. A mutex that is free again and again is got in the
end by who waits for it (strong fairness of `FlushWait` and `CrashAppend`):
`std::mutex` does not promise it, but on Linux a futex waiter is not overtaken for
ever by threads that also do other work. For the same reason main, the epoll worker
and the signal handlers of `Vtb`, which all log, have strong fairness; `KeepAlive`,
`WorkersBegin` of each device and `LogUnlock` need no mutex and have weak fairness, and
no signal, device or crash has to happen. `ProcessHangs` and `StopEarly` need not happen
either: that a shutdown returns or not is the schedule's choice, and the liveness
properties allow for both. In `handler` a caller goes on with the `start` or `shutdown`
it has begun. The guest need not accept packets: the retry limit ends a send. `RxDrain`
ends in `path` because the number of packets is bounded there; in `handler` a drain
has no fairness while a transmit thread may feed its ring (`Fed`), and
`ShutdownReturns` holds because those threads stop by themselves.

`Frontend` states safety only and has no fairness.

`CHECK_DEADLOCK FALSE` stands where the system really stops: the process has ended
(`handler`, `handler_shutdown`, `logger`, `vtb`, `frontend`), or hangs on its own mutex
(`vtb`, `logger`) or on threads that do not stop (`vtb`), the report or the parser is done.

## 4. Findings

The four runs that expect a violation are those of section 3; `PROJECT.json` quotes
the comment or assertion that the code contradicts and says how. Observed while
modelling, without a run of their own:

* Port ids are not unique when a device other than the newest is replugged, and main's
  shutdown within a `start` leaves workers without their pools (both above).
* `-- --help` starts the program: without a value behind it the argument keeps the
  value "false" (`cmdline_parser.cpp:48`).
* `graceful_exit` logs "Shutting down gracefully...", but its `std::exit` is commented out
  (`common.cpp:179`): after an exception that nobody catches, `std::terminate` aborts, the
  SIGABRT handler logs "User Pressed Ctrl+C", and the process is aborted when it returns.
* `set_verbosity` says "Defaulting to INFO" for a level it does not know (`logger.cpp:171`)
  and leaves the level as it was, TRACE at start-up.

## 5. Proofs

All theorems are about the specifications that TLC runs, for every value of the
constants; assumptions are the `ASSUME`s of the modules (sizes are positive,
`PoolFitsRing`) and, where the statement says so, `Order = "dense"`.

* `LoopbackPathProof`: `TypeCorrect`, `Conservation` (mbufs), `NoBackpressure` (the
  ring never fills), `StatsCorrect`, `OneThreadDrainsNothing`. The inductive
  invariant adds to the stated ones what each phase knows (`Phases`: nothing is
  held while idle, `sent` lies within the burst) and that a single worker has at most
  one burst on its way (`OneBurst`), without which the drain could find packets.
  `NoBackpressure` follows from conservation and `PoolFitsRing`.
  The refinement is in the same module: the unsent part of the burst, the ring and the
  burst being pushed form the line. Each action is an `Accept`, `Deliver`, `Lose` or a
  stutter (`Refinement`, the safety part of `ImplementsLine`); delivered and waiting
  packets of the line are in sending order, without repetition (`Ordered`, about
  `LossyFifo`); hence `InOrderDelivery`.
* `PortHandlerLoopbackProof`: the lists that `Dispatch` makes contain every queue
  once (for any number of pairs, all modes), and threads, joins and resources stay
  in step between the two callers of shutdown: a worker in its loop that is not late is a
  thread that nobody has joined, it is in the vector, and its pools are there until
  somebody's loop has come past it. Gives `TypeCorrect`, `SafeFree`, `FreedOnce`,
  `SingleProducerSingleConsumer`, `Coverage`, and `DownIsIdle`: when the epoll worker's
  shutdown has returned no worker is left, late ones included, and the maps are empty,
  although main may have been there first and in the middle of `start`; which is why
  `Ports` and `Vtb` may take such a shutdown as one step. `StopIsFinal` is the safety part
  of `ShutdownReturns`: a shutdown that finds no thread before its first statement, and
  dispatch done, cannot be undone by one.
* `PortsProof`: `TypeCorrect` and `DeviceCount` in any order of devices; with dense
  order `NoResourceLost`, `SingleServer`, `RightHandlerStarted`, `StaleOnlyUntilDown`. The
  invariant `DenseInv` says that port ids equal vids everywhere: in the maps, in the
  notifications on their way and in the keys of the handlers (`PidsAreVids`), and
  that a handler has been started at most once (`StartedOnce`).
  `HandlersAgree` needs more: `AgreeInv` adds that the last notification about a device in
  the socket says what has come of it (`Announced`), and that its handler is in that
  state when none is left (`Brought`); so a device may lag, but what is on its way puts it
  right. It assumes dense order, devices of whole queue pairs, and that no two ports
  want the same name for a resource (`NamesAreUnique`; names are port id and queue id
  without a separator). `UniqueNames` proves that of ten ports, and of a thousand with
  devices of up to five pairs; `NamesClash` that it fails with twelve ports and a device
  of six pairs, which the program allows (`MAX_QUEUE_PAIRS` is 8).
* `VtbProof`: `TypeCorrect`; `AllStopped` from `StoppedSoFar` (the destructor has left no
  handler behind the one it has come to, and nobody but the epoll worker, which `raced`
  records, can bring one back); `SkipWindow` from `Window` (`keep_running` without
  `ctrl_c_detected` means that a signal handler is between the two assignments, and the
  lcore ends only after the first).
* `AsyncLoggerProof`: `TypeCorrect`, `MutexOwner`, `MessagesKept` (console, then what
  the flush thread holds, then the buffer: all messages, in order, but for one run of
  them on standard error), `FilesKept` (backup and file are what the console has or is
  about to get ends with: they grow by the same text, the file first, and a rotation
  only drops the front; at every step of a rotation, at which a crash on another thread
  may end the process). `ExitWritesAll` is what the comment "Final drain to ensure no
  logs are lost" promises, as long as no crash handler meddles. `CrashDecides` says of
  every instance what `logger` and `logger_crash` show on a small one: in the handler of
  a crash, the crashed thread owns the mutex for ever, and then never gets past
  `direct_append`, or never.
* `FinalReportProof`: `TypeCorrect`, `ReportComplete`, `ReportPlausible`. The loop has
  a record for every vid it has passed (`Walked`), so when it stops at the number of
  records there is no vid left (a cardinality argument), and for each vid it reads at
  least as many pairs as the vid has had throughout (`known`); and counters only grow, so
  a transmit counter read after the receive counter covers it.
* `FrontendProof`: `TypeCorrect`, `Conservation` (`MbufsAccounted`), `LargePoolIsSafe`
  (`NeverSendsNull`), for any number of ports and queues. The invariant adds that no ring
  keeps more than it has room for (`RingBounds`) and what the loop has in hand where
  (`Phases`). The mbufs of all ports are a sum, the recursive function `InRingsBelow`; that
  one step changes one term of it by as much as it changes the sum (`SumChanges`) would
  need induction, which the prover does not do by a schema: it is proved by contradiction
  at the least port where it fails (`LeastElement`, from the well-founded order of the
  naturals). `LargePoolIsSafe` then bounds the sum by what the rings can keep (`SumBound`).
* `CmdlineParserProof`: `TypeCorrect`, `AcceptsExactly`, `LastValueWins`, for any arguments
  and values and a command line of any length. The parser goes from left to right, the
  two properties speak of the command line as a whole; the invariant `Prefix` says what
  the part read so far means: the parser is at the beginning of an option or of a misplaced
  token (`AtToken`), what is behind it was well formed (`ReadWellFormed`), and each argument
  has the last value given there (`ReadValues`).

Only model-checked: everything temporal under fairness (`ShutdownReturns`,
`EventuallyServed`, `EventuallyWritten`, `ExitEnds`, `CrashReported`, `ReportEnds`,
`SignalEndsProcess`, the fairness of `LossyFifo`), because TLAPS does not reason about
liveness with `ENABLED`. Every invariant of a passing run, and `UpStartsItsHandler`, is a
theorem; `HandlersMatchDevices` and the others of `Ports` under the hypotheses named above.

## 6. Not modelled

* A signal on a thread that is inside `signal_handler` already; what the detached epoll
  worker does to the static objects after they are destroyed (messages logged after the
  last drain); a failing `socket`,
  `listen` or `epoll_create1`.
* The hex dump and all log texts; thread names; terminal echo; the level filter of the
  logger: a message that it drops is no message of the model, and no property tells a
  change of the level apart.
* A failed memory allocation; more than `MAX_QUEUE_PAIRS` queue pairs; the modes
  Back2Back and Emulator, which are not written in the code (`Vtb` has the null pointer
  that main gets for them).
* `pmap_` read while it is written: a data race on a `std::map`, of which nothing is
  promised.
* Logger: a rename that throws in `rotate_logs`; a torn write where the mutex is not
  taken (above); a signal other than the first crash.
* Code without a caller: `clear_device`, `clear_statistics`, `assign_port_by_vid`,
  `print_portmap`, `get_pmap`, `get_port_handler_by_port_id`, sockets in the file system; code
  that is commented out (`config_manager.cpp` from 436, `vtb.cpp` from 150, `logger.cpp`
  45-62 and from 177). `src/scripts` start QEMU.

## 7. Plan

Done, in this order: `LossyFifo`, `LoopbackPath`, `PortHandlerLoopback`, `ConfigManager`
and `Ports`, `AsyncLogger`, `FinalReport`, `CmdlineParser`, and their proofs; then `Ports`
with vrings that change at any time and the proof of `HandlersAgree`, `Vtb` with its
proofs, `Frontend`, drains that may go on (`Fed`), log files that cannot be opened with
the proof of `FilesKept`; then the proofs of `Frontend` and `CmdlineParser`, the names of
more than ten ports, and the safety parts of what the liveness properties say of a
shutdown and of a crash; then main's shutdown within `start`, crashes between the writes
of the logger, shutdowns that never return in `Ports` and `Vtb`, and records that are
overwritten under the report, with the proofs brought up to them.

Left:

1. The safety parts of `EventuallyServed` and `SignalEndsProcess`, as theorems.
2. What `ports` checks in the order `"lowest"`, where it still holds: for devices whose
   port id equals their vid.
