----------------------------- MODULE AsyncLogger -----------------------------
(***************************************************************************)
(* The logger.  Any thread appends messages to active_buffer_ under a      *)
(* mutex; the flush thread swaps the buffer out and writes it to the log   *)
(* file, which it rotates, and to the console.  The destructor stops the   *)
(* flush thread and writes what is left.  The handler of a crash signal    *)
(* runs on the thread that crashed, wherever it is: it appends the stack   *)
(* trace (direct_append), writes the buffer out (emergency_flush) and ends *)
(* the process; the other threads run on until then.                       *)
(*                                                                         *)
(* A message is its number in the order of the appends, and has size 1.    *)
(***************************************************************************)
EXTENDS Naturals, Sequences

CONSTANTS Producers,      \* the threads that log
          Flusher,        \* flush_thread_
          NoThread,
          MaxFileSize,    \* max_file_size_
          MaxMsgs         \* bound: messages logged in a behaviour

ASSUME LoggerAssumption ==
          /\ Flusher \notin Producers
          /\ NoThread \notin Producers \cup {Flusher}
          /\ MaxFileSize \in Nat /\ MaxMsgs \in Nat

Threads == Producers \cup {Flusher}

VARIABLES
   running,         \* running_
   mutex,           \* the thread that holds mutex_, or NoThread
   logged,          \* how many messages have been appended
   pc,              \* producers inside log: "idle" or "append"
   active_buffer,   \* active_buffer_
   fpc,             \* flush_loop: "while", "wait", "swap", "write", "rename",
                    \* "reopen", "file", "console" or "end"
   to_write,        \* to_write of flush_loop
   is_open,         \* file_.is_open()
   file_size,       \* current_file_size_
   file,            \* the log file, and the file it was last renamed to
   backup,
   section,         \* between the marks of emergency_flush in the log file
   console,         \* standard output
   stderr,          \* what emergency_flush wrote to standard error
   exit,            \* ~Logger: "no", "join", "drain", "console" or "gone"
   crashed,         \* the thread that runs the crash handler, or NoThread
   hpc,             \* the crash handler: "none", "append", "try", "file", "stderr",
                    \* "clear", "exit" or "gone"
   owns             \* emergency_flush has got the mutex

disk == <<is_open, file_size, file, backup>>
crash == <<crashed, hpc, owns, section, stderr>>
vars == <<running, mutex, logged, pc, active_buffer, fpc, to_write, disk, console,
          exit, crash>>

Init == /\ running = TRUE /\ mutex = NoThread /\ logged = 0
        /\ pc = [t \in Producers |-> "idle"] /\ active_buffer = << >>
        /\ fpc = "while" /\ to_write = << >>
        /\ is_open \in BOOLEAN /\ file_size = 0
        /\ file = << >> /\ backup = << >> /\ section = << >>
        /\ console = << >> /\ stderr = << >>
        /\ exit = "no" /\ crashed = NoThread /\ hpc = "none" /\ owns = FALSE

-----------------------------------------------------------------------------
\* The process is there, and thread t is not inside the handler of its crash.
Process == exit # "gone" /\ hpc # "gone"
Runs(t) == Process /\ t # crashed

\* Mutant of Lock: nobody waits for the mutex.
LockAnyway(t) == mutex' = t

Lock(t) == mutex = NoThread /\ mutex' = t
Unlock(t) == mutex' = NoThread

\* log, from the mutex on.
LogLock(t) == /\ Runs(t) /\ pc[t] = "idle" /\ logged < MaxMsgs
              /\ Lock(t)
              /\ pc' = [pc EXCEPT ![t] = "append"]
              /\ UNCHANGED <<running, logged, active_buffer, fpc, to_write, disk,
                             console, exit, crash>>

LogAppend(t) == /\ Runs(t) /\ pc[t] = "append"
                /\ logged' = logged + 1
                /\ active_buffer' = Append(active_buffer, logged')
                /\ Unlock(t)
                /\ pc' = [pc EXCEPT ![t] = "idle"]
                /\ UNCHANGED <<running, fpc, to_write, disk, console, exit, crash>>

-----------------------------------------------------------------------------
\* The flush thread, at the given place of flush_loop, goes on to the next one.
FlushStep(from, to) == /\ Runs(Flusher) /\ fpc = from /\ fpc' = to
                       /\ UNCHANGED <<running, logged, pc, exit, crash>>

\* Mutant of FlushWhile: running_ is not looked at.
FlushWhileTrue == /\ FlushStep("while", "wait")
                  /\ UNCHANGED <<mutex, active_buffer, to_write, disk, console>>

\* The condition of the loop.
FlushWhile == /\ FlushStep("while", IF running THEN "wait" ELSE "end")
              /\ UNCHANGED <<mutex, active_buffer, to_write, disk, console>>

\* The wait ends with the mutex held, after 100 ms with an empty buffer too.
FlushWait == /\ FlushStep("wait", "swap")
             /\ Lock(Flusher)
             /\ UNCHANGED <<active_buffer, to_write, disk, console>>

FlushSwap == /\ FlushStep("swap", "write")
             /\ to_write' = active_buffer /\ active_buffer' = << >>
             /\ Unlock(Flusher)
             /\ UNCHANGED <<disk, console>>

\* Outside the mutex: the file, if it is open, is closed when it would grow too large.
FlushWrite ==
   LET too_large == file_size + Len(to_write) > MaxFileSize
   IN  /\ FlushStep("write", CASE to_write = << >> -> "while"
                               [] to_write # << >> /\ ~is_open -> "console"
                               [] to_write # << >> /\ is_open ->
                                     IF too_large THEN "rename" ELSE "file")
       /\ is_open' = (is_open /\ fpc' # "rename")
       /\ UNCHANGED <<mutex, active_buffer, to_write, file_size, file, backup, console>>

\* Mutant of FlushRename: the file is copied and not moved.
FlushRenameCopies == /\ FlushStep("rename", "reopen")
                     /\ backup' = file
                     /\ UNCHANGED <<mutex, active_buffer, to_write, is_open, file_size,
                                    file, console>>

\* rotate_logs, after the close: the old backup is replaced.
FlushRename == /\ FlushStep("rename", "reopen")
               /\ backup' = file /\ file' = << >>
               /\ UNCHANGED <<mutex, active_buffer, to_write, is_open, file_size, console>>

\* The new file may fail to open.
FlushReopen == /\ FlushStep("reopen", "file")
               /\ is_open' \in BOOLEAN /\ file_size' = 0
               /\ UNCHANGED <<mutex, active_buffer, to_write, file, backup, console>>

Write(t) == file' = IF is_open THEN file \o t ELSE file

FlushFile == /\ FlushStep("file", "console")
             /\ Write(to_write) /\ file_size' = file_size + Len(to_write)
             /\ UNCHANGED <<mutex, active_buffer, to_write, is_open, backup, console>>

FlushConsole == /\ FlushStep("console", "while")
                /\ console' = console \o to_write /\ to_write' = << >>
                /\ UNCHANGED <<mutex, active_buffer, disk>>

Flush == \/ FlushWhile \/ FlushWait \/ FlushSwap \/ FlushWrite
         \/ FlushRename \/ FlushReopen \/ FlushFile \/ FlushConsole

-----------------------------------------------------------------------------
\* ~Logger goes on, on main.
ExitStep(from, to) == /\ Process /\ exit = from /\ exit' = to
                      /\ UNCHANGED <<mutex, logged, pc, active_buffer, fpc, to_write, crash>>

\* When main has returned.
Stop == ExitStep("no", "join") /\ running' = FALSE /\ UNCHANGED <<disk, console>>

\* Mutant of JoinFlusher: the flush thread is not waited for.
DetachFlusher == ExitStep("join", "drain") /\ UNCHANGED <<running, disk, console>>

JoinFlusher == /\ fpc = "end"
               /\ ExitStep("join", "drain") /\ UNCHANGED <<running, disk, console>>

\* Mutant of DrainFile: what is left in the buffer is forgotten.
DrainNothing == ExitStep("drain", "gone") /\ UNCHANGED <<running, disk, console>>

\* What is left in the buffer is written, without the mutex; then the process ends.
DrainFile == /\ ExitStep("drain", IF active_buffer = << >> THEN "gone" ELSE "console")
             /\ Write(active_buffer)
             /\ UNCHANGED <<running, is_open, file_size, backup, console>>

DrainConsole == /\ ExitStep("console", "gone")
                /\ console' = console \o active_buffer
                /\ UNCHANGED <<running, disk>>

-----------------------------------------------------------------------------
\* A crash signal, at any place of the code of thread t.
Crash(t) == /\ Process /\ crashed = NoThread
            /\ t = Flusher => fpc # "end"
            /\ crashed' = t /\ hpc' = "append"
            /\ UNCHANGED <<running, mutex, logged, pc, active_buffer, fpc, to_write,
                           disk, console, exit, owns, section, stderr>>

CrashStep(from, to) == /\ Process /\ hpc = from /\ hpc' = to
                       /\ UNCHANGED <<running, pc, fpc, to_write, disk, console, exit,
                                      crashed>>

\* direct_append of the stack trace waits for the mutex like any append.
CrashAppend == /\ mutex = NoThread
               /\ CrashStep("append", "try")
               /\ logged' = logged + 1
               /\ active_buffer' = Append(active_buffer, logged')
               /\ UNCHANGED <<mutex, owns, section, stderr>>

\* emergency_flush goes on with or without the mutex.
CrashTry == /\ CrashStep("try", "file")
            /\ owns' = (mutex = NoThread)
            /\ mutex' = IF owns' THEN crashed ELSE mutex
            /\ UNCHANGED <<logged, active_buffer, section, stderr>>

CrashUnlock == mutex' = IF owns THEN NoThread ELSE mutex

\* Mutant of CrashFile: the handler goes on only when there is something to write.
CrashFileSomething == /\ active_buffer # << >>
                      /\ CrashStep("file", "stderr")
                      /\ section' = IF is_open THEN active_buffer ELSE section
                      /\ UNCHANGED <<logged, mutex, active_buffer, owns, stderr>>

\* The file may be closed, within a rotation; nothing is written then.
CrashFile == /\ CrashStep("file", IF active_buffer = << >> THEN "exit" ELSE "stderr")
             /\ section' = IF is_open THEN active_buffer ELSE section
             /\ IF active_buffer = << >> THEN CrashUnlock ELSE UNCHANGED mutex
             /\ UNCHANGED <<logged, active_buffer, owns, stderr>>

CrashStderr == /\ CrashStep("stderr", "clear")
               /\ stderr' = active_buffer
               /\ UNCHANGED <<logged, mutex, active_buffer, owns, section>>

CrashClear == /\ CrashStep("clear", "exit")
              /\ active_buffer' = << >> /\ CrashUnlock
              /\ UNCHANGED <<logged, owns, section, stderr>>

\* _exit of the handler.
CrashExit == /\ CrashStep("exit", "gone")
             /\ UNCHANGED <<logged, mutex, active_buffer, owns, section, stderr>>

EmergencyFlush == CrashTry \/ CrashFile \/ CrashStderr \/ CrashClear \/ CrashExit

Next == \/ \E t \in Producers : LogLock(t) \/ LogAppend(t)
        \/ Flush
        \/ Stop \/ JoinFlusher \/ DrainFile \/ DrainConsole
        \/ \E t \in Threads : Crash(t)
        \/ CrashAppend \/ EmergencyFlush

Spec == Init /\ [][Next]_vars

\* All threads are scheduled; a producer need not log, but finishes what it has
\* begun, and nobody waits for the mutex for ever while it is free again and again.
Fairness == /\ \A t \in Producers : WF_vars(LogAppend(t))
            /\ WF_vars(Flush) /\ SF_vars(FlushWait)
            /\ WF_vars(JoinFlusher) /\ WF_vars(DrainFile) /\ WF_vars(DrainConsole)
            /\ SF_vars(CrashAppend) /\ WF_vars(EmergencyFlush)

FairSpec == Spec /\ Fairness

-----------------------------------------------------------------------------
TypeOK == /\ running \in BOOLEAN
          /\ mutex \in Threads \cup {NoThread}
          /\ logged \in 0..(MaxMsgs + 1)
          /\ pc \in [Producers -> {"idle", "append"}]
          /\ fpc \in {"while", "wait", "swap", "write", "rename", "reopen", "file",
                      "console", "end"}
          /\ active_buffer \in Seq(Nat) /\ to_write \in Seq(Nat)
          /\ is_open \in BOOLEAN /\ file_size \in Nat
          /\ file \in Seq(Nat) /\ backup \in Seq(Nat) /\ section \in Seq(Nat)
          /\ console \in Seq(Nat) /\ stderr \in Seq(Nat)
          /\ exit \in {"no", "join", "drain", "console", "gone"}
          /\ crashed \in Threads \cup {NoThread}
          /\ hpc \in {"none", "append", "try", "file", "stderr", "clear", "exit", "gone"}
          /\ owns \in BOOLEAN

\* The mutex is held by exactly the thread that is inside a critical section,
\* also while the handler of its own crash runs on it, or by the crash handler
\* whose emergency_flush has got it.
OwnerIsInside ==
   \A t \in Threads :
      mutex = t <=> \/ IF t = Flusher THEN fpc = "swap" ELSE pc[t] = "append"
                    \/ t = crashed /\ owns /\ hpc \in {"file", "stderr", "clear"}

\* What has been written out need not be written again.
Pending == IF exit = "gone" \/ hpc = "clear" THEN << >> ELSE active_buffer

\* Every message is in one place, and in order: on the console, swapped out by
\* the flush thread or in the buffer, but for a run of them that emergency_flush
\* wrote.  So the drain of the destructor loses none, and a crash at most what was
\* swapped out or logged after it.  Not so when emergency_flush went on without the
\* mutex, nor when the process ends while it and the drain have the same buffer:
\* that is written twice.
NothingLost ==
   (owns \/ hpc \in {"none", "append", "try"}) /\ ~(exit = "gone" /\ hpc = "clear") =>
      LET saved == Len(stderr)
      IN  \E before \in 0..(logged - saved) :
             /\ stderr = [i \in 1..saved |-> before + i]
             /\ console \o to_write \o Pending =
                   [i \in 1..(logged - saved) |-> IF i <= before THEN i ELSE i + saved]

\* What goes to the console, with what the file has got already.
Printed == console \o (IF fpc = "console" THEN to_write
                       ELSE IF exit = "console" THEN active_buffer ELSE << >>)

\* The rotated file and the log file hold the last of the messages for the console,
\* each once, as long as the log file can be opened: wherever a crash ends the
\* process, also within a rotation, whole files have been dropped, the oldest first.
\* (What emergency_flush writes stands between its marks.)  Once the destructor has
\* written to the file, messages logged after that are on the console alone, and
\* emergency_flush may take the buffer away from it.
FilesAreTail ==
   LET kept == backup \o file
       last == Len(Printed) - Len(kept)
       draining == exit \in {"console", "gone"}
   IN  /\ is_open \/ fpc \in {"rename", "reopen"}
       /\ draining => hpc \notin {"exit", "gone"}
       => \E from \in 0..last :
             /\ \A i \in 1..Len(kept) : kept[i] = Printed[from + i]
             /\ draining \/ from = last

\* A message is written in the end, in a process that does not crash.
EventuallyWritten ==
   \A i \in 1..MaxMsgs : logged >= i ~> (Len(console) >= i \/ crashed # NoThread)

\* ~Logger comes to its end: the flush thread sees running_ and is joined.
ExitEnds == exit = "join" ~> (exit = "gone" \/ crashed # NoThread)

\* The handler of a crash outside the critical sections of the logger comes to its
\* end, with or without the mutex.  (The report it appends is on stderr then, unless
\* the flush thread swapped it out first.)
CrashReported ==
   (hpc = "append" /\ mutex # crashed) ~> (hpc = "gone" \/ exit = "gone")

\* "the thread that crashed might already own it, so we proceed anyway to try and
\* save data" (emergency_flush): a crash is reported wherever it happens.
CrashAlwaysReported == hpc = "append" ~> (hpc = "gone" \/ exit = "gone")
=============================================================================
