-------------------------- MODULE AsyncLoggerProof --------------------------
(***************************************************************************)
(* Proofs about AsyncLogger, for any number of threads that log, any       *)
(* number of messages and files of any size.                               *)
(***************************************************************************)
EXTENDS AsyncLogger, SequenceTheorems, TLAPS

\* Thread t is inside a critical section of log or of flush_loop.
Inner(t) == IF t = Flusher THEN fpc = "swap" ELSE pc[t] = "append"

\* Where a message cannot be, and what the bound on the messages leaves.
Shape == /\ fpc \in {"while", "wait", "swap", "end"} => to_write = << >>
         /\ hpc \in {"none", "append", "try", "file", "stderr"} => stderr = << >>
         /\ crashed = NoThread => hpc = "none"
         /\ exit \in {"drain", "console", "gone"} => fpc = "end"
         /\ \A t \in Producers : pc[t] = "append" => logged < MaxMsgs
         /\ hpc \in {"none", "append"} => logged <= MaxMsgs
         /\ \A t \in Threads : t = crashed /\ hpc # "append" => ~Inner(t)

\* The mutex and the program counters.
Inside == TypeOK /\ OwnerIsInside /\ Shape

IndInv == Inside /\ NothingLost

-----------------------------------------------------------------------------
\* A run of s numbers after the first b, and 1..n without that run.
Run(b, s) == [i \in 1..s |-> b + i]
Without(n, b, s) == [i \in 1..(n - s) |-> IF i <= b THEN i ELSE i + s]

LEMMA OneMore ==
   ASSUME NEW n \in Nat, NEW s \in 0..n, NEW b \in 0..(n - s)
   PROVE  Append(Without(n, b, s), n + 1) = Without(n + 1, b, s)
<1>1. Without(n, b, s) \in Seq(Nat) /\ Len(Without(n, b, s)) = n - s
   BY DEF Without
<1>2. Without(n + 1, b, s) \in Seq(Nat) /\ Len(Without(n + 1, b, s)) = n + 1 - s
   BY DEF Without
<1>3. \A i \in 1..(n - s) : Without(n, b, s)[i] = Without(n + 1, b, s)[i]
   BY DEF Without
<1>4. Without(n + 1, b, s)[n + 1 - s] = n + 1
   BY DEF Without
<1>5. /\ n - s \in Nat /\ n + 1 \in Nat /\ n - s + 1 = n + 1 - s
      /\ 1..(n + 1 - s) = (1..(n - s)) \cup {n - s + 1}
   OBVIOUS
<1> HIDE DEF Without
<1>6. Append(Without(n, b, s), n + 1) \in Seq(Nat) /\ Len(Append(Without(n, b, s), n + 1)) = n + 1 - s
   BY <1>1, <1>5, AppendProperties
<1>7. \A i \in 1..(n + 1 - s) : Append(Without(n, b, s), n + 1)[i] = Without(n + 1, b, s)[i]
   <2> SUFFICES ASSUME NEW i \in 1..(n + 1 - s)
                PROVE  Append(Without(n, b, s), n + 1)[i] = Without(n + 1, b, s)[i]
      OBVIOUS
   <2>1. CASE i \in 1..(n - s)
      BY <1>1, <1>3, <1>5, <2>1, AppendProperties
   <2>2. CASE i = n - s + 1
      BY <1>1, <1>4, <1>5, <2>2, AppendProperties
   <2> QED BY <1>5, <2>1, <2>2
<1> QED BY <1>2, <1>6, <1>7, SeqEqual

\* A line of all the numbers, cut in two.
LEMMA Cut ==
   ASSUME NEW n \in Nat, NEW b \in Nat, NEW c \in Seq(Nat), NEW a \in Seq(Nat),
          c \o a = Without(n, b, 0)
   PROVE  /\ Len(c) \in 0..(n - Len(a)) /\ a = Run(Len(c), Len(a))
          /\ c = Without(n, Len(c), Len(a))
<1>1. /\ Len(c) \in Nat /\ Len(a) \in Nat /\ c \o a \in Seq(Nat)
      /\ Len(c \o a) = Len(c) + Len(a)
   BY ConcatProperties, LenProperties
<1>2. Len(Without(n, b, 0)) = n /\ \A i \in 1..n : Without(n, b, 0)[i] = i
   BY DEF Without
<1>3. Len(c) + Len(a) = n
   BY <1>1, <1>2
<1>4. \A i \in 1..Len(c) : c[i] = i
   <2> SUFFICES ASSUME NEW i \in 1..Len(c) PROVE c[i] = i
      OBVIOUS
   <2>1. i \in 1..n /\ (c \o a)[i] = c[i]
      BY <1>1, <1>3
   <2> QED BY <1>2, <2>1
<1>5. \A i \in 1..Len(a) : a[i] = Len(c) + i
   <2> SUFFICES ASSUME NEW i \in 1..Len(a) PROVE a[i] = Len(c) + i
      OBVIOUS
   <2>1. Len(c) + i \in 1..n /\ (c \o a)[Len(c) + i] = a[i]
      BY <1>1, <1>3
   <2> QED BY <1>2, <2>1
<1>6. Run(Len(c), Len(a)) = a
   <2>1. /\ Run(Len(c), Len(a)) \in Seq(Nat) /\ Len(Run(Len(c), Len(a))) = Len(a)
         /\ \A i \in 1..Len(a) : Run(Len(c), Len(a))[i] = Len(c) + i
      BY <1>1 DEF Run
   <2> HIDE DEF Run
   <2> QED BY <1>5, <2>1, SeqEqual
<1>7. Without(n, Len(c), Len(a)) = c
   <2>1. /\ Without(n, Len(c), Len(a)) \in Seq(Nat)
         /\ Len(Without(n, Len(c), Len(a))) = Len(c)
         /\ \A i \in 1..Len(c) : Without(n, Len(c), Len(a))[i] = i
      BY <1>1, <1>3 DEF Without
   <2> HIDE DEF Without
   <2> QED BY <1>4, <2>1, SeqEqual
<1> QED BY <1>1, <1>3, <1>6, <1>7

\* An append to the last part of a line is an append to the line.
LEMMA AppendToTail ==
   ASSUME NEW s \in Seq(Nat), NEW b \in Seq(Nat), NEW x \in Nat
   PROVE  s \o Append(b, x) = Append(s \o b, x)
<1>1. s \o Append(b, x) \in Seq(Nat) /\ Append(s \o b, x) \in Seq(Nat)
   OBVIOUS
<1>2. Len(s \o Append(b, x)) = Len(Append(s \o b, x))
   OBVIOUS
<1>3. \A i \in 1..Len(s \o Append(b, x)) : (s \o Append(b, x))[i] = Append(s \o b, x)[i]
   OBVIOUS
<1> QED BY <1>1, <1>2, <1>3, SeqEqual

LEMMA Assoc ==
   ASSUME NEW s \in Seq(Nat), NEW t \in Seq(Nat), NEW u \in Seq(Nat)
   PROVE  (s \o t) \o u = s \o (t \o u)
BY ConcatAssociative

LEMMA NoTail ==
   ASSUME NEW s \in Seq(Nat)
   PROVE  s \o << >> = s /\ << >> \o s = s /\ << >> \in Seq(Nat)
BY ConcatEmptySeq

-----------------------------------------------------------------------------
LEMMA InitInv == Init => IndInv
<1> SUFFICES ASSUME Init PROVE IndInv
   OBVIOUS
<1>1. << >> \in Seq(Nat)
   BY EmptySeq
<1>2. TypeOK
   <2>1. 0 \in 0..(MaxMsgs + 1) /\ 0 \in Nat
      BY LoggerAssumption
   <2>2. pc \in [Producers -> {"idle", "append"}]
      BY DEF Init
   <2> QED BY <1>1, <2>1, <2>2 DEF Init, TypeOK
<1>3. OwnerIsInside
   BY LoggerAssumption DEF Init, OwnerIsInside, Threads
<1>4. Shape
   BY LoggerAssumption DEF Init, Shape, Threads
<1>5. NothingLost
   <2>1. << >> = [i \in 1..0 |-> 0 + i] /\ << >> = [i \in 1..(0 - 0) |-> IF i <= 0 THEN i ELSE i + 0]
      OBVIOUS
   <2>2. console \o to_write \o Pending = << >> /\ Len(stderr) = 0 /\ stderr = << >> /\ logged = 0
      BY <1>1, NoTail DEF Init, Pending
   <2>3. 0 \in 0..(logged - Len(stderr))
      BY <2>2
   <2> QED BY <2>1, <2>2, <2>3 DEF NothingLost
<1> QED BY <1>2, <1>3, <1>4, <1>5 DEF IndInv, Inside

\* A step of a thread that logs.
LEMMA LogInside ==
   ASSUME Inside, NEW t \in Producers, LogLock(t) \/ LogAppend(t)
   PROVE  Inside'
<1>1. CASE LogLock(t)
   <2>1. TypeOK'
      BY <1>1 DEF Inside, TypeOK, LogLock, Lock, Threads, disk, crash
   <2>2. OwnerIsInside'
      BY <1>1, LoggerAssumption DEF Inside, TypeOK, OwnerIsInside, LogLock, Lock, Threads, crash
   <2>3. Shape'
      BY <1>1, LoggerAssumption DEF Inside, TypeOK, Shape, Inner, LogLock, Lock, Runs, Threads, crash
   <2> QED BY <2>1, <2>2, <2>3 DEF Inside
<1>2. CASE LogAppend(t)
   <2>1. mutex = t /\ t # Flusher /\ t # NoThread /\ t # crashed
      BY <1>2, LoggerAssumption DEF Inside, OwnerIsInside, LogAppend, Runs, Threads
   <2>2. logged < MaxMsgs /\ logged \in Nat /\ MaxMsgs \in Nat
      BY <1>2, LoggerAssumption DEF Inside, TypeOK, Shape, Inner, LogAppend
   <2>3. Append(active_buffer, logged + 1) \in Seq(Nat)
      BY <2>2, AppendProperties DEF Inside, TypeOK
   <2>4. TypeOK'
      BY <1>2, <2>2, <2>3 DEF Inside, TypeOK, LogAppend, Unlock, disk, crash
   <2>5. OwnerIsInside'
      BY <1>2, <2>1, LoggerAssumption
      DEF Inside, TypeOK, OwnerIsInside, LogAppend, Unlock, Threads, crash
   <2>6. \A p \in Producers : pc'[p] # "append"
      BY <1>2, <2>1, LoggerAssumption DEF Inside, TypeOK, OwnerIsInside, LogAppend, Threads
   <2>7. Shape'
      BY <1>2, <2>2, <2>6 DEF Inside, TypeOK, Shape, Inner, LogAppend, crash
   <2> QED BY <2>4, <2>5, <2>7 DEF Inside
<1> QED BY <1>1, <1>2

\* A step of the flush thread.
LEMMA FlushInside ==
   ASSUME Inside, Flush
   PROVE  Inside'
<1>1. /\ Flusher \in Threads /\ Flusher # NoThread /\ Flusher \notin Producers
   BY LoggerAssumption DEF Threads
<1>2. CASE FlushWhile
   <2>1. TypeOK'
      BY <1>2 DEF Inside, TypeOK, FlushWhile, FlushStep, disk, crash
   <2>2. OwnerIsInside'
      BY <1>1, <1>2, LoggerAssumption
      DEF Inside, TypeOK, OwnerIsInside, FlushWhile, FlushStep, Runs, Threads, crash
   <2>3. Shape'
      BY <1>2 DEF Inside, TypeOK, Shape, Inner, FlushWhile, FlushStep, crash
   <2> QED BY <2>1, <2>2, <2>3 DEF Inside
<1>3. CASE FlushWait
   <2>1. TypeOK'
      BY <1>3, <1>1 DEF Inside, TypeOK, FlushWait, FlushStep, Lock, disk, crash
   <2>2. OwnerIsInside'
      BY <1>1, <1>3, LoggerAssumption
      DEF Inside, TypeOK, OwnerIsInside, FlushWait, FlushStep, Lock, Runs, Threads, crash
   <2>3. Shape'
      BY <1>3 DEF Inside, TypeOK, Shape, Inner, FlushWait, FlushStep, Lock, Runs, crash
   <2> QED BY <2>1, <2>2, <2>3 DEF Inside
<1>4. CASE FlushSwap
   <2>1. TypeOK'
      BY <1>4, EmptySeq DEF Inside, TypeOK, FlushSwap, FlushStep, Unlock, disk, crash
   <2>2. OwnerIsInside'
      BY <1>1, <1>4, LoggerAssumption
      DEF Inside, TypeOK, OwnerIsInside, FlushSwap, FlushStep, Unlock, Runs, Threads, crash
   <2>3. Shape'
      BY <1>4 DEF Inside, TypeOK, Shape, Inner, FlushSwap, FlushStep, Unlock, crash
   <2> QED BY <2>1, <2>2, <2>3 DEF Inside
<1>5. CASE FlushWrite
   <2>1. TypeOK'
      BY <1>5 DEF Inside, TypeOK, FlushWrite, FlushStep, disk, crash
   <2>2. OwnerIsInside'
      BY <1>1, <1>5, LoggerAssumption
      DEF Inside, TypeOK, OwnerIsInside, FlushWrite, FlushStep, Runs, Threads, crash
   <2>3. Shape'
      BY <1>5 DEF Inside, TypeOK, Shape, Inner, FlushWrite, FlushStep, crash
   <2> QED BY <2>1, <2>2, <2>3 DEF Inside
<1>6. CASE FlushRename
   <2>1. TypeOK'
      BY <1>6, EmptySeq DEF Inside, TypeOK, FlushRename, FlushStep, disk, crash
   <2>2. OwnerIsInside'
      BY <1>1, <1>6, LoggerAssumption
      DEF Inside, TypeOK, OwnerIsInside, FlushRename, FlushStep, Runs, Threads, crash
   <2>3. Shape'
      BY <1>6 DEF Inside, TypeOK, Shape, Inner, FlushRename, FlushStep, crash
   <2> QED BY <2>1, <2>2, <2>3 DEF Inside
<1>7. CASE FlushReopen
   <2>1. TypeOK'
      BY <1>7 DEF Inside, TypeOK, FlushReopen, FlushStep, disk, crash
   <2>2. OwnerIsInside'
      BY <1>1, <1>7, LoggerAssumption
      DEF Inside, TypeOK, OwnerIsInside, FlushReopen, FlushStep, Runs, Threads, crash
   <2>3. Shape'
      BY <1>7 DEF Inside, TypeOK, Shape, Inner, FlushReopen, FlushStep, crash
   <2> QED BY <2>1, <2>2, <2>3 DEF Inside
<1>8. CASE FlushFile
   <2>0. file \o to_write \in Seq(Nat) /\ console \o to_write \in Seq(Nat) /\ Len(to_write) \in Nat
      BY ConcatProperties, LenProperties DEF Inside, TypeOK
   <2>1. TypeOK'
      BY <1>8, <2>0, EmptySeq DEF Inside, TypeOK, FlushFile, FlushStep, Write, disk, crash
   <2>2. OwnerIsInside'
      BY <1>1, <1>8, LoggerAssumption
      DEF Inside, TypeOK, OwnerIsInside, FlushFile, FlushStep, Write, Runs, Threads, crash
   <2>3. Shape'
      BY <1>8 DEF Inside, TypeOK, Shape, Inner, FlushFile, FlushStep, Write, crash
   <2> QED BY <2>1, <2>2, <2>3 DEF Inside
<1>9. CASE FlushConsole
   <2>0. file \o to_write \in Seq(Nat) /\ console \o to_write \in Seq(Nat) /\ Len(to_write) \in Nat
      BY ConcatProperties, LenProperties DEF Inside, TypeOK
   <2>1. TypeOK'
      BY <1>9, <2>0, EmptySeq DEF Inside, TypeOK, FlushConsole, FlushStep, disk, crash
   <2>2. OwnerIsInside'
      BY <1>1, <1>9, LoggerAssumption
      DEF Inside, TypeOK, OwnerIsInside, FlushConsole, FlushStep, Runs, Threads, crash
   <2>3. Shape'
      BY <1>9 DEF Inside, TypeOK, Shape, Inner, FlushConsole, FlushStep, crash
   <2> QED BY <2>1, <2>2, <2>3 DEF Inside
<1> QED BY <1>2, <1>3, <1>4, <1>5, <1>6, <1>7, <1>8, <1>9 DEF Flush

\* A step of the destructor.
LEMMA ExitInside ==
   ASSUME Inside, Stop \/ JoinFlusher \/ DrainFile \/ DrainConsole
   PROVE  Inside'
<1>1. file \o active_buffer \in Seq(Nat) /\ console \o active_buffer \in Seq(Nat)
   BY ConcatProperties DEF Inside, TypeOK
<1>2. CASE Stop
   BY <1>2 DEF Inside, TypeOK, OwnerIsInside, Shape, Inner, Stop, ExitStep, disk, crash
<1>3. CASE JoinFlusher
   BY <1>3 DEF Inside, TypeOK, OwnerIsInside, Shape, Inner, JoinFlusher, ExitStep, disk, crash
<1>4. CASE DrainFile
   <2>1. TypeOK'
      BY <1>1, <1>4 DEF Inside, TypeOK, DrainFile, ExitStep, Write, crash
   <2>2. OwnerIsInside' /\ Shape'
      BY <1>4 DEF Inside, OwnerIsInside, Shape, Inner, DrainFile, ExitStep, crash
   <2> QED BY <2>1, <2>2 DEF Inside
<1>5. CASE DrainConsole
   <2>1. TypeOK'
      BY <1>1, <1>5 DEF Inside, TypeOK, DrainConsole, ExitStep, disk, crash
   <2>2. OwnerIsInside' /\ Shape'
      BY <1>5 DEF Inside, OwnerIsInside, Shape, Inner, DrainConsole, ExitStep, crash
   <2> QED BY <2>1, <2>2 DEF Inside
<1> QED BY <1>2, <1>3, <1>4, <1>5

\* A crash and its handler.
LEMMA CrashInside ==
   ASSUME Inside, (\E t \in Threads : Crash(t)) \/ CrashAppend \/ EmergencyFlush
   PROVE  Inside'
<1>0. NoThread \notin Threads /\ Threads = Producers \cup {Flusher} /\ Flusher \notin Producers
   BY LoggerAssumption DEF Threads
<1>1. ASSUME NEW t \in Threads, Crash(t)
      PROVE  Inside'
   <2>1. TypeOK'
      BY <1>1 DEF Inside, TypeOK, Crash, disk
   <2>2. hpc = "none" /\ hpc' = "append"
      BY <1>1 DEF Inside, Shape, Inner, Crash
   <2>3. OwnerIsInside'
      BY <1>1, <2>2 DEF Inside, OwnerIsInside, Crash
   <2>4. Shape'
      BY <1>0, <1>1, <2>2 DEF Inside, Shape, Inner, Crash
   <2> QED BY <2>1, <2>3, <2>4 DEF Inside
<1>2. CASE CrashAppend
   <2>1. logged <= MaxMsgs /\ logged \in Nat /\ MaxMsgs \in Nat
      BY <1>2, LoggerAssumption DEF Inside, TypeOK, Shape, Inner, CrashAppend, CrashStep
   <2>2. Append(active_buffer, logged + 1) \in Seq(Nat)
      BY <2>1, AppendProperties DEF Inside, TypeOK
   <2>3. TypeOK'
      BY <1>2, <2>1, <2>2 DEF Inside, TypeOK, CrashAppend, CrashStep, disk
   <2>4. OwnerIsInside'
      BY <1>2 DEF Inside, OwnerIsInside, CrashAppend, CrashStep
   <2>5. \A p \in Producers : pc'[p] # "append"
      <3>1. mutex = NoThread /\ pc' = pc
         BY <1>2 DEF CrashAppend, CrashStep
      <3> QED BY <1>0, <3>1 DEF Inside, OwnerIsInside
   <2>6. Shape'
      <3>1. mutex = NoThread /\ pc' = pc /\ fpc' = fpc
         BY <1>2 DEF CrashAppend, CrashStep
      <3>2. \A t \in Threads : ~Inner(t)
         BY <1>0, <3>1 DEF Inside, OwnerIsInside, Inner
      <3>3. \A t \in Threads : ~Inner(t)'
         BY <3>1, <3>2 DEF Inner
      <3> QED BY <1>2, <2>5, <3>3 DEF Inside, Shape, CrashAppend, CrashStep
   <2> QED BY <2>3, <2>4, <2>6 DEF Inside
<1>3. CASE CrashTry
   <2>1. crashed \in Threads
      BY <1>3 DEF Inside, TypeOK, Shape, Inner, CrashTry, CrashStep
   <2>2. TypeOK'
      BY <1>3, <2>1 DEF Inside, TypeOK, CrashTry, CrashStep, disk
   <2>3. OwnerIsInside'
      BY <1>0, <1>3, <2>1 DEF Inside, OwnerIsInside, CrashTry, CrashStep
   <2>4. Shape'
      BY <1>3 DEF Inside, Shape, Inner, CrashTry, CrashStep
   <2> QED BY <2>2, <2>3, <2>4 DEF Inside
<1>4. CASE CrashFile
   <2>1. crashed \in Threads
      BY <1>4 DEF Inside, TypeOK, Shape, Inner, CrashFile, CrashStep
   <2>2. TypeOK'
      BY <1>4 DEF Inside, TypeOK, CrashFile, CrashStep, CrashUnlock, disk
   <2>3. OwnerIsInside'
      <3>1. UNCHANGED <<pc, fpc, crashed, owns>> /\ ~Inner(crashed)
         BY <1>4, <2>1 DEF Inside, Shape, Inner, CrashFile, CrashStep
      <3>2. CASE owns
         <4>1. mutex = crashed
            BY <1>4, <2>1, <3>2 DEF Inside, OwnerIsInside, CrashFile, CrashStep
         <4> QED BY <1>0, <1>4, <2>1, <3>1, <3>2, <4>1
             DEF Inside, OwnerIsInside, CrashFile, CrashStep, CrashUnlock, Inner
      <3>3. CASE ~owns
         BY <1>4, <3>1, <3>3 DEF Inside, OwnerIsInside, CrashFile, CrashStep, CrashUnlock
      <3> QED BY <3>2, <3>3
   <2>4. Shape'
      BY <1>4 DEF Inside, Shape, Inner, CrashFile, CrashStep
   <2> QED BY <2>2, <2>3, <2>4 DEF Inside
<1>5. CASE CrashStderr
   BY <1>5 DEF Inside, TypeOK, OwnerIsInside, Shape, Inner, CrashStderr, CrashStep, disk
<1>6. CASE CrashClear
   <2>1. crashed \in Threads
      BY <1>6 DEF Inside, TypeOK, Shape, Inner, CrashClear, CrashStep
   <2>2. TypeOK'
      BY <1>6, EmptySeq DEF Inside, TypeOK, CrashClear, CrashStep, CrashUnlock, disk
   <2>3. OwnerIsInside'
      <3>1. UNCHANGED <<pc, fpc, crashed, owns>> /\ ~Inner(crashed)
         BY <1>6, <2>1 DEF Inside, Shape, Inner, CrashClear, CrashStep
      <3>2. CASE owns
         <4>1. mutex = crashed
            BY <1>6, <2>1, <3>2 DEF Inside, OwnerIsInside, CrashClear, CrashStep
         <4> QED BY <1>0, <1>6, <2>1, <3>1, <3>2, <4>1
             DEF Inside, OwnerIsInside, CrashClear, CrashStep, CrashUnlock, Inner
      <3>3. CASE ~owns
         BY <1>6, <3>1, <3>3 DEF Inside, OwnerIsInside, CrashClear, CrashStep, CrashUnlock
      <3> QED BY <3>2, <3>3
   <2>4. Shape'
      BY <1>6 DEF Inside, Shape, Inner, CrashClear, CrashStep
   <2> QED BY <2>2, <2>3, <2>4 DEF Inside
<1>7. CASE CrashExit
   BY <1>7 DEF Inside, TypeOK, OwnerIsInside, Shape, Inner, CrashExit, CrashStep, disk
<1> QED BY <1>1, <1>2, <1>3, <1>4, <1>5, <1>6, <1>7 DEF EmergencyFlush

LEMMA StepInside ==
   ASSUME Inside, [Next]_vars
   PROVE  Inside'
<1>1. CASE UNCHANGED vars
   BY <1>1 DEF vars, disk, crash, Inside, TypeOK, OwnerIsInside, Shape, Inner
<1>2. CASE Next
   BY <1>2, LogInside, FlushInside, ExitInside, CrashInside DEF Next
<1> QED BY <1>1, <1>2

-----------------------------------------------------------------------------
\* NothingLost speaks of a state; the line of messages and the part cut out of it.
Claim == (owns \/ hpc \in {"none", "append", "try"}) /\ ~(exit = "gone" /\ hpc = "clear")
Line == (console \o to_write) \o Pending
Whole(line, out, n) ==
   \E b \in 0..(n - Len(out)) : out = Run(b, Len(out)) /\ line = Without(n, b, Len(out))

LEMMA LostMeans == NothingLost <=> (Claim => Whole(Line, stderr, logged))
BY DEF NothingLost, Claim, Line, Whole, Run, Without

\* Whoever appends or swaps the buffer is not in the way of an emergency_flush that
\* has got the mutex.
LEMMA Undisturbed ==
   ASSUME Inside, NEW t \in Threads, t # crashed, Inner(t), owns
   PROVE  hpc \notin {"file", "stderr", "clear"}
<1>1. mutex = t
   BY DEF Inside, OwnerIsInside, Inner
<1>2. ASSUME hpc \in {"file", "stderr", "clear"} PROVE FALSE
   <2>1. crashed \in Threads
      BY <1>2 DEF Inside, TypeOK, Shape
   <2>2. mutex = crashed
      BY <1>2, <2>1 DEF Inside, OwnerIsInside
   <2> QED BY <1>1, <2>2
<1> QED BY <1>2

\* The line of messages after a step that changes one of its parts.
LEMMA StepNothingLost ==
   ASSUME IndInv, [Next]_vars
   PROVE  NothingLost'
<1>0. SUFFICES ASSUME Claim' PROVE Whole(Line', stderr', logged')
   BY DEF NothingLost, Claim, Line, Whole, Run, Without
<1>1. /\ console \in Seq(Nat) /\ to_write \in Seq(Nat) /\ stderr \in Seq(Nat)
      /\ active_buffer \in Seq(Nat) /\ << >> \in Seq(Nat) /\ logged \in Nat
      /\ Len(stderr) \in Nat
   BY EmptySeq, LenProperties, LoggerAssumption DEF IndInv, Inside, TypeOK
<1>2. /\ console \o to_write \in Seq(Nat)
      /\ console \o active_buffer \in Seq(Nat)
      /\ (console \o to_write) \o active_buffer \in Seq(Nat)
   BY <1>1, ConcatProperties
<1>3. Claim => Whole(Line, stderr, logged)
   BY LostMeans DEF IndInv
\* Nothing moves.
<1>4. ASSUME Claim, Line' = Line, UNCHANGED <<stderr, logged>>
      PROVE  Whole(Line', stderr', logged')
   BY <1>3, <1>4
\* Who appends finds the process there, and the buffer not just printed.
<1>5. ASSUME Claim, active_buffer' = Append(active_buffer, logged + 1), logged' = logged + 1,
             UNCHANGED <<console, to_write, stderr, exit>>, exit # "gone",
             hpc # "clear", hpc' # "clear"
      PROVE  Whole(Line', stderr', logged')
   <2>1. Line = (console \o to_write) \o active_buffer
      BY <1>5 DEF Line, Pending
   <2>2. Line' = (console \o to_write) \o Append(active_buffer, logged + 1)
      BY <1>5 DEF Line, Pending
   <2>3. Line' = Append(Line, logged + 1)
      <3> DEFINE c == console \o to_write
      <3>1. c \in Seq(Nat) /\ active_buffer \in Seq(Nat) /\ logged + 1 \in Nat
         BY <1>1, <1>2
      <3> HIDE DEF c
      <3>2. c \o Append(active_buffer, logged + 1) = Append(c \o active_buffer, logged + 1)
         BY ONLY <3>1, AppendToTail
      <3> QED BY <2>1, <2>2, <3>2 DEF c
   <2>4. PICK b \in 0..(logged - Len(stderr)) :
            stderr = Run(b, Len(stderr)) /\ Line = Without(logged, b, Len(stderr))
      BY <1>3, <1>5 DEF Whole
   <2>5. Len(stderr) \in 0..logged /\ b \in 0..(logged + 1 - Len(stderr))
      BY <1>1
   <2>6. Line' = Without(logged + 1, b, Len(stderr))
      <3>1. Line' = Append(Without(logged, b, Len(stderr)), logged + 1)
         BY <2>3, <2>4
      <3>2. logged \in Nat /\ Len(stderr) \in 0..logged
         BY <1>1, <2>5
      <3> HIDE DEF Line, Without
      <3> QED BY ONLY <2>4, <3>1, <3>2, OneMore
   <2>7. stderr' = stderr /\ Len(stderr') = Len(stderr) /\ logged' = logged + 1
      BY <1>5
   <2>8. /\ b \in 0..(logged' - Len(stderr')) /\ stderr' = Run(b, Len(stderr'))
         /\ Line' = Without(logged', b, Len(stderr'))
      <3>1. stderr' = Run(b, Len(stderr'))
         BY <2>4, <2>7
      <3>2. b \in 0..(logged' - Len(stderr'))
         <4>1. logged' - Len(stderr') = logged + 1 - Len(stderr)
            BY <1>1, <2>7
         <4> QED BY <2>5, <4>1
      <3>3. Line' = Without(logged', b, Len(stderr'))
         <4>1. Without(logged', b, Len(stderr')) = Without(logged + 1, b, Len(stderr))
            BY <2>7 DEF Without
         <4> QED BY <2>6, <4>1
      <3> QED BY <3>1, <3>2, <3>3
   <2> HIDE DEF Line
   <2> QED BY ONLY <2>8 DEF Whole
<1>6. ASSUME NEW t \in Producers, LogLock(t)
      PROVE  Whole(Line', stderr', logged')
   BY <1>0, <1>4, <1>6 DEF LogLock, crash, Line, Pending, Claim
<1>7. ASSUME NEW t \in Producers, LogAppend(t)
      PROVE  Whole(Line', stderr', logged')
   <2>1. exit # "gone" /\ t # crashed /\ t \in Threads /\ Inner(t)
      BY <1>7, LoggerAssumption DEF LogAppend, Runs, Process, Threads, Inner
   <2>2. Claim /\ UNCHANGED <<hpc, owns>>
      BY <1>0, <1>7, <2>1 DEF Claim, LogAppend, crash
   <2>3. hpc # "clear"
      BY <2>1, <2>2, Undisturbed DEF IndInv, Claim
   <2> QED BY <1>5, <1>7, <2>1, <2>2, <2>3 DEF LogAppend, crash
<1>8. CASE FlushSwap
   <2>1. to_write = << >> /\ exit # "gone" /\ Inner(Flusher) /\ Flusher # crashed
      BY <1>8 DEF IndInv, Inside, Shape, FlushSwap, FlushStep, Runs, Process, Inner
   <2>2. Claim /\ UNCHANGED <<hpc, owns, exit, stderr, logged>>
      BY <1>0, <1>8, <2>1 DEF Claim, FlushSwap, FlushStep, crash
   <2>3. hpc # "clear"
      BY <2>1, <2>2, Undisturbed DEF IndInv, Claim, Threads
   <2>4. Line = (console \o << >>) \o active_buffer
      BY <2>1, <2>3 DEF Line, Pending
   <2>5. Line' = (console \o active_buffer) \o << >>
      BY <1>8, <2>1, <2>2, <2>3 DEF FlushSwap, Line, Pending
   <2>6. Line' = Line
      BY <1>1, <1>2, <2>4, <2>5, NoTail
   <2> QED BY <1>4, <2>2, <2>6
<1>9. CASE FlushConsole
   <2>1. Claim /\ UNCHANGED <<stderr, logged, Pending>> /\ Pending \in Seq(Nat)
      BY <1>0, <1>1, <1>9 DEF FlushConsole, FlushStep, Claim, Pending, crash
   <2>2. Line' = ((console \o to_write) \o << >>) \o Pending
      BY <1>9, <2>1 DEF FlushConsole, Line
   <2>3. Line' = Line
      BY <1>2, <2>2, NoTail DEF Line
   <2> QED BY <1>4, <2>1, <2>3
<1>10. CASE DrainConsole
   <2>1. /\ to_write = << >> /\ exit = "console" /\ exit' = "gone"
         /\ UNCHANGED <<hpc, owns, stderr, logged, active_buffer, to_write>>
         /\ console' = console \o active_buffer
      BY <1>10 DEF IndInv, Inside, Shape, DrainConsole, ExitStep, crash
   <2>2. Claim /\ hpc # "clear"
      BY <1>0, <2>1 DEF Claim
   <2>3. Line = (console \o << >>) \o active_buffer
      BY <2>1, <2>2 DEF Line, Pending
   <2>4. Line' = ((console \o active_buffer) \o << >>) \o << >>
      BY <2>1 DEF Line, Pending
   <2>5. Line' = Line
      BY <1>1, <1>2, <2>3, <2>4, NoTail
   <2> QED BY <1>4, <2>1, <2>2, <2>5
\* emergency_flush takes the buffer, the end of the line.
<1>11. CASE CrashStderr
   <2>1. /\ stderr = << >> /\ exit # "gone" /\ hpc = "stderr" /\ hpc' = "clear"
         /\ stderr' = active_buffer
         /\ UNCHANGED <<owns, console, to_write, logged>>
      BY <1>11 DEF IndInv, Inside, Shape, CrashStderr, CrashStep, Process
   <2>2. Claim
      BY <1>0, <2>1 DEF Claim
   <2>3. Line = (console \o to_write) \o active_buffer /\ Len(stderr) = 0
      BY <2>1 DEF Line, Pending
   <2>4. PICK b \in 0..(logged - 0) : Line = Without(logged, b, 0)
      BY <1>3, <2>2, <2>3 DEF Whole
   <2>5. /\ Len(console \o to_write) \in 0..(logged - Len(active_buffer))
         /\ active_buffer = Run(Len(console \o to_write), Len(active_buffer))
         /\ console \o to_write = Without(logged, Len(console \o to_write), Len(active_buffer))
      <3> DEFINE c == console \o to_write
      <3>1. /\ b \in Nat /\ logged \in Nat /\ c \in Seq(Nat) /\ active_buffer \in Seq(Nat)
            /\ c \o active_buffer = Without(logged, b, 0)
         BY <1>1, <1>2, <2>3, <2>4
      <3> HIDE DEF c
      <3>2. /\ Len(c) \in 0..(logged - Len(active_buffer))
            /\ active_buffer = Run(Len(c), Len(active_buffer))
            /\ c = Without(logged, Len(c), Len(active_buffer))
         BY ONLY <3>1, Cut
      <3> QED BY <3>2 DEF c
   <2>6. Line' = (console \o to_write) \o << >>
      BY <2>1 DEF Line, Pending
   <2>7. Line' = console \o to_write
      BY <1>2, <2>6, NoTail
   <2> QED BY <2>1, <2>5, <2>7 DEF Whole
<1>12. CASE CrashAppend
   <2>1. Claim
      BY <1>12 DEF CrashAppend, CrashStep, Claim
   <2> QED BY <1>5, <1>12, <2>1 DEF CrashAppend, CrashStep, Process
<1>13. CASE CrashClear
   <2>1. /\ Claim /\ Pending = << >> /\ Pending' = << >>
         /\ UNCHANGED <<stderr, logged, console, to_write>>
      BY <1>0, <1>13 DEF CrashClear, CrashStep, Process, Claim, Pending
   <2> QED BY <1>4, <2>1 DEF Line
<1>14. CASE CrashTry \/ CrashFile \/ CrashExit
   <2>1. Claim /\ UNCHANGED <<stderr, logged, console, to_write, Pending>>
      BY <1>0, <1>14 DEF CrashTry, CrashFile, CrashExit, CrashStep, Process, Claim, Pending
   <2> QED BY <1>4, <2>1 DEF Line
<1>15. CASE Stop \/ JoinFlusher \/ DrainFile
   <2>1. Claim /\ UNCHANGED <<stderr, logged, console, to_write, Pending>>
      BY <1>0, <1>15 DEF Stop, JoinFlusher, DrainFile, ExitStep, Claim, Pending, crash
   <2> QED BY <1>4, <2>1 DEF Line
<1>16. ASSUME NEW t \in Threads, Crash(t)
       PROVE  Whole(Line', stderr', logged')
   <2>1. hpc = "none" /\ hpc' = "append"
      BY <1>16 DEF IndInv, Inside, Shape, Crash
   <2>2. Claim /\ UNCHANGED <<stderr, logged, console, to_write, Pending>>
      BY <1>16, <2>1 DEF Crash, Claim, Pending
   <2> QED BY <1>4, <2>2 DEF Line
<1>17. CASE \/ FlushWhile \/ FlushWait \/ FlushWrite
            \/ FlushRename \/ FlushReopen \/ FlushFile
   <2>1. Claim /\ UNCHANGED <<stderr, logged, console, to_write, Pending>>
      BY <1>0, <1>17 DEF FlushWhile, FlushWait, FlushWrite, FlushRename, FlushReopen,
         FlushFile, FlushStep, Claim, Pending, disk, crash
   <2> QED BY <1>4, <2>1 DEF Line
<1>18. CASE UNCHANGED vars
   <2>1. Claim /\ UNCHANGED <<stderr, logged, console, to_write, Pending>>
      BY <1>0, <1>18 DEF vars, crash, Claim, Pending
   <2> QED BY <1>4, <2>1 DEF Line
<1> QED BY <1>6, <1>7, <1>8, <1>9, <1>10, <1>11, <1>12, <1>13, <1>14, <1>15, <1>16, <1>17,
       <1>18 DEF Next, Flush, EmergencyFlush

LEMMA StepInv == IndInv /\ [Next]_vars => IndInv'
BY StepInside, StepNothingLost DEF IndInv

LEMMA Invariance == Spec => []IndInv
BY InitInv, StepInv, PTL DEF Spec

-----------------------------------------------------------------------------
\* Every variable keeps to its type; one message more than the bound of the
\* instances is the stack trace of a crash.
THEOREM TypeCorrect == Spec => []TypeOK
<1>1. IndInv => TypeOK
   BY DEF IndInv, Inside
<1> QED BY <1>1, Invariance, PTL

\* The mutex is held exactly by the thread inside a critical section: whoever
\* appends or swaps the buffer is alone, and a crash inside leaves it locked.
THEOREM MutexOwner == Spec => []OwnerIsInside
<1>1. IndInv => OwnerIsInside
   BY DEF IndInv, Inside
<1> QED BY <1>1, Invariance, PTL

\* Whether a crash is reported is decided where it happens: if the crashed thread owns
\* the mutex then, direct_append waits for it for ever, whatever the other threads do
\* (emergency_flush, which would "proceed anyway", is never reached); if it does not
\* own it, it never will.
THEOREM CrashDecides ==
   Spec => [][hpc = "append" => /\ crashed' = crashed
                                /\ mutex' = crashed <=> mutex = crashed
                                /\ mutex = crashed => hpc' = "append"]_vars
<1> DEFINE Decided == hpc = "append" => /\ crashed' = crashed
                                        /\ mutex' = crashed <=> mutex = crashed
                                        /\ mutex = crashed => hpc' = "append"
<1>1. ASSUME IndInv, Next, hpc = "append"
      PROVE  /\ crashed' = crashed
             /\ mutex' = crashed <=> mutex = crashed
             /\ mutex = crashed => hpc' = "append"
   <2>1. /\ crashed \in Threads /\ crashed # NoThread /\ NoThread \notin Producers
         /\ Flusher # NoThread /\ Flusher \notin Producers
      BY <1>1, LoggerAssumption DEF IndInv, Inside, Shape, TypeOK, Threads
   <2>2. ASSUME NEW t \in Producers, LogLock(t)
         PROVE  crashed' = crashed /\ hpc' = hpc /\ mutex = NoThread /\ mutex' = t /\ t # crashed
      BY <2>2 DEF LogLock, Lock, Runs, crash
   <2>3. ASSUME NEW t \in Producers, LogAppend(t)
         PROVE  crashed' = crashed /\ hpc' = hpc /\ mutex = t /\ mutex' = NoThread /\ t # crashed
      BY <1>1, <2>1, <2>3
      DEF LogAppend, Unlock, Runs, crash, IndInv, Inside, OwnerIsInside, Threads
   <2>4. CASE FlushWait
      BY <2>1, <2>4 DEF FlushWait, FlushStep, Lock, Runs, crash
   <2>5. CASE FlushSwap
      <3>1. mutex = Flusher
         BY <1>1, <2>5 DEF FlushSwap, FlushStep, IndInv, Inside, OwnerIsInside, Threads
      <3> QED BY <1>1, <2>1, <2>5, <3>1 DEF FlushSwap, FlushStep, Unlock, Runs, crash
   <2>6. CASE \/ FlushWhile \/ FlushWrite \/ FlushRename \/ FlushReopen \/ FlushFile
              \/ FlushConsole
      BY <1>1, <2>6 DEF FlushWhile, FlushWrite, FlushRename, FlushReopen, FlushFile,
         FlushConsole, FlushStep, crash
   <2>7. CASE Stop \/ JoinFlusher \/ DrainFile \/ DrainConsole
      BY <1>1, <2>7 DEF Stop, JoinFlusher, DrainFile, DrainConsole, ExitStep, crash
   <2>8. ASSUME NEW t \in Threads, Crash(t) PROVE FALSE
      BY <2>1, <2>8 DEF Crash
   <2>9. CASE CrashAppend
      BY <2>1, <2>9 DEF CrashAppend, CrashStep
   <2>10. CASE EmergencyFlush
      BY <1>1, <2>10 DEF EmergencyFlush, CrashTry, CrashFile, CrashStderr, CrashClear,
         CrashExit, CrashStep
   <2> QED BY <1>1, <2>1, <2>2, <2>3, <2>4, <2>5, <2>6, <2>7, <2>8, <2>9, <2>10 DEF Next, Flush
<1>2. IndInv /\ [Next]_vars => [Decided]_vars
   BY <1>1
<1> QED BY <1>2, Invariance, PTL DEF Spec

\* No message is lost, duplicated or reordered on the way from log to the console, by
\* the flush thread, the destructor or an emergency_flush that has got the mutex,
\* except what is swapped out, or logged after it, when a crash ends the process.
THEOREM MessagesKept == Spec => []NothingLost
<1>1. IndInv => NothingLost
   BY DEF IndInv
<1> QED BY <1>1, Invariance, PTL

\* "Final drain to ensure no logs are lost on shutdown" (~Logger): when the destructor
\* is through, and no crash handler has got to the buffer meanwhile, all that was ever
\* logged is on the console, in order, whatever the flush thread was doing when it was
\* told to stop.
THEOREM ExitWritesAll ==
   Spec => [](exit = "gone" /\ hpc \in {"none", "append", "try"}
              => console = [i \in 1..logged |-> i])
<1> DEFINE Through == exit = "gone" /\ hpc \in {"none", "append", "try"}
<1>1. IndInv => (Through => console = [i \in 1..logged |-> i])
   <2> SUFFICES ASSUME IndInv, Through PROVE console = [i \in 1..logged |-> i]
      OBVIOUS
   <2>1. to_write = << >> /\ stderr = << >> /\ Pending = << >> /\ Claim
      BY DEF IndInv, Inside, Shape, Pending, Claim
   <2>2. console \in Seq(Nat) /\ logged \in Nat
      BY LoggerAssumption DEF IndInv, Inside, TypeOK
   <2>3. Line = console
      BY <2>1, <2>2, NoTail DEF Line
   <2>4. PICK b \in 0..(logged - Len(stderr)) : Line = Without(logged, b, Len(stderr))
      BY <2>1, LostMeans DEF IndInv, Whole
   <2>5. Len(stderr) = 0
      BY <2>1
   <2>6. Without(logged, b, 0) = [i \in 1..logged |-> i]
      BY <2>2, <2>5 DEF Without
   <2> QED BY <2>3, <2>4, <2>5, <2>6
<1> QED BY <1>1, Invariance, PTL

-----------------------------------------------------------------------------
\* k stands in a, after the first from elements of a; when from is Last, k ends a.
Part(a, k, from) == /\ from \in 0..(Len(a) - Len(k))
                    /\ \A i \in 1..Len(k) : k[i] = a[from + i]
Last(a, k) == Len(a) - Len(k)

\* What is written after a.
LEMMA PartExtends ==
   ASSUME NEW a \in Seq(Nat), NEW k \in Seq(Nat), NEW w \in Seq(Nat), NEW from, Part(a, k, from)
   PROVE  Part(a \o w, k, from)
<1>1. /\ a \o w \in Seq(Nat) /\ Len(a \o w) = Len(a) + Len(w)
      /\ Len(a) \in Nat /\ Len(k) \in Nat /\ Len(w) \in Nat
   BY ConcatProperties, LenProperties
<1>2. from \in 0..(Len(a) - Len(k)) /\ \A i \in 1..Len(k) : k[i] = a[from + i]
   BY DEF Part
<1>3. ASSUME NEW i \in 1..Len(k)
      PROVE  k[i] = (a \o w)[from + i]
   <2>1. from + i \in 1..Len(a)
      BY <1>1, <1>2
   <2>2. (a \o w)[from + i] = a[from + i]
      BY <2>1, ConcatProperties
   <2> QED BY <1>2, <2>2
<1>4. from \in 0..(Len(a \o w) - Len(k))
   BY <1>1, <1>2
<1> QED BY <1>3, <1>4 DEF Part

\* What is written to both is at the end of both.
LEMMA WriteBoth ==
   ASSUME NEW a \in Seq(Nat), NEW k \in Seq(Nat), NEW w \in Seq(Nat), Part(a, k, Last(a, k))
   PROVE  Part(a \o w, k \o w, Last(a \o w, k \o w))
<1>1. /\ Len(k) <= Len(a) /\ \A i \in 1..Len(k) : k[i] = a[Len(a) - Len(k) + i]
   BY LenProperties DEF Part, Last
<1>2. /\ a \o w \in Seq(Nat) /\ Len(a \o w) = Len(a) + Len(w)
      /\ k \o w \in Seq(Nat) /\ Len(k \o w) = Len(k) + Len(w)
      /\ Len(a) \in Nat /\ Len(k) \in Nat /\ Len(w) \in Nat
   BY ConcatProperties, LenProperties
<1>3. ASSUME NEW i \in 1..(Len(k) + Len(w))
      PROVE  (k \o w)[i] = (a \o w)[Len(a) - Len(k) + i]
   <2>1. CASE i <= Len(k)
      BY <1>1, <2>1
   <2>2. CASE i > Len(k)
      <3>1. (k \o w)[i] = w[i - Len(k)]
         BY <2>2
      <3>2. Len(a) - Len(k) + i \in 1..(Len(a) + Len(w)) /\ Len(a) - Len(k) + i > Len(a)
         BY <1>1, <2>2
      <3>3. (a \o w)[Len(a) - Len(k) + i] = w[Len(a) - Len(k) + i - Len(a)]
         BY <3>2
      <3>4. Len(a) - Len(k) + i - Len(a) = i - Len(k)
         OBVIOUS
      <3> QED BY <3>1, <3>3, <3>4
   <2>3. i <= Len(k) \/ i > Len(k)
      BY <1>2
   <2> QED BY <2>1, <2>2, <2>3, Zenon
<1>4. /\ Last(a \o w, k \o w) = Len(a) - Len(k) /\ Len(k \o w) = Len(k) + Len(w)
      /\ Last(a \o w, k \o w) \in 0..(Len(a \o w) - Len(k \o w))
   BY <1>1, <1>2 DEF Last
<1> QED BY <1>3, <1>4 DEF Part

\* A rotation drops the old backup: the file is still what the whole ends with.
LEMMA DropBackup ==
   ASSUME NEW a \in Seq(Nat), NEW b \in Seq(Nat), NEW f \in Seq(Nat),
          Part(a, b \o f, Last(a, b \o f))
   PROVE  Part(a, f, Last(a, f))
<1>1. /\ b \o f \in Seq(Nat) /\ Len(b \o f) = Len(b) + Len(f)
      /\ Len(b) \in Nat /\ Len(f) \in Nat /\ Len(a) \in Nat
   BY ConcatProperties, LenProperties
<1>2. /\ Len(b) + Len(f) <= Len(a)
      /\ \A i \in 1..(Len(b) + Len(f)) : (b \o f)[i] = a[Len(a) - (Len(b) + Len(f)) + i]
   BY <1>1 DEF Part, Last
<1>3. ASSUME NEW i \in 1..Len(f)
      PROVE  f[i] = a[Len(a) - Len(f) + i]
   <2>1. Len(b) + i \in 1..(Len(b) + Len(f))
      OBVIOUS
   <2>2. (b \o f)[Len(b) + i] = f[i]
      OBVIOUS
   <2>3. Len(a) - (Len(b) + Len(f)) + (Len(b) + i) = Len(a) - Len(f) + i
      OBVIOUS
   <2> QED BY <1>2, <2>1, <2>2, <2>3
<1> QED BY <1>1, <1>2, <1>3 DEF Part, Last

\* The parts of FilesAreTail.
Kept == backup \o file
Draining == exit \in {"console", "gone"}
Held == /\ is_open \/ fpc \in {"rename", "reopen"}
        /\ Draining => hpc \notin {"exit", "gone"}
IsTail(p, k, draining) == \E from \in 0..Last(p, k) :
                             /\ Part(p, k, from)
                             /\ draining \/ from = Last(p, k)

LEMMA TailMeans == FilesAreTail <=> (Held => IsTail(Printed, Kept, Draining))
BY DEF FilesAreTail, Held, IsTail, Part, Last, Kept, Draining

\* Before the destructor drains, what is kept ends what is printed.
LEMMA TailIsLast ==
   ASSUME NEW p, NEW k, NEW d
   PROVE  /\ IsTail(p, k, FALSE) => Part(p, k, Last(p, k))
          /\ Part(p, k, Last(p, k)) => IsTail(p, k, d)
BY DEF IsTail, Part, Last

\* Only the flush thread and the drain write to the file (emergency_flush writes its own
\* section), and what they write goes to the console next.
LEMMA StepTail ==
   ASSUME IndInv, FilesAreTail, [Next]_vars
   PROVE  FilesAreTail'
<1>1. /\ console \in Seq(Nat) /\ to_write \in Seq(Nat) /\ active_buffer \in Seq(Nat)
      /\ file \in Seq(Nat) /\ backup \in Seq(Nat) /\ << >> \in Seq(Nat) /\ logged \in Nat
   BY EmptySeq, LoggerAssumption DEF IndInv, Inside, TypeOK
<1>2. /\ Kept \in Seq(Nat) /\ console \o to_write \in Seq(Nat)
      /\ console \o active_buffer \in Seq(Nat) /\ Printed \in Seq(Nat)
      /\ console \o << >> = console /\ file \o << >> = file /\ << >> \o file = file
   BY <1>1, ConcatProperties, NoTail DEF Kept, Printed
<1>3. Held => IsTail(Printed, Kept, Draining)
   BY TailMeans
<1>4. SUFFICES ASSUME Held' PROVE IsTail(Printed', Kept', Draining')
   BY DEF FilesAreTail, Held, IsTail, Part, Last, Kept, Draining
\* Nothing moves.
<1>5. ASSUME Held, Printed' = Printed, Kept' = Kept, Draining' = Draining
      PROVE  IsTail(Printed', Kept', Draining')
   BY <1>3, <1>5, Zenon
\* The same is written to the file and, next, to the console.
<1>6. ASSUME NEW w \in Seq(Nat), Held, ~Draining, Kept' = Kept \o w, Printed' = Printed \o w
      PROVE  IsTail(Printed', Kept', Draining')
   <2>1. Part(Printed, Kept, Last(Printed, Kept))
      BY <1>3, <1>6, TailIsLast, Zenon DEF IsTail
   <2>2. Part(Printed \o w, Kept \o w, Last(Printed \o w, Kept \o w))
      BY <1>2, <2>1, WriteBoth
   <2> QED BY <1>6, <2>2, TailIsLast
<1>7. ASSUME NEW t \in Producers, LogLock(t)
      PROVE  IsTail(Printed', Kept', Draining')
   BY <1>4, <1>5, <1>7 DEF LogLock, disk, crash, Held, Printed, Kept, Draining
\* An append goes into the half-written drain or nowhere yet.
<1>8. ASSUME active_buffer' = Append(active_buffer, logged + 1), Held,
             UNCHANGED <<console, to_write, fpc, exit, file, backup>>
      PROVE  IsTail(Printed', Kept', Draining')
   <2>1. Kept' = Kept /\ Draining' = Draining
      BY <1>8 DEF Kept, Draining
   <2>2. CASE fpc # "console" /\ exit = "console"
      <3>1. Draining
         BY <2>2 DEF Draining
      <3>2. Printed = console \o active_buffer /\ Printed' = console \o Append(active_buffer, logged + 1)
         BY <1>8, <2>2 DEF Printed
      <3>3. Printed' = Append(Printed, logged + 1)
         BY <1>1, <3>2, AppendToTail
      <3>4. <<logged + 1>> \in Seq(Nat) /\ Printed' = Printed \o <<logged + 1>>
         <4>1. logged + 1 \in Nat /\ <<logged + 1>> \in Seq(Nat)
            BY <1>1
         <4> HIDE DEF Printed
         <4>2. Append(Printed, logged + 1) = Printed \o <<logged + 1>>
            BY ONLY <1>2, <4>1, AppendIsConcat
         <4> QED BY <3>3, <4>1, <4>2
      <3>5. PICK from \in 0..Last(Printed, Kept) : Part(Printed, Kept, from)
         BY <1>3, <1>8 DEF IsTail
      <3>6. Part(Printed \o <<logged + 1>>, Kept, from)
         BY <1>2, <3>4, <3>5, PartExtends
      <3>7. from \in 0..Last(Printed', Kept')
         BY <2>1, <3>4, <3>6 DEF Part, Last
      <3> QED BY <2>1, <3>1, <3>4, <3>6, <3>7 DEF IsTail
   <2>3. CASE fpc = "console" \/ exit # "console"
      <3>1. Printed' = Printed
         BY <1>8, <2>3 DEF Printed
      <3> QED BY <1>5, <1>8, <2>1, <3>1
   <2> QED BY <2>2, <2>3
<1>9. ASSUME NEW t \in Producers, LogAppend(t)
      PROVE  IsTail(Printed', Kept', Draining')
   <2>1. Held
      BY <1>4, <1>9 DEF LogAppend, disk, crash, Held, Draining
   <2> QED BY <1>8, <1>9, <2>1 DEF LogAppend, disk
<1>10. CASE CrashAppend
   <2>1. Held
      BY <1>4, <1>10 DEF CrashAppend, CrashStep, disk, Held, Draining
   <2> QED BY <1>8, <1>10, <2>1 DEF CrashAppend, CrashStep, disk
\* The flush thread runs: the destructor is not yet past the join.
<1>11. ASSUME Flush PROVE ~Draining /\ ~Draining' /\ exit' = exit
   BY <1>11 DEF Flush, FlushWhile, FlushWait, FlushSwap, FlushWrite, FlushRename, FlushReopen,
      FlushFile, FlushConsole, FlushStep, IndInv, Inside, Shape, Draining
<1>12. CASE FlushWhile \/ FlushWait \/ FlushSwap
   <2>1. ~Draining /\ ~Draining' /\ exit' = exit /\ Draining' = Draining
      BY <1>11, <1>12 DEF Flush, Draining
   <2>2. Held /\ Printed' = Printed /\ Kept' = Kept
      BY <1>4, <1>12, <2>1 DEF FlushWhile, FlushWait, FlushSwap, FlushStep, disk, Held, Printed,
         Kept, Draining
   <2> QED BY <1>5, <2>1, <2>2
<1>13. CASE FlushWrite
   <2>1. ~Draining /\ ~Draining' /\ exit' = exit /\ Draining' = Draining
      BY <1>11, <1>13 DEF Flush, Draining
   <2>2. (is_open /\ fpc' \in {"while", "rename", "file"}) \/ to_write = << >>
      BY <1>4, <1>13 DEF FlushWrite, FlushStep, Held
   <2>3. Held /\ Kept' = Kept
      BY <1>4, <1>13, <2>1 DEF FlushWrite, FlushStep, Held, Kept
   <2>4. Printed' = Printed
      BY <1>13, <2>1, <2>2 DEF FlushWrite, FlushStep, Printed, Draining
   <2> QED BY <1>5, <2>1, <2>3, <2>4
<1>14. CASE FlushRename
   <2>1. ~Draining /\ ~Draining' /\ exit' = exit /\ Draining' = Draining
      BY <1>11, <1>14 DEF Flush, Draining
   <2>2. Held /\ Printed' = Printed
      BY <1>14, <2>1 DEF FlushRename, FlushStep, Held, Printed, Draining
   <2>3. Kept' = file
      BY <1>2, <1>14 DEF FlushRename, Kept
   <2>4. Part(Printed, Kept, Last(Printed, Kept))
      BY <1>3, <2>1, <2>2, TailIsLast, Zenon DEF IsTail
   <2>5. Part(Printed, file, Last(Printed, file))
      BY <1>1, <1>2, <2>4, DropBackup DEF Kept
   <2> QED BY <2>2, <2>3, <2>5, TailIsLast
<1>15. CASE FlushReopen
   <2>1. ~Draining /\ ~Draining' /\ exit' = exit /\ Draining' = Draining
      BY <1>11, <1>15 DEF Flush, Draining
   <2>2. Held /\ Printed' = Printed /\ Kept' = Kept
      BY <1>15, <2>1 DEF FlushReopen, FlushStep, Held, Printed, Kept, Draining
   <2> QED BY <1>5, <2>1, <2>2
<1>16. CASE FlushFile
   <2>1. ~Draining /\ ~Draining' /\ exit' = exit /\ Draining' = Draining
      BY <1>11, <1>16 DEF Flush, Draining
   <2>2. Held /\ is_open
      BY <1>4, <1>16, <2>1 DEF FlushFile, FlushStep, Held
   <2>3. Printed = console /\ Printed' = console \o to_write
      BY <1>2, <1>16, <2>1 DEF FlushFile, FlushStep, Printed, Draining
   <2>4. Kept' = Kept \o to_write
      BY <1>1, <1>16, <2>2, Assoc DEF FlushFile, Write, Kept
   <2> QED BY <1>1, <1>6, <2>1, <2>2, <2>3, <2>4
<1>17. CASE FlushConsole
   <2>1. ~Draining /\ ~Draining' /\ exit' = exit /\ Draining' = Draining
      BY <1>11, <1>17 DEF Flush, Draining
   <2>2. Held /\ Kept' = Kept
      BY <1>4, <1>17, <2>1 DEF FlushConsole, FlushStep, disk, Held, Kept
   <2>3. Printed = console \o to_write /\ Printed' = (console \o to_write) \o << >>
      BY <1>17, <2>1 DEF FlushConsole, FlushStep, Printed, Draining
   <2>4. Printed' = Printed
      BY <1>2, <2>3, NoTail
   <2> QED BY <1>5, <2>1, <2>2, <2>4
<1>18. CASE DrainFile
   <2>1. /\ exit = "drain" /\ fpc = "end" /\ ~Draining
         /\ UNCHANGED <<fpc, hpc, is_open, console, active_buffer, backup>>
      BY <1>18 DEF DrainFile, ExitStep, crash, IndInv, Inside, Shape, Draining
   <2>2. Held /\ is_open
      BY <1>4, <2>1 DEF Held
   <2>3. file' = file \o active_buffer
      BY <1>18, <2>2 DEF DrainFile, Write
   <2>4. Kept' = Kept \o active_buffer
      BY <1>1, <2>1, <2>3, Assoc DEF Kept
   <2>5. Printed = console
      BY <1>2, <2>1 DEF Printed
   <2>6. Printed' = console \o active_buffer
      BY <1>18, <1>2, <2>1 DEF DrainFile, ExitStep, Printed
   <2> QED BY <1>1, <1>6, <2>1, <2>2, <2>4, <2>5, <2>6
<1>19. CASE DrainConsole
   <2>1. /\ exit = "console" /\ exit' = "gone" /\ fpc = "end"
         /\ UNCHANGED <<fpc, hpc, is_open, backup, file>>
         /\ console' = console \o active_buffer
      BY <1>19 DEF DrainConsole, ExitStep, disk, crash, IndInv, Inside, Shape
   <2>2. Held /\ Draining /\ Draining' /\ Kept' = Kept
      BY <1>4, <2>1 DEF Held, Draining, Kept
   <2>3. Printed = console \o active_buffer /\ Printed' = (console \o active_buffer) \o << >>
      BY <2>1 DEF Printed
   <2>4. Printed' = Printed
      BY <1>2, <2>3, NoTail
   <2> QED BY <1>5, <2>2, <2>4
<1>20. CASE Stop \/ JoinFlusher
   <2>1. Held /\ Printed' = Printed /\ Kept' = Kept /\ Draining' = Draining
      BY <1>4, <1>20 DEF Stop, JoinFlusher, ExitStep, disk, crash, Held, Printed, Kept, Draining
   <2> QED BY <1>5, <2>1
<1>21. CASE (\E t \in Threads : Crash(t)) \/ CrashTry \/ CrashFile \/ CrashStderr \/ CrashExit
   <2>1. UNCHANGED <<console, to_write, active_buffer, fpc, exit, is_open, file, backup>>
      BY <1>21 DEF Crash, CrashTry, CrashFile, CrashStderr, CrashExit, CrashStep, disk
   <2>2. (hpc' \notin {"exit", "gone"}) => hpc \notin {"exit", "gone"}
      BY <1>21 DEF Crash, CrashTry, CrashFile, CrashStderr, CrashExit, CrashStep, IndInv, Inside,
         Shape
   <2>3. Held /\ Printed' = Printed /\ Kept' = Kept /\ Draining' = Draining
      BY <1>4, <2>1, <2>2 DEF Held, Printed, Kept, Draining
   <2> QED BY <1>5, <2>3
<1>22. CASE CrashClear
   <2>1. /\ UNCHANGED <<console, to_write, fpc, exit, is_open, file, backup>>
         /\ hpc = "clear" /\ hpc' = "exit"
      BY <1>22 DEF CrashClear, CrashStep, disk
   <2>2. Draining' = Draining /\ ~Draining /\ Held /\ Kept' = Kept
      BY <1>4, <2>1 DEF Held, Draining, Kept
   <2>3. Printed' = Printed
      BY <2>1, <2>2 DEF Printed, Draining
   <2> QED BY <1>5, <2>2, <2>3
<1>23. CASE UNCHANGED vars
   <2>1. Held /\ Printed' = Printed /\ Kept' = Kept /\ Draining' = Draining
      BY <1>4, <1>23 DEF vars, disk, crash, Held, Printed, Kept, Draining
   <2> QED BY <1>5, <2>1
<1> HIDE DEF Printed, Kept, Draining, IsTail
<1> QED BY <1>7, <1>9, <1>10, <1>12, <1>13, <1>14, <1>15, <1>16, <1>17, <1>18, <1>19, <1>20,
       <1>21, <1>22, <1>23 DEF Next, Flush, EmergencyFlush

\* The log file and its backup hold the newest part of what is on the console or going
\* there, after any number of rotations, for any limit of the size, as long as the log
\* file can be opened; a crash may end the process between any two of the steps, with
\* the file ahead of the console or closed for the rotation.
THEOREM FilesKept == Spec => []FilesAreTail
<1>1. Init => FilesAreTail
   <2> SUFFICES ASSUME Init PROVE FilesAreTail
      OBVIOUS
   <2>1. << >> \o << >> = << >> /\ << >> \in Seq(Nat) /\ Len(<< >>) = 0
      BY EmptySeq, NoTail
   <2>2. Printed = << >> /\ Kept = << >>
      BY <2>1 DEF Init, Printed, Kept
   <2>3. Part(<< >>, << >>, Last(<< >>, << >>))
      BY <2>1 DEF Part, Last
   <2> QED BY <2>2, <2>3, TailMeans, TailIsLast
<1>2. FilesAreTail /\ IndInv /\ [Next]_vars => FilesAreTail'
   BY StepTail
<1> QED BY <1>1, <1>2, Invariance, PTL DEF Spec
=============================================================================
