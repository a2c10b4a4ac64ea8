---------------------------- MODULE IPCCopy_proofs ----------------------------
(***************************************************************************)
(* What holds of the ipc tool's two processes, whichever of them is        *)
(* killed, interrupted or given up at whichever step, for any number and   *)
(* size of buffers, any size of file and any time until a timeout.         *)
(***************************************************************************)
EXTENDS IPCCopy, BPCopyTool_proofs

LEMMA TwoProcesses ==
  /\ Reader # Writer /\ Threads = {Reader, Writer} /\ Observers = Threads
  /\ Reader \in Threads /\ Writer \in Threads /\ NoThread \notin Threads
BY ToolAssumption, QueueAssumption, IPCAssumption

-----------------------------------------------------------------------------
(***************************************************************************)
(* The steps, by what they may change.                                     *)
(***************************************************************************)

\* A step of read(), or one of the loop around write().
LEMMA ReadMoves ==
  ASSUME ReaderReads
  PROVE  /\ rpc \in {"getFree", "fill", "finishRead", "return"}
         /\ rpc' \in {"getFree", "noBuffer", "fill", "finishRead", "return", "close"}
         /\ UNCHANGED <<wpc, fileSize, writerVars, isOpen, observerVars, ipcVars>>
BY DEF ReaderReads, ReadWaits, WaitFree, WaitUntil, ReadTakes, TakeFree, ReadFills, ReadFinishes,
   FinishRead, ReadReturns, ReturnBuffer, ReadNotifies, NotifyAll, queueVars, readerVars

LEMMA WriteMoves ==
  ASSUME WriterWrites
  PROVE  /\ wpc \in {"isEmpty", "getFilled", "fwrite", "return"}
         /\ wpc' \in {"done", "check", "getFilled", "fwrite", "return"}
         /\ UNCHANGED <<rpc, readerVars, isOpen, isReadFinished_, observerVars, ipcVars>>
BY DEF WriterWrites, WritingTestsEmpty, WriteWaits, WaitFilled, WaitUntil, WriteTakes, TakeFilled,
   WriteFwrites, WriteReturns, ReturnBuffer, WriteNotifies, NotifyAll, queueVars

\* A process is cut short.
Cut(p) == Interrupt(p) \/ Kill(p) \/ TimeoutTerminates(p)

LEMMA CutMoves ==
  ASSUME NEW p \in Threads, Cut(p)
  PROVE  /\ UNCHANGED <<readBuffers, writeBuffers, isOpen, isReadFinished_, bufferType, held, qpc,
                        readerVars, dst>>
         /\ queueMutex' = queueMutex \/ (queueMutex = NoThread /\ queueMutex' = p)
         /\ procInfoMutex' \in {procInfoMutex, p}
         /\ waiting' \subseteq waiting
         /\ p = Reader => rpc' \in {"leave", "dead"} /\ UNCHANGED <<wpc, flushed>>
         /\ p = Writer => wpc' \in {"leave", "dead"} /\ rpc' = rpc
         /\ flushed' = flushed \/ flushed' \in flushed..Len(dst)
<1>1. /\ UNCHANGED <<readBuffers, writeBuffers, isOpen, isReadFinished_, bufferType, held, qpc,
                     readerVars, dst>>
      /\ \/ Goto(p, "leave")
         \/ Goto(p, "dead")
      /\ waiting' = waiting \ {p}
  BY DEF Cut, Interrupt, Kill, TimeoutTerminates, writerVars
<1>2. /\ queueMutex' = queueMutex \/ (queueMutex = NoThread /\ queueMutex' = p)
      /\ procInfoMutex' \in {procInfoMutex, p}
  BY DEF Cut, Interrupt, Kill, TimeoutTerminates, MayTakeLocks, InQueueSection
<1>3. /\ p = Reader => flushed' = flushed
      /\ flushed' = flushed \/ flushed' \in flushed..Len(dst)
  BY TwoProcesses DEF Cut, Interrupt, Kill, TimeoutTerminates, writerVars
<1>4. QED
  BY <1>1, <1>2, <1>3, TwoProcesses DEF Goto

\* The steps of a process between its calls of the queue.
Quiet ==
  \/ ReaderAwaits
  \/ WriterComes
  \/ WriterRegisters
  \/ WriterCreates
  \/ WriterSignals
  \/ WriterObserves
  \/ WriterChecks
  \/ WriterFlushes
  \/ WriterExits
  \/ \E p \in Threads : JoinsObserver(p) \/ Leaves(p) \/ Unlinks(p) \/ ObserverPolls(p)
  \/ TimeoutReturns
  \/ UNCHANGED allVars

LEMMA QuietMoves ==
  ASSUME Quiet
  PROVE  /\ UNCHANGED <<queueVars, readerVars>>
         /\ rpc' = rpc \/ <<rpc, rpc'>> \in {<<"await", "join">>, <<"join", "leave">>,
                                              <<"leave", "unlink">>, <<"unlink", "exited">>}
         /\ \/ wpc' = wpc
            \/ wpc = "none" /\ wpc' = "register" /\ (EarlyWriter \/ rpc # "open")
            \/ wpc = "check" /\ wpc' = "isEmpty" /\ isReadFinished_
            \/ <<wpc, wpc'>> \in {<<"register", "create">>, <<"create", "signal">>,
                 <<"signal", "observe">>, <<"observe", "check">>, <<"check", "getFilled">>,
                 <<"done", "leave">>, <<"leave", "unlink">>, <<"unlink", "flush">>,
                 <<"flush", "exit">>, <<"exit", "exited">>}
<1> USE TwoProcesses
<1>1. CASE ReaderAwaits
  BY <1>1 DEF ReaderAwaits
<1>2. CASE WriterComes \/ WriterRegisters \/ WriterCreates \/ WriterSignals
  BY <1>2 DEF WriterComes, WriterRegisters, WriterCreates, WriterSignals
<1>3. CASE WriterObserves \/ WriterChecks \/ WriterFlushes \/ WriterExits
  BY <1>3 DEF WriterObserves, WriterChecks, WriterFlushes, WriterExits
<1>4. ASSUME NEW p \in Threads, JoinsObserver(p) \/ Leaves(p) \/ Unlinks(p) \/ ObserverPolls(p)
      PROVE  /\ UNCHANGED <<queueVars, readerVars>>
             /\ rpc' = rpc \/ <<rpc, rpc'>> \in {<<"join", "leave">>, <<"leave", "unlink">>,
                                                  <<"unlink", "exited">>}
             /\ wpc' = wpc \/ <<wpc, wpc'>> \in {<<"done", "leave">>, <<"leave", "unlink">>,
                                                  <<"unlink", "flush">>}
  BY <1>4 DEF JoinsObserver, Joins, Leaves, Unlinks, ObserverPolls, At, Goto, vars
<1>5. CASE TimeoutReturns \/ UNCHANGED allVars
  BY <1>5 DEF TimeoutReturns, allVars, vars
<1>6. QED
  BY <1>1, <1>2, <1>3, <1>4, <1>5 DEF Quiet

LEMMA IPCSteps ==
  ASSUME [IPCNext]_allVars
  PROVE  \/ ReaderOpens
         \/ ReaderReads
         \/ ReaderCloses
         \/ WriterWrites
         \/ Quiet
         \/ \E p \in Threads : WakesProcess(p) \/ Cut(p)
BY TwoProcesses DEF IPCNext, IPCReaderStep, IPCWriterStep, ObserverStep, BothEnded, Quiet, Cut

-----------------------------------------------------------------------------
(* Who is counted, and who has come *)

ProcessTypes ==
  /\ ObserverTypeOK
  /\ rpc \in IPCReaderStates
  /\ wpc \in IPCWriterStates
  /\ processCount \in [Threads -> 0..1]
  /\ isWritingStarted \in BOOLEAN
  /\ procInfoMutex \in Threads \cup {NoThread}
  /\ linked \in BOOLEAN
  /\ fate \in [Threads -> Fates]
  /\ abandoned \subseteq Threads

\* Only those who are killed or terminated stop without leaving, and only those
\* who are cut short abandon their observers.
DeadInv ==
  /\ Alive(Reader) <=> rpc # "dead"
  /\ Alive(Writer) <=> wpc # "dead"
  /\ \A p \in abandoned : fate[p] # "running"

\* A reader that was not cut short left because a writer had come.
StartedInv ==
  /\ isWritingStarted => wpc \notin {"none", "register", "create", "signal"}
  /\ rpc = "join" => isWritingStarted
  /\ rpc \in {"leave", "unlink", "exited"} /\ fate[Reader] = "running" => isWritingStarted

\* After the destructor no timeout can strike.
ObserverGone == wpc \in {"flush", "exit", "exited"} => observer[Writer] = "ended"

\* The inductive invariant.
ProcessInv == ProcessTypes /\ CountsAreTrue /\ DeadInv /\ StartedInv /\ ObserverGone

LEMMA ProcessInit == IPCInit => ProcessInv
<1> SUFFICES ASSUME IPCInit
             PROVE  ProcessInv
  OBVIOUS
<1> USE TwoProcesses
<1>1. /\ rpc = "open" /\ wpc = "none"
      /\ processCount \in [Threads -> 0..1]
      /\ processCount[Reader] = 1 /\ processCount[Writer] = 0
      /\ fate = [p \in Threads |-> "running"]
      /\ isWritingStarted = FALSE /\ procInfoMutex = NoThread /\ linked = TRUE /\ abandoned = {}
  BY DEF IPCInit, Init
<1>2. ObserverTypeOK
  BY DEF IPCInit, ObserverInit, ObserverTypeOK, ObserverStates
<1>3. ProcessTypes
  BY <1>1, <1>2 DEF ProcessTypes, IPCReaderStates, ReaderStates, IPCWriterStates, WriterStates, Fates
<1>4. CountsAreTrue /\ DeadInv /\ StartedInv /\ ObserverGone
  BY <1>1 DEF CountsAreTrue, DeadInv, Alive, StartedInv, ObserverGone
<1>5. QED
  BY <1>3, <1>4 DEF ProcessInv

\* What a poll may do to the observers.
LEMMA PollTypes ==
  ASSUME ObserverTypeOK, NEW p \in Observers, NEW n, Poll(p, n)
  PROVE  ObserverTypeOK' /\ \A q \in Observers : observer[q] = "ended" => observer'[q] = "ended"
<1> USE DEF ObserverTypeOK, ObserverStates, Off
<1>1. waitingTime \in Nat \ {0}
  BY ObserverAssumption
<1>2. CASE SawSibling(p)
  BY <1>2 DEF SawSibling
<1>3. CASE SawNobody(p) /\ stopwatch[p] = Off
  BY <1>1, <1>3 DEF SawNobody
<1>4. CASE SawNobody(p) /\ stopwatch[p] # Off
  <2>1. PICK time \in stopwatch[p] + 1 .. waitingTime :
          /\ stopwatch' = [stopwatch EXCEPT ![p] = time]
          /\ observer' = IF time >= waitingTime
                         THEN [observer EXCEPT ![p] = "timeout"] ELSE observer
    BY <1>4 DEF SawNobody
  <2>2. stopwatch[p] \in 0..waitingTime
    BY <1>4
  <2>3. time \in 0..waitingTime
    BY <1>1, <2>2
  <2>4. stopwatch' \in [Observers -> {Off} \cup 0..waitingTime]
    BY <2>1, <2>3
  <2>5. /\ observer' \in [Observers -> {"none", "polling", "timeout", "ended"}]
        /\ observer' = [observer EXCEPT ![p] = "timeout"] \/ observer' = observer
    BY <2>1
  <2>6. observer[p] = "polling"
    BY DEF Poll
  <2>7. QED
    BY <2>4, <2>5, <2>6
<1>5. QED
  BY <1>2, <1>3, <1>4 DEF Poll

\* A step that changes neither the counters nor the fates nor the observers,
\* and takes no process past a point that says something of them.
LEMMA ProcessFrame ==
  ASSUME ProcessInv, UNCHANGED <<observerVars, processCount, procInfoMutex, linked, fate, abandoned>>,
         isWritingStarted' = isWritingStarted \/ (isWritingStarted' = TRUE /\ wpc' = "observe"),
         \/ rpc' = rpc
         \/ rpc' \in {"getFree", "noBuffer", "fill", "finishRead", "return", "close", "await"}
            /\ rpc \notin {"leave", "unlink", "exited", "dead"}
         \/ rpc = "await" /\ rpc' = "join" /\ isWritingStarted,
         \/ wpc' = wpc
         \/ wpc = "none" /\ wpc' = "register"
         \/ wpc = "create" /\ wpc' = "signal"
         \/ wpc \in {"signal", "observe", "check", "isEmpty", "getFilled", "fwrite", "return"}
            /\ wpc' \in {"observe", "check", "isEmpty", "getFilled", "fwrite", "return", "done"}
         \/ <<wpc, wpc'>> \in {<<"flush", "exit">>, <<"exit", "exited">>}
  PROVE  ProcessInv'
<1> USE DEF ProcessInv, ProcessTypes, CountsAreTrue, DeadInv, Alive, StartedInv, ObserverGone
<1>1. ObserverTypeOK'
  BY DEF ObserverTypeOK, observerVars
<1>2. observer' = observer
  BY DEF observerVars
<1>3. rpc' \in IPCReaderStates /\ wpc' \in IPCWriterStates
  BY DEF IPCReaderStates, ReaderStates, IPCWriterStates, WriterStates
<1>4. ProcessTypes'
  BY <1>1, <1>3
<1>5. CountsAreTrue' /\ DeadInv'
  OBVIOUS
<1>6. StartedInv' /\ ObserverGone'
  BY <1>2
<1>7. QED
  BY <1>4, <1>5, <1>6

LEMMA CutProcess ==
  ASSUME ProcessInv, NEW p \in Threads, Cut(p) PROVE ProcessInv'
<1> USE TwoProcesses DEF ProcessInv, ProcessTypes
<1>1. /\ procInfoMutex' \in {procInfoMutex, p}
      /\ p = Reader => rpc' \in {"leave", "dead"} /\ wpc' = wpc
      /\ p = Writer => wpc' \in {"leave", "dead"} /\ rpc' = rpc
  BY CutMoves
<1>2. /\ observerVars' = observerVars /\ isWritingStarted' = isWritingStarted
      /\ linked' \in {linked, FALSE}
      /\ abandoned' \in {abandoned, abandoned \cup {p}}
  BY DEF Cut, Interrupt, Kill, TimeoutTerminates
<1>3. rpc' \in IPCReaderStates /\ wpc' \in IPCWriterStates
  BY <1>1 DEF IPCReaderStates, IPCWriterStates
<1>4. /\ processCount' \in [Threads -> 0..1]
      /\ \A q \in Threads \ {p} : processCount'[q] = processCount[q]
      /\ Interrupt(p) \/ Kill(p) => processCount' = processCount
  <2>1. Interrupt(p) \/ Kill(p) => processCount' = processCount
    BY DEF Interrupt, Kill
  <2>2. TimeoutTerminates(p) =>
          processCount' = processCount \/ processCount' = [processCount EXCEPT ![p] = 0]
    BY DEF TimeoutTerminates
  <2>3. processCount' = processCount \/ processCount' = [processCount EXCEPT ![p] = 0]
    BY <2>1, <2>2, Zenon DEF Cut
  <2>4. QED
    BY <2>1, <2>3
<1>5. \/ Interrupt(p) /\ fate[p] = "running" /\ InsideCopy(p)
            /\ fate' = [fate EXCEPT ![p] = "interrupted"] /\ Goto(p, "leave")
      \/ Kill(p) /\ fate' = [fate EXCEPT ![p] = "killed"] /\ Goto(p, "dead")
      \/ TimeoutTerminates(p) /\ fate' = [fate EXCEPT ![p] = "terminated"] /\ Goto(p, "dead")
  BY DEF Cut, Interrupt, Kill, TimeoutTerminates
<1>6. /\ fate' \in [Threads -> Fates] /\ fate'[p] # "running"
      /\ \A q \in Threads \ {p} : fate'[q] = fate[q]
      /\ fate'[p] \in {"running", "interrupted"} <=> Interrupt(p) /\ Goto(p, "leave") /\ InsideCopy(p)
            /\ fate'[p] = "interrupted" /\ fate[p] = "running"
      /\ fate'[p] \notin {"running", "interrupted"} => Goto(p, "dead")
  BY <1>5 DEF Fates
<1>7. ProcessTypes'
  <2>1. ObserverTypeOK'
    BY <1>2 DEF ObserverTypeOK, observerVars
  <2>2. QED
    BY <1>1, <1>2, <1>3, <1>4, <1>6, <2>1
<1>8. CountsAreTrue' /\ DeadInv'
  <2>1. CASE p = Reader
    <3>1. wpc' = wpc /\ processCount'[Writer] = processCount[Writer] /\ fate'[Writer] = fate[Writer]
      BY <1>1, <1>4, <1>6, <2>1
    <3>2. Alive(Reader)' => processCount' = processCount /\ rpc' = "leave" /\ fate[Reader] = "running"
            /\ rpc \notin {"unlink", "exited", "dead"}
      BY <1>4, <1>6, <2>1 DEF Alive, Goto, InsideCopy
    <3>3. ~Alive(Reader)' => rpc' = "dead"
      BY <1>6, <2>1 DEF Alive, Goto
    <3>4. QED
      BY <1>2, <1>6, <3>1, <3>2, <3>3 DEF CountsAreTrue, DeadInv, Alive
  <2>2. CASE p = Writer
    <3>1. rpc' = rpc /\ processCount'[Reader] = processCount[Reader] /\ fate'[Reader] = fate[Reader]
      BY <1>1, <1>4, <1>6, <2>2
    <3>2. Alive(Writer)' => processCount' = processCount /\ wpc' = "leave" /\ fate[Writer] = "running"
            /\ wpc \notin {"none", "register", "unlink", "flush", "exit", "exited", "dead"}
      BY <1>4, <1>6, <2>2 DEF Alive, Goto, InsideCopy
    <3>3. ~Alive(Writer)' => wpc' = "dead"
      BY <1>6, <2>2 DEF Alive, Goto
    <3>4. QED
      BY <1>2, <1>6, <3>1, <3>2, <3>3 DEF CountsAreTrue, DeadInv, Alive
  <2>3. QED
    BY <2>1, <2>2
<1>9. StartedInv' /\ ObserverGone'
  BY <1>1, <1>2, <1>6 DEF StartedInv, ObserverGone, observerVars
<1>10. QED
  BY <1>7, <1>8, <1>9

\* A step of a process's own observer: it starts, polls, returns or is joined.
LEMMA ObserverFrame ==
  ASSUME ProcessInv, ObserverTypeOK', UNCHANGED ipcVars,
         observer[Writer] = "ended" => observer'[Writer] = "ended",
         rpc' = rpc \/ <<rpc, rpc'>> \in {<<"open", "getFree">>, <<"join", "leave">>},
         wpc' = wpc \/ <<wpc, wpc'>> \in {<<"observe", "check">>, <<"done", "leave">>}
  PROVE  ProcessInv'
<1> USE DEF ProcessInv, ProcessTypes, CountsAreTrue, DeadInv, Alive, StartedInv, ObserverGone
<1>1. UNCHANGED <<processCount, isWritingStarted, procInfoMutex, linked, fate, abandoned>>
  BY DEF ipcVars
<1>2. rpc' \in IPCReaderStates /\ wpc' \in IPCWriterStates
  BY DEF IPCReaderStates, ReaderStates, IPCWriterStates, WriterStates
<1>3. ProcessTypes'
  BY <1>1, <1>2
<1>4. CountsAreTrue' /\ DeadInv' /\ ObserverGone'
  BY <1>1
<1>5. StartedInv'
  BY <1>1
<1>6. QED
  BY <1>3, <1>4, <1>5

LEMMA LeavingProcess ==
  ASSUME ProcessInv, NEW p \in Threads, Leaves(p) \/ Unlinks(p) PROVE ProcessInv'
<1> USE TwoProcesses DEF ProcessInv, ProcessTypes
<1>1. CASE Leaves(p)
  <2>1. /\ UNCHANGED <<observerVars, isWritingStarted, procInfoMutex, linked, fate, abandoned>>
        /\ processCount' = [processCount EXCEPT ![p] = @ - 1]
        /\ At(p, "leave") /\ Goto(p, "unlink")
    BY <1>1 DEF Leaves
  <2>2. processCount[p] = 1
    BY <2>1 DEF At, CountsAreTrue, DeadInv
  <2>3. processCount' \in [Threads -> 0..1] /\ processCount'[p] = 0
        /\ \A q \in Threads \ {p} : processCount'[q] = processCount[q]
    BY <2>1, <2>2
  <2>4. \/ p = Reader /\ rpc = "leave" /\ rpc' = "unlink" /\ wpc' = wpc
        \/ p = Writer /\ wpc = "leave" /\ wpc' = "unlink" /\ rpc' = rpc
    BY <2>1 DEF At, Goto
  <2>5. ObserverTypeOK' /\ observer' = observer
    BY <2>1 DEF ObserverTypeOK, observerVars
  <2>6. ProcessTypes'
    BY <2>1, <2>3, <2>4, <2>5 DEF IPCReaderStates, IPCWriterStates
  <2>7. CountsAreTrue'
    BY <2>1, <2>3, <2>4 DEF CountsAreTrue, Alive
  <2>8. DeadInv' /\ StartedInv' /\ ObserverGone'
    BY <2>1, <2>4, <2>5 DEF DeadInv, Alive, StartedInv, ObserverGone
  <2>9. QED
    BY <2>6, <2>7, <2>8
<1>2. CASE Unlinks(p)
  <2>1. /\ UNCHANGED <<processCount, isWritingStarted, fate, abandoned>>
        /\ linked' \in BOOLEAN
        /\ procInfoMutex' \in {procInfoMutex, p}
        /\ observer' = [observer EXCEPT ![p] = "ended"] /\ stopwatch' = stopwatch
    BY <1>2 DEF Unlinks, StopObserver, LosesObserver
  <2>2. \/ p = Reader /\ rpc = "unlink" /\ rpc' = "exited" /\ wpc' = wpc
        \/ p = Writer /\ wpc = "unlink" /\ wpc' = "flush" /\ rpc' = rpc
    BY <1>2 DEF Unlinks, At, Goto
  <2>3. /\ ObserverTypeOK'
        /\ p = Writer => observer'[Writer] = "ended"
        /\ observer[Writer] = "ended" => observer'[Writer] = "ended"
    BY <2>1 DEF ObserverTypeOK, ObserverStates
  <2>4. ProcessTypes'
    BY <2>1, <2>2, <2>3 DEF IPCReaderStates, ReaderStates, IPCWriterStates
  <2>5. CountsAreTrue' /\ DeadInv' /\ StartedInv'
    BY <2>1, <2>2 DEF CountsAreTrue, DeadInv, Alive, StartedInv
  <2>6. ObserverGone'
    BY <2>2, <2>3 DEF ObserverGone
  <2>7. QED
    BY <2>4, <2>5, <2>6
<1>3. QED
  BY <1>1, <1>2

LEMMA ProcessStep ==
  ASSUME ProcessInv, [IPCNext]_allVars PROVE ProcessInv'
<1> USE TwoProcesses
<1>1. ObserverTypeOK
  BY DEF ProcessInv, ProcessTypes
<1>2. CASE ReaderOpens
  <2>1. /\ rpc = "open" /\ rpc' = "getFree" /\ UNCHANGED <<wpc, ipcVars>>
        /\ StartObserver(Reader)
    BY <1>2 DEF ReaderOpens
  <2>2. ObserverTypeOK' /\ observer'[Writer] = observer[Writer]
    BY <1>1, <2>1 DEF StartObserver, ObserverTypeOK, ObserverStates
  <2>3. QED
    BY <2>1, <2>2, ObserverFrame
<1>3. CASE ReaderReads
  BY <1>3, ReadMoves, ProcessFrame DEF ipcVars
<1>4. CASE WriterWrites
  BY <1>4, WriteMoves, ProcessFrame DEF ipcVars
<1>5. CASE ReaderCloses
  BY <1>5, ProcessFrame DEF ReaderCloses, ipcVars
<1>6. ASSUME NEW p \in Threads, WakesProcess(p) PROVE ProcessInv'
  BY <1>6, ProcessFrame DEF WakesProcess, ipcVars
<1>7. ASSUME NEW p \in Threads, Cut(p) PROVE ProcessInv'
  BY <1>7, CutProcess
<1>8. CASE ReaderAwaits \/ WriterComes \/ WriterCreates \/ WriterSignals \/ WriterChecks
           \/ WriterFlushes \/ WriterExits
  BY <1>8, ProcessFrame DEF ReaderAwaits, WriterComes, WriterCreates, WriterSignals, WriterChecks,
     WriterFlushes, WriterExits, ipcVars
<1>9. CASE UNCHANGED allVars
  BY <1>9, ProcessFrame DEF allVars, vars, ipcVars
<1>10. CASE WriterRegisters
  <2>1. /\ UNCHANGED <<rpc, observerVars, isWritingStarted, procInfoMutex, linked, fate, abandoned>>
        /\ processCount' = [processCount EXCEPT ![Writer] = @ + 1]
        /\ wpc = "register" /\ wpc' = "create"
    BY <1>10 DEF WriterRegisters
  <2>2. processCount[Writer] = 0 /\ processCount \in [Threads -> 0..1]
    BY <2>1 DEF ProcessInv, ProcessTypes, CountsAreTrue, DeadInv
  <2>3. processCount' \in [Threads -> 0..1] /\ processCount'[Writer] = 1
        /\ processCount'[Reader] = processCount[Reader]
    BY <2>1, <2>2
  <2>4. ObserverTypeOK'
    BY <1>1, <2>1 DEF ObserverTypeOK, observerVars
  <2>5. ProcessTypes'
    BY <2>1, <2>3, <2>4 DEF ProcessInv, ProcessTypes, IPCWriterStates
  <2>6. CountsAreTrue' /\ DeadInv' /\ StartedInv' /\ ObserverGone'
    BY <2>1, <2>3 DEF ProcessInv, CountsAreTrue, DeadInv, Alive, StartedInv, ObserverGone
  <2>7. QED
    BY <2>5, <2>6 DEF ProcessInv
<1>11. CASE WriterObserves
  <2>1. /\ wpc = "observe" /\ wpc' = "check" /\ UNCHANGED <<rpc, ipcVars>>
        /\ UNCHANGED observerVars \/ StartObserver(Writer)
    BY <1>11 DEF WriterObserves
  <2>2. ObserverTypeOK' /\ (observer[Writer] = "ended" => observer'[Writer] = "ended")
    BY <1>1, <2>1 DEF StartObserver, ObserverTypeOK, ObserverStates, observerVars
  <2>3. QED
    BY <2>1, <2>2, ObserverFrame
<1>12. ASSUME NEW p \in Threads, JoinsObserver(p) PROVE ProcessInv'
  <2>1. /\ StopObserver(p) /\ UNCHANGED ipcVars
        /\ \/ rpc = "join" /\ rpc' = "leave" /\ wpc' = wpc
           \/ wpc = "done" /\ wpc' = "leave" /\ rpc' = rpc
    BY <1>12 DEF JoinsObserver, Joins, At, Goto
  <2>2. ObserverTypeOK' /\ (observer[Writer] = "ended" => observer'[Writer] = "ended")
    BY <1>1, <2>1 DEF StopObserver, ObserverTypeOK, ObserverStates
  <2>3. QED
    BY <2>1, <2>2, ObserverFrame
<1>13. ASSUME NEW p \in Threads, ObserverPolls(p) PROVE ProcessInv'
  <2>1. Poll(p, processCount[Sibling(p)]) /\ UNCHANGED <<rpc, wpc, ipcVars>>
    BY <1>13 DEF ObserverPolls, vars
  <2>2. ObserverTypeOK' /\ (observer[Writer] = "ended" => observer'[Writer] = "ended")
    BY <1>1, <2>1, PollTypes
  <2>3. QED
    BY <2>1, <2>2, ObserverFrame
<1>14. CASE TimeoutReturns
  <2>1. ObserverReturns(Writer) /\ UNCHANGED <<rpc, wpc, ipcVars>>
    BY <1>14 DEF TimeoutReturns, vars
  <2>2. ObserverTypeOK' /\ (observer[Writer] = "ended" => observer'[Writer] = "ended")
    BY <1>1, <2>1 DEF ObserverReturns, ObserverTypeOK, ObserverStates
  <2>3. QED
    BY <2>1, <2>2, ObserverFrame
<1>15. ASSUME NEW p \in Threads, Leaves(p) \/ Unlinks(p) PROVE ProcessInv'
  BY <1>15, LeavingProcess
<1>16. QED
  BY <1>2, <1>3, <1>4, <1>5, <1>6, <1>7, <1>8, <1>9, <1>10, <1>11, <1>12, <1>13, <1>14, <1>15,
     IPCSteps DEF Quiet

LEMMA ProcessInvariant == IPCSpec => []ProcessInv
BY ProcessInit, ProcessStep, PTL DEF IPCSpec

\* Whatever is killed, interrupted or given up, and whenever: as long as a
\* process is not dead it is counted exactly between its registration and its
\* leaving, so what observers and newcomers read of it is the truth.
THEOREM CountsStayTrue == IPCSpec => []CountsAreTrue
<1>1. ProcessInv => CountsAreTrue
  BY DEF ProcessInv
<1>2. QED
  BY <1>1, ProcessInvariant, PTL

\* A reader that leaves by itself leaves a writer that has truncated the
\* destination and said so, however the two processes are scheduled.
THEOREM WriterIsThere == IPCSpec => []ReaderLeavesAWriter
<1>1. ProcessInv => ReaderLeavesAWriter
  BY DEF ProcessInv, StartedInv, ReaderLeavesAWriter
<1>2. QED
  BY <1>1, ProcessInvariant, PTL

-----------------------------------------------------------------------------
(* The pool and the calls of the queue *)

\* Being cut short is not a step of the queue, but it moves no buffer: the one
\* the process had stays its own.
LEMMA PoolStep ==
  ASSUME ConservationInv, [IPCNext]_allVars PROVE ConservationInv'
<1> USE TwoProcesses
<1>1. CASE ReaderOpens \/ ReaderReads \/ ReaderCloses \/ WriterWrites
  BY <1>1, ConservationStep DEF ReaderOpens, ReaderReads, ReadWaits, ReadTakes, ReadFills,
     ReadFinishes, ReadReturns, ReadNotifies, ReaderCloses, WriterWrites, WritingTestsEmpty,
     WriteWaits, WriteTakes, WriteFwrites, WriteReturns, WriteNotifies, QueueNext
<1>2. CASE Quiet
  BY <1>2, QuietMoves, ConservationStep
<1>3. ASSUME NEW p \in Threads, WakesProcess(p) PROVE ConservationInv'
  BY <1>3, ConservationStep DEF WakesProcess, QueueNext
<1>4. ASSUME NEW p \in Threads, Cut(p) PROVE ConservationInv'
  <2>1. /\ UNCHANGED <<readBuffers, writeBuffers, isOpen, isReadFinished_, bufferType, held, qpc>>
        /\ queueMutex' \in {queueMutex, p}
        /\ waiting' \subseteq waiting
    BY <1>4, CutMoves
  <2>2. QED
    BY <2>1 DEF ConservationInv, QueueTypeOK, CallsHoldNothing, BuffersConserved, NoBufferTwice,
       NoBufferLost
<1>5. QED
  BY <1>1, <1>2, <1>3, <1>4, IPCSteps

\* Where each process may stand in a call of the queue.  A process that was cut
\* short stands for ever where it stood.
IPCReaderCalls ==
  /\ rpc # "noBuffer" /\ qpc[Reader] # "undefined"
  /\ rpc = "getFree" => qpc[Reader] \in {"idle", "getFree", "takeFree"}
  /\ rpc = "return" => qpc[Reader] \in {"idle", "notify"}
  /\ rpc \in {"open", "fill", "finishRead", "close"} => qpc[Reader] = "idle"

IPCWriterCalls ==
  /\ wpc = "getFilled" => qpc[Writer] \in {"idle", "getFilled", "takeFilled", "undefined"}
  /\ wpc = "return" => qpc[Writer] \in {"idle", "notify"}
  /\ wpc \in {"none", "fwrite"} => qpc[Writer] = "idle"
  /\ wpc \in {"register", "create", "signal", "observe", "check", "isEmpty"} =>
       qpc[Writer] \in {"idle", "undefined"}

\* Only a writer that comes before the queue is open can be given the front of
\* an empty deque.
WriterFinds ==
  /\ rpc = "open" => wpc \in {"none", "dead"} /\ qpc[Writer] = "idle"
  /\ qpc[Writer] = "takeFilled" => writeBuffers # <<>> \/ ~isOpen
  /\ qpc[Writer] # "undefined"

\* The inductive invariant.
IPCCallsInv ==
  /\ IPCReaderCalls
  /\ IPCWriterCalls
  /\ rpc \in OpenStates => isOpen
  /\ TakersOwnMutex
  /\ rpc = "getFree" /\ qpc[Reader] = "takeFree" => readBuffers # <<>>
  /\ ~EarlyWriter => WriterFinds

LEMMA CallsInit == IPCInit => IPCCallsInv
<1> SUFFICES ASSUME IPCInit
             PROVE  IPCCallsInv
  OBVIOUS
<1>1. /\ \A t \in Threads : qpc[t] = "idle"
      /\ rpc = "open" /\ wpc = "none"
  BY DEF IPCInit, Init, QueueInit
<1>2. QED
  BY <1>1, TwoProcesses DEF IPCCallsInv, IPCReaderCalls, IPCWriterCalls, OpenStates,
     TakersOwnMutex, WriterFinds

\* A step that leaves both processes where they stand in their calls.
LEMMA CallsFrame ==
  ASSUME IPCCallsInv, UNCHANGED <<isOpen, qpc>>,
         queueMutex' = queueMutex \/ queueMutex = NoThread,
         writeBuffers' = writeBuffers \/ writeBuffers' # <<>>,
         readBuffers' = readBuffers \/ readBuffers' # <<>>,
         \/ rpc' = rpc
         \/ rpc' \in {"await", "join", "leave", "unlink", "exited", "dead"}
         \/ <<rpc, rpc'>> \in {<<"fill", "finishRead">>, <<"fill", "return">>,
                               <<"finishRead", "return">>},
         \/ wpc' = wpc
         \/ wpc = "none" /\ wpc' = "register" /\ (EarlyWriter \/ rpc # "open")
         \/ wpc' \in {"done", "leave", "unlink", "flush", "exit", "exited"} /\ wpc # "none"
              /\ wpc # "dead"
         \/ wpc' = "dead"
         \/ <<wpc, wpc'>> \in {<<"register", "create">>, <<"create", "signal">>,
              <<"signal", "observe">>, <<"observe", "check">>, <<"check", "getFilled">>,
              <<"check", "isEmpty">>, <<"isEmpty", "getFilled">>, <<"fwrite", "return">>}
  PROVE  IPCCallsInv'
<1> USE DEF IPCCallsInv
<1>1. IPCReaderCalls'
  BY DEF IPCReaderCalls
<1>2. IPCWriterCalls'
  BY DEF IPCWriterCalls
<1>3. (~EarlyWriter => WriterFinds)'
  BY DEF WriterFinds
<1>4. TakersOwnMutex'
  BY TwoProcesses DEF TakersOwnMutex
<1>5. rpc' \in OpenStates => isOpen'
  BY DEF OpenStates
<1>6. rpc' = "getFree" /\ qpc'[Reader] = "takeFree" => readBuffers' # <<>>
  OBVIOUS
<1>7. QED
  BY <1>1, <1>2, <1>3, <1>4, <1>5, <1>6

LEMMA ReaderCallsStep ==
  ASSUME ConservationInv, IPCCallsInv, ReaderOpens \/ ReaderReads \/ ReaderCloses
  PROVE  IPCCallsInv'
<1> USE TwoProcesses DEF IPCCallsInv
<1>1. /\ qpc \in [Threads -> CallStates]
      /\ isOpen \in BOOLEAN
      /\ held \in [Threads -> Buffers \cup {NoBuffer}]
      /\ readBuffers \in Seq(Buffers) /\ writeBuffers \in Seq(Buffers)
      /\ bufferType \in [Buffers -> {"READ", "WRITE"}]
      /\ CallsHoldNothing
  BY DEF ConservationInv, QueueTypeOK
<1> USE DEF IPCReaderCalls, IPCWriterCalls, WriterFinds, OpenStates, TakersOwnMutex
<1>2. CASE ReaderOpens
  BY <1>1, <1>2 DEF ReaderOpens, Open, SetOpen
<1>3. CASE ReadWaits
  BY <1>1, <1>3 DEF ReadWaits, WaitFree, WaitUntil, CanGetFree
<1>4. CASE ReadTakes
  <2>1. readBuffers # <<>>
    BY <1>4 DEF ReadTakes, TakeFree
  <2>2. held'[Reader] \in Buffers
    BY <1>4, <2>1, TakeGives DEF ReadTakes, ConservationInv
  <2>3. rpc' = "fill" /\ wpc' = wpc /\ isOpen' = isOpen /\ writeBuffers' = writeBuffers
    BY <1>4, <2>1, <2>2 DEF ReadTakes, TakeFree, Give, Buffers, NoBuffer
  <2>4. qpc' = [qpc EXCEPT ![Reader] = "idle"] /\ queueMutex = Reader
    BY <1>1, <1>4, <2>1 DEF ReadTakes, TakeFree, Give
  <2>5. QED
    BY <1>1, <1>4, <2>3, <2>4 DEF ReadTakes
<1>5. CASE ReadFills
  <2>1. UNCHANGED <<queueVars, wpc>>
        /\ <<rpc, rpc'>> \in {<<"fill", "finishRead">>, <<"fill", "return">>}
    BY <1>5 DEF ReadFills
  <2>2. QED
    BY <2>1, CallsFrame DEF queueVars
<1>6. CASE ReadFinishes
  BY <1>6, CallsFrame DEF ReadFinishes, FinishRead
<1>7. CASE ReadReturns
  <2>1. /\ UNCHANGED <<rpc, wpc, isOpen, queueMutex>> /\ rpc = "return" /\ queueMutex = NoThread
        /\ qpc' = [qpc EXCEPT ![Reader] = "notify"]
        /\ writeBuffers' = writeBuffers \/ writeBuffers' = Append(writeBuffers, held[Reader])
    BY <1>7 DEF ReadReturns, ReturnBuffer
  <2>2. writeBuffers # <<>> => writeBuffers' # <<>>
    BY <1>1, <1>7, <2>1 DEF ReadReturns, ReturnBuffer
  <2>3. QED
    BY <1>1, <2>1, <2>2
<1>8. CASE ReadNotifies
  BY <1>1, <1>8 DEF ReadNotifies, NotifyAll
<1>9. CASE ReaderCloses
  BY <1>1, <1>9 DEF ReaderCloses, Close, SetOpen
<1>10. QED
  BY <1>2, <1>3, <1>4, <1>5, <1>6, <1>7, <1>8, <1>9 DEF ReaderReads

LEMMA WriterCallsStep ==
  ASSUME ConservationInv, IPCCallsInv, WriterWrites PROVE IPCCallsInv'
<1> USE TwoProcesses DEF IPCCallsInv
<1>1. /\ qpc \in [Threads -> CallStates]
      /\ isOpen \in BOOLEAN
      /\ held \in [Threads -> Buffers \cup {NoBuffer}]
      /\ readBuffers \in Seq(Buffers) /\ writeBuffers \in Seq(Buffers)
      /\ bufferType \in [Buffers -> {"READ", "WRITE"}]
      /\ CallsHoldNothing
  BY DEF ConservationInv, QueueTypeOK
<1> USE DEF IPCReaderCalls, IPCWriterCalls, WriterFinds, OpenStates, TakersOwnMutex
<1>2. CASE WritingTestsEmpty \/ WriteFwrites
  <2>1. UNCHANGED <<queueVars, rpc>>
        /\ <<wpc, wpc'>> \in {<<"isEmpty", "done">>, <<"isEmpty", "getFilled">>,
                              <<"fwrite", "return">>}
    BY <1>2 DEF WritingTestsEmpty, WriteFwrites
  <2>2. QED
    BY <2>1, CallsFrame DEF queueVars
<1>3. CASE WriteWaits
  <2>1. /\ UNCHANGED <<rpc, wpc, isOpen, readBuffers, writeBuffers>> /\ wpc = "getFilled"
        /\ queueMutex = NoThread
        /\ \/ CanGetFilled /\ queueMutex' = Writer /\ qpc' = [qpc EXCEPT ![Writer] = "takeFilled"]
           \/ queueMutex' = NoThread /\ qpc' = [qpc EXCEPT ![Writer] = "getFilled"]
        /\ qpc[Writer] # "undefined"
    BY <1>3 DEF WriteWaits, WaitFilled, WaitUntil
  <2>2. /\ qpc'[Reader] = qpc[Reader] /\ qpc'[Writer] \in {"takeFilled", "getFilled"}
        /\ qpc'[Writer] = "takeFilled" => CanGetFilled /\ queueMutex' = Writer
    BY <1>1, <2>1
  <2>3. TakersOwnMutex'
    BY <1>1, <2>1, <2>2
  <2>4. (~EarlyWriter => WriterFinds)'
    BY <2>1, <2>2 DEF CanGetFilled
  <2>5. QED
    BY <2>1, <2>2, <2>3, <2>4
<1>4. CASE WriteTakes
  <2>1. /\ UNCHANGED <<rpc, isOpen, readBuffers>> /\ wpc = "getFilled" /\ wpc' \in {"check", "fwrite"}
        /\ qpc[Writer] = "takeFilled" /\ queueMutex' = NoThread
    BY <1>4 DEF WriteTakes, TakeFilled, GiveNothing
  <2>2. /\ qpc'[Reader] = qpc[Reader]
        /\ qpc'[Writer] = "idle" \/ (qpc'[Writer] = "undefined" /\ writeBuffers = <<>> /\ isOpen)
    BY <1>1, <1>4 DEF WriteTakes, TakeFilled, GiveNothing, Give
  <2>3. qpc'[Writer] = "undefined" => wpc' = "check"
    <3>1. writeBuffers = <<>> => held'[Writer] = NoBuffer
      BY <1>1, <1>4 DEF WriteTakes, TakeFilled, GiveNothing, CallsHoldNothing
    <3>2. QED
      BY <1>4, <2>2, <3>1 DEF WriteTakes
  <2>4. TakersOwnMutex'
    <3>1. qpc[Reader] # "takeFree" /\ qpc[Reader] # "takeFilled"
      BY <2>1
    <3>2. QED
      BY <2>2, <3>1
  <2>5. (~EarlyWriter => WriterFinds)'
    BY <2>1, <2>2
  <2>6. QED
    BY <2>1, <2>2, <2>3, <2>4, <2>5
<1>5. CASE WriteReturns
  <2>1. /\ UNCHANGED <<rpc, wpc, isOpen, queueMutex>> /\ wpc = "return" /\ queueMutex = NoThread
        /\ qpc' = [qpc EXCEPT ![Writer] = "notify"]
    BY <1>5 DEF WriteReturns, ReturnBuffer
  <2>2. qpc[Reader] # "takeFree"
    BY <2>1
  <2>3. QED
    BY <1>1, <2>1, <2>2
<1>6. CASE WriteNotifies
  BY <1>1, <1>6 DEF WriteNotifies, NotifyAll
<1>7. QED
  BY <1>2, <1>3, <1>4, <1>5, <1>6 DEF WriterWrites

LEMMA CallsStep ==
  ASSUME ConservationInv, IPCCallsInv, [IPCNext]_allVars PROVE IPCCallsInv'
<1>1. CASE Quiet
  <2>1. /\ UNCHANGED queueVars
        /\ rpc' = rpc \/ rpc' \in {"join", "leave", "unlink", "exited"}
        /\ \/ wpc' = wpc
           \/ wpc = "none" /\ wpc' = "register" /\ (EarlyWriter \/ rpc # "open")
           \/ wpc' \in {"done", "leave", "unlink", "flush", "exit", "exited"} /\ wpc # "none"
                /\ wpc # "dead"
           \/ <<wpc, wpc'>> \in {<<"register", "create">>, <<"create", "signal">>,
                <<"signal", "observe">>, <<"observe", "check">>, <<"check", "getFilled">>,
                <<"check", "isEmpty">>}
    BY <1>1, QuietMoves
  <2>2. QED
    BY <2>1, CallsFrame DEF queueVars
<1>2. ASSUME NEW p \in Threads, WakesProcess(p) PROVE IPCCallsInv'
  BY <1>2, CallsFrame DEF WakesProcess, SpuriousWakeup
<1>3. ASSUME NEW p \in Threads, Cut(p) PROVE IPCCallsInv'
  <2>1. /\ UNCHANGED <<readBuffers, writeBuffers, isOpen, qpc>>
        /\ queueMutex' = queueMutex \/ queueMutex = NoThread
        /\ p = Reader => rpc' \in {"leave", "dead"} /\ wpc' = wpc
        /\ p = Writer => wpc' \in {"leave", "dead"} /\ rpc' = rpc
    BY <1>3, CutMoves
  <2>2. p = Writer /\ wpc' = "leave" => wpc # "none" /\ wpc # "dead"
    BY <1>3, TwoProcesses DEF Cut, Interrupt, InsideCopy, Kill, TimeoutTerminates, Goto
  <2>3. p = Reader \/ p = Writer
    BY TwoProcesses
  <2>4. CASE p = Reader
    BY <2>1, <2>4, CallsFrame
  <2>5. CASE p = Writer
    BY <2>1, <2>2, <2>5, CallsFrame
  <2>6. QED
    BY <2>3, <2>4, <2>5
<1>4. QED
  BY <1>1, <1>2, <1>3, ReaderCallsStep, WriterCallsStep, IPCSteps

LEMMA PoolAndCalls == IPCSpec => [](ConservationInv /\ IPCCallsInv)
<1>1. IPCInit => ConservationInv
  BY ConservationInit DEF IPCInit, Init
<1>2. QED
  BY <1>1, CallsInit, PoolStep, CallsStep, PTL DEF IPCSpec

\* Unless the writer comes before the reader has opened the queue, every call
\* of the queue succeeds, also next to a process that is cut short in a call.
THEOREM IPCCallsSucceed == ~EarlyWriter /\ IPCSpec => []CallsSucceed
<1>1. ~EarlyWriter /\ IPCCallsInv => CallsSucceed
  BY TwoProcesses DEF IPCCallsInv, IPCReaderCalls, WriterFinds, CallsSucceed
<1>2. (~EarlyWriter) => [](~EarlyWriter)
  OBVIOUS
<1>3. QED
  BY <1>1, <1>2, PoolAndCalls, PTL

-----------------------------------------------------------------------------
(* The data, and whose buffers they are in *)

\* What the reader does to the stream, and what the queue is told of it.
ReadingInv ==
  /\ OffsetsInv
  /\ rpc = "finishRead" => readFinished
  /\ isReadFinished_ => readFinished

\* As in BPCopyTool, a process that fills, writes or returns has a buffer of
\* its type; here a process that was cut short may have one, too.
ReaderHas ==
  rpc \in {"fill", "finishRead"} \/ (rpc = "return" /\ qpc[Reader] = "idle") =>
    held[Reader] \in Buffers /\ bufferType[held[Reader]] = "READ"

WriterHas ==
  wpc = "fwrite" \/ (wpc = "return" /\ qpc[Writer] = "idle") =>
    held[Writer] \in Buffers /\ bufferType[held[Writer]] = "WRITE"

\* The destination is empty before the writer has created it, and all of dst is
\* in it once the writer has destroyed its BufferedFileWriter.
WrittenInv ==
  /\ DstInv
  /\ wpc \in {"none", "register", "create"} => dst = <<>> /\ flushed = 0
  /\ wpc \in {"exit", "exited"} => flushed = Len(dst)

\* The inductive invariant, next to the pool's and the calls'.
DataInv == ReadingInv /\ ReaderHas /\ WriterHas /\ WrittenInv

LEMMA DataInit == IPCInit => DataInv
<1> SUFFICES ASSUME IPCInit
             PROVE  DataInv
  OBVIOUS
<1>1. Init
  BY DEF IPCInit
<1>2. OffsetsInv
  BY <1>1, ReadInit DEF ReadInv, StreamInv
<1>3. DstInv
  BY <1>1, DstInit
<1>4. rpc = "open" /\ wpc = "none" /\ isReadFinished_ = FALSE /\ dst = <<>> /\ flushed = 0
  BY <1>1 DEF Init, QueueInit
<1>5. QED
  BY <1>2, <1>3, <1>4 DEF DataInv, ReadingInv, ReaderHas, WriterHas, WrittenInv

LEMMA ReadingStep ==
  ASSUME ReadingInv, [IPCNext]_allVars PROVE ReadingInv'
<1> USE TwoProcesses DEF ReadingInv
\* A step that only moves the reader's program counter, and not back.
<1>1. ASSUME UNCHANGED <<readerVars, isReadFinished_>>,
             rpc' \in {"open", "getFree", "fill"} => ~readFinished,
             rpc' = "finishRead" => rpc = "finishRead"
      PROVE  ReadingInv'
  BY <1>1 DEF OffsetsInv, readerVars
<1>2. CASE ReadFills
  <2>1. OffsetsInv'
    BY <1>2, FillsInv
  <2>2. isReadFinished_' = isReadFinished_
        /\ ((readFinished' = readFinished /\ rpc' = "return") \/ readFinished' = TRUE)
    BY <1>2 DEF ReadFills, queueVars
  <2>3. QED
    BY <2>1, <2>2
<1>3. CASE ReadFinishes
  BY <1>3 DEF ReadFinishes, FinishRead, OffsetsInv, readerVars
<1>4. CASE ReadWaits \/ ReadTakes \/ ReadReturns \/ ReadNotifies
  <2>1. /\ UNCHANGED <<readerVars, isReadFinished_>>
        /\ \/ rpc = "getFree" /\ rpc' \in {"getFree", "noBuffer", "fill"}
           \/ rpc' = rpc
           \/ rpc' = IF readFinished THEN "close" ELSE "getFree"
    BY <1>4 DEF ReadWaits, WaitFree, WaitUntil, ReadTakes, TakeFree, ReadReturns, ReturnBuffer,
       ReadNotifies, NotifyAll
  <2>2. rpc' \in {"open", "getFree", "fill"} => ~readFinished
    BY <2>1 DEF OffsetsInv
  <2>3. QED
    BY <1>1, <2>1, <2>2
<1>5. CASE ReaderOpens \/ ReaderCloses
  BY <1>1, <1>5 DEF ReaderOpens, Open, ReaderCloses, Close, SetOpen, OffsetsInv
<1>6. CASE WriterWrites
  BY <1>1, <1>6, WriteMoves DEF OffsetsInv
<1>7. CASE Quiet
  BY <1>1, <1>7, QuietMoves DEF OffsetsInv, queueVars
<1>8. ASSUME NEW p \in Threads, WakesProcess(p) PROVE ReadingInv'
  BY <1>1, <1>8 DEF WakesProcess, SpuriousWakeup, OffsetsInv
<1>9. ASSUME NEW p \in Threads, Cut(p) PROVE ReadingInv'
  <2>1. UNCHANGED <<readerVars, isReadFinished_>> /\ (rpc' = rpc \/ rpc' \in {"leave", "dead"})
    BY <1>9, CutMoves
  <2>2. QED
    BY <1>1, <2>1 DEF OffsetsInv
<1>10. QED
  BY <1>2, <1>3, <1>4, <1>5, <1>6, <1>7, <1>8, <1>9, IPCSteps DEF ReaderReads

\* A step that moves no buffer, and takes neither process to where it needs
\* one without having had one before.
LEMMA HandsFrame ==
  ASSUME ReaderHas, WriterHas, UNCHANGED <<held, bufferType, qpc>>,
         \/ rpc' = rpc
         \/ rpc' \notin {"fill", "finishRead", "return"}
         \/ rpc \in {"fill", "finishRead"},
         \/ wpc' = wpc
         \/ wpc' \notin {"fwrite", "return"}
         \/ wpc = "fwrite"
  PROVE  ReaderHas' /\ WriterHas'
BY DEF ReaderHas, WriterHas

LEMMA HandsStep ==
  ASSUME ConservationInv, IPCCallsInv, ReaderHas, WriterHas, [IPCNext]_allVars
  PROVE  ReaderHas' /\ WriterHas'
<1> USE TwoProcesses
<1>1. /\ QueueTypeOK /\ CallsHoldNothing
      /\ qpc \in [Threads -> CallStates]
      /\ NoBuffer \notin Buffers
  BY DEF ConservationInv, QueueTypeOK, NoBuffer, Buffers
<1>2. CASE Quiet
  BY <1>2, QuietMoves, HandsFrame DEF queueVars
<1>3. ASSUME NEW p \in Threads, WakesProcess(p) PROVE ReaderHas' /\ WriterHas'
  BY <1>3, HandsFrame DEF WakesProcess, SpuriousWakeup
<1>4. ASSUME NEW p \in Threads, Cut(p) PROVE ReaderHas' /\ WriterHas'
  <2>1. /\ UNCHANGED <<held, bufferType, qpc>>
        /\ rpc' = rpc \/ rpc' \in {"leave", "dead"}
        /\ wpc' = wpc \/ wpc' \in {"leave", "dead"}
    BY <1>4, CutMoves
  <2>2. QED
    BY <2>1, HandsFrame
<1>5. CASE \/ ReaderOpens
           \/ ReaderCloses
           \/ ReadFills
           \/ ReadFinishes
           \/ WritingTestsEmpty
           \/ WriteFwrites
  BY <1>5, HandsFrame DEF ReaderOpens, Open, ReaderCloses, Close, SetOpen, ReadFills, ReadFinishes,
     FinishRead, WritingTestsEmpty, WriteFwrites, queueVars
<1>6. CASE ReadWaits
  <2>1. /\ UNCHANGED <<rpc, wpc, held, bufferType>>
        /\ rpc = "getFree" /\ qpc'[Writer] = qpc[Writer]
    BY <1>1, <1>6 DEF ReadWaits, WaitFree, WaitUntil
  <2>2. QED
    BY <2>1 DEF ReaderHas, WriterHas
<1>7. CASE WriteWaits
  <2>1. /\ UNCHANGED <<rpc, wpc, held, bufferType>>
        /\ wpc = "getFilled" /\ qpc'[Reader] = qpc[Reader]
    BY <1>1, <1>7 DEF WriteWaits, WaitFilled, WaitUntil
  <2>2. QED
    BY <2>1 DEF ReaderHas, WriterHas
<1>8. CASE ReadTakes
  <2>1. /\ TakeFree(Reader) /\ readBuffers # <<>>
        /\ UNCHANGED wpc /\ rpc' \in {"noBuffer", "fill"}
    BY <1>8 DEF ReadTakes, TakeFree, IPCCallsInv
  <2>2. held'[Reader] \in Buffers /\ bufferType'[held'[Reader]] = "READ"
    BY <1>1, <2>1, TakeGives
  <2>3. held[Writer] \in Buffers =>
          held'[Writer] = held[Writer] /\ bufferType'[held[Writer]] = bufferType[held[Writer]]
    BY <2>1, BufferKept
  <2>4. qpc'[Writer] = qpc[Writer]
    BY <1>1, <2>1 DEF TakeFree, GiveNothing, Give
  <2>5. QED
    BY <2>1, <2>2, <2>3, <2>4 DEF ReaderHas, WriterHas
<1>9. CASE WriteTakes
  <2>1. TakeFilled(Writer) /\ rpc' = rpc /\ wpc' = IF held'[Writer] = NoBuffer THEN "check" ELSE "fwrite"
    BY <1>9 DEF WriteTakes
  <2>2. writeBuffers # <<>> => held'[Writer] \in Buffers /\ bufferType'[held'[Writer]] = "WRITE"
    BY <1>1, <2>1, TakeGives
  <2>3. writeBuffers = <<>> => held'[Writer] = NoBuffer
    BY <1>1, <2>1 DEF TakeFilled, GiveNothing, CallsHoldNothing
  <2>4. held[Reader] \in Buffers =>
          held'[Reader] = held[Reader] /\ bufferType'[held[Reader]] = bufferType[held[Reader]]
    BY <2>1, BufferKept
  <2>5. qpc'[Reader] = qpc[Reader]
    BY <1>1, <2>1 DEF TakeFilled, GiveNothing, Give
  <2>6. QED
    BY <2>1, <2>2, <2>3, <2>4, <2>5 DEF ReaderHas, WriterHas
<1>10. CASE ReadReturns
  <2>1. ReturnBuffer(Reader) /\ UNCHANGED <<rpc, wpc>> /\ rpc = "return"
    BY <1>10 DEF ReadReturns
  <2>2. qpc'[Reader] = "notify" /\ qpc'[Writer] = qpc[Writer]
    BY <1>1, <2>1 DEF ReturnBuffer
  <2>3. held[Writer] \in Buffers =>
          held'[Writer] = held[Writer] /\ bufferType'[held[Writer]] = bufferType[held[Writer]]
    BY <2>1, BufferKept
  <2>4. QED
    BY <2>1, <2>2, <2>3 DEF ReaderHas, WriterHas
<1>11. CASE WriteReturns
  <2>1. ReturnBuffer(Writer) /\ UNCHANGED <<rpc, wpc>> /\ wpc = "return"
    BY <1>11 DEF WriteReturns
  <2>2. qpc'[Writer] = "notify" /\ qpc'[Reader] = qpc[Reader]
    BY <1>1, <2>1 DEF ReturnBuffer
  <2>3. held[Reader] \in Buffers =>
          held'[Reader] = held[Reader] /\ bufferType'[held[Reader]] = bufferType[held[Reader]]
    BY <2>1, BufferKept
  <2>4. QED
    BY <2>1, <2>2, <2>3 DEF ReaderHas, WriterHas
<1>12. CASE ReadNotifies
  <2>1. /\ UNCHANGED <<wpc, held, bufferType>> /\ rpc' \in {"close", "getFree"}
        /\ qpc'[Writer] = qpc[Writer]
    BY <1>1, <1>12 DEF ReadNotifies, NotifyAll
  <2>2. QED
    BY <2>1 DEF ReaderHas, WriterHas
<1>13. CASE WriteNotifies
  <2>1. /\ UNCHANGED <<rpc, held, bufferType>> /\ wpc' = "check"
        /\ qpc'[Reader] = qpc[Reader]
    BY <1>1, <1>13 DEF WriteNotifies, NotifyAll
  <2>2. QED
    BY <2>1 DEF ReaderHas, WriterHas
<1>14. QED
  BY <1>2, <1>3, <1>4, <1>5, <1>6, <1>7, <1>8, <1>9, <1>10, <1>11, <1>12, <1>13, IPCSteps
     DEF ReaderReads, WriterWrites

\* Who writes to the destination.
LEMMA WhoWrites ==
  ASSUME [IPCNext]_allVars
  PROVE  \/ UNCHANGED writerVars
         \/ WriterCreates
         \/ WriteFwrites
         \/ WriterFlushes
         \/ TimeoutTerminates(Writer)
<1>1. CASE Quiet
  BY <1>1 DEF Quiet, ReaderAwaits, WriterComes, WriterRegisters, WriterSignals, WriterObserves,
     WriterChecks, WriterExits, JoinsObserver, Leaves, Unlinks, ObserverPolls, TimeoutReturns,
     allVars, vars
<1>2. ASSUME NEW p \in Threads, WakesProcess(p) PROVE UNCHANGED writerVars
  BY <1>2 DEF WakesProcess
<1>3. ASSUME NEW p \in Threads, Cut(p) PROVE UNCHANGED writerVars \/ TimeoutTerminates(Writer)
  BY <1>3, TwoProcesses DEF Cut, Interrupt, Kill, TimeoutTerminates, writerVars
<1>4. CASE ReaderOpens \/ ReaderReads \/ ReaderCloses
  BY <1>4, ReadMoves DEF ReaderOpens, ReaderCloses
<1>5. CASE WriterWrites
  BY <1>5 DEF WriterWrites, WritingTestsEmpty, WriteWaits, WriteTakes, WriteReturns, WriteNotifies
<1>6. QED
  BY <1>1, <1>2, <1>3, <1>4, <1>5, IPCSteps

LEMMA WrittenStep ==
  ASSUME DataInv, [IPCNext]_allVars PROVE WrittenInv' /\ flushed' >= flushed
<1> USE TwoProcesses
<1>1. /\ WrittenInv /\ DstInv /\ dst \in Seq(Nat) /\ flushed \in 0..Len(dst) /\ Len(dst) \in Nat
  BY DEF DataInv, WrittenInv, DstInv
<1>2. CASE UNCHANGED writerVars
  <2>1. dst' = dst /\ flushed' = flushed
    BY <1>2 DEF writerVars
  <2>2. wpc' \in {"none", "register", "create"} => wpc \in {"none", "register", "create"}
    BY IPCSteps, QuietMoves, CutMoves, ReadMoves, WriteMoves DEF ReaderOpens, ReaderCloses, WakesProcess
  <2>3. wpc' \in {"exit", "exited"} => wpc \in {"exit", "exited"} \/ WriterFlushes
    <3>1. Quiet => WriterFlushes \/ (wpc' \in {"exit", "exited"} => wpc \in {"exit", "exited"})
      BY DEF Quiet, ReaderAwaits, WriterComes, WriterRegisters, WriterCreates, WriterSignals,
         WriterObserves, WriterChecks, WriterExits, JoinsObserver, Joins, Leaves, Unlinks, At, Goto,
         ObserverPolls, TimeoutReturns, allVars, vars
    <3>2. QED
      BY <3>1, IPCSteps, CutMoves, ReadMoves, WriteMoves DEF ReaderOpens, ReaderCloses, WakesProcess
  <2>4. WriterFlushes => flushed' = Len(dst)
    BY DEF WriterFlushes
  <2>5. QED
    BY <1>1, <2>1, <2>2, <2>3, <2>4 DEF WrittenInv, DstInv
<1>3. CASE WriterCreates
  <2>1. wpc = "create" /\ wpc' = "signal" /\ dst' = <<>> /\ flushed' = 0
    BY <1>3 DEF WriterCreates
  <2>2. QED
    BY <1>1, <2>1 DEF WrittenInv, DstInv
<1>4. CASE WriteFwrites
  <2>1. wpc = "fwrite" /\ wpc' = "return"
    BY <1>4 DEF WriteFwrites
  <2>2. contents \in [Buffers -> ContentTypes] /\ held[Writer] \in Buffers
    BY <2>1 DEF DataInv, ReadingInv, OffsetsInv, WriterHas
  <2>3. DstInv' /\ flushed' >= flushed
    BY <1>1, <1>4, <2>2, FwriteFacts
  <2>4. QED
    BY <2>1, <2>3 DEF WrittenInv
<1>5. CASE WriterFlushes
  <2>1. flushed' = Len(dst) /\ dst' = dst /\ wpc' = "exit"
    BY <1>5 DEF WriterFlushes
  <2>2. QED
    BY <1>1, <2>1 DEF WrittenInv, DstInv
<1>6. CASE TimeoutTerminates(Writer)
  <2>1. flushed' \in flushed..Len(dst) /\ dst' = dst /\ wpc' = "dead"
    BY <1>6 DEF TimeoutTerminates, Goto
  <2>2. QED
    BY <1>1, <2>1 DEF WrittenInv, DstInv
<1>7. QED
  BY <1>2, <1>3, <1>4, <1>5, <1>6, WhoWrites

LEMMA DataStep ==
  ASSUME ConservationInv, IPCCallsInv, DataInv, [IPCNext]_allVars
  PROVE  DataInv' /\ flushed' >= flushed
BY ReadingStep, HandsStep, WrittenStep DEF DataInv

\* All that is known of a run, whatever the disk does.
IPCInv == ProcessInv /\ ConservationInv /\ IPCCallsInv /\ DataInv

LEMMA IPCInvariant == IPCSpec => []IPCInv
<1>1. IPCInit => IPCInv
  BY ProcessInit, ConservationInit, CallsInit, DataInit DEF IPCInit, Init, IPCInv
<1>2. IPCInv /\ [IPCNext]_allVars => IPCInv'
  BY ProcessStep, PoolStep, CallsStep, DataStep DEF IPCInv
<1>3. QED
  BY <1>1, <1>2, PTL DEF IPCSpec

\* The types are kept by the two processes, whichever of them is cut short and
\* wherever: no count leaves 0..1, no offset passes the end of the file, and no
\* more is flushed than was written.
THEOREM IPCTypeCorrect == IPCSpec => []IPCTypeOK
<1>1. IPCInv => IPCTypeOK
  <2> SUFFICES ASSUME IPCInv
               PROVE  IPCTypeOK
    OBVIOUS
  <2>1. QueueTypeOK
    BY DEF IPCInv, ConservationInv
  <2>2. fileSize \in FileSizes /\ currentOffset \in 0..fileSize /\ streamPos \in 0..fileSize
        /\ flushed \in 0..Len(dst)
    BY DEF IPCInv, DataInv, ReadingInv, OffsetsInv, WrittenInv, DstInv
  <2>3. QED
    BY <2>1, <2>2 DEF IPCInv, ProcessInv, ProcessTypes, IPCTypeOK
<1>2. QED
  BY <1>1, IPCInvariant, PTL

-----------------------------------------------------------------------------
(* The chunks between the two processes *)

WriterGone == wpc \in {"leave", "unlink", "flush", "exit", "exited", "dead"}

\* The reader has not been cut short before it closed the queue, so no chunk
\* has been lost with it.
Whole == rpc \in {"open"} \cup OpenStates \/ (~isOpen /\ isReadFinished_)

\* The inductive invariant: a reader that is cut short may take its last chunk
\* along, which leaves the writer's end of the pipe as it was; a writer that is
\* cut short leaves what it has written.
IPCPipeInv ==
  /\ DstIsPrefix
  /\ Len(dst) <= currentOffset
  /\ ~WriterGone => PipeOut
  /\ ~WriterGone /\ Whole => PipeInv

LEMMA IPCPipeInit == IPCInit => IPCPipeInv
BY PipeInit, PipeHasAnOut DEF IPCInit, IPCPipeInv, PipeInv

\* A step that moves no chunk, after which the reader has lost one if it had
\* before.
LEMMA IPCPipeFrame ==
  ASSUME IPCPipeInv, UNCHANGED <<dst, contents, currentOffset, writeBuffers>>,
         WriterGone => WriterGone',
         ~WriterGone' =>
           /\ wpc' = "fwrite" <=> wpc = "fwrite"
           /\ wpc = "fwrite" => held'[Writer] = held[Writer],
         Whole' =>
           /\ Whole
           /\ ReaderHasChunk' <=> ReaderHasChunk
           /\ ReaderHasChunk => held'[Reader] = held[Reader]
  PROVE  IPCPipeInv'
<1> USE DEF IPCPipeInv
<1>1. DstIsPrefix' /\ (Len(dst) <= currentOffset)'
  BY DEF DstIsPrefix
<1>2. ~WriterGone' => PipeOut'
  BY OutFrame
<1>3. ~WriterGone' /\ Whole' => PipeInv'
  BY PipeFrame
<1>4. QED
  BY <1>1, <1>2, <1>3

LEMMA ReaderPipeStep ==
  ASSUME ConservationInv, IPCCallsInv, DataInv, IPCPipeInv,
         ReaderOpens \/ ReaderReads \/ ReaderCloses
  PROVE  IPCPipeInv'
<1> USE TwoProcesses
<1>1. /\ QueueTypeOK /\ BuffersConserved
      /\ qpc \in [Threads -> CallStates]
      /\ held \in [Threads -> Buffers \cup {NoBuffer}]
  BY DEF ConservationInv, QueueTypeOK
<1>2. wpc' = wpc /\ dst' = dst /\ rpc \in {"open"} \cup OpenStates
  BY ReadMoves DEF ReaderOpens, ReaderCloses, writerVars, OpenStates
<1>3. Whole /\ (WriterGone' <=> WriterGone)
  BY <1>2 DEF Whole, WriterGone
<1>4. CASE ReaderOpens
  <2>1. UNCHANGED <<contents, currentOffset, writeBuffers, held>>
        /\ rpc = "open" /\ rpc' = "getFree"
    BY <1>4 DEF ReaderOpens, Open, SetOpen, readerVars
  <2>2. QED
    BY <1>2, <1>3, <2>1, IPCPipeFrame DEF ReaderHasChunk
<1>5. CASE ReaderCloses
  <2>1. UNCHANGED <<contents, currentOffset, writeBuffers, held>>
        /\ rpc = "close" /\ rpc' = "await"
    BY <1>5 DEF ReaderCloses, Close, SetOpen, readerVars
  <2>2. QED
    BY <1>2, <1>3, <2>1, IPCPipeFrame DEF ReaderHasChunk
<1>6. CASE ReadWaits \/ ReadTakes
  <2>1. /\ UNCHANGED <<contents, currentOffset, writeBuffers>>
        /\ rpc = "getFree" /\ rpc' \in {"getFree", "noBuffer", "fill"}
        /\ held'[Writer] = held[Writer]
    BY <1>1, <1>6 DEF ReadWaits, WaitFree, WaitUntil, ReadTakes, TakeFree, GiveNothing, Give, readerVars
  <2>2. QED
    BY <1>2, <1>3, <2>1, IPCPipeFrame DEF ReaderHasChunk
<1>7. CASE ReadFills
  <2>1. OffsetsInv /\ DstInv /\ held[Reader] \in Buffers /\ qpc[Reader] = "idle"
        /\ (wpc = "fwrite" => held[Writer] \in Buffers)
    BY <1>7 DEF ReadFills, DataInv, ReadingInv, WrittenInv, ReaderHas, WriterHas, IPCCallsInv,
       IPCReaderCalls
  <2>2. currentOffset' >= currentOffset /\ currentOffset \in Nat /\ currentOffset' \in Nat
    BY <1>7, <2>1, FillsInv, ToolAssumption DEF OffsetsInv
  <2>3. Len(dst) \in Nat
    BY <2>1 DEF DstInv
  <2>4. DstIsPrefix' /\ (Len(dst) <= currentOffset)'
    BY <1>2, <2>2, <2>3 DEF IPCPipeInv, DstIsPrefix
  <2>5. ~WriterGone => PipeInv'
    BY <1>1, <1>3, <1>7, <2>1, PipeFills DEF IPCPipeInv
  <2>6. PipeInv' => PipeOut'
    BY PipeHasAnOut, PTL
  <2>7. QED
    BY <1>3, <2>4, <2>5, <2>6 DEF IPCPipeInv
<1>8. CASE ReadFinishes
  <2>1. UNCHANGED <<contents, currentOffset, writeBuffers, held, qpc>>
        /\ rpc = "finishRead" /\ rpc' = "return" /\ qpc[Reader] = "idle"
    BY <1>8 DEF ReadFinishes, FinishRead, readerVars
  <2>2. QED
    BY <1>2, <1>3, <2>1, IPCPipeFrame DEF ReaderHasChunk
<1>9. CASE ReadReturns
  <2>1. held[Reader] \in Buffers /\ bufferType[held[Reader]] = "READ"
    BY <1>9 DEF ReadReturns, ReturnBuffer, DataInv, ReaderHas
  <2>2. DstInv /\ UNCHANGED <<dst, currentOffset>>
    BY <1>9 DEF ReadReturns, DataInv, WrittenInv, readerVars, writerVars
  <2>3. DstIsPrefix' /\ (Len(dst) <= currentOffset)'
    BY <2>2 DEF IPCPipeInv, DstIsPrefix
  <2>4. ~WriterGone => PipeInv'
    BY <1>1, <1>3, <1>9, <2>1, <2>2, PipeReturns DEF IPCPipeInv
  <2>5. PipeInv' => PipeOut'
    BY PipeHasAnOut, PTL
  <2>6. QED
    BY <1>3, <2>3, <2>4, <2>5 DEF IPCPipeInv
<1>10. CASE ReadNotifies
  <2>1. UNCHANGED <<contents, currentOffset, writeBuffers, held>>
        /\ rpc = "return" /\ rpc' \in {"close", "getFree"} /\ qpc[Reader] = "notify"
    BY <1>10 DEF ReadNotifies, NotifyAll, readerVars
  <2>2. QED
    BY <1>2, <1>3, <2>1, IPCPipeFrame DEF ReaderHasChunk
<1>11. QED
  BY <1>4, <1>5, <1>6, <1>7, <1>8, <1>9, <1>10 DEF ReaderReads

\* What a step of the writer keeps of both: its own end, and all of the pipe.
LEMMA WriterPipeMoves ==
  ASSUME ~DiskMayFill, ConservationInv, DataInv, PipeOut, WriterWrites
  PROVE  PipeOut' /\ (PipeInv => PipeInv')
<1> USE TwoProcesses
<1>1. /\ QueueTypeOK /\ CallsHoldNothing
      /\ qpc \in [Threads -> CallStates]
      /\ held \in [Threads -> Buffers \cup {NoBuffer}]
  BY DEF ConservationInv, QueueTypeOK
<1>2. UNCHANGED <<rpc, contents, currentOffset>>
  BY WriteMoves DEF readerVars
\* A step that moves no chunk.
<1>3. ASSUME UNCHANGED <<dst, writeBuffers>>,
             held'[Reader] = held[Reader], qpc'[Reader] = qpc[Reader],
             wpc' = "fwrite" <=> wpc = "fwrite",
             wpc = "fwrite" => held'[Writer] = held[Writer]
      PROVE  PipeOut' /\ (PipeInv => PipeInv')
  <2>1. ReaderHasChunk' <=> ReaderHasChunk
    BY <1>2, <1>3 DEF ReaderHasChunk
  <2>2. QED
    BY <1>2, <1>3, <2>1, OutFrame, PipeFrame
<1>4. CASE WritingTestsEmpty
  BY <1>3, <1>4 DEF WritingTestsEmpty, queueVars, writerVars
<1>5. CASE WriteWaits
  <2>1. /\ UNCHANGED <<dst, writeBuffers, wpc, held>> /\ wpc = "getFilled"
        /\ qpc'[Reader] = qpc[Reader]
    BY <1>1, <1>5 DEF WriteWaits, WaitFilled, WaitUntil, writerVars
  <2>2. QED
    BY <1>3, <2>1
<1>6. CASE WriteTakes /\ writeBuffers # <<>>
  BY <1>1, <1>6, OutTakes, PipeTakes
<1>7. CASE WriteTakes /\ writeBuffers = <<>>
  <2>1. /\ UNCHANGED <<dst, writeBuffers, held>> /\ wpc = "getFilled"
        /\ held[Writer] = NoBuffer
        /\ qpc'[Reader] = qpc[Reader]
    BY <1>1, <1>7 DEF WriteTakes, TakeFilled, GiveNothing, CallsHoldNothing, writerVars
  <2>2. wpc' = "check"
    BY <1>7, <2>1 DEF WriteTakes
  <2>3. QED
    BY <1>3, <2>1, <2>2
<1>8. CASE WriteFwrites
  <2>1. DstInv /\ contents \in [Buffers -> ContentTypes] /\ held[Writer] \in Buffers
    BY <1>8 DEF WriteFwrites, DataInv, ReadingInv, OffsetsInv, WrittenInv, WriterHas
  <2>2. QED
    BY <1>8, <2>1, OutWrites, PipeWrites
<1>9. CASE WriteReturns
  <2>1. bufferType[held[Writer]] = "WRITE"
    BY <1>9 DEF WriteReturns, ReturnBuffer, DataInv, WriterHas
  <2>2. /\ UNCHANGED <<dst, writeBuffers, wpc>> /\ wpc = "return"
        /\ held'[Reader] = held[Reader] /\ qpc'[Reader] = qpc[Reader]
    BY <1>1, <1>9, <2>1 DEF WriteReturns, ReturnBuffer, writerVars
  <2>3. QED
    BY <1>3, <2>2
<1>10. CASE WriteNotifies
  <2>1. /\ UNCHANGED <<dst, writeBuffers, held>> /\ wpc = "return" /\ wpc' = "check"
        /\ qpc'[Reader] = qpc[Reader]
    BY <1>1, <1>10 DEF WriteNotifies, NotifyAll, writerVars
  <2>2. QED
    BY <1>3, <2>1
<1>11. QED
  BY <1>4, <1>5, <1>6, <1>7, <1>8, <1>9, <1>10 DEF WriterWrites

LEMMA IPCPipeStep ==
  ASSUME ~DiskMayFill, ConservationInv, IPCCallsInv, DataInv, IPCPipeInv, [IPCNext]_allVars
  PROVE  IPCPipeInv'
<1> USE TwoProcesses
<1>1. CASE ReaderOpens \/ ReaderReads \/ ReaderCloses
  BY <1>1, ReaderPipeStep
<1>2. CASE WriterWrites
  <2>1. ~WriterGone /\ ~WriterGone' /\ (Whole' <=> Whole)
    BY <1>2, WriteMoves DEF WriterGone, Whole
  <2>2. PipeOut' /\ (PipeInv => PipeInv')
    BY <1>2, <2>1, WriterPipeMoves DEF IPCPipeInv
  <2>3. PipeOut' => DstIsPrefix' /\ (Len(dst) <= currentOffset)'
    BY DEF PipeOut
  <2>4. QED
    BY <2>1, <2>2, <2>3 DEF IPCPipeInv
<1>3. CASE Quiet
  <2>1. dst' = dst
    <3>1. WriterCreates => dst' = dst
      BY DEF WriterCreates, DataInv, WrittenInv
    <3>2. ~WriteFwrites
      BY <1>3, QuietMoves DEF WriteFwrites
    <3>3. WriterFlushes \/ TimeoutTerminates(Writer) => dst' = dst
      BY DEF WriterFlushes, TimeoutTerminates
    <3>4. QED
      BY <3>1, <3>2, <3>3, WhoWrites DEF writerVars
  <2>2. UNCHANGED <<contents, currentOffset, writeBuffers, held, qpc, isOpen, isReadFinished_>>
    BY <1>3, QuietMoves DEF queueVars, readerVars
  <2>3. rpc' = rpc \/ {rpc, rpc'} \cap ({"open"} \cup OpenStates) = {}
    BY <1>3, QuietMoves DEF OpenStates
  <2>4. /\ WriterGone => WriterGone'
        /\ wpc' = "fwrite" <=> wpc = "fwrite"
    BY <1>3, QuietMoves DEF WriterGone
  <2>5. Whole' => Whole
    BY <2>2, <2>3 DEF Whole
  <2>6. ReaderHasChunk' <=> ReaderHasChunk
    BY <2>2, <2>3 DEF ReaderHasChunk, OpenStates
  <2>7. QED
    BY <2>1, <2>2, <2>4, <2>5, <2>6, IPCPipeFrame
<1>4. ASSUME NEW p \in Threads, WakesProcess(p) PROVE IPCPipeInv'
  BY <1>4, IPCPipeFrame DEF WakesProcess, SpuriousWakeup, readerVars, writerVars, WriterGone, Whole,
     ReaderHasChunk
<1>5. ASSUME NEW p \in Threads, Cut(p) PROVE IPCPipeInv'
  <2>1. /\ UNCHANGED <<dst, contents, currentOffset, writeBuffers, held, qpc, isOpen, isReadFinished_>>
        /\ p = Reader => rpc' \in {"leave", "dead"} /\ wpc' = wpc
        /\ p = Writer => wpc' \in {"leave", "dead"} /\ rpc' = rpc
    BY <1>5, CutMoves DEF readerVars
  <2>2. CASE p = Writer
    <3>1. WriterGone' /\ (Whole' <=> Whole) /\ (ReaderHasChunk' <=> ReaderHasChunk)
      BY <2>1, <2>2 DEF WriterGone, Whole, ReaderHasChunk
    <3>2. QED
      BY <2>1, <3>1, IPCPipeFrame
  <2>3. CASE p = Reader
    <3>1. (WriterGone' <=> WriterGone) /\ wpc' = wpc
      BY <2>1, <2>3 DEF WriterGone
    <3>2. Whole' => ~isOpen /\ isReadFinished_
      BY <2>1, <2>3 DEF Whole, OpenStates
    <3>3. ~isOpen => ~ReaderHasChunk
      BY DEF IPCCallsInv, OpenStates, ReaderHasChunk
    <3>4. ~ReaderHasChunk'
      BY <2>1, <2>3 DEF ReaderHasChunk
    <3>5. QED
      BY <2>1, <3>1, <3>2, <3>3, <3>4, IPCPipeFrame DEF Whole
  <2>4. QED
    BY <2>2, <2>3
<1>6. QED
  BY <1>1, <1>2, <1>3, <1>4, <1>5, IPCSteps

-----------------------------------------------------------------------------
(* The tool implements CopyFile *)

\* The writer's loop has ended by itself.
DoneWell ==
  \/ wpc = "done"
  \/ wpc \in {"leave", "unlink", "flush", "exit", "exited"} /\ fate[Writer] = "running"

\* It ends only with the queue empty and closed and reading over, so with
\* everything written.
IPCEndInv ==
  /\ wpc = "isEmpty" => isReadFinished_
  /\ DoneWell => Len(dst) = fileSize

LEMMA IPCEndInit == IPCInit => IPCEndInv
BY DEF IPCInit, Init, IPCEndInv, DoneWell

\* Once a process has been cut short this can be seen of it for ever.
LEMMA FateStays ==
  ASSUME ProcessInv, [IPCNext]_allVars
  PROVE  /\ fate'[Writer] = "running" => fate[Writer] = "running" /\ ~Cut(Writer)
         /\ ~Cut(Writer) => fate'[Writer] = fate[Writer]
<1> USE TwoProcesses
<1>1. fate \in [Threads -> Fates]
  BY DEF ProcessInv, ProcessTypes
<1>2. Cut(Writer) => fate'[Writer] # "running"
  BY <1>1 DEF Cut, Interrupt, Kill, TimeoutTerminates
<1>3. ASSUME NEW p \in Threads, Cut(p), ~Cut(Writer) PROVE fate'[Writer] = fate[Writer]
  <2>1. p = Reader /\ \E f \in Fates : fate' = [fate EXCEPT ![p] = f]
    BY <1>3 DEF Cut, Interrupt, Kill, TimeoutTerminates, Fates
  <2>2. QED
    BY <1>1, <2>1
<1>4. ReaderOpens \/ ReaderReads \/ ReaderCloses \/ WriterWrites => fate' = fate
  BY ReadMoves, WriteMoves DEF ReaderOpens, ReaderCloses, ipcVars
<1>5. Quiet => fate' = fate
  BY DEF Quiet, ReaderAwaits, WriterComes, WriterRegisters, WriterCreates, WriterSignals,
     WriterObserves, WriterChecks, WriterFlushes, WriterExits, JoinsObserver, Leaves, Unlinks,
     ObserverPolls, TimeoutReturns, allVars, ipcVars
<1>6. ASSUME NEW p \in Threads, WakesProcess(p) PROVE fate' = fate
  BY <1>6 DEF WakesProcess, ipcVars
<1>7. QED
  BY <1>2, <1>3, <1>4, <1>5, <1>6, IPCSteps

\* The writer's loop ends with all of the source in dst.
LEMMA EndsComplete ==
  ASSUME IPCCallsInv, DataInv, IPCPipeInv, isReadFinished_, WritingTestsEmpty, wpc' = "done"
  PROVE  Len(dst) = fileSize
<1>1. wpc = "isEmpty" /\ writeBuffers = <<>> /\ ~isOpen
  BY DEF WritingTestsEmpty, IsEmpty
<1>2. PipeInv
  BY <1>1 DEF IPCPipeInv, WriterGone, Whole
<1>3. ~ReaderHasChunk
  BY <1>1 DEF IPCCallsInv, OpenStates, ReaderHasChunk
<1>4. Len(dst) = currentOffset
  BY <1>1, <1>2, <1>3 DEF PipeInv, EndsMeet, WriteFrom, ReadFrom
<1>5. QED
  BY <1>4 DEF DataInv, ReadingInv, OffsetsInv

LEMMA IPCEndStep ==
  ASSUME ProcessInv, IPCCallsInv, DataInv, IPCPipeInv, IPCEndInv, [IPCNext]_allVars
  PROVE  IPCEndInv'
<1> USE TwoProcesses DEF IPCEndInv
<1>1. wpc' = "isEmpty" => isReadFinished_'
  <2>1. isReadFinished_ => isReadFinished_'
    BY IPCSteps, QuietMoves, CutMoves, WriteMoves DEF ReaderOpens, Open, ReaderCloses, Close,
       SetOpen, ReaderReads, ReadWaits, WaitFree, WaitUntil, ReadTakes, TakeFree, ReadFills,
       ReadFinishes, FinishRead, ReadReturns, ReturnBuffer, ReadNotifies, NotifyAll, WakesProcess,
       SpuriousWakeup, queueVars
  <2>2. wpc' = "isEmpty" => isReadFinished_
    BY IPCSteps, QuietMoves, CutMoves, ReadMoves, WriteMoves DEF ReaderOpens, ReaderCloses,
       WakesProcess
  <2>3. QED
    BY <2>1, <2>2
<1>2. fileSize' = fileSize
  BY IPCSteps, QuietMoves, CutMoves, ReadMoves, WriteMoves DEF ReaderOpens, ReaderCloses,
     WakesProcess, readerVars
<1>3. DoneWell' => DoneWell \/ (WritingTestsEmpty /\ wpc' = "done")
  <2>1. ASSUME DoneWell', Quiet PROVE DoneWell
    BY <2>1, QuietMoves, FateStays DEF DoneWell
  <2>2. ASSUME DoneWell', WriterWrites PROVE WritingTestsEmpty /\ wpc' = "done"
    BY <2>2 DEF DoneWell, WriterWrites, WritingTestsEmpty, WriteWaits, WriteTakes, WriteFwrites,
       WriteReturns, WriteNotifies
  <2>3. ASSUME DoneWell', ReaderOpens \/ ReaderReads \/ ReaderCloses PROVE DoneWell
    BY <2>3, ReadMoves, FateStays DEF DoneWell, ReaderOpens, ReaderCloses
  <2>4. ASSUME DoneWell', NEW p \in Threads, WakesProcess(p) PROVE DoneWell
    BY <2>4, FateStays DEF DoneWell, WakesProcess
  <2>5. ASSUME DoneWell', NEW p \in Threads, Cut(p) PROVE DoneWell
    <3>1. p = Writer => wpc' \in {"leave", "dead"} /\ fate'[Writer] # "running"
      BY <2>5, CutMoves, FateStays
    <3>2. p = Reader
      BY <2>5, <3>1 DEF DoneWell
    <3>3. wpc' = wpc
      BY <2>5, <3>2, CutMoves
    <3>4. QED
      BY <2>5, <3>3, FateStays DEF DoneWell
  <2>6. QED
    BY <2>1, <2>2, <2>3, <2>4, <2>5, IPCSteps
<1>4. WritingTestsEmpty /\ wpc' = "done" => Len(dst) = fileSize /\ dst' = dst
  BY EndsComplete DEF WritingTestsEmpty, writerVars
<1>5. DoneWell => dst' = dst
  BY WhoWrites DEF DoneWell, WriterCreates, WriteFwrites, WriterFlushes, TimeoutTerminates,
     writerVars
<1>6. QED
  BY <1>1, <1>2, <1>3, <1>4, <1>5

\* All that is known of a run on a disk that does not fill.
IPCCopyInv == IPCInv /\ IPCPipeInv /\ IPCEndInv

LEMMA IPCCopyInvariant == ~DiskMayFill /\ IPCSpec => []IPCCopyInv
<1>1. ~DiskMayFill /\ IPCInv /\ IPCPipeInv /\ [IPCNext]_allVars => IPCPipeInv'
  BY IPCPipeStep DEF IPCInv
<1>2. IPCInv /\ IPCPipeInv /\ IPCEndInv /\ [IPCNext]_allVars => IPCEndInv'
  BY IPCEndStep DEF IPCInv
<1>3. IPCInv /\ IPCPipeInv /\ IPCEndInv <=> IPCCopyInv
  BY DEF IPCCopyInv
<1>4. (~DiskMayFill) => [](~DiskMayFill)
  OBVIOUS
<1>5. QED
  BY <1>1, <1>2, <1>3, <1>4, IPCPipeInit, IPCEndInit, IPCInvariant, PTL DEF IPCSpec

\* A writer that has ended well cannot be cut short any more: its observer has
\* been joined, and signals and kills find no process.
LEMMA EndedWell ==
  ASSUME ProcessInv, wpc = "exited" PROVE ~Cut(Writer)
BY TwoProcesses DEF ProcessInv, ObserverGone, Cut, Interrupt, InsideCopy, Kill, At, TimeoutTerminates

LEMMA IPCCopyStep ==
  ASSUME IPCCopyInv, IPCCopyInv', [IPCNext]_allVars
  PROVE  [IPCAbstract!CopyNext]_<<fileSize, File, IPCStatus>>
<1> USE TwoProcesses
<1>1. ProcessInv /\ ConservationInv /\ IPCCallsInv /\ DataInv
  BY DEF IPCCopyInv, IPCInv
<1>2. /\ File = Abstract!Source(flushed) /\ Len(File) = flushed
      /\ File' = Abstract!Source(flushed')
  <2>1. (DstInv /\ DstIsPrefix => File = Abstract!Source(flushed) /\ Len(File) = flushed)'
    BY FileFacts, PTL
  <2>2. DstInv /\ DstIsPrefix /\ DstInv' /\ DstIsPrefix'
    BY DEF IPCCopyInv, IPCInv, DataInv, WrittenInv, IPCPipeInv
  <2>3. QED
    BY <2>1, <2>2, FileFacts
<1>3. fileSize' = fileSize
  BY IPCSteps, QuietMoves, CutMoves, ReadMoves, WriteMoves DEF ReaderOpens, ReaderCloses,
     WakesProcess, readerVars
<1>4. flushed \in Nat /\ flushed' \in Nat /\ flushed' >= flushed /\ flushed' <= fileSize
  <2>1. flushed' >= flushed
    BY <1>1, DataStep
  <2>2. flushed \in 0..Len(dst) /\ flushed' \in 0..Len(dst') /\ Len(dst) \in Nat /\ Len(dst') \in Nat
    BY DEF IPCCopyInv, IPCInv, DataInv, WrittenInv, DstInv
  <2>3. Len(dst') <= currentOffset' /\ currentOffset' \in 0..fileSize' /\ fileSize \in Nat
    BY ToolAssumption DEF IPCCopyInv, IPCPipeInv, IPCInv, DataInv, ReadingInv, OffsetsInv
  <2>4. QED
    BY <1>3, <2>1, <2>2, <2>3
<1>5. CASE WriterExits /\ fate[Writer] = "running"
  <2>1. wpc = "exit" /\ wpc' = "exited" /\ flushed' = flushed /\ fate' = fate
    BY <1>5 DEF WriterExits, writerVars, ipcVars
  <2>2. IPCStatus = "copying" /\ IPCStatus' = "done"
    BY <1>5, <2>1 DEF IPCStatus
  <2>3. flushed = fileSize
    BY <1>5, <2>1 DEF IPCCopyInv, IPCEndInv, DoneWell, IPCInv, DataInv, WrittenInv
  <2>4. File' = File /\ File = IPCAbstract!Source(fileSize)
    BY <1>2, <2>1, <2>3 DEF Abstract!Source, IPCAbstract!Source
  <2>5. QED
    BY <1>3, <2>2, <2>4 DEF IPCAbstract!CopyNext, IPCAbstract!Finish
<1>6. CASE ~(WriterExits /\ fate[Writer] = "running")
  <2>1. wpc = "exited" => wpc' = "exited" /\ ~Cut(Writer)
    BY <1>1, EndedWell, IPCSteps, QuietMoves, CutMoves, ReadMoves, WriteMoves DEF ReaderOpens,
       ReaderCloses, WakesProcess
  <2>2. wpc' = "exited" => wpc = "exited" \/ WriterExits
    BY IPCSteps, CutMoves, ReadMoves, WriteMoves DEF ReaderOpens, ReaderCloses, WakesProcess,
       Quiet, ReaderAwaits, WriterComes, WriterRegisters, WriterCreates, WriterSignals,
       WriterObserves, WriterChecks, WriterFlushes, JoinsObserver, Joins, Leaves, Unlinks, At, Goto,
       ObserverPolls, TimeoutReturns, allVars, vars
  <2>3. IPCStatus' = IPCStatus
    BY <1>1, <1>6, <2>1, <2>2, FateStays DEF IPCStatus
  <2>4. CASE flushed' = flushed
    BY <1>2, <1>3, <2>3, <2>4
  <2>5. CASE flushed' # flushed
    <3>1. wpc # "exited"
      BY <2>1, <2>5, WhoWrites DEF WriterCreates, WriteFwrites, WriterFlushes, Cut, writerVars
    <3>2. IPCStatus = "copying"
      BY <3>1 DEF IPCStatus
    <3>3. flushed' \in Len(File) + 1 .. fileSize
      BY <1>2, <1>4, <2>5
    <3>4. File' = IPCAbstract!Source(flushed')
      BY <1>2 DEF Abstract!Source, IPCAbstract!Source
    <3>5. QED
      BY <1>3, <2>3, <3>2, <3>3, <3>4 DEF IPCAbstract!CopyNext, IPCAbstract!Extend
  <2>6. QED
    BY <2>4, <2>5
<1>7. QED
  BY <1>5, <1>6

\* As long as fwrite takes what it is given, the two processes implement
\* CopyFile: whoever is killed, interrupted or given up, and wherever, the
\* destination only grows along the source, and a writer that exits well has
\* put all of it there, whether or not the reader was cut short.
THEOREM IPCToolImplementsCopyFile ==
  ~DiskMayFill /\ IPCSpec => IPCImplementsCopyFile
<1>1. IPCInit => IPCAbstract!CopyInit
  <2> SUFFICES ASSUME IPCInit
               PROVE  IPCAbstract!CopyInit
    OBVIOUS
  <2>1. fileSize \in FileSizes /\ IPCStatus = "copying"
    BY DEF IPCInit, Init, IPCStatus
  <2>2. File = <<>>
    BY SubSeqEmpty DEF IPCInit, Init, File
  <2>3. QED
    BY <2>1, <2>2 DEF IPCAbstract!CopyInit
<1>2. IPCCopyInv /\ IPCCopyInv' /\ [IPCNext]_allVars
        => [IPCAbstract!CopyNext]_(IPCAbstract!copyVars)
  BY IPCCopyStep DEF IPCAbstract!copyVars
<1>3. QED
  BY <1>1, <1>2, IPCCopyInvariant, PTL
     DEF IPCSpec, IPCImplementsCopyFile, IPCAbstract!CopySpec

-----------------------------------------------------------------------------
(***************************************************************************)
(* Two processes that nobody cuts short hold each other up only where it   *)
(* is known.  A process that was cut short keeps what it had, so what each *)
(* part of the invariant says of the mutexes and of the end of a loop, it  *)
(* says of processes whose fate is "running".                              *)
(***************************************************************************)

Running(p) == fate[p] = "running"

LEMMA StillRunning ==
  ASSUME ProcessInv, [IPCNext]_allVars, NEW p \in Threads, Running(p)'
  PROVE  Running(p) /\ ~Cut(p)
<1> USE TwoProcesses DEF Running
<1>1. fate \in [Threads -> Fates]
  BY DEF ProcessInv, ProcessTypes
<1>2. ASSUME NEW q \in Threads, Cut(q)
      PROVE  \E f \in Fates \ {"running"} : fate' = [fate EXCEPT ![q] = f]
  BY <1>2 DEF Cut, Interrupt, Kill, TimeoutTerminates, Fates
<1>3. ~Cut(p)
  BY <1>1, <1>2
<1>4. ASSUME NEW q \in Threads, Cut(q) PROVE Running(p)
  BY <1>1, <1>2, <1>3, <1>4
<1>5. ReaderOpens \/ ReaderReads \/ ReaderCloses \/ WriterWrites => fate' = fate
  BY ReadMoves, WriteMoves DEF ReaderOpens, ReaderCloses, ipcVars
<1>6. Quiet => fate' = fate
  BY DEF Quiet, ReaderAwaits, WriterComes, WriterRegisters, WriterCreates, WriterSignals,
     WriterObserves, WriterChecks, WriterFlushes, WriterExits, JoinsObserver, Leaves, Unlinks,
     ObserverPolls, TimeoutReturns, allVars, ipcVars
<1>7. ASSUME NEW q \in Threads, WakesProcess(q) PROVE fate' = fate
  BY <1>7 DEF WakesProcess, ipcVars
<1>8. QED
  BY <1>3, <1>4, <1>5, <1>6, <1>7, IPCSteps

\* Nobody sleeps next to a buffer that it waits for, unless somebody is about to
\* notify, or was cut short when it was.
LEMMA IPCWakeupStep ==
  ASSUME WakeupInv, [IPCNext]_allVars PROVE WakeupInv'
<1> USE TwoProcesses
<1>1. CASE ReaderOpens \/ ReaderReads \/ ReaderCloses \/ WriterWrites
  BY <1>1, WakeupStep DEF ReaderOpens, ReaderReads, ReadWaits, ReadTakes, ReadFills,
     ReadFinishes, ReadReturns, ReadNotifies, ReaderCloses, WriterWrites, WritingTestsEmpty,
     WriteWaits, WriteTakes, WriteFwrites, WriteReturns, WriteNotifies, QueueNext
<1>2. CASE Quiet
  BY <1>2, QuietMoves, WakeupStep
<1>3. ASSUME NEW p \in Threads, WakesProcess(p) PROVE WakeupInv'
  BY <1>3, WakeupStep DEF WakesProcess, QueueNext
<1>4. ASSUME NEW p \in Threads, Cut(p) PROVE WakeupInv'
  <2>1. /\ UNCHANGED <<readBuffers, writeBuffers, isOpen, isReadFinished_, bufferType, held, qpc>>
        /\ queueMutex' \in {queueMutex, p}
        /\ waiting' \subseteq waiting
    BY <1>4, CutMoves
  <2>2. QED
    BY <2>1 DEF WakeupInv, QueueTypeOK, SleepersWait, NoLostReturn
<1>5. QED
  BY <1>1, <1>2, <1>3, <1>4, IPCSteps

\* A process sleeps where it asked for a buffer and nowhere else.
SleepsInGet ==
  /\ Reader \in waiting => rpc = "getFree"
  /\ Writer \in waiting => wpc = "getFilled"

LEMMA SleepsInGetStep ==
  ASSUME WakeupInv, SleepsInGet, [IPCNext]_allVars PROVE SleepsInGet'
<1> USE TwoProcesses DEF SleepsInGet
<1>1. \A t \in waiting : qpc[t] \in {"getFree", "getFilled"}
  BY DEF WakeupInv, SleepersWait
<1>2. CASE ReaderOpens \/ ReaderCloses
  BY <1>2 DEF ReaderOpens, Open, ReaderCloses, Close, SetOpen
<1>3. CASE ReaderReads
  <2>1. wpc' = wpc
    BY <1>3, ReadMoves
  <2>2. CASE ReadWaits
    BY <2>1, <2>2 DEF ReadWaits, WaitFree, WaitUntil
  <2>3. CASE ReadTakes
    BY <1>1, <2>1, <2>3 DEF ReadTakes, TakeFree
  <2>4. CASE ReadFills \/ ReadFinishes \/ ReadReturns
    BY <2>1, <2>4 DEF ReadFills, ReadFinishes, FinishRead, ReadReturns, ReturnBuffer, queueVars
  <2>5. CASE ReadNotifies
    BY <2>5 DEF ReadNotifies, NotifyAll
  <2>6. QED
    BY <1>3, <2>2, <2>3, <2>4, <2>5 DEF ReaderReads
<1>4. CASE WriterWrites
  <2>1. rpc' = rpc
    BY <1>4, WriteMoves
  <2>2. CASE WriteWaits
    BY <2>1, <2>2 DEF WriteWaits, WaitFilled, WaitUntil
  <2>3. CASE WriteTakes
    BY <1>1, <2>1, <2>3 DEF WriteTakes, TakeFilled
  <2>4. CASE WritingTestsEmpty \/ WriteFwrites \/ WriteReturns
    BY <2>1, <2>4 DEF WritingTestsEmpty, WriteFwrites, WriteReturns, ReturnBuffer, queueVars
  <2>5. CASE WriteNotifies
    BY <2>5 DEF WriteNotifies, NotifyAll
  <2>6. QED
    BY <1>4, <2>2, <2>3, <2>4, <2>5 DEF WriterWrites
<1>5. CASE Quiet
  <2>1. waiting' = waiting
    BY <1>5, QuietMoves DEF queueVars
  <2>2. QED
    BY <1>5, <2>1, QuietMoves
<1>6. ASSUME NEW p \in Threads, WakesProcess(p) PROVE SleepsInGet'
  BY <1>6 DEF WakesProcess, SpuriousWakeup
<1>7. ASSUME NEW p \in Threads, Cut(p) PROVE SleepsInGet'
  <2>1. waiting' = waiting \ {p}
    BY <1>7 DEF Cut, Interrupt, Kill, TimeoutTerminates
  <2>2. QED
    BY <1>7, <2>1, CutMoves
<1>8. QED
  BY <1>2, <1>3, <1>4, <1>5, <1>6, <1>7, IPCSteps

\* A process that is running has queueMutex between two steps only where it is
\* about to take a buffer, and ProcInfo::mutex never.
Taking(p) ==
  \/ p = Reader /\ rpc = "getFree" /\ qpc[p] = "takeFree"
  \/ p = Writer /\ wpc = "getFilled" /\ qpc[p] = "takeFilled"

RunnersKeepNoLock ==
  \A p \in Threads : Running(p) => procInfoMutex # p /\ (queueMutex = p => Taking(p))

LEMMA RunnersKeepNoLockStep ==
  ASSUME ProcessInv, ConservationInv, RunnersKeepNoLock, [IPCNext]_allVars
  PROVE  RunnersKeepNoLock'
<1> SUFFICES ASSUME NEW p \in Threads, Running(p)'
             PROVE  procInfoMutex' # p /\ (queueMutex' = p => Taking(p)')
  BY DEF RunnersKeepNoLock
<1> USE TwoProcesses DEF Taking
<1>1. procInfoMutex # p /\ (queueMutex = p => Taking(p)) /\ ~Cut(p)
  BY StillRunning DEF RunnersKeepNoLock
<1>2. qpc \in [Threads -> CallStates]
  BY DEF ConservationInv, QueueTypeOK
<1>3. CASE ReaderOpens \/ ReaderCloses
  BY <1>1, <1>3 DEF ReaderOpens, Open, ReaderCloses, Close, SetOpen, ipcVars
<1>4. CASE ReaderReads
  <2>1. wpc' = wpc /\ procInfoMutex' = procInfoMutex
    BY <1>4, ReadMoves DEF ipcVars
  <2>2. CASE ReadWaits
    BY <1>1, <1>2, <2>1, <2>2 DEF ReadWaits, WaitFree, WaitUntil
  <2>3. CASE ReadTakes
    BY <1>1, <2>1, <2>3 DEF ReadTakes, TakeFree
  <2>4. CASE ReadFills \/ ReadFinishes
    BY <1>1, <2>1, <2>4 DEF ReadFills, ReadFinishes, FinishRead, queueVars
  <2>5. CASE ReadReturns \/ ReadNotifies
    BY <1>1, <1>2, <2>1, <2>5 DEF ReadReturns, ReturnBuffer, ReadNotifies, NotifyAll
  <2>6. QED
    BY <1>4, <2>2, <2>3, <2>4, <2>5 DEF ReaderReads
<1>5. CASE WriterWrites
  <2>1. rpc' = rpc /\ procInfoMutex' = procInfoMutex
    BY <1>5, WriteMoves DEF ipcVars
  <2>2. CASE WriteWaits
    BY <1>1, <1>2, <2>1, <2>2 DEF WriteWaits, WaitFilled, WaitUntil
  <2>3. CASE WriteTakes
    BY <1>1, <2>1, <2>3 DEF WriteTakes, TakeFilled
  <2>4. CASE WritingTestsEmpty \/ WriteFwrites
    BY <1>1, <2>1, <2>4 DEF WritingTestsEmpty, WriteFwrites, queueVars
  <2>5. CASE WriteReturns \/ WriteNotifies
    BY <1>1, <1>2, <2>1, <2>5 DEF WriteReturns, ReturnBuffer, WriteNotifies, NotifyAll
  <2>6. QED
    BY <1>5, <2>2, <2>3, <2>4, <2>5 DEF WriterWrites
<1>6. CASE Quiet
  <2>1. procInfoMutex' = procInfoMutex \/ \E q \in abandoned : Unlinks(q) /\ procInfoMutex' = q
    <3>1. CASE \E q \in Threads : Unlinks(q)
      BY <3>1 DEF Unlinks, LosesObserver
    <3>2. CASE ~\E q \in Threads : Unlinks(q)
      BY <1>6, <3>2 DEF Quiet, ReaderAwaits, WriterComes, WriterRegisters, WriterCreates,
         WriterSignals, WriterObserves, WriterChecks, WriterFlushes, WriterExits, JoinsObserver,
         Leaves, ObserverPolls, TimeoutReturns, allVars, ipcVars
    <3>3. QED
      BY <3>1, <3>2
  <2>2. queueMutex' = queueMutex /\ qpc' = qpc
    BY <1>6, QuietMoves DEF queueVars
  <2>3. p \notin abandoned
    BY <1>1, StillRunning DEF ProcessInv, DeadInv, Running
  <2>4. QED
    BY <1>1, <1>6, <2>1, <2>2, <2>3, QuietMoves
<1>7. ASSUME NEW q \in Threads, WakesProcess(q)
      PROVE  procInfoMutex' # p /\ (queueMutex' = p => Taking(p)')
  BY <1>1, <1>7 DEF WakesProcess, SpuriousWakeup, ipcVars
<1>8. ASSUME NEW q \in Threads, Cut(q)
      PROVE  procInfoMutex' # p /\ (queueMutex' = p => Taking(p)')
  <2>1. q # p
    BY <1>1, <1>8
  <2>2. /\ queueMutex' = queueMutex \/ queueMutex' = q
        /\ procInfoMutex' \in {procInfoMutex, q} /\ qpc' = qpc
        /\ q = Reader => wpc' = wpc
        /\ q = Writer => rpc' = rpc
    BY <1>8, CutMoves
  <2>3. QED
    BY <1>1, <2>1, <2>2
<1>9. QED
  BY <1>3, <1>4, <1>5, <1>6, <1>7, <1>8, IPCSteps

\* A reader that closes the queue has said that reading is over, and has no
\* notification to make any more.
ReaderToldTheEnd ==
  /\ rpc = "return" /\ readFinished => isReadFinished_
  /\ rpc = "close" => isReadFinished_
  /\ \/ rpc \in {"await", "join"}
     \/ rpc \in {"leave", "unlink", "exited"} /\ Running(Reader)
     => isReadFinished_ /\ qpc[Reader] = "idle"

LEMMA ReaderToldTheEndStep ==
  ASSUME ProcessInv, ConservationInv, DataInv, ReaderToldTheEnd, [IPCNext]_allVars
  PROVE  ReaderToldTheEnd'
<1> USE TwoProcesses DEF ReaderToldTheEnd
<1>1. /\ qpc \in [Threads -> CallStates]
      /\ rpc = "fill" => ~readFinished
      /\ Running(Reader)' => Running(Reader) /\ ~Cut(Reader)
  BY StillRunning DEF ConservationInv, QueueTypeOK, DataInv, ReadingInv, OffsetsInv
<1>2. CASE ReaderOpens \/ ReaderCloses
  BY <1>1, <1>2 DEF ReaderOpens, ReaderCloses, Close, SetOpen
<1>3. CASE ReaderReads
  <2>1. CASE ReadWaits \/ ReadTakes
    <3>1. rpc' \in {"getFree", "noBuffer", "fill"}
      BY <2>1 DEF ReadWaits, ReadTakes
    <3>2. QED
      BY <3>1
  <2>2. CASE ReadFills
    BY <1>1, <2>2 DEF ReadFills
  <2>3. CASE ReadFinishes \/ ReadReturns \/ ReadNotifies
    BY <2>3 DEF ReadFinishes, FinishRead, ReadReturns, ReturnBuffer, ReadNotifies, NotifyAll,
       readerVars
  <2>4. QED
    BY <1>3, <2>1, <2>2, <2>3 DEF ReaderReads
<1>4. CASE WriterWrites
  <2>1. UNCHANGED <<rpc, readFinished, isReadFinished_>> /\ fate' = fate
    BY <1>4, WriteMoves DEF readerVars, ipcVars
  <2>2. qpc'[Reader] = qpc[Reader]
    BY <1>1, <1>4 DEF WriterWrites, WritingTestsEmpty, WriteWaits, WaitFilled, WaitUntil,
       WriteTakes, TakeFilled, GiveNothing, Give, WriteFwrites, WriteReturns, ReturnBuffer,
       WriteNotifies, NotifyAll, queueVars
  <2>3. QED
    BY <1>1, <2>1, <2>2
<1>5. CASE Quiet
  <2>1. UNCHANGED <<isReadFinished_, qpc, readFinished>>
    BY <1>5, QuietMoves DEF queueVars, readerVars
  <2>2. QED
    BY <1>1, <1>5, <2>1, QuietMoves
<1>6. ASSUME NEW p \in Threads, WakesProcess(p) PROVE ReaderToldTheEnd'
  BY <1>1, <1>6 DEF WakesProcess, SpuriousWakeup, readerVars
<1>7. ASSUME NEW p \in Threads, Cut(p) PROVE ReaderToldTheEnd'
  <2>1. UNCHANGED <<isReadFinished_, qpc, readFinished>>
    BY <1>7, CutMoves DEF readerVars
  <2>2. p = Reader => ~Running(Reader)' /\ rpc' \in {"leave", "dead"}
    BY <1>1, <1>7, CutMoves
  <2>3. p = Writer => rpc' = rpc
    BY <1>7, CutMoves
  <2>4. QED
    BY <1>1, <2>1, <2>2, <2>3
<1>8. QED
  BY <1>2, <1>3, <1>4, <1>5, <1>6, <1>7, IPCSteps

\* A writer that has come to its loop has told the reader so.
WriterToldTheStart ==
  Running(Writer) /\ wpc \notin {"none", "register", "create", "signal"} => isWritingStarted

LEMMA WriterToldTheStartStep ==
  ASSUME ProcessInv, WriterToldTheStart, [IPCNext]_allVars
  PROVE  WriterToldTheStart'
<1> SUFFICES ASSUME Running(Writer)', wpc' \notin {"none", "register", "create", "signal"}
             PROVE  isWritingStarted'
  BY DEF WriterToldTheStart
<1> USE TwoProcesses
<1>1. Running(Writer) /\ ~Cut(Writer)
  BY StillRunning
<1>2. CASE ReaderOpens \/ ReaderReads \/ ReaderCloses
  BY <1>1, <1>2, ReadMoves DEF ReaderOpens, ReaderCloses, ipcVars, WriterToldTheStart
<1>3. CASE WriterWrites
  BY <1>1, <1>3, WriteMoves DEF ipcVars, WriterToldTheStart
<1>4. CASE Quiet
  <2>1. CASE WriterSignals
    BY <2>1 DEF WriterSignals
  <2>2. CASE ~WriterSignals
    <3>1. isWritingStarted' = isWritingStarted
      BY <1>4, <2>2 DEF Quiet, ReaderAwaits, WriterComes, WriterRegisters, WriterCreates,
         WriterObserves, WriterChecks, WriterFlushes, WriterExits, JoinsObserver, Leaves, Unlinks,
         ObserverPolls, TimeoutReturns, allVars, ipcVars
    <3>2. wpc \notin {"none", "register", "create", "signal"}
      BY <1>4, <2>2 DEF Quiet, ReaderAwaits, WriterComes, WriterRegisters, WriterCreates,
         WriterObserves, WriterChecks, WriterFlushes, WriterExits, JoinsObserver, Joins, Leaves, Unlinks,
         At, Goto, ObserverPolls, TimeoutReturns, allVars, vars
    <3>3. QED
      BY <1>1, <3>1, <3>2 DEF WriterToldTheStart
  <2>3. QED
    BY <2>1, <2>2
<1>5. ASSUME NEW p \in Threads, WakesProcess(p) PROVE isWritingStarted'
  BY <1>1, <1>5 DEF WakesProcess, ipcVars, WriterToldTheStart
<1>6. ASSUME NEW p \in Threads, Cut(p) PROVE isWritingStarted'
  <2>1. p = Reader
    BY <1>1, <1>6
  <2>2. wpc' = wpc
    BY <1>6, <2>1, CutMoves
  <2>3. isWritingStarted' = isWritingStarted
    BY <1>6 DEF Cut, Interrupt, Kill, TimeoutTerminates
  <2>4. QED
    BY <1>1, <2>2, <2>3 DEF WriterToldTheStart
<1>7. QED
  BY <1>2, <1>3, <1>4, <1>5, <1>6, IPCSteps

\* A writer leaves its loop only with the queue closed, and it stays closed,
\* for a writer that does not come too early comes after open().
WriterSawTheEnd ==
  ~EarlyWriter /\ Running(Writer) /\ wpc \in {"done", "leave", "unlink", "flush", "exit", "exited"}
    => ~isOpen

LEMMA WriterSawTheEndStep ==
  ASSUME ProcessInv, IPCCallsInv, WriterSawTheEnd, [IPCNext]_allVars
  PROVE  WriterSawTheEnd'
<1> SUFFICES ASSUME ~EarlyWriter, Running(Writer)',
                    wpc' \in {"done", "leave", "unlink", "flush", "exit", "exited"}
             PROVE  ~isOpen'
  BY DEF WriterSawTheEnd
<1> USE TwoProcesses
<1>1. Running(Writer) /\ ~Cut(Writer)
  BY StillRunning
<1>2. CASE ReaderOpens
  BY <1>2 DEF ReaderOpens, IPCCallsInv, WriterFinds
<1>3. CASE ReaderReads
  BY <1>1, <1>3, ReadMoves DEF WriterSawTheEnd
<1>4. CASE ReaderCloses
  BY <1>4 DEF ReaderCloses, Close, SetOpen
<1>5. CASE WriterWrites
  <2>1. WritingTestsEmpty /\ IsEmpty
    BY <1>5 DEF WriterWrites, WritingTestsEmpty, WriteWaits, WriteTakes, WriteFwrites,
       WriteReturns, WriteNotifies
  <2>2. QED
    BY <2>1 DEF WritingTestsEmpty, IsEmpty, queueVars
<1>6. CASE Quiet
  <2>1. isOpen' = isOpen
    BY <1>6, QuietMoves DEF queueVars
  <2>2. wpc \in {"done", "leave", "unlink", "flush", "exit", "exited"}
    BY <1>6, QuietMoves
  <2>3. QED
    BY <1>1, <2>1, <2>2 DEF WriterSawTheEnd
<1>7. ASSUME NEW p \in Threads, WakesProcess(p) PROVE ~isOpen'
  BY <1>1, <1>7 DEF WakesProcess, SpuriousWakeup, WriterSawTheEnd
<1>8. ASSUME NEW p \in Threads, Cut(p) PROVE ~isOpen'
  <2>1. p = Reader
    BY <1>1, <1>8
  <2>2. wpc' = wpc /\ isOpen' = isOpen
    BY <1>8, <2>1, CutMoves
  <2>3. QED
    BY <1>1, <2>2 DEF WriterSawTheEnd
<1>9. QED
  BY <1>2, <1>3, <1>4, <1>5, <1>6, <1>7, <1>8, IPCSteps

\* The inductive invariant, next to IPCInv.
WaitingInv ==
  /\ WakeupInv
  /\ SleepsInGet
  /\ RunnersKeepNoLock
  /\ ReaderToldTheEnd
  /\ WriterToldTheStart
  /\ WriterSawTheEnd

LEMMA WaitingInit == IPCInit => WaitingInv
<1> SUFFICES ASSUME IPCInit
             PROVE  WaitingInv
  OBVIOUS
<1>1. /\ QueueInit /\ rpc = "open" /\ wpc = "none" /\ procInfoMutex = NoThread
      /\ waiting = {} /\ queueMutex = NoThread
  BY DEF IPCInit, Init, QueueInit
<1>2. WakeupInv
  BY <1>1, WakeupInit
<1>3. QED
  BY <1>1, <1>2, TwoProcesses DEF WaitingInv, SleepsInGet, RunnersKeepNoLock, ReaderToldTheEnd,
     WriterToldTheStart, WriterSawTheEnd

LEMMA WaitingInvariant == IPCSpec => []WaitingInv
<1>1. IPCInv /\ WaitingInv /\ [IPCNext]_allVars => WaitingInv'
  BY IPCWakeupStep, SleepsInGetStep, RunnersKeepNoLockStep, ReaderToldTheEndStep,
     WriterToldTheStartStep, WriterSawTheEndStep DEF IPCInv, WaitingInv
<1>2. QED
  BY <1>1, WaitingInit, IPCInvariant, PTL DEF IPCSpec

\* Neither process sleeps on the other: if both did, every buffer would be in
\* a deque in which nobody has been told of it, or in a sleeper's hands.
LEMMA NotBothAsleep ==
  ASSUME IPCInv, WaitingInv, Reader \in waiting, Writer \in waiting
  PROVE  FALSE
<1>1. rpc = "getFree" /\ wpc = "getFilled"
  BY DEF WaitingInv, SleepsInGet
<1>2. qpc[Reader] = "getFree" /\ qpc[Writer] = "getFilled"
  BY <1>1 DEF WaitingInv, WakeupInv, SleepersWait, IPCInv, IPCCallsInv, IPCReaderCalls,
     IPCWriterCalls
<1>3. readBuffers = <<>> /\ writeBuffers = <<>>
  BY <1>2, TwoProcesses DEF WaitingInv, WakeupInv, NoLostReturn
<1>4. held[Reader] = NoBuffer /\ held[Writer] = NoBuffer
  BY <1>2, TwoProcesses DEF IPCInv, ConservationInv, CallsHoldNothing
<1>5. 1 \in Buffers /\ NoBuffer # 1
  BY QueueAssumption DEF Buffers, NoBuffer
<1>6. QED
  BY <1>3, <1>4, <1>5, TwoProcesses DEF IPCInv, ConservationInv, BuffersConserved, NoBufferLost

\* Whatever faults befall them, a reader and a writer process never sleep both.
THEOREM IPCNoMutualSleep == IPCSpec => []NeverBothAsleep
<1>1. IPCInv /\ WaitingInv => NeverBothAsleep
  BY NotBothAsleep DEF NeverBothAsleep
<1>2. QED
  BY <1>1, IPCInvariant, WaitingInvariant, PTL

\* Between processes that run, whoever has a mutex goes on.
LEMMA RunningOwnerGoesOn ==
  ASSUME IPCInv, WaitingInv, \A p \in Threads : Running(p) /\ HeldUp(p)
  PROVE  queueMutex = NoThread /\ procInfoMutex = NoThread
<1>1. procInfoMutex = NoThread
  BY DEF IPCInv, ProcessInv, ProcessTypes, WaitingInv, RunnersKeepNoLock
<1>2. ASSUME NEW p \in Threads, queueMutex = p
      PROVE  FALSE
  <2>1. Taking(p)
    BY <1>2 DEF WaitingInv, RunnersKeepNoLock
  <2>2. p \notin waiting
    BY <2>1 DEF Taking, WaitingInv, WakeupInv, SleepersWait
  <2>3. ~HeldUp(p)
    BY <1>1, <2>1, <2>2, TwoProcesses DEF HeldUp, Taking, At
  <2>4. QED
    BY <2>3
<1>3. queueMutex \in Threads \cup {NoThread}
  BY DEF IPCInv, ConservationInv, QueueTypeOK
<1>4. QED
  BY <1>1, <1>2, <1>3

\* As long as nobody is cut short, for any number and size of buffers, any file
\* and any interleaving, the pool, both mutexes and the reader's wait for the
\* writer hold both processes up in known places only: no writer has come, the
\* writer sleeps on the queue that close() closed, or both have ended.
THEOREM IPCHeldUpOnlyAsKnown == ~EarlyWriter /\ IPCSpec => []HeldUpOnlyAsKnown
<1>1. ASSUME ~EarlyWriter, IPCInv, WaitingInv,
             \A p \in Threads : Running(p) /\ HeldUp(p), wpc # "none"
      PROVE  AsleepAfterTheEnd \/ (rpc = "exited" /\ wpc = "exited")
  <2>1. queueMutex = NoThread /\ procInfoMutex = NoThread
    BY <1>1, RunningOwnerGoesOn
  <2>2. Reader \in waiting \/ (rpc = "await" /\ ~isWritingStarted) \/ rpc = "exited"
    BY <1>1, <2>1, TwoProcesses DEF HeldUp, At
  <2>3. Writer \in waiting \/ wpc = "exited"
    BY <1>1, <2>1, TwoProcesses DEF HeldUp, At
  <2>4. isWritingStarted
    BY <1>1, <2>3, TwoProcesses DEF WaitingInv, SleepsInGet, WriterToldTheStart
  <2>5. CASE Reader \in waiting
    <3>1. isOpen
      BY <1>1, <2>5 DEF WaitingInv, SleepsInGet, IPCInv, IPCCallsInv, OpenStates
    <3>2. wpc # "exited"
      BY <1>1, <3>1, TwoProcesses DEF WaitingInv, WriterSawTheEnd
    <3>3. QED
      BY <1>1, <2>3, <2>5, <3>2, NotBothAsleep
  <2>6. CASE rpc = "exited" /\ Writer \in waiting
    <3>1. isReadFinished_ /\ qpc[Reader] = "idle"
      BY <1>1, <2>6, TwoProcesses DEF WaitingInv, ReaderToldTheEnd
    <3>2. wpc = "getFilled" /\ qpc[Writer] = "getFilled"
      BY <1>1, <2>6 DEF WaitingInv, SleepsInGet, WakeupInv, SleepersWait, IPCInv, IPCCallsInv,
         IPCWriterCalls
    <3>3. writeBuffers = <<>>
      BY <1>1, <2>6, <3>1, <3>2, TwoProcesses DEF WaitingInv, WakeupInv, NoLostReturn
    <3>4. QED
      BY <2>6, <3>1, <3>2, <3>3 DEF AsleepAfterTheEnd
  <2>7. QED
    BY <2>2, <2>3, <2>4, <2>5, <2>6
<1>2. ~EarlyWriter /\ IPCInv /\ WaitingInv => HeldUpOnlyAsKnown
  BY <1>1 DEF HeldUpOnlyAsKnown, Running
<1>3. (~EarlyWriter) => [](~EarlyWriter)
  OBVIOUS
<1>4. QED
  BY <1>2, <1>3, IPCInvariant, WaitingInvariant, PTL

=============================================================================
