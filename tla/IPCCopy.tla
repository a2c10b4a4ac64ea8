-------------------------------- MODULE IPCCopy --------------------------------
(***************************************************************************)
(* The ipc copy tool (--type=ipc), src/common/IPCTool.hpp: a reader and a  *)
(* writer process over one FixedBufferQueue and one ProcInfo in shared     *)
(* memory, each with a SiblingProcessObserver, through copy(), ~IPCTool    *)
(* and ~SharedMemoryManager.  BufferedReader::read and                     *)
(* BufferedFileWriter::write are the actions of BPCopyTool; here Reader    *)
(* and Writer are processes.  Which process gets which role, and what more *)
(* than two processes do, is the subject of IPCSession: here the reader    *)
(* has registered and the writer may come, or not.                         *)
(*                                                                         *)
(* Faults.  "kill": the process is gone between two instructions; its      *)
(* counter, its buffer and a lock it had stay as they are (neither kind of *)
(* lock is robust).  "interrupt": SIGINT makes its main thread jump out of *)
(* copy() into main(), which destroys the tool.  If copy() was already     *)
(* waiting for its observer, the pointer to it is null by then: nobody     *)
(* waits for that thread any more.                                         *)
(*                                                                         *)
(* Timeouts.  timeout() runs in the observer's thread and ends in          *)
(* std::terminate, whose handler jumps into the stack of the main thread.  *)
(* The language gives that no meaning.  The built program then destroys    *)
(* the tool, which counts the process out, and exits, or dies before that. *)
(***************************************************************************)
EXTENDS BPCopyTool, SiblingProcessObserver

CONSTANTS
  EarlyWriter,        \* may the writer come before the reader's open()
  Faults              \* the faults that may happen: pairs of kind and process

ASSUME IPCAssumption ==
  /\ Observers = Threads
  /\ EarlyWriter \in BOOLEAN
  /\ Faults \subseteq {"interrupt", "kill"} \X Threads

VARIABLES
  processCount,       \* ProcInfo's two counters, by the role they count
  isWritingStarted,   \* ProcInfo::isWritingStarted
  procInfoMutex,      \* NoThread, or the process that died with ProcInfo::mutex
  linked,             \* the segment can be found by its name
  fate,               \* what has become of a process
  abandoned           \* the processes whose observer nobody will join

ipcVars == <<processCount, isWritingStarted, procInfoMutex, linked, fate, abandoned>>
allVars == <<vars, observerVars, ipcVars>>

IPCReaderStates == ReaderStates \cup {"await", "leave", "unlink", "dead"}
IPCWriterStates ==
  WriterStates \cup {"register", "create", "signal", "observe", "leave", "unlink",
                     "flush", "exit", "exited", "dead"}
Fates == {"running", "interrupted", "killed", "terminated"}

IPCInit ==
  /\ Init
  /\ ObserverInit
  /\ processCount = [p \in Threads |-> IF p = Reader THEN 1 ELSE 0]
  /\ isWritingStarted = FALSE
  /\ procInfoMutex = NoThread
  /\ linked = TRUE
  /\ fate = [p \in Threads |-> "running"]
  /\ abandoned = {}

Sibling(p) == IF p = Reader THEN Writer ELSE Reader

\* The two processes' program counters, and a step of one of them.
At(p, pc) == IF p = Reader THEN rpc = pc ELSE wpc = pc
Goto(p, pc) ==
  IF p = Reader THEN rpc' = pc /\ UNCHANGED wpc ELSE wpc' = pc /\ UNCHANGED rpc

\* createScopedLock().  Each section under ProcInfo::mutex is one step.
LocksProcInfo == procInfoMutex = NoThread

-----------------------------------------------------------------------------
(* The reader's copy() *)

\* Mutants: the queue is not opened, the observer is not started.
ReaderForgetsToOpen ==
  /\ rpc = "open"
  /\ StartObserver(Reader)
  /\ rpc' = "getFree"
  /\ UNCHANGED <<queueVars, wpc, readerVars, writerVars, ipcVars>>

ReaderOpensUnobserved ==
  /\ rpc = "open"
  /\ Open(Reader)
  /\ rpc' = "getFree"
  /\ UNCHANGED <<wpc, readerVars, writerVars, observerVars, ipcVars>>

\* queue->open(), fileReader->open(), timer->startObserver().
ReaderOpens ==
  /\ rpc = "open"
  /\ Open(Reader)
  /\ StartObserver(Reader)
  /\ rpc' = "getFree"
  /\ UNCHANGED <<wpc, readerVars, writerVars, ipcVars>>

ReaderReads ==
  /\ ReadWaits \/ ReadTakes \/ ReadFills \/ ReadFinishes \/ ReadReturns \/ ReadNotifies
  /\ UNCHANGED <<observerVars, ipcVars>>

ReaderCloses ==
  /\ rpc = "close"
  /\ Close(Reader)
  /\ rpc' = "await"
  /\ UNCHANGED <<wpc, readerVars, writerVars, observerVars, ipcVars>>

\* Mutant: the reader leaves without waiting for the writer.
ReaderDoesNotAwait ==
  /\ rpc = "await"
  /\ rpc' = "join"
  /\ UNCHANGED <<queueVars, wpc, readerVars, writerVars, observerVars, ipcVars>>

\* Waits on writingStartedCondition.  The flag is set and notified under the
\* lock that the waiter has, so no wakeup can be lost and no sleeper is kept.
ReaderAwaits ==
  /\ rpc = "await"
  /\ LocksProcInfo
  /\ isWritingStarted
  /\ rpc' = "join"
  /\ UNCHANGED <<queueVars, wpc, readerVars, writerVars, observerVars, ipcVars>>

-----------------------------------------------------------------------------
(* The writer: its role, its registration and its copy() *)

\* The writer finds the segment and, under the lock, sees a reader alone.
WriterComes ==
  /\ wpc = "none"
  /\ linked
  /\ LocksProcInfo
  /\ processCount[Reader] > processCount[Writer]
  /\ EarlyWriter \/ rpc # "open"
  /\ wpc' = "register"
  /\ UNCHANGED <<queueVars, rpc, readerVars, writerVars, observerVars, ipcVars>>

\* IPCTool's constructor counts the process, under the lock again.
WriterRegisters ==
  /\ wpc = "register"
  /\ LocksProcInfo
  /\ processCount' = [processCount EXCEPT ![Writer] = @ + 1]
  /\ wpc' = "create"
  /\ UNCHANGED <<queueVars, rpc, readerVars, writerVars, observerVars,
                 isWritingStarted, procInfoMutex, linked, fate, abandoned>>

WriterCreates ==
  /\ wpc = "create"
  /\ dst' = <<>>
  /\ flushed' = 0
  /\ wpc' = "signal"
  /\ UNCHANGED <<queueVars, rpc, readerVars, observerVars, ipcVars>>

WriterSignals ==
  /\ wpc = "signal"
  /\ LocksProcInfo
  /\ isWritingStarted' = TRUE
  /\ wpc' = "observe"
  /\ UNCHANGED <<queueVars, rpc, readerVars, writerVars, observerVars,
                 processCount, procInfoMutex, linked, fate, abandoned>>

\* The observer is needed only while the file is being read.
WriterObserves ==
  /\ wpc = "observe"
  /\ queueMutex = NoThread
  /\ \/ isReadFinished_ /\ UNCHANGED observerVars
     \/ ~isReadFinished_ /\ StartObserver(Writer)
  /\ wpc' = "check"
  /\ UNCHANGED <<queueVars, rpc, readerVars, writerVars, ipcVars>>

\* queue->isReadFinished(), the first half of the loop's condition.
WriterChecks ==
  /\ wpc = "check"
  /\ queueMutex = NoThread
  /\ wpc' = IF isReadFinished_ THEN "isEmpty" ELSE "getFilled"
  /\ UNCHANGED <<queueVars, rpc, readerVars, writerVars, observerVars, ipcVars>>

WriterWrites ==
  /\ \/ WritingTestsEmpty
     \/ WriteWaits
     \/ WriteTakes
     \/ WriteFwrites
     \/ WriteReturns
     \/ WriteNotifies
  /\ UNCHANGED <<observerVars, ipcVars>>

-----------------------------------------------------------------------------
(* The end of copy(), ~IPCTool and ~SharedMemoryManager, of both *)

\* timer = nullptr, where the loops of copy() have ended.
Joins(p) == At(p, IF p = Reader THEN "join" ELSE "done")

JoinsObserver(p) ==
  /\ Joins(p)
  /\ StopObserver(p)
  /\ Goto(p, "leave")
  /\ UNCHANGED <<queueVars, readerVars, writerVars, ipcVars>>

\* Mutant: the destructor counts nobody out.
LeavesUncounted(p) ==
  /\ At(p, "leave")
  /\ LocksProcInfo
  /\ Goto(p, "unlink")
  /\ UNCHANGED <<queueVars, readerVars, writerVars, observerVars, ipcVars>>

Leaves(p) ==
  /\ At(p, "leave")
  /\ LocksProcInfo
  /\ processCount' = [processCount EXCEPT ![p] = @ - 1]
  /\ Goto(p, "unlink")
  /\ UNCHANGED <<queueVars, readerVars, writerVars, observerVars,
                 isWritingStarted, procInfoMutex, linked, fate, abandoned>>

\* A thread that nobody joins goes on until the segment is unmapped under it or
\* the process exits, perhaps inside the section of its poll.
LosesObserver(p) ==
  /\ observer' = [observer EXCEPT ![p] = "ended"]
  /\ \/ UNCHANGED procInfoMutex
     \/ procInfoMutex = NoThread /\ observer[p] = "polling" /\ procInfoMutex' = p
  /\ UNCHANGED stopwatch

\* The members: the observer, if copy() has not stopped it, and the segment,
\* which the last process removes.
Unlinks(p) ==
  /\ At(p, "unlink")
  /\ \/ p \notin abandoned /\ StopObserver(p) /\ UNCHANGED procInfoMutex
     \/ p \in abandoned /\ LosesObserver(p)
  /\ linked' = (linked /\ \E q \in Threads : processCount[q] # 0)
  /\ Goto(p, IF p = Reader THEN "exited" ELSE "flush")
  /\ UNCHANGED <<queueVars, readerVars, writerVars, processCount,
                 isWritingStarted, fate, abandoned>>

\* ~BufferedFileWriter comes last.
WriterFlushes ==
  /\ wpc = "flush"
  /\ flushed' = Len(dst)
  /\ wpc' = "exit"
  /\ UNCHANGED <<queueVars, rpc, readerVars, dst, observerVars, ipcVars>>

WriterExits ==
  /\ wpc = "exit"
  /\ wpc' = "exited"
  /\ UNCHANGED <<queueVars, rpc, readerVars, writerVars, observerVars, ipcVars>>

-----------------------------------------------------------------------------
(* Observers and timeouts *)

Alive(p) == fate[p] \in {"running", "interrupted"}

ObserverPolls(p) ==
  /\ Alive(p)
  /\ LocksProcInfo
  /\ Poll(p, processCount[Sibling(p)])
  /\ UNCHANGED <<vars, ipcVars>>

\* A process may be inside a section of queueMutex or of ProcInfo::mutex that
\* an action above takes in one step, or one in which cv.wait evaluates its
\* predicate.
InQueueSection(p) ==
  /\ queueMutex = NoThread
  /\ \/ p = Reader /\ rpc = "finishRead"
     \/ p = Reader /\ rpc = "return" /\ qpc[p] = "idle"
     \/ p = Reader /\ rpc = "getFree" /\ qpc[p] \in {"idle", "getFree"} /\ p \notin waiting
     \/ p = Writer /\ wpc \in {"observe", "check", "isEmpty"}
     \/ p = Writer /\ wpc = "return" /\ qpc[p] = "idle"
     \/ p = Writer /\ wpc = "getFilled" /\ qpc[p] \in {"idle", "getFilled"} /\ p \notin waiting

InProcInfoSection(p) ==
  /\ procInfoMutex = NoThread
  /\ At(p, IF p = Reader THEN "await" ELSE "signal")

\* The locks a process takes along when it is cut short, or does not.
MayTakeLocks(p, insideProcInfo) ==
  /\ \/ UNCHANGED queueMutex
     \/ InQueueSection(p) /\ queueMutex' = p
  /\ \/ UNCHANGED procInfoMutex
     \/ insideProcInfo /\ procInfoMutex' = p

\* timeout() of a writer: the reader has finished, so there is nothing to do.
TimeoutReturns ==
  /\ Alive(Writer)
  /\ queueMutex = NoThread
  /\ isReadFinished_
  /\ ObserverReturns(Writer)
  /\ UNCHANGED <<vars, ipcVars>>

\* Mutant: a writer whose reader has gone is not terminated.
NoReaderNoMatter(p) == p = Reader

\* timeout()'s condition.
GivesUp(p) == p = Reader \/ (queueMutex = NoThread /\ ~isReadFinished_)

TimeoutTerminates(p) ==
  /\ observer[p] = "timeout"
  /\ Alive(p)
  /\ GivesUp(p)
  /\ linked' = FALSE
  /\ fate' = [fate EXCEPT ![p] = "terminated"]
  /\ \/ UNCHANGED processCount
     \/ LocksProcInfo /\ processCount' = [processCount EXCEPT ![p] = 0]
  /\ MayTakeLocks(p, InProcInfoSection(p))
  /\ waiting' = waiting \ {p}
  /\ Goto(p, "dead")
  /\ flushed' \in IF p = Writer THEN flushed..Len(dst) ELSE {flushed}
  /\ UNCHANGED <<readBuffers, writeBuffers, isOpen, isReadFinished_, bufferType,
                 held, qpc, readerVars, dst, observerVars, isWritingStarted, abandoned>>

-----------------------------------------------------------------------------
(* Faults *)

InsideCopy(p) ==
  IF p = Reader
  THEN rpc \in {"open", "getFree", "noBuffer", "fill", "finishRead", "return", "close",
                "await", "join"}
  ELSE wpc \in {"create", "signal", "observe", "check", "isEmpty", "getFilled", "fwrite",
                "return", "done"}

Interrupt(p) ==
  /\ <<"interrupt", p>> \in Faults
  /\ InsideCopy(p)
  /\ fate[p] = "running"
  /\ fate' = [fate EXCEPT ![p] = "interrupted"]
  /\ Goto(p, "leave")
  /\ waiting' = waiting \ {p}
  /\ MayTakeLocks(p, InProcInfoSection(p))
  /\ \/ UNCHANGED abandoned
     \/ Joins(p) /\ observer[p] \in {"polling", "timeout"} /\ abandoned' = abandoned \cup {p}
  /\ UNCHANGED <<readBuffers, writeBuffers, isOpen, isReadFinished_, bufferType,
                 held, qpc, readerVars, writerVars, observerVars, processCount,
                 isWritingStarted, linked>>

\* An abandoned observer dies of the unmapped segment, and its process with it:
\* that matters to a writer that has not flushed its file.
Kill(p) ==
  /\ \/ <<"kill", p>> \in Faults
     \/ p \in abandoned /\ p = Writer /\ wpc = "flush"
  /\ Alive(p)
  /\ ~At(p, "none") /\ ~At(p, "exited")
  /\ fate' = [fate EXCEPT ![p] = "killed"]
  /\ Goto(p, "dead")
  /\ waiting' = waiting \ {p}
  /\ MayTakeLocks(p, \/ InProcInfoSection(p)
                     \/ /\ procInfoMutex = NoThread
                        /\ observer[p] = "polling" \/ At(p, "register") \/ At(p, "leave"))
  /\ UNCHANGED <<readBuffers, writeBuffers, isOpen, isReadFinished_, bufferType,
                 held, qpc, readerVars, writerVars, observerVars, processCount,
                 isWritingStarted, linked, abandoned>>

-----------------------------------------------------------------------------

IPCReaderStep ==
  \/ ReaderOpens
  \/ ReaderReads
  \/ ReaderCloses
  \/ ReaderAwaits
  \/ JoinsObserver(Reader)
  \/ Leaves(Reader)
  \/ Unlinks(Reader)

\* Once it has come, the writer goes on.
IPCWriterStep ==
  \/ WriterRegisters
  \/ WriterCreates
  \/ WriterSignals
  \/ WriterObserves
  \/ WriterChecks
  \/ WriterWrites
  \/ JoinsObserver(Writer)
  \/ Leaves(Writer)
  \/ Unlinks(Writer)
  \/ WriterFlushes
  \/ WriterExits

ObserverStep(p) ==
  \/ ObserverPolls(p)
  \/ TimeoutTerminates(p)
  \/ p = Writer /\ TimeoutReturns

WakesProcess(p) ==
  /\ SpuriousWakeup(p)
  /\ UNCHANGED <<rpc, wpc, readerVars, writerVars, observerVars, ipcVars>>

ReaderEnded == rpc \in {"exited", "dead"}
WriterEnded == wpc \in {"exited", "dead"}
BothEnded == ReaderEnded /\ (WriterEnded \/ wpc = "none") /\ UNCHANGED allVars

IPCNext ==
  \/ IPCReaderStep
  \/ WriterComes
  \/ IPCWriterStep
  \/ \E p \in Threads :
       \/ ObserverStep(p)
       \/ WakesProcess(p)
       \/ Interrupt(p)
       \/ Kill(p)
  \/ BothEnded

IPCSpec == IPCInit /\ [][IPCNext]_allVars

\* Each thread that can run is run.  A writer may ask a closed queue for a
\* buffer again and again, which takes and frees queueMutex each time; strong
\* fairness says that the observer gets the mutex in the end.  Nothing obliges
\* a writer to come, a fault to happen or a sleeper to wake spuriously.
IPCFairSpec ==
  /\ IPCSpec
  /\ WF_allVars(IPCReaderStep)
  /\ WF_allVars(IPCWriterStep)
  /\ \A p \in Threads : SF_allVars(ObserverStep(p))

-----------------------------------------------------------------------------
(* Properties *)

\* Type invariant of the two processes.
IPCTypeOK ==
  /\ QueueTypeOK
  /\ ObserverTypeOK
  /\ rpc \in IPCReaderStates
  /\ wpc \in IPCWriterStates
  /\ fileSize \in FileSizes
  /\ currentOffset \in 0..fileSize
  /\ streamPos \in 0..fileSize
  /\ flushed \in 0..Len(dst)
  /\ processCount \in [Threads -> 0..1]
  /\ isWritingStarted \in BOOLEAN
  /\ procInfoMutex \in Threads \cup {NoThread}
  /\ linked \in BOOLEAN
  /\ fate \in [Threads -> Fates]
  /\ abandoned \subseteq Threads

\* As long as nobody is killed or terminated, a process that counts is one
\* that has registered and not yet left, whichever way it leaves
\* (IPCTool.hpp:66 and 80-91): what the observers and the next process to
\* come read is the truth.
CountsAreTrue ==
  /\ Alive(Reader) =>
       (processCount[Reader] = 1 <=> rpc \notin {"unlink", "exited"})
  /\ Alive(Writer) =>
       (processCount[Writer] = 1
          <=> wpc \notin {"none", "register", "unlink", "flush", "exit", "exited"})

\* A reader that ends well has been joined by a writer, which has truncated
\* the destination and said so (IPCTool.hpp:118-126): the segment cannot go
\* while the writer is on its way.
ReaderLeavesAWriter ==
  rpc \in {"join", "leave", "unlink", "exited"} /\ fate[Reader] = "running" =>
    wpc \notin {"none", "register", "create", "signal"}

IPCStatus == IF wpc = "exited" /\ fate[Writer] = "running" THEN "done" ELSE "copying"

IPCAbstract == INSTANCE CopyFile WITH size <- fileSize, file <- File, status <- IPCStatus

\* Whatever is killed, interrupted or given up, the destination only grows
\* along the source, and a writer that ends well has written all of it: the
\* queue is closed only after the last chunk is in it.
IPCImplementsCopyFile == IPCAbstract!CopySpec

\* A lock is lost with the process that had it.
LockLost == \E p \in Threads :
  fate[p] # "running" /\ (queueMutex = p \/ procInfoMutex = p)

\* A process that has died and is still counted: nobody will miss it.
DeadButCounted(p) == fate[p] \in {"killed", "terminated"} /\ processCount[p] = 1

\* The writer waits although reading is finished and nobody will wake it: the
\* reader closed the queue without a notification, or was cut short before
\* close(), perhaps between a return and its notification.  timeout() does
\* nothing for it.
AsleepAfterTheEnd ==
  /\ wpc = "getFilled"
  /\ writeBuffers = <<>> \/ fate[Reader] # "running"
  /\ isReadFinished_
  /\ rpc \notin {"open", "getFree", "fill", "finishRead", "return", "close"}

\* The places in which the main thread of a process can be held up: asleep in
\* cv.wait, at a mutex that is taken, or, in the reader, waiting for a writer to
\* start.  A process that has not come or has ended does nothing either.  The
\* join of the observer is none: its callback waits for queueMutex at most.
HeldUp(p) ==
  \/ p \in waiting
  \/ queueMutex # NoThread /\ qpc[p] \notin {"takeFree", "takeFilled"}
  \/ procInfoMutex # NoThread
  \/ p = Reader /\ rpc = "await" /\ ~isWritingStarted
  \/ p = Writer /\ wpc = "none"
  \/ At(p, "exited")

\* As long as nobody is cut short, the pool, the two mutexes and the reader's
\* wait for the writer hold both processes up only before a writer has come,
\* where close() forgets the writer, or when both have ended
\* (IPCTool.hpp:105-165, BufferedQueue.hpp:83-94, 107-118).
HeldUpOnlyAsKnown ==
  (\A p \in Threads : fate[p] = "running" /\ HeldUp(p)) =>
    \/ wpc = "none"
    \/ AsleepAfterTheEnd
    \/ rpc = "exited" /\ wpc = "exited"

\* Unless a lock is lost or somebody is dead and still counted, both end, or
\* the writer never came, or it sleeps through the end.
EndsOrSleeps ==
  \/ <>(LockLost \/ \E p \in Threads : DeadButCounted(p))
  \/ <>[](ReaderEnded /\ (WriterEnded \/ wpc = "none"))
  \/ <>[]AsleepAfterTheEnd

\* A process that SIGINT has stopped counts itself out (IPCTool.hpp:80-91), so
\* the observer of its sibling sees nobody and ends it, unless the jump lost
\* a lock or reading was over.
InterruptIsNoticed ==
  \A p \in Threads :
    fate[p] = "interrupted" /\ At(p, "exited") ~>
      \/ At(Sibling(p), "exited") \/ At(Sibling(p), "dead") \/ At(Sibling(p), "none")
      \/ LockLost
      \/ p = Reader /\ isReadFinished_

\* The reader's end needs no writer: it is given up in time, unless a lock is
\* lost or the writer is dead and still counted.
ReaderEnds == <>(ReaderEnded \/ LockLost \/ DeadButCounted(Writer))

\* What the comment on the observer says (SiblingProcessObserver.hpp:9): it
\* is there "to stop execution if no reader/writer available"; so a writer
\* whose reader has left ends, even if nobody was cut short.
WriterEnds ==
  []~(\E p \in Threads : fate[p] # "running") =>
    (wpc # "none" /\ processCount[Reader] = 0 ~> WriterEnded)

\* What the comment in timeout() says (IPCTool.hpp:186): a writer whose
\* reading process has been killed before it finished is terminated.
KilledReaderStopsWriter ==
  fate[Reader] = "killed" /\ ~isReadFinished_ /\ wpc = "getFilled" ~> WriterEnded

\* What the comment in timeout() says (IPCTool.hpp:184): a reader is
\* terminated only if no writers are available.
TerminatesOnlyAlone ==
  [][fate'[Reader] = "terminated" /\ fate[Reader] # "terminated"
       => processCount[Writer] = 0]_allVars

\* What the comment on getFilledBuffer says (BufferedQueue.hpp:110): it
\* returns a filled buffer or nothing; no element of an empty deque is read.
GetReturns == \A t \in Threads : qpc[t] # "undefined"

=============================================================================
