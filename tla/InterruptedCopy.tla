---------------------------- MODULE InterruptedCopy ----------------------------
(***************************************************************************)
(* BPCopyTool cut short.  src/common/ProcessTerminator.hpp installs one    *)
(* handler for SIGINT and for std::terminate (an exception nobody caught), *)
(* and the handler longjmps into main(), wherever the main thread stands   *)
(* in copy().  Nothing is unwound on the way: the destructors of the       *)
(* frames that are left do not run, so a lock that the main thread had     *)
(* stays taken and the buffer it had is gone.  main() then destroys the    *)
(* tool, as at the end of copy(), and returns 1.                           *)
(*                                                                         *)
(* The handler runs in the main thread.  That a signal is delivered to     *)
(* writingThread, whose longjmp would leave one thread's stack for         *)
(* another's, is not modelled: the language gives it no meaning.           *)
(* Nor is a signal while the tool is being destroyed, which would destroy  *)
(* it a second time.                                                       *)
(***************************************************************************)
EXTENDS BPCopyTool

VARIABLE aborted        \* the handler has run: main() will return 1

interruptedVars == <<vars, aborted>>

\* The main thread is inside copy().
CopyStates == {"open", "getFree", "noBuffer", "fill", "finishRead", "return", "close"}

\* The main thread may be inside a critical section that BPCopyTool takes in
\* one step: that of returnBuffer, that of finishRead, or that of getFreeBuffer
\* while cv.wait evaluates its predicate.
MayBeInside ==
  /\ queueMutex = NoThread
  /\ \/ rpc \in {"finishRead", "return"} /\ qpc[Reader] = "idle"
     \/ rpc = "getFree" /\ qpc[Reader] \in {"idle", "getFree"} /\ Reader \notin waiting

InterruptedInit == Init /\ aborted = FALSE

Interrupt ==
  /\ rpc \in CopyStates
  /\ rpc' = "join"
  /\ aborted' = TRUE
  /\ waiting' = waiting \ {Reader}
  /\ \/ UNCHANGED queueMutex
     \/ MayBeInside /\ queueMutex' = Reader
  /\ UNCHANGED <<readBuffers, writeBuffers, isOpen, isReadFinished_, bufferType,
                 held, qpc, wpc, readerVars, writerVars>>

InterruptedNext ==
  \/ Next /\ UNCHANGED aborted
  \/ Interrupt

InterruptedSpec == InterruptedInit /\ [][InterruptedNext]_interruptedVars

\* Spurious wakeups and interrupts are never owed.
InterruptedFairSpec ==
  /\ InterruptedSpec
  /\ WF_interruptedVars(ReaderStep /\ UNCHANGED aborted)
  /\ WF_interruptedVars(WriterStep /\ UNCHANGED aborted)

-----------------------------------------------------------------------------
(* Properties *)

ExitStatus ==
  IF rpc # "exited" THEN "copying" ELSE IF aborted THEN "failed" ELSE "done"

InterruptedAbstract ==
  INSTANCE CopyFile WITH size <- fileSize, file <- File, status <- ExitStatus

\* Wherever the run is cut short, what reaches the destination is a prefix of
\* the source, and the exit status 0 still means all of it.
InterruptedImplementsCopyFile == InterruptedAbstract!CopySpec

\* The handler takes at most one chunk along, whatever the interleaving: once
\* the writer of a run that was cut short has fallen asleep, everything read
\* has reached it but the last chunk, which was either in the main thread's
\* hands or in the queue without its notification (BufferedQueue.hpp:168).
AbortLosesOneChunk ==
  aborted /\ Writer \in waiting => currentOffset - Len(dst) <= BUFFER_SIZE

\* Nobody closes the queue after an interrupt, so a writer that was started
\* never leaves its loop (BufferedParallelCopyTool.hpp:66): a run cut short in
\* the middle of a copy cannot end by itself.
InterruptedWriterNeverDone == aborted /\ wpc # "none" => wpc # "done"

\* Where such a run stays, between spurious wakeups: the writer asleep in
\* getFilledBuffer, or in need of the mutex that the main thread took along.
InterruptedRunBlocks ==
  []<>(aborted => \/ rpc = "exited"
                  \/ Writer \in waiting
                  \/ queueMutex = Reader)

\* What ProcessTerminator.hpp:16-17 says the jump is for: "properly call
\* destructor for RAII data structures".  They are all called in the end.
InterruptedRunEnds == aborted ~> rpc = "exited"

=============================================================================
