------------------------ MODULE InterruptedParallelCopy ------------------------
(***************************************************************************)
(* ParallelCopyTool cut short, as InterruptedCopy is BPCopyTool cut short: *)
(* on SIGINT the handler of src/common/ProcessTerminator.hpp longjmps from *)
(* wherever the main thread stands in copy() into main(), which destroys   *)
(* the tool and returns 1.  Nothing is unwound, so qm stays taken if the   *)
(* main thread had it.                                                     *)
(***************************************************************************)
EXTENDS ParallelCopyTool

VARIABLES
  aborted,            \* the handler has run
  qmLost              \* qm was taken when it did

abortedVars == <<vars, aborted, qmLost>>

\* The main thread is inside copy().
CopyStates == {"copy", "start", "read", "push", "close", "finishRead"}

\* It may be inside a section under qm, that of push or of close.
MayHoldQm == rpc = "close" \/ (rpc = "push" /\ call[Reader] = "idle")

AbortedInit == Init /\ aborted = FALSE /\ qmLost = FALSE

\* The handler needs to have been installed, which main() does after the
\* tool is created.
Interrupt ==
  /\ rpc \in CopyStates
  /\ rpc' = "join"
  /\ aborted' = TRUE
  /\ qmLost' \in {FALSE, MayHoldQm}
  /\ UNCHANGED <<syncVars, wpc, readerVars, writerVars>>

\* Mutant: the destructor does not join writingThread.
AbortedLeavesThread ==
  /\ aborted
  /\ rpc = "join"
  /\ rpc' = "failed"
  /\ UNCHANGED <<syncVars, wpc, readerVars, writerVars, aborted, qmLost>>

\* Mutant: the destructor joins a thread that was never started.
AbortedJoinsUnstarted ==
  /\ aborted
  /\ rpc = "join"
  /\ wpc = "done"
  /\ rpc' = "failed"
  /\ UNCHANGED <<syncVars, wpc, readerVars, writerVars, aborted, qmLost>>

\* main() destroys the tool, which joins writingThread if there is one, and
\* returns 1.
AbortedJoins ==
  /\ aborted
  /\ rpc = "join"
  /\ wpc \in {"none", "done"}
  /\ rpc' = "failed"
  /\ UNCHANGED <<syncVars, wpc, readerVars, writerVars, aborted, qmLost>>

MainStep ==
  \/ ~aborted /\ ReaderStep /\ UNCHANGED <<aborted, qmLost>>
  \/ AbortedJoins

\* isEmpty() and pop() need qm.
WritingStep ==
  /\ qmLost => wpc \notin {"isEmpty", "pop"}
  /\ WriterStep
  /\ UNCHANGED <<aborted, qmLost>>

AbortedNext ==
  \/ MainStep
  \/ WritingStep
  \/ Interrupt
  \/ (Terminated \/ \E t \in Threads : Wakes(t)) /\ UNCHANGED <<aborted, qmLost>>

AbortedSpec == AbortedInit /\ [][AbortedNext]_abortedVars

\* Spurious wakeups and interrupts are never owed.
AbortedFairSpec ==
  /\ AbortedSpec
  /\ WF_abortedVars(MainStep)
  /\ WF_abortedVars(WritingStep)

-----------------------------------------------------------------------------
(* Properties *)

\* A run that is not cut short ends, or stays in the one state in which close()
\* can leave the writer asleep by not notifying, with everything written.
\* (That a run cut short still implements FillFile is ImplementsFillFile: what
\* is written is a prefix of the source, nothing is written after the process
\* has ended, and status 0 means all of it.  The length of the file tells
\* nothing: it is that of the source from the start.)
EndsUnlessAborted == <>aborted \/ ExitsOrSleepsOnClosedQueue

\* A run cut short ends, or stays where the destructor waits for the writer:
\* asleep in pop(), or in need of the mutex that the jump took along.
AbortedRunBlocks ==
  []<>(aborted => \/ rpc = "failed"
                  \/ Writer \in sleeping
                  \/ qmLost)

=============================================================================
