------------------------ MODULE InterruptedCopy_proofs -------------------------
(***************************************************************************)
(* What holds of a BPCopyTool that is cut short at any point of copy(),    *)
(* for any number and size of buffers and any size of file.                *)
(***************************************************************************)
EXTENDS InterruptedCopy, BPCopyTool_proofs

(***************************************************************************)
(* Until the handler runs, all that holds of the tool holds.  From then on *)
(* the main thread only waits for the writer, which goes on: AbortInv is   *)
(* what is left of ToolInv for it, and PipeOut what is left of PipeInv.    *)
(* The buffer the main thread had, and the promise of the other end of the *)
(* pipe, are lost.                                                         *)
(***************************************************************************)
AbortInv ==
  /\ rpc \in {"join", "flush", "exit", "exited"}
  /\ wpc \in WriterStates \ {"done"}
  /\ wpc # "none" => isOpen
  /\ rpc # "join" => wpc = "none"
  /\ WriterCalls
  /\ qpc[Writer] = "takeFilled" => writeBuffers # <<>>
  /\ WriterHolds
  /\ fileSize \in FileSizes
  /\ currentOffset \in 0..fileSize
  /\ streamPos \in 0..fileSize
  /\ readFinished \in BOOLEAN
  /\ contents \in [Buffers -> ContentTypes]

InterruptedInv ==
  /\ ConservationInv
  /\ DstInv
  /\ aborted \in BOOLEAN
  /\ ~aborted => ToolInv /\ EndInv
  /\ aborted => AbortInv

\* As long as fwrite takes what it is given.
InterruptedPipeInv ==
  /\ ~aborted => PipeInv
  /\ aborted => PipeOut

-----------------------------------------------------------------------------
(* The handler *)

LEMMA InterruptIsSafe ==
  ASSUME ConservationInv, ToolInv, EndInv, Interrupt PROVE ConservationInv' /\ AbortInv'
<1>1. /\ Reader \in Threads /\ Reader # Writer
      /\ rpc \in CopyStates /\ rpc' = "join"
      /\ UNCHANGED <<readBuffers, writeBuffers, isOpen, isReadFinished_, bufferType, held, qpc,
                     wpc, readerVars>>
      /\ queueMutex' \in {queueMutex, Reader}
      /\ waiting' \subseteq waiting
  BY ToolAssumption DEF Interrupt
<1>2. ConservationInv'
  BY <1>1 DEF ConservationInv, QueueTypeOK, CallsHoldNothing, BuffersConserved, NoBufferTwice,
     NoBufferLost
<1>3. rpc = "open" => wpc = "none"
  BY DEF ToolInv, ControlInv, OpenWhileReading
<1>4. rpc # "open" => rpc \in OpenStates
  BY <1>1 DEF CopyStates, OpenStates, ToolInv, ControlInv
<1>5. wpc # "none" => isOpen
  BY <1>3, <1>4 DEF ToolInv, ControlInv, OpenWhileReading
<1>6. wpc # "done"
  BY <1>5 DEF EndInv
<1>7. qpc[Writer] = "takeFilled" => writeBuffers # <<>>
  BY <1>5 DEF ToolInv, ControlInv, TakersFind, WriterCalls
<1>8. WriterCalls /\ WriterHolds /\ wpc \in WriterStates /\ StreamInv
  BY DEF ToolInv, ControlInv, ReadInv
<1>9. AbortInv'
  BY <1>1, <1>5, <1>6, <1>7, <1>8 DEF AbortInv, WriterCalls, WriterHolds, StreamInv, OffsetsInv, readerVars
<1>10. QED
  BY <1>2, <1>9

-----------------------------------------------------------------------------
(* After the handler *)

\* The queue stays open, so the writer neither leaves its loop nor gets
\* nothing; and the main thread makes no call.
LEMMA AbortedSteps ==
  ASSUME AbortInv, Next
  PROVE  \/ CopyJoins /\ wpc = "none"
         \/ CopyFlushes
         \/ MainReturns
         \/ WritingChecks
         \/ WritingTestsEmpty /\ isOpen
         \/ WriteWaits
         \/ WriteTakes /\ writeBuffers # <<>>
         \/ WriteFwrites
         \/ WriteReturns
         \/ WriteNotifies
         \/ \E t \in Threads : Wakes(t)
         \/ UNCHANGED vars
<1>1. rpc \in {"join", "flush", "exit", "exited"}
  BY DEF AbortInv
<1>2. CASE ReaderStep
  <2>1. CopyJoins \/ CopyFlushes \/ MainReturns
    BY <1>1, <1>2 DEF ReaderStep, CopyStarts, ReadWaits, ReadTakes, ReadFills, ReadFinishes,
       ReadReturns, ReadNotifies, CopyCloses
  <2>2. CopyJoins => wpc = "none"
    BY DEF CopyJoins, AbortInv
  <2>3. QED
    BY <2>1, <2>2
<1>3. CASE WriterStep
  <2>1. WritingTestsEmpty => isOpen
    BY DEF WritingTestsEmpty, AbortInv
  <2>2. WriteTakes => writeBuffers # <<>>
    BY DEF WriteTakes, TakeFilled, AbortInv
  <2>3. QED
    BY <1>3, <2>1, <2>2 DEF WriterStep
<1>4. QED
  BY <1>2, <1>3 DEF Next, Terminated

LEMMA AbortStep ==
  ASSUME ConservationInv, AbortInv, Next PROVE AbortInv'
<1> USE DEF AbortInv, WriterStates
<1>1. /\ Reader # Writer /\ Threads = {Reader, Writer} /\ NoBuffer \notin Buffers
      /\ qpc \in [Threads -> CallStates]
      /\ held \in [Threads -> Buffers \cup {NoBuffer}]
      /\ bufferType \in [Buffers -> {"READ", "WRITE"}]
      /\ writeBuffers \in Seq(Buffers)
  BY ToolAssumption DEF ConservationInv, QueueTypeOK, Buffers, NoBuffer
\* A step that leaves the writer and its buffer alone.
<1>2. ASSUME UNCHANGED <<wpc, isOpen, writeBuffers, qpc, held, bufferType, readerVars>>,
             rpc' \in {"join", "flush", "exit", "exited"},
             rpc' # "join" => wpc = "none"
      PROVE  AbortInv'
  BY <1>2 DEF readerVars, WriterCalls, WriterHolds
<1>3. CASE \/ CopyJoins /\ wpc = "none"
           \/ CopyFlushes
           \/ MainReturns
  BY <1>2, <1>3 DEF CopyJoins, CopyFlushes, MainReturns, queueVars
<1>4. CASE UNCHANGED vars
  BY <1>2, <1>4 DEF vars, queueVars
<1>5. ASSUME NEW t \in Threads, Wakes(t)
      PROVE  AbortInv'
  BY <1>2, <1>5 DEF Wakes, SpuriousWakeup
\* A step of the writer: what the main thread left is as it was.
<1>6. ASSUME UNCHANGED <<rpc, isOpen, readerVars>>,
             wpc # "none", wpc' \in WriterStates \ {"none", "done"},
             WriterCalls', WriterHolds',
             qpc'[Writer] = "takeFilled" => writeBuffers' # <<>>
      PROVE  AbortInv'
  BY <1>6 DEF readerVars
<1>7. CASE WritingChecks
  BY <1>6, <1>7 DEF WritingChecks, queueVars, WriterCalls, WriterHolds
<1>8. CASE WritingTestsEmpty /\ isOpen
  BY <1>6, <1>8 DEF WritingTestsEmpty, IsEmpty, queueVars, WriterCalls, WriterHolds
<1>9. CASE WriteWaits
  <2>1. /\ UNCHANGED <<rpc, wpc, isOpen, writeBuffers, readerVars, held, bufferType>>
        /\ wpc = "getFilled"
        /\ qpc'[Writer] \in {"getFilled", "takeFilled"}
        /\ qpc'[Writer] = "takeFilled" => CanGetFilled
    BY <1>1, <1>9 DEF WriteWaits, WaitFilled, WaitUntil
  <2>2. QED
    BY <1>6, <2>1 DEF WriterCalls, WriterHolds, CanGetFilled
<1>10. CASE WriteTakes /\ writeBuffers # <<>>
  <2>1. Head(writeBuffers) \in Buffers
    BY <1>1, <1>10, TailFacts
  <2>2. /\ held' = [held EXCEPT ![Writer] = Head(writeBuffers)]
        /\ bufferType' = [bufferType EXCEPT ![Head(writeBuffers)] = "WRITE"]
        /\ qpc' = [qpc EXCEPT ![Writer] = "idle"]
        /\ wpc = "getFilled" /\ UNCHANGED <<rpc, isOpen, readerVars>>
    BY <1>10 DEF WriteTakes, TakeFilled, Give
  <2>3. wpc' = "fwrite" /\ held'[Writer] \in Buffers /\ bufferType'[held'[Writer]] = "WRITE"
        /\ qpc'[Writer] = "idle"
    BY <1>1, <1>10, <2>1, <2>2 DEF WriteTakes
  <2>4. QED
    BY <1>6, <2>2, <2>3 DEF WriterCalls, WriterHolds
<1>11. CASE WriteFwrites
  <2>1. UNCHANGED <<queueVars, rpc, readerVars>> /\ wpc = "fwrite" /\ wpc' = "return"
    BY <1>11 DEF WriteFwrites
  <2>2. QED
    BY <1>6, <2>1 DEF queueVars, WriterCalls, WriterHolds
<1>12. CASE WriteReturns
  <2>1. /\ qpc'[Writer] = "notify" /\ wpc = "return"
        /\ UNCHANGED <<rpc, wpc, isOpen, readerVars>>
    BY <1>1, <1>12 DEF WriteReturns, ReturnBuffer
  <2>2. QED
    BY <1>6, <2>1 DEF WriterCalls, WriterHolds
<1>13. CASE WriteNotifies
  <2>1. held[Writer] = NoBuffer
    BY <1>1, <1>13 DEF WriteNotifies, NotifyAll, ConservationInv, CallsHoldNothing
  <2>2. /\ qpc'[Writer] = "idle" /\ wpc = "return" /\ wpc' = "check"
        /\ UNCHANGED <<rpc, isOpen, readerVars, held>>
    BY <1>1, <1>13 DEF WriteNotifies, NotifyAll
  <2>3. QED
    BY <1>6, <2>1, <2>2 DEF WriterCalls, WriterHolds
<1>14. QED
  BY <1>3, <1>4, <1>5, <1>7, <1>8, <1>9, <1>10, <1>11, <1>12, <1>13, AbortedSteps

LEMMA AbortedDst ==
  ASSUME AbortInv, DstInv, Next PROVE DstInv' /\ flushed' >= flushed
BY DstTypeStep DEF AbortInv

-----------------------------------------------------------------------------
(* The whole run *)

\* A step of the tool, before or after the handler.
LEMMA InterruptedStep ==
  ASSUME InterruptedInv, [InterruptedNext]_interruptedVars
  PROVE  InterruptedInv' /\ flushed' >= flushed
<1> USE DEF InterruptedInv
<1>1. CASE UNCHANGED interruptedVars
  <2>1. UNCHANGED vars /\ aborted' = aborted
    BY <1>1 DEF interruptedVars
  <2>2. UNCHANGED queueVars
    BY <2>1 DEF vars
  <2>3. ConservationInv'
    BY <2>2, ConservationStep
  <2>4. DstInv' /\ flushed' >= flushed
    BY <2>1 DEF vars, writerVars, DstInv
  <2>5. ~aborted => ControlInv' /\ ReadInv' /\ EndInv'
    BY <2>1, ControlStep, ReadStep, EndStep DEF ToolInv, ConservationInv
  <2>6. aborted => AbortInv'
    BY <2>1 DEF vars, queueVars, readerVars, AbortInv, WriterCalls, WriterHolds
  <2>7. QED
    BY <2>1, <2>3, <2>4, <2>5, <2>6 DEF ToolInv
<1>2. CASE Next /\ aborted' = aborted
  <2>1. ConservationInv'
    BY <1>2, ToolStepIsQueueStep, ConservationStep
  <2>2. CASE ~aborted
    <3>1. ControlInv' /\ ReadInv' /\ EndInv' /\ DstInv' /\ flushed' >= flushed
      BY <1>2, <2>2, ControlStep, ReadStep, EndStep, DstStep DEF ToolInv, ConservationInv
    <3>2. QED
      BY <1>2, <2>1, <2>2, <3>1 DEF ToolInv
  <2>3. CASE aborted
    <3>1. AbortInv' /\ DstInv' /\ flushed' >= flushed
      BY <1>2, <2>3, AbortStep, AbortedDst
    <3>2. QED
      BY <1>2, <2>1, <2>3, <3>1
  <2>4. QED
    BY <2>2, <2>3
<1>3. CASE Interrupt
  <2>1. ~aborted
    BY <1>3 DEF Interrupt, CopyStates, AbortInv
  <2>2. ConservationInv' /\ AbortInv'
    BY <1>3, <2>1, InterruptIsSafe
  <2>3. aborted' = TRUE /\ UNCHANGED writerVars
    BY <1>3 DEF Interrupt
  <2>4. DstInv' /\ flushed' >= flushed
    BY <2>3 DEF writerVars, DstInv
  <2>5. QED
    BY <2>2, <2>3, <2>4
<1>4. QED
  BY <1>1, <1>2, <1>3 DEF InterruptedNext

LEMMA InterruptedInvariant == InterruptedSpec => []InterruptedInv
<1>1. InterruptedInit => InterruptedInv
  <2> SUFFICES ASSUME InterruptedInit
               PROVE  InterruptedInv
    OBVIOUS
  <2>1. Init /\ aborted = FALSE
    BY DEF InterruptedInit
  <2>2. ConservationInv
    BY <2>1, ConservationInit DEF Init
  <2>3. ControlInv /\ ReadInv /\ EndInv /\ DstInv
    BY <2>1, ControlInit, ReadInit, EndInit, DstInit
  <2>4. QED
    BY <2>1, <2>2, <2>3 DEF InterruptedInv, ToolInv
<1>2. InterruptedInv /\ [InterruptedNext]_interruptedVars => InterruptedInv'
  BY InterruptedStep
<1>3. QED
  BY <1>1, <1>2, PTL DEF InterruptedSpec

\* The types are kept, whenever the handler runs: above all, no buffer is ever
\* filled or written beyond its end, and no offset passes the end of the file.
THEOREM InterruptedTypeCorrect == InterruptedSpec => []TypeOK
<1>1. InterruptedInv => TypeOK
  <2> SUFFICES ASSUME InterruptedInv
               PROVE  TypeOK
    OBVIOUS
  <2>1. QueueTypeOK /\ DstInv
    BY DEF InterruptedInv, ConservationInv
  <2>2. CASE ~aborted
    BY <2>1, <2>2 DEF InterruptedInv, ToolInv, ControlInv, ReadInv, StreamInv, OffsetsInv, DstInv, TypeOK
  <2>3. CASE aborted
    BY <2>1, <2>3 DEF InterruptedInv, AbortInv, ReaderStates, DstInv, TypeOK
  <2>4. QED
    BY <2>2, <2>3
<1>2. QED
  BY <1>1, InterruptedInvariant, PTL

\* The jump out of copy() neither duplicates a buffer nor lets one disappear:
\* the one the main thread had stays its own for ever.
THEOREM InterruptedPoolConserved == InterruptedSpec => []BuffersConserved
<1>1. InterruptedInv => BuffersConserved
  BY DEF InterruptedInv, ConservationInv
<1>2. QED
  BY <1>1, InterruptedInvariant, PTL

\* Once the handler has run, a writer that was started never leaves its loop,
\* however many buffers there are and whatever is left to write, so the join
\* that main() makes when it destroys the tool has nothing to return for.
THEOREM WriterNeverReleased == InterruptedSpec => []InterruptedWriterNeverDone
<1>1. InterruptedInv => InterruptedWriterNeverDone
  BY DEF InterruptedInv, AbortInv, InterruptedWriterNeverDone
<1>2. QED
  BY <1>1, InterruptedInvariant, PTL

-----------------------------------------------------------------------------
(* The destination of a run that is cut short *)

LEMMA AbortedPipe ==
  ASSUME ~DiskMayFill, ConservationInv, AbortInv, DstInv, PipeOut, Next
  PROVE  PipeOut'
<1>1. /\ Reader # Writer /\ Threads = {Reader, Writer}
      /\ held \in [Threads -> Buffers \cup {NoBuffer}]
      /\ QueueTypeOK
  BY ToolAssumption DEF ConservationInv, QueueTypeOK
<1>2. CASE \/ CopyJoins /\ wpc = "none"
           \/ CopyFlushes
           \/ MainReturns
  BY <1>2, OutFrame DEF CopyJoins, CopyFlushes, MainReturns, queueVars, readerVars, writerVars
<1>3. CASE UNCHANGED vars
  BY <1>3, OutFrame DEF vars, queueVars, readerVars, writerVars
<1>4. ASSUME NEW t \in Threads, Wakes(t)
      PROVE  PipeOut'
  BY <1>4, OutFrame DEF Wakes, SpuriousWakeup, readerVars, writerVars
<1>5. CASE \/ WritingChecks
           \/ WritingTestsEmpty /\ isOpen
  BY <1>5, OutFrame DEF WritingChecks, WritingTestsEmpty, queueVars, readerVars, writerVars
<1>6. CASE WriteWaits
  BY <1>6, OutFrame DEF WriteWaits, WaitFilled, WaitUntil, readerVars, writerVars
<1>7. CASE WriteTakes /\ writeBuffers # <<>>
  BY <1>1, <1>7, OutTakes
<1>8. CASE WriteFwrites
  <2>1. contents \in [Buffers -> ContentTypes] /\ held[Writer] \in Buffers
    BY <1>8 DEF WriteFwrites, AbortInv, WriterHolds
  <2>2. QED
    BY <1>8, <2>1, OutWrites
<1>9. CASE WriteReturns
  <2>1. bufferType[held[Writer]] = "WRITE"
    BY <1>9 DEF WriteReturns, ReturnBuffer, AbortInv, WriterHolds
  <2>2. UNCHANGED <<dst, contents, currentOffset, writeBuffers, wpc>> /\ wpc = "return"
    BY <1>9, <2>1 DEF WriteReturns, ReturnBuffer, readerVars, writerVars
  <2>3. QED
    BY <2>2, OutFrame
<1>10. CASE WriteNotifies
  BY <1>10, OutFrame DEF WriteNotifies, NotifyAll, readerVars, writerVars
<1>11. QED
  BY <1>2, <1>3, <1>4, <1>5, <1>6, <1>7, <1>8, <1>9, <1>10, AbortedSteps

LEMMA InterruptedPipeStep ==
  ASSUME ~DiskMayFill, InterruptedInv, InterruptedPipeInv, [InterruptedNext]_interruptedVars
  PROVE  InterruptedPipeInv'
<1> USE DEF InterruptedInv, InterruptedPipeInv
<1>1. CASE UNCHANGED interruptedVars
  <2>1. UNCHANGED vars /\ aborted' = aborted
    BY <1>1 DEF interruptedVars
  <2>2. ~aborted => PipeInv'
    BY <2>1, PipeStep
  <2>3. aborted => PipeOut'
    BY <2>1, OutFrame DEF vars, queueVars, readerVars, writerVars
  <2>4. QED
    BY <2>1, <2>2, <2>3
<1>2. CASE Next /\ aborted' = aborted
  <2>1. ~aborted => PipeInv'
    BY <1>2, PipeStep
  <2>2. aborted => PipeOut'
    BY <1>2, AbortedPipe
  <2>3. QED
    BY <1>2, <2>1, <2>2
<1>3. CASE Interrupt
  <2>1. ~aborted
    BY <1>3 DEF Interrupt, CopyStates, AbortInv
  <2>2. PipeOut
    BY <2>1, PipeHasAnOut
  <2>3. PipeOut' /\ aborted' = TRUE
    BY <1>3, <2>2, OutFrame DEF Interrupt, readerVars, writerVars
  <2>4. QED
    BY <2>3
<1>4. QED
  BY <1>1, <1>2, <1>3 DEF InterruptedNext

\* All that is known of a run on a disk that does not fill.
InterruptedCopyInv == InterruptedInv /\ InterruptedPipeInv

LEMMA InterruptedCopyInvariant ==
  ~DiskMayFill /\ InterruptedSpec => []InterruptedCopyInv
<1>1. InterruptedInit => InterruptedPipeInv
  BY PipeInit DEF InterruptedInit, InterruptedPipeInv
<1>2. ~DiskMayFill /\ InterruptedInv /\ InterruptedPipeInv
        /\ [InterruptedNext]_interruptedVars => InterruptedPipeInv'
  BY InterruptedPipeStep
<1>3. InterruptedInv /\ InterruptedPipeInv <=> InterruptedCopyInv
  BY DEF InterruptedCopyInv
<1>4. (~DiskMayFill) => [](~DiskMayFill)
  OBVIOUS
<1>5. QED
  BY <1>1, <1>2, <1>3, <1>4, InterruptedInvariant, PTL DEF InterruptedSpec

\* After the handler the file may still grow, as long as the writer has work
\* and until the files are closed, and then the process ends with status 1.
LEMMA AbortedCopyStep ==
  ASSUME ~DiskMayFill, InterruptedCopyInv, InterruptedCopyInv', aborted, aborted', Next
  PROVE  [InterruptedAbstract!CopyNext]_<<fileSize, File, ExitStatus>>
<1>1. /\ AbortInv /\ AbortInv' /\ DstInv /\ DstInv' /\ PipeOut /\ PipeOut'
  BY DEF InterruptedCopyInv, InterruptedInv, InterruptedPipeInv
<1>2. /\ File = Abstract!Source(flushed) /\ Len(File) = flushed
      /\ File' = Abstract!Source(flushed')
  <2>1. (DstInv /\ DstIsPrefix => File = Abstract!Source(flushed) /\ Len(File) = flushed)'
    BY FileFacts, PTL
  <2>2. QED
    BY <1>1, <2>1, FileFacts DEF PipeOut
<1>3. fileSize' = fileSize
  BY <1>1, AbortedSteps DEF vars, readerVars, Wakes, CopyJoins, CopyFlushes, MainReturns,
     WritingChecks, WritingTestsEmpty, WriteWaits, WriteTakes, WriteFwrites, WriteReturns,
     WriteNotifies
<1>4. flushed \in Nat /\ flushed' \in Nat /\ flushed' >= flushed /\ flushed' <= fileSize
  <2>1. flushed' >= flushed
    BY <1>1, AbortedDst
  <2>2. flushed \in 0..Len(dst) /\ flushed' \in 0..Len(dst') /\ Len(dst) \in Nat /\ Len(dst') \in Nat
    BY <1>1 DEF DstInv
  <2>3. Len(dst') <= currentOffset' /\ currentOffset' \in 0..fileSize' /\ fileSize \in Nat
    BY <1>1, ToolAssumption DEF PipeOut, AbortInv
  <2>4. QED
    BY <1>3, <2>1, <2>2, <2>3
<1>5. CASE MainReturns
  <2>1. flushed' = flushed /\ ExitStatus = "copying" /\ ExitStatus' = "failed"
    BY <1>5 DEF MainReturns, writerVars, ExitStatus
  <2>2. QED
    BY <1>2, <1>3, <2>1 DEF InterruptedAbstract!CopyNext, InterruptedAbstract!Fail
<1>6. CASE WriteFwrites \/ CopyFlushes
  <2>1. ExitStatus = "copying" /\ ExitStatus' = "copying"
    BY <1>1, <1>6 DEF WriteFwrites, CopyFlushes, ExitStatus, AbortInv
  <2>2. CASE flushed' = flushed
    BY <1>2, <1>3, <2>1, <2>2
  <2>3. CASE flushed' # flushed
    <3>1. flushed' \in Len(File) + 1 .. fileSize
      BY <1>2, <1>4, <2>3
    <3>2. File' = InterruptedAbstract!Source(flushed')
      BY <1>2 DEF Abstract!Source, InterruptedAbstract!Source
    <3>3. QED
      BY <1>3, <2>1, <3>1, <3>2 DEF InterruptedAbstract!CopyNext, InterruptedAbstract!Extend
  <2>4. QED
    BY <2>2, <2>3
<1>7. CASE UNCHANGED writerVars /\ ~MainReturns
  <2>1. ExitStatus' = ExitStatus
    BY <1>1, <1>7, AbortedSteps DEF ExitStatus, vars, Wakes, CopyJoins, CopyFlushes,
       WritingChecks, WritingTestsEmpty, WriteWaits, WriteTakes, WriteFwrites, WriteReturns,
       WriteNotifies
  <2>2. File' = File
    BY <1>7 DEF writerVars, File
  <2>3. QED
    BY <1>3, <2>1, <2>2
<1>8. QED
  BY <1>1, <1>5, <1>6, <1>7, AbortedSteps DEF vars, Wakes, CopyJoins, WritingChecks,
     WritingTestsEmpty, WriteWaits, WriteTakes, WriteReturns, WriteNotifies

LEMMA InterruptedCopyStep ==
  ASSUME ~DiskMayFill, InterruptedCopyInv, InterruptedCopyInv',
         [InterruptedNext]_interruptedVars
  PROVE  [InterruptedAbstract!CopyNext]_<<fileSize, File, ExitStatus>>
<1>1. CASE UNCHANGED interruptedVars
  BY <1>1 DEF interruptedVars, vars, readerVars, writerVars, File, ExitStatus
<1>2. CASE Interrupt
  <2>1. /\ fileSize' = fileSize /\ UNCHANGED writerVars
        /\ rpc # "exited" /\ rpc' # "exited"
    BY <1>2 DEF Interrupt, CopyStates, readerVars
  <2>2. QED
    BY <2>1 DEF writerVars, File, ExitStatus
<1>3. CASE Next /\ ~aborted /\ ~aborted'
  <2>1. CopyInv /\ CopyInv'
    BY <1>3 DEF InterruptedCopyInv, InterruptedInv, InterruptedPipeInv, CopyInv
  <2>2. [Abstract!CopyNext]_<<fileSize, File, Status>>
    BY <1>3, <2>1, CopyStep
  <2>3. ExitStatus = Status /\ ExitStatus' = Status'
    BY <1>3 DEF ExitStatus, Status
  <2>4. QED
    BY <2>2, <2>3 DEF Abstract!CopyNext, Abstract!Extend, Abstract!Finish, Abstract!Fail,
       Abstract!Source, InterruptedAbstract!CopyNext, InterruptedAbstract!Extend,
       InterruptedAbstract!Finish, InterruptedAbstract!Fail, InterruptedAbstract!Source
<1>4. CASE Next /\ aborted /\ aborted'
  BY <1>4, AbortedCopyStep
<1>5. QED
  BY <1>1, <1>2, <1>3, <1>4 DEF InterruptedNext, InterruptedCopyInv, InterruptedInv

\* As long as fwrite takes what it is given, a run that may be cut short
\* implements CopyFile too: wherever the handler strikes, what reaches the
\* destination is a prefix of the source that only grows, status 0 means all of
\* it, and a run that was cut short ends with another status.
THEOREM InterruptedToolImplementsCopyFile ==
  ~DiskMayFill /\ InterruptedSpec => InterruptedImplementsCopyFile
<1>1. InterruptedInit => InterruptedAbstract!CopyInit
  <2> SUFFICES ASSUME InterruptedInit
               PROVE  InterruptedAbstract!CopyInit
    OBVIOUS
  <2>1. fileSize \in FileSizes /\ ExitStatus = "copying"
    BY DEF InterruptedInit, Init, ExitStatus
  <2>2. File = <<>>
    BY SubSeqEmpty DEF InterruptedInit, Init, File
  <2>3. QED
    BY <2>1, <2>2 DEF InterruptedAbstract!CopyInit
<1>2. ~DiskMayFill /\ InterruptedCopyInv /\ InterruptedCopyInv'
        /\ [InterruptedNext]_interruptedVars
        => [InterruptedAbstract!CopyNext]_(InterruptedAbstract!copyVars)
  BY InterruptedCopyStep DEF InterruptedAbstract!copyVars
<1>3. (~DiskMayFill) => [](~DiskMayFill)
  OBVIOUS
<1>4. QED
  BY <1>1, <1>2, <1>3, InterruptedCopyInvariant, PTL
     DEF InterruptedSpec, InterruptedImplementsCopyFile, InterruptedAbstract!CopySpec

-----------------------------------------------------------------------------
(* What a run that is cut short loses *)

\* Up to where in the source the chunks reach that the writer has written, has
\* or can still get.
QueueEnd ==
  IF writeBuffers = <<>> THEN WriteFrom ELSE ChunkEnd(writeBuffers[Len(writeBuffers)])

\* A sleeping writer has at most the one chunk in front of it that the main
\* thread has put in the queue and not yet notified; and when the handler has
\* run, at most one chunk lies beyond the queue's end, none if that one is in
\* the queue.
SleepInv ==
  /\ Writer \in waiting => qpc[Writer] = "getFilled"
  /\ ~aborted /\ Writer \in waiting /\ writeBuffers # <<>> =>
       qpc[Reader] = "notify" /\ Len(writeBuffers) = 1
  /\ aborted => currentOffset <= QueueEnd + BUFFER_SIZE
  /\ aborted /\ Writer \in waiting /\ writeBuffers # <<>> =>
       Len(writeBuffers) = 1 /\ QueueEnd = currentOffset

\* A step that moves no chunk and lets the writer sleep on, or go to sleep on
\* an empty queue.
LEMMA SleepFrame ==
  ASSUME SleepInv, aborted' = aborted,
         UNCHANGED <<dst, contents, currentOffset, writeBuffers>>,
         wpc' = "fwrite" <=> wpc = "fwrite",
         wpc = "fwrite" => held'[Writer] = held[Writer],
         Writer \in waiting' /\ Writer \notin waiting =>
           writeBuffers = <<>> /\ qpc'[Writer] = "getFilled",
         Writer \in waiting' /\ Writer \in waiting =>
           qpc'[Writer] = qpc[Writer] /\ (~aborted => qpc'[Reader] = qpc[Reader])
  PROVE  SleepInv'
BY DEF SleepInv, QueueEnd, WriteFrom, ChunkEnd

LEMMA SleepAbort ==
  ASSUME InterruptedInv, PipeInv, SleepInv, Interrupt, ~aborted
  PROVE  SleepInv'
<1>1. /\ UNCHANGED <<writeBuffers, held, qpc, wpc, contents, currentOffset, dst>>
      /\ waiting' \subseteq waiting /\ aborted'
  BY DEF Interrupt, readerVars, writerVars
<1>2. QueueEnd' = QueueEnd
  BY <1>1 DEF QueueEnd, WriteFrom, ChunkEnd
<1>3. QueueEnd = ReadFrom
  BY DEF PipeInv, EndsMeet, QueueEnd
<1>4. BUFFER_SIZE \in Nat /\ currentOffset \in Nat
  <2>1. OffsetsInv
    BY DEF InterruptedInv, ToolInv, ReadInv, StreamInv
  <2>2. QED
    BY <2>1, ToolAssumption DEF OffsetsInv
<1>5. currentOffset <= ReadFrom + BUFFER_SIZE
  <2>1. CASE ReaderHasChunk
    <3>1. /\ contents[held[Reader]].start + contents[held[Reader]].bytesUsed = currentOffset
          /\ ReadFrom = contents[held[Reader]].start
      BY <2>1 DEF PipeInv, ChunkEnd, ReadFrom
    <3>2. contents[held[Reader]] \in ContentTypes
      BY <2>1 DEF InterruptedInv, ToolInv, ReadInv, ReaderHolds, StreamInv, OffsetsInv,
         ReaderHasChunk
    <3>3. QED
      BY <1>4, <3>1, <3>2 DEF ContentTypes
  <2>2. CASE ~ReaderHasChunk
    BY <1>4, <2>2 DEF ReadFrom
  <2>3. QED
    BY <2>1, <2>2
<1>6. qpc[Reader] = "notify" => ReadFrom = currentOffset
  BY DEF InterruptedInv, ToolInv, ControlInv, ReaderCalls, ReaderHasChunk, ReadFrom
<1>7. QED
  BY <1>1, <1>2, <1>3, <1>5, <1>6 DEF SleepInv

LEMMA SleepStep ==
  ASSUME ~DiskMayFill, InterruptedInv, InterruptedPipeInv, SleepInv,
         [InterruptedNext]_interruptedVars
  PROVE  SleepInv'
<1>1. /\ Reader # Writer /\ Threads = {Reader, Writer}
      /\ QueueTypeOK /\ DstInv
  BY ToolAssumption DEF InterruptedInv, ConservationInv
<1>2. qpc \in [Threads -> CallStates] /\ held \in [Threads -> Buffers \cup {NoBuffer}]
  BY <1>1 DEF QueueTypeOK
<1>3. PipeOut /\ WriterCalls /\ WriterHolds /\ contents \in [Buffers -> ContentTypes]
  BY PipeHasAnOut DEF InterruptedInv, InterruptedPipeInv, ToolInv, ControlInv, ReadInv, AbortInv,
     StreamInv, OffsetsInv
<1>4. CASE UNCHANGED interruptedVars
  BY <1>4, SleepFrame DEF interruptedVars, vars, queueVars, readerVars, writerVars
<1>5. CASE Interrupt
  <2>1. ~aborted
    BY <1>5 DEF Interrupt, CopyStates, InterruptedInv, AbortInv
  <2>2. QED
    BY <1>5, <2>1, SleepAbort DEF InterruptedPipeInv
<1>6. CASE Next /\ aborted' = aborted
  <2>1. CASE CopyStarts \/ CopyCloses \/ ReadFinishes
    <3>1. CopyStarts => wpc = "none"
      BY DEF CopyStarts, InterruptedInv, AbortInv, ToolInv, ControlInv, OpenWhileReading
    <3>2. QED
      BY <1>6, <2>1, <3>1, SleepFrame DEF CopyStarts, CopyCloses, ReadFinishes, Open, Close,
         SetOpen, FinishRead, readerVars, writerVars
  <2>2. CASE CopyJoins \/ MainReturns \/ WritingChecks \/ WritingTestsEmpty \/ CopyFlushes
    BY <1>6, <2>2, SleepFrame DEF CopyJoins, MainReturns, WritingChecks, WritingTestsEmpty,
       CopyFlushes, queueVars, readerVars, writerVars
  <2>3. CASE ReadWaits \/ ReadTakes
    <3>1. /\ UNCHANGED <<dst, contents, currentOffset, writeBuffers, wpc>>
          /\ qpc[Reader] # "notify"
          /\ Writer \in waiting' => Writer \in waiting
          /\ qpc'[Writer] = qpc[Writer] /\ held'[Writer] = held[Writer]
      BY <1>1, <1>2, <2>3 DEF ReadWaits, ReadTakes, WaitFree, WaitUntil, TakeFree, GiveNothing,
         Give, readerVars, writerVars
    <3>2. QED
      BY <1>6, <3>1 DEF SleepInv, QueueEnd, WriteFrom, ChunkEnd
  <2>4. CASE ReadFills
    <3>1. aborted => ~ReadFills
      BY DEF ReadFills, InterruptedInv, AbortInv
    <3>2. UNCHANGED <<queueVars, wpc>> /\ ~aborted
      BY <2>4, <3>1 DEF ReadFills
    <3>3. QED
      BY <1>6, <3>2 DEF queueVars, SleepInv, InterruptedInv
  <2>5. CASE ReadReturns
    <3>1. ~aborted /\ qpc[Reader] = "idle" /\ bufferType[held[Reader]] = "READ"
      BY <2>5 DEF ReadReturns, ReturnBuffer, InterruptedInv, AbortInv, ToolInv, ReadInv,
         ReaderHolds
    <3>2. /\ writeBuffers' = Append(writeBuffers, held[Reader])
          /\ qpc' = [qpc EXCEPT ![Reader] = "notify"] /\ waiting' = waiting
          /\ held[Reader] \in Buffers
      BY <1>1, <1>2, <2>5, <3>1 DEF ReadReturns, ReturnBuffer, Buffers, NoBuffer
    <3>3. Writer \in waiting => Len(writeBuffers') = 1
      BY <1>1, <3>1, <3>2 DEF SleepInv, QueueTypeOK
    <3>4. QED
      BY <1>1, <1>2, <1>6, <3>1, <3>2, <3>3 DEF SleepInv
  <2>6. CASE ReadNotifies \/ WriteNotifies
    BY <1>6, <2>6, SleepFrame DEF ReadNotifies, WriteNotifies, NotifyAll, readerVars, writerVars
  <2>7. CASE WriteWaits
    <3>1. /\ UNCHANGED <<dst, contents, currentOffset, writeBuffers, wpc>>
          /\ wpc = "getFilled" /\ Writer \notin waiting
          /\ Writer \in waiting' => writeBuffers = <<>> /\ qpc'[Writer] = "getFilled"
      BY <1>1, <1>2, <2>7 DEF WriteWaits, WaitFilled, WaitUntil, CanGetFilled, readerVars,
         writerVars
    <3>2. QED
      BY <1>6, <3>1, SleepFrame
  <2>8. CASE WriteTakes
    <3>1. Writer \notin waiting /\ waiting' = waiting
      BY <2>8 DEF WriteTakes, TakeFilled, SleepInv
    <3>2. CASE writeBuffers = <<>>
      <4>1. ~aborted
        BY <2>8, <3>2 DEF WriteTakes, TakeFilled, InterruptedInv, AbortInv
      <4>2. QED
        BY <1>6, <3>1, <4>1 DEF SleepInv
    <3>3. CASE writeBuffers # <<>>
      <4>1. /\ UNCHANGED <<contents, currentOffset>>
            /\ writeBuffers' = <<>> => WriteFrom' = ChunkEnd(writeBuffers[Len(writeBuffers)])
            /\ writeBuffers' # <<>> =>
                 writeBuffers'[Len(writeBuffers')] = writeBuffers[Len(writeBuffers)]
        BY <1>1, <1>3, <2>8, <3>3, OutTakes
      <4>2. QueueEnd' = QueueEnd
        BY <3>3, <4>1 DEF QueueEnd, ChunkEnd
      <4>3. QED
        BY <1>6, <3>1, <4>1, <4>2 DEF SleepInv
    <3>4. QED
      BY <3>2, <3>3
  <2>9. CASE WriteFwrites
    <3>1. /\ UNCHANGED <<contents, currentOffset, writeBuffers, waiting, qpc>>
          /\ wpc = "fwrite" /\ held[Writer] \in Buffers
      BY <1>3, <2>9 DEF WriteFwrites, queueVars, readerVars, WriterHolds
    <3>2. WriteFrom' = WriteFrom
      BY <1>1, <1>3, <2>9, <3>1, OutWrites
    <3>3. QueueEnd' = QueueEnd
      BY <3>1, <3>2 DEF QueueEnd, ChunkEnd
    <3>4. QED
      BY <1>6, <3>1, <3>3 DEF SleepInv
  <2>10. CASE WriteReturns
    <3>1. /\ UNCHANGED <<dst, contents, currentOffset, writeBuffers, wpc, waiting>>
          /\ wpc = "return" /\ qpc[Writer] = "idle"
      BY <1>3, <2>10 DEF WriteReturns, ReturnBuffer, readerVars, writerVars, WriterHolds
    <3>2. Writer \notin waiting
      BY <3>1 DEF SleepInv
    <3>3. QED
      BY <1>6, <3>1, <3>2, SleepFrame
  <2>11. ASSUME NEW t \in Threads, Wakes(t)
         PROVE  SleepInv'
    BY <1>6, <2>11, SleepFrame DEF Wakes, SpuriousWakeup, readerVars, writerVars
  <2>12. CASE Terminated
    BY <1>6, <2>12, SleepFrame DEF Terminated, vars, queueVars, readerVars, writerVars
  <2>13. QED
    BY <1>6, <2>1, <2>2, <2>3, <2>4, <2>5, <2>6, <2>7, <2>8, <2>9, <2>10, <2>11, <2>12
       DEF Next, ReaderStep, WriterStep
<1>7. QED
  BY <1>4, <1>5, <1>6 DEF InterruptedNext

\* As long as fwrite takes what it is given: wherever the handler strikes, and
\* for any number and size of buffers, the writer of a run that was cut short
\* falls asleep with at most one chunk missing of what had been read.
THEOREM AtMostOneChunkIsLost == ~DiskMayFill /\ InterruptedSpec => []AbortLosesOneChunk
<1>1. InterruptedInit => SleepInv
  BY DEF InterruptedInit, Init, QueueInit, SleepInv
<1>2. ~DiskMayFill /\ InterruptedInv /\ InterruptedPipeInv /\ SleepInv
        /\ [InterruptedNext]_interruptedVars => SleepInv'
  BY SleepStep
<1>3. ASSUME InterruptedInv, InterruptedPipeInv, SleepInv, aborted, Writer \in waiting
      PROVE  currentOffset - Len(dst) <= BUFFER_SIZE
  <2>1. wpc = "getFilled"
    BY <1>3 DEF SleepInv, InterruptedInv, AbortInv, WriterCalls
  <2>2. WriteFrom = Len(dst) /\ Len(dst) \in Nat /\ currentOffset \in Nat /\ BUFFER_SIZE \in Nat
    <3>1. dst \in Seq(Nat) /\ fileSize \in FileSizes /\ currentOffset \in 0..fileSize
      BY <1>3 DEF InterruptedInv, DstInv, AbortInv
    <3>2. QED
      BY <2>1, <3>1, ToolAssumption DEF WriteFrom
  <2>3. CASE writeBuffers = <<>>
    BY <1>3, <2>2, <2>3 DEF SleepInv, QueueEnd
  <2>4. CASE writeBuffers # <<>>
    <3>1. /\ Len(writeBuffers) = 1 /\ ChunkEnd(writeBuffers[1]) = currentOffset
          /\ contents[writeBuffers[1]].start = Len(dst)
      BY <1>3, <2>2, <2>4 DEF SleepInv, QueueEnd, InterruptedPipeInv, PipeOut
    <3>2. writeBuffers[1] \in Buffers
      BY <1>3, <2>4, TailFacts DEF InterruptedInv, ConservationInv, QueueTypeOK
    <3>3. contents[writeBuffers[1]] \in ContentTypes
      BY <1>3, <3>2 DEF InterruptedInv, AbortInv
    <3>4. QED
      BY <2>2, <3>1, <3>3 DEF ChunkEnd, ContentTypes
  <2>5. QED
    BY <2>3, <2>4
<1>4. InterruptedCopyInv /\ SleepInv => AbortLosesOneChunk
  BY <1>3 DEF InterruptedCopyInv, AbortLosesOneChunk
<1>5. InterruptedCopyInv <=> InterruptedInv /\ InterruptedPipeInv
  BY DEF InterruptedCopyInv
<1>6. (~DiskMayFill) => [](~DiskMayFill)
  OBVIOUS
<1>7. QED
  BY <1>1, <1>2, <1>4, <1>5, <1>6, InterruptedCopyInvariant, PTL DEF InterruptedSpec

=============================================================================
