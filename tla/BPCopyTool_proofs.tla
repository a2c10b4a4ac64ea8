--------------------------- MODULE BPCopyTool_proofs ---------------------------
(***************************************************************************)
(* What holds of BPCopyTool for any number and size of buffers and any     *)
(* size of file.                                                           *)
(***************************************************************************)
EXTENDS BPCopyTool, FixedBufferQueue_proofs

(***************************************************************************)
(* The tool uses the queue as any client may, so what is proved of         *)
(* QueueSpec is true of the tool.                                          *)
(***************************************************************************)
LEMMA ToolStepIsQueueStep == [Next]_vars => [QueueNext]_queueVars
<1> SUFFICES ASSUME [Next]_vars
             PROVE  [QueueNext]_queueVars
  OBVIOUS
<1>1. Reader \in Threads /\ Writer \in Threads
  BY ToolAssumption
<1>2. CASE UNCHANGED vars
  BY <1>2 DEF vars
<1>3. CASE ReaderStep
  BY <1>1, <1>3 DEF ReaderStep, QueueNext, CopyStarts, ReadWaits, ReadTakes, ReadFills,
     ReadFinishes, ReadReturns, ReadNotifies, CopyCloses, CopyJoins, CopyFlushes, MainReturns
<1>4. CASE WriterStep
  BY <1>1, <1>4 DEF WriterStep, QueueNext, WritingChecks, WritingTestsEmpty, WriteWaits,
     WriteTakes, WriteFwrites, WriteReturns, WriteNotifies
<1>5. CASE \E t \in Threads : Wakes(t)
  BY <1>5 DEF Wakes, QueueNext
<1>6. CASE Terminated
  BY <1>6 DEF Terminated, vars
<1>7. QED
  BY <1>2, <1>3, <1>4, <1>5, <1>6 DEF Next

THEOREM ToolImplementsQueue == Spec => QueueSpec
<1>1. Init => QueueInit
  BY DEF Init
<1>2. QED
  BY <1>1, ToolStepIsQueueStep, PTL DEF Spec, QueueSpec

-----------------------------------------------------------------------------
(* Every call of the queue succeeds *)

\* Where each thread may stand in a call of the queue.
ReaderCalls ==
  /\ rpc = "getFree" => qpc[Reader] \in {"idle", "getFree", "takeFree"}
  /\ rpc = "return" => qpc[Reader] \in {"idle", "notify"}
  /\ rpc \notin {"getFree", "return"} => qpc[Reader] = "idle"

WriterCalls ==
  /\ wpc = "getFilled" => qpc[Writer] \in {"idle", "getFilled", "takeFilled"}
  /\ wpc = "return" => qpc[Writer] \in {"idle", "notify"}
  /\ wpc \notin {"getFilled", "return"} => qpc[Writer] = "idle"

\* The queue is open from before the writer starts until the reader is done.
OpenStates == {"getFree", "fill", "finishRead", "return", "close"}
OpenWhileReading ==
  /\ isOpen <=> rpc \in OpenStates
  /\ rpc = "open" => wpc = "none"

\* A thread that has seen its predicate true owns the mutex.
TakersOwnMutex ==
  \A t \in Threads : qpc[t] \in {"takeFree", "takeFilled"} => queueMutex = t

\* What the predicate has promised is still there.
TakersFind ==
  /\ qpc[Reader] = "takeFree" => readBuffers # <<>>
  /\ qpc[Writer] = "takeFilled" => writeBuffers # <<>> \/ ~isOpen

\* The inductive invariant.
ControlInv ==
  /\ rpc \in ReaderStates \ {"noBuffer"}
  /\ wpc \in WriterStates
  /\ ReaderCalls
  /\ WriterCalls
  /\ OpenWhileReading
  /\ TakersOwnMutex
  /\ TakersFind

LEMMA ControlInit == Init => ControlInv
<1> SUFFICES ASSUME Init
             PROVE  ControlInv
  OBVIOUS
<1>1. \A t \in Threads : qpc[t] = "idle"
  BY DEF Init, QueueInit
<1>2. Reader \in Threads /\ Writer \in Threads
  BY ToolAssumption
<1>3. QED
  BY <1>1, <1>2 DEF Init, QueueInit, ControlInv, ReaderStates, WriterStates, ReaderCalls,
     WriterCalls, OpenStates, OpenWhileReading, TakersOwnMutex, TakersFind

LEMMA ControlStep ==
  QueueTypeOK /\ ControlInv /\ [Next]_vars => ControlInv'
<1> SUFFICES ASSUME QueueTypeOK, ControlInv, [Next]_vars
             PROVE  ControlInv'
  OBVIOUS
<1> USE DEF ControlInv, ReaderStates, WriterStates, ReaderCalls, WriterCalls,
        OpenStates, OpenWhileReading, TakersOwnMutex, TakersFind
<1>1. /\ Reader # Writer /\ Threads = {Reader, Writer} /\ NoThread \notin Threads
      /\ qpc \in [Threads -> CallStates]
      /\ isOpen \in BOOLEAN
      /\ held \in [Threads -> Buffers \cup {NoBuffer}]
      /\ readBuffers \in Seq(Buffers) /\ writeBuffers \in Seq(Buffers)
  BY ToolAssumption, QueueAssumption DEF QueueTypeOK
<1>2. CASE UNCHANGED vars
  BY <1>2 DEF vars, queueVars
<1>3. CASE CopyStarts
  BY <1>1, <1>3 DEF CopyStarts, Open, SetOpen
<1>4. CASE ReadWaits
  BY <1>1, <1>4 DEF ReadWaits, WaitFree, WaitUntil, CanGetFree
<1>5. CASE ReadTakes
  <2>1. readBuffers # <<>>
    BY <1>5 DEF ReadTakes, TakeFree
  <2>2. held'[Reader] \in Buffers
    BY <1>1, <1>5, <2>1, FrontFacts DEF ReadTakes, TakeFree, Give
  <2>3. rpc' = "fill" /\ wpc' = wpc /\ isOpen' = isOpen /\ writeBuffers' = writeBuffers
    BY <1>5, <2>1, <2>2 DEF ReadTakes, TakeFree, Give, Buffers, NoBuffer
  <2>4. qpc' = [qpc EXCEPT ![Reader] = "idle"] /\ queueMutex = Reader
    BY <1>1, <1>5, <2>1 DEF ReadTakes, TakeFree, Give
  <2>5. QED
    BY <1>1, <1>5, <2>3, <2>4 DEF ReadTakes
<1>6. CASE ReadFills
  BY <1>1, <1>6 DEF ReadFills, queueVars
<1>7. CASE ReadFinishes
  BY <1>1, <1>7 DEF ReadFinishes, FinishRead
<1>8. CASE ReadReturns
  BY <1>1, <1>8 DEF ReadReturns, ReturnBuffer
<1>9. CASE ReadNotifies
  BY <1>1, <1>9 DEF ReadNotifies, NotifyAll
<1>10. CASE CopyCloses
  BY <1>1, <1>10 DEF CopyCloses, Close, SetOpen
<1>11. CASE CopyJoins \/ CopyFlushes \/ MainReturns
  BY <1>1, <1>11 DEF CopyJoins, CopyFlushes, MainReturns, queueVars
<1>12. CASE WritingChecks \/ WritingTestsEmpty \/ WriteFwrites
  BY <1>1, <1>12 DEF WritingChecks, WritingTestsEmpty, WriteFwrites, queueVars
<1>13. CASE WriteWaits
  BY <1>1, <1>13 DEF WriteWaits, WaitFilled, WaitUntil, CanGetFilled
<1>14. CASE WriteTakes
  <2>1. wpc' \in {"check", "fwrite"} /\ rpc' = rpc /\ isOpen' = isOpen
    BY <1>14 DEF WriteTakes, TakeFilled
  <2>2. qpc' = [qpc EXCEPT ![Writer] = "idle"] /\ queueMutex = Writer
    BY <1>1, <1>14 DEF WriteTakes, TakeFilled, Give, GiveNothing
  <2>3. QED
    BY <1>1, <1>14, <2>1, <2>2 DEF WriteTakes
<1>15. CASE WriteReturns
  BY <1>1, <1>15 DEF WriteReturns, ReturnBuffer
<1>16. CASE WriteNotifies
  BY <1>1, <1>16 DEF WriteNotifies, NotifyAll
<1>17. ASSUME NEW t \in Threads, Wakes(t)
       PROVE  ControlInv'
  BY <1>1, <1>17 DEF Wakes, SpuriousWakeup
<1>18. CASE Terminated
  BY <1>2, <1>18 DEF Terminated
<1>19. QED
  BY <1>2, <1>3, <1>4, <1>5, <1>6, <1>7, <1>8, <1>9, <1>10, <1>11, <1>12, <1>13,
     <1>14, <1>15, <1>16, <1>17, <1>18 DEF Next, ReaderStep, WriterStep

LEMMA ToolControl == Spec => []ControlInv
BY ControlInit, ControlStep, ToolImplementsQueue, QueueTypeCorrect, PTL DEF Spec

\* Whatever the interleaving of the two threads, the pool and the file, the
\* reader gets a buffer when it asks for one and no empty deque is read.
THEOREM AllCallsSucceed == Spec => []CallsSucceed
<1>1. ControlInv => CallsSucceed
  BY ToolAssumption DEF ControlInv, CallsSucceed, ReaderCalls, WriterCalls
<1>2. QED
  BY <1>1, ToolControl, PTL

-----------------------------------------------------------------------------
(* The two threads never wait for each other *)

\* If both slept, the reader would wait for a free buffer and the writer for a
\* filled one.  Nobody is about to notify, so there is none of either kind;
\* and neither thread holds one.  But a buffer is always somewhere.
THEOREM NoMutualSleep == Spec => []NeverBothAsleep
<1>1. ASSUME ControlInv, CallsHoldNothing, SleepersWait, NoLostReturn, BuffersConserved,
             QueueTypeOK, Reader \in waiting, Writer \in waiting
      PROVE  FALSE
  <2>1. Reader # Writer /\ Threads = {Reader, Writer}
    BY ToolAssumption
  <2>2. qpc[Reader] = "getFree" /\ qpc[Writer] = "getFilled"
    BY <1>1 DEF SleepersWait, ControlInv, ReaderCalls, WriterCalls
  <2>3. readBuffers = <<>> /\ writeBuffers = <<>>
    BY <1>1, <2>1, <2>2 DEF NoLostReturn
  <2>4. held[Reader] = NoBuffer /\ held[Writer] = NoBuffer
    BY <1>1, <2>1, <2>2 DEF CallsHoldNothing
  <2>5. 1 \in Buffers /\ NoBuffer # 1
    BY QueueAssumption DEF Buffers, NoBuffer
  <2>6. QED
    BY <1>1, <2>1, <2>3, <2>4, <2>5 DEF BuffersConserved, NoBufferLost
<1>2. ControlInv /\ ConservationInv /\ WakeupInv => NeverBothAsleep
  BY <1>1 DEF ConservationInv, WakeupInv, NeverBothAsleep
<1>3. QueueSpec => []ConservationInv
  BY ConservationInit, ConservationStep, PTL DEF QueueSpec
<1>4. QueueSpec => []WakeupInv
  BY WakeupInit, WakeupStep, PTL DEF QueueSpec
<1>5. QED
  BY <1>2, <1>3, <1>4, ToolControl, ToolImplementsQueue, PTL

-----------------------------------------------------------------------------
(* What the reader does to the stream and to the buffers *)

\* Who has a buffer, and of what type: returnBuffer tells a filled buffer from
\* an emptied one by its type.
ReaderHolds ==
  /\ rpc \in {"fill", "finishRead"} \/ (rpc = "return" /\ qpc[Reader] = "idle") =>
       held[Reader] \in Buffers /\ bufferType[held[Reader]] = "READ"
  /\ rpc \notin {"fill", "finishRead", "return"} => held[Reader] = NoBuffer

WriterHolds ==
  /\ wpc = "fwrite" \/ (wpc = "return" /\ qpc[Writer] = "idle") =>
       held[Writer] \in Buffers /\ bufferType[held[Writer]] = "WRITE"
  /\ wpc \notin {"fwrite", "return"} => held[Writer] = NoBuffer

\* Until the end of the file fgetc and fseek together advance the stream by
\* exactly the chunk.
OffsetsInv ==
  /\ fileSize \in FileSizes
  /\ currentOffset \in 0..fileSize
  /\ streamPos \in 0..fileSize
  /\ readFinished \in BOOLEAN
  /\ contents \in [Buffers -> ContentTypes]
  /\ ~readFinished => streamPos = currentOffset
  /\ readFinished => currentOffset = fileSize
  /\ rpc \in {"open", "getFree", "fill"} => ~readFinished

\* Where the reader stands tells whether it is done.
StreamInv ==
  /\ OffsetsInv
  /\ rpc \in {"finishRead", "close", "join", "flush", "exit", "exited"} => readFinished

\* The inductive invariant.
ReadInv == ReaderHolds /\ WriterHolds /\ StreamInv

\* All that is known so far.
ToolInv == ControlInv /\ ConservationInv /\ ReadInv

LEMMA ReadInit == Init => ReadInv
<1> SUFFICES ASSUME Init
             PROVE  ReadInv
  OBVIOUS
<1>1. Reader \in Threads /\ Writer \in Threads /\ FileSizes \in SUBSET Nat /\ BUFFER_SIZE \in Nat
  BY ToolAssumption
<1>2. contents \in [Buffers -> ContentTypes]
  BY <1>1 DEF Init, ContentTypes
<1>3. held[Reader] = NoBuffer /\ held[Writer] = NoBuffer
  BY <1>1 DEF Init, QueueInit
<1>4. /\ rpc = "open" /\ wpc = "none" /\ fileSize \in FileSizes /\ fileSize \in Nat
      /\ currentOffset = 0 /\ streamPos = 0 /\ readFinished = FALSE
  BY <1>1 DEF Init
<1>5. ReaderHolds /\ WriterHolds
  BY <1>3, <1>4 DEF ReaderHolds, WriterHolds
<1>6. StreamInv
  <2>1. currentOffset \in 0..fileSize /\ streamPos \in 0..fileSize
    BY <1>4
  <2>2. readFinished \in BOOLEAN /\ ~readFinished /\ streamPos = currentOffset
    BY <1>4
  <2>3. rpc \notin {"finishRead", "close", "join", "flush", "exit", "exited"}
    BY <1>4
  <2>4. QED
    BY <1>2, <1>4, <2>1, <2>2, <2>3, Zenon DEF StreamInv, OffsetsInv
<1>7. QED
  BY <1>5, <1>6 DEF ReadInv

\* The buffer the reader has just got is filled and the offsets move on.
LEMMA FillsInv ==
  ASSUME OffsetsInv, ReadFills
  PROVE  /\ OffsetsInv'
         /\ NextOffset = currentOffset + BytesUsed
         /\ BytesUsed \in 0..BUFFER_SIZE
         /\ StdioFills = BytesUsed
         /\ currentOffset' = NextOffset
<1> USE DEF OffsetsInv
<1>1. /\ BUFFER_SIZE \in Nat \ {0} /\ fileSize \in Nat /\ currentOffset \in 0..fileSize
      /\ streamPos = currentOffset
  BY ToolAssumption DEF ReadFills
<1>2. /\ BytesUsed \in 0..BUFFER_SIZE /\ StdioFills = BytesUsed
      /\ NextOffset = currentOffset + BytesUsed
      /\ NextOffset \in 0..fileSize
  BY <1>1 DEF BytesUsed, StdioFills, NextOffset
<1>3. AfterFgetc \in 0..fileSize
  BY <1>1 DEF AfterFgetc
<1>4. NextOffset < fileSize => AfterFgetc + BUFFER_SIZE - 1 = NextOffset
  BY <1>1 DEF AfterFgetc, NextOffset
<1>5. contents' \in [Buffers -> ContentTypes]
  <2>1. [start |-> streamPos, filled |-> StdioFills, bytesUsed |-> BytesUsed] \in ContentTypes
    BY <1>1, <1>2 DEF ContentTypes
  <2>2. QED
    BY <2>1 DEF ReadFills
<1>6. currentOffset' = NextOffset /\ fileSize' = fileSize
  BY DEF ReadFills
<1>7. CASE NextOffset < fileSize
  BY <1>1, <1>2, <1>4, <1>5, <1>6, <1>7 DEF ReadFills
<1>8. CASE NextOffset >= fileSize
  <2>1. streamPos' = AfterFgetc /\ readFinished' = TRUE /\ rpc' = "finishRead"
    BY <1>1, <1>2, <1>8 DEF ReadFills
  <2>2. NextOffset = fileSize
    BY <1>1, <1>2, <1>8
  <2>3. QED
    BY <1>2, <1>3, <1>5, <1>6, <2>1, <2>2
<1>9. QED
  BY <1>1, <1>2, <1>6, <1>7, <1>8

LEMMA StreamStep ==
  ASSUME ToolInv, [Next]_vars PROVE StreamInv'
<1>1. StreamInv
  BY DEF ToolInv, ReadInv
\* A step of the writer, or of the reader inside a call.
<1>2. CASE UNCHANGED <<rpc, readerVars>>
  BY <1>1, <1>2 DEF StreamInv, OffsetsInv, readerVars
\* A step of the reader that only moves its program counter.
<1>3. CASE CopyStarts \/ ReadTakes
  BY <1>1, <1>3 DEF CopyStarts, ReadTakes, TakeFree, readerVars, StreamInv, OffsetsInv
<1>4. CASE ReadFills
  <2>1. OffsetsInv'
    BY <1>1, <1>4, FillsInv DEF StreamInv
  <2>2. rpc' = "return" \/ (rpc' = "finishRead" /\ readFinished' = TRUE)
    BY <1>4 DEF ReadFills
  <2>3. QED
    BY <2>1, <2>2 DEF StreamInv
<1>5. CASE ReadFinishes \/ ReadNotifies
  BY <1>1, <1>5 DEF ReadFinishes, ReadNotifies, readerVars, StreamInv, OffsetsInv
<1>6. CASE CopyCloses \/ CopyJoins \/ CopyFlushes \/ MainReturns
  BY <1>1, <1>6 DEF StreamInv, OffsetsInv, readerVars, CopyCloses, CopyJoins, CopyFlushes, MainReturns
<1>7. QED
  BY <1>2, <1>3, <1>4, <1>5, <1>6 DEF Next, ReaderStep, WriterStep, ReadWaits, ReadReturns,
     WritingChecks, WritingTestsEmpty, WriteWaits, WriteTakes, WriteFwrites, WriteReturns,
     WriteNotifies, Wakes, Terminated, vars

LEMMA HoldsStep ==
  ASSUME ControlInv, ConservationInv, ReaderHolds, WriterHolds, [Next]_vars
  PROVE  ReaderHolds' /\ WriterHolds'
<1>1. /\ Reader # Writer /\ Threads = {Reader, Writer}
      /\ qpc \in [Threads -> CallStates]
      /\ held \in [Threads -> Buffers \cup {NoBuffer}]
      /\ bufferType \in [Buffers -> {"READ", "WRITE"}]
      /\ readBuffers \in Seq(Buffers) /\ writeBuffers \in Seq(Buffers)
  BY ToolAssumption DEF ConservationInv, QueueTypeOK
<1> USE DEF ReaderHolds, WriterHolds
<1>2. NoBuffer \notin Buffers
  BY DEF NoBuffer, Buffers
<1>3. CASE UNCHANGED vars
  <2>1. UNCHANGED <<rpc, wpc, qpc, held, bufferType>>
    BY <1>3 DEF vars, queueVars
  <2>2. QED
    BY <2>1
<1>4. CASE CopyStarts
  BY <1>4 DEF CopyStarts, Open, SetOpen, ControlInv, OpenWhileReading
<1>5. CASE ReadWaits
  <2>1. /\ UNCHANGED <<rpc, wpc, held, bufferType>>
        /\ rpc = "getFree" /\ qpc'[Writer] = qpc[Writer]
    BY <1>1, <1>5 DEF ReadWaits, WaitFree, WaitUntil
  <2>2. QED
    BY <2>1
<1>6. CASE ReadTakes
  <2>1. readBuffers # <<>>
    BY <1>6 DEF ReadTakes, TakeFree, ControlInv, TakersFind
  <2>2. Last(readBuffers) \in Buffers /\ held[Reader] = NoBuffer
    BY <1>1, <1>6, <2>1, FrontFacts DEF ReadTakes
  <2>3. /\ held' = [held EXCEPT ![Reader] = Last(readBuffers)]
        /\ bufferType' = [bufferType EXCEPT ![Last(readBuffers)] = "READ"]
        /\ qpc' = [qpc EXCEPT ![Reader] = "idle"]
        /\ wpc' = wpc
    BY <1>6, <2>1 DEF ReadTakes, TakeFree, Give
  <2>4. held[Writer] # Last(readBuffers)
    BY <1>1, <2>1, <2>2, FrontFacts DEF ConservationInv, BuffersConserved, NoBufferTwice,
       NoBuffer, Buffers
  <2>5. rpc' = "fill"
    BY <1>1, <1>2, <1>6, <2>2, <2>3 DEF ReadTakes
  <2>6. QED
    BY <1>1, <2>2, <2>3, <2>4, <2>5
<1>7. CASE ReadFills
  <2>1. rpc = "fill" /\ rpc' \in {"finishRead", "return"} /\ wpc' = wpc /\ UNCHANGED queueVars
    BY <1>7 DEF ReadFills
  <2>2. QED
    BY <2>1 DEF queueVars
<1>8. CASE ReadFinishes
  BY <1>1, <1>8 DEF ReadFinishes, FinishRead
<1>9. CASE ReadReturns
  <2>1. held[Reader] \in Buffers /\ held[Writer] # held[Reader]
    BY <1>1, <1>2, <1>9 DEF ReadReturns, ReturnBuffer, ConservationInv, BuffersConserved,
       NoBufferTwice
  <2>2. /\ held' = [held EXCEPT ![Reader] = NoBuffer]
        /\ \A b \in Buffers : b # held[Reader] => bufferType'[b] = bufferType[b]
        /\ qpc' = [qpc EXCEPT ![Reader] = "notify"]
        /\ rpc = "return" /\ rpc' = rpc /\ wpc' = wpc
    BY <1>1, <1>9, <2>1 DEF ReadReturns, ReturnBuffer
  <2>3. QED
    BY <1>1, <2>1, <2>2
<1>10. CASE ReadNotifies
  <2>1. held[Reader] = NoBuffer
    BY <1>10, <1>1 DEF ReadNotifies, NotifyAll, ConservationInv, CallsHoldNothing
  <2>2. QED
    BY <1>1, <1>10, <2>1 DEF ReadNotifies, NotifyAll
<1>11. CASE CopyCloses \/ CopyJoins \/ CopyFlushes \/ MainReturns
  BY <1>11 DEF CopyCloses, Close, SetOpen, CopyJoins, CopyFlushes, MainReturns, queueVars
<1>12. CASE WritingChecks \/ WritingTestsEmpty
  <2>1. /\ UNCHANGED <<rpc, held, bufferType, qpc>>
        /\ wpc' \notin {"fwrite", "return"} /\ wpc \notin {"fwrite", "return"}
    BY <1>12 DEF WritingChecks, WritingTestsEmpty, queueVars
  <2>2. QED
    BY <2>1
<1>13. CASE WriteWaits
  <2>1. /\ UNCHANGED <<rpc, wpc, held, bufferType>>
        /\ wpc = "getFilled" /\ qpc'[Reader] = qpc[Reader]
    BY <1>1, <1>13 DEF WriteWaits, WaitFilled, WaitUntil
  <2>2. QED
    BY <2>1
<1>14. CASE WriteTakes
  <2>1. rpc' = rpc
    BY <1>14 DEF WriteTakes
  <2>2. CASE writeBuffers = <<>>
    <3>1. UNCHANGED <<held, bufferType>> /\ qpc'[Reader] = qpc[Reader] /\ held[Writer] = NoBuffer
      BY <1>1, <1>14, <2>2 DEF WriteTakes, TakeFilled, GiveNothing
    <3>2. wpc' = "check"
      BY <1>14, <3>1 DEF WriteTakes
    <3>3. QED
      BY <2>1, <3>1, <3>2
  <2>3. CASE writeBuffers # <<>>
    <3>1. Head(writeBuffers) \in Buffers /\ held[Writer] = NoBuffer
      BY <1>1, <1>14, <2>3, TailFacts DEF WriteTakes
    <3>2. /\ held' = [held EXCEPT ![Writer] = Head(writeBuffers)]
          /\ bufferType' = [bufferType EXCEPT ![Head(writeBuffers)] = "WRITE"]
          /\ qpc' = [qpc EXCEPT ![Writer] = "idle"]
      BY <1>14, <2>3 DEF WriteTakes, TakeFilled, Give
    <3>3. held[Reader] # Head(writeBuffers)
      BY <1>1, <2>3, <3>1, TailFacts DEF ConservationInv, BuffersConserved, NoBufferTwice,
         NoBuffer, Buffers
    <3>4. wpc' = "fwrite"
      BY <1>1, <1>2, <1>14, <3>1, <3>2 DEF WriteTakes
    <3>5. QED
      BY <1>1, <2>1, <3>1, <3>2, <3>3, <3>4
  <2>4. QED
    BY <2>2, <2>3
<1>15. CASE WriteFwrites
  <2>1. UNCHANGED <<queueVars, rpc>> /\ wpc = "fwrite" /\ wpc' = "return"
    BY <1>15 DEF WriteFwrites
  <2>2. QED
    BY <2>1 DEF queueVars
<1>16. CASE WriteReturns
  <2>1. held[Writer] \in Buffers /\ held[Writer] # held[Reader]
    BY <1>1, <1>2, <1>16 DEF WriteReturns, ReturnBuffer, ConservationInv, BuffersConserved,
       NoBufferTwice
  <2>2. /\ held' = [held EXCEPT ![Writer] = NoBuffer]
        /\ \A b \in Buffers : b # held[Writer] => bufferType'[b] = bufferType[b]
        /\ qpc' = [qpc EXCEPT ![Writer] = "notify"]
        /\ wpc = "return" /\ rpc' = rpc /\ wpc' = wpc
    BY <1>1, <1>16, <2>1 DEF WriteReturns, ReturnBuffer
  <2>3. QED
    BY <1>1, <2>1, <2>2
<1>17. CASE WriteNotifies
  <2>1. held[Writer] = NoBuffer
    BY <1>17, <1>1 DEF WriteNotifies, NotifyAll, ConservationInv, CallsHoldNothing
  <2>2. QED
    BY <1>1, <1>17, <2>1 DEF WriteNotifies, NotifyAll
<1>18. ASSUME NEW t \in Threads, Wakes(t)
       PROVE  ReaderHolds' /\ WriterHolds'
  BY <1>18 DEF Wakes, SpuriousWakeup
<1>19. CASE Terminated
  BY <1>3, <1>19 DEF Terminated
<1>20. QED
  BY <1>3, <1>4, <1>5, <1>6, <1>7, <1>8, <1>9, <1>10, <1>11, <1>12, <1>13, <1>14, <1>15,
     <1>16, <1>17, <1>18, <1>19 DEF Next, ReaderStep, WriterStep

LEMMA ReadStep == ToolInv /\ [Next]_vars => ReadInv'
BY StreamStep, HoldsStep DEF ToolInv, ReadInv

LEMMA ToolInvariant == Spec => []ToolInv
<1>1. QueueSpec => []ConservationInv
  BY ConservationInit, ConservationStep, PTL DEF QueueSpec
<1>2. ControlInv /\ ConservationInv /\ ReadInv <=> ToolInv
  BY DEF ToolInv
<1>3. QED
  BY <1>1, <1>2, ReadInit, ReadStep, ToolControl, ToolImplementsQueue, PTL DEF Spec

-----------------------------------------------------------------------------
(* What the writer is given *)

DstInv == dst \in Seq(Nat) /\ flushed \in 0..Len(dst)

LEMMA BytesFacts ==
  ASSUME NEW c \in ContentTypes
  PROVE  /\ Bytes(c) \in Seq(Nat)
         /\ Len(Bytes(c)) = c.bytesUsed
         /\ c.bytesUsed \in Nat /\ c.filled \in Nat /\ c.start \in Nat
         /\ \A i \in 1..c.bytesUsed :
              Bytes(c)[i] = IF i <= c.filled THEN c.start + i ELSE Stale
<1>1. c.bytesUsed \in Nat /\ c.filled \in Nat /\ c.start \in Nat
  BY ToolAssumption DEF ContentTypes
<1>2. Bytes(c) \in [1..c.bytesUsed -> Nat]
  BY <1>1 DEF Bytes, Stale
<1>3. Bytes(c) \in Seq(Nat)
  BY <1>1, <1>2, SeqDef
<1>4. Len(Bytes(c)) = c.bytesUsed
  BY <1>1, <1>2, <1>3
<1>5. QED
  BY <1>1, <1>3, <1>4 DEF Bytes

\* fwrite appends what the buffer is said to hold, or the beginning of it.
LEMMA FwriteFacts ==
  ASSUME DstInv, WriteFwrites,
         contents \in [Buffers -> ContentTypes], held[Writer] \in Buffers
  PROVE  /\ DstInv'
         /\ contents[held[Writer]] \in ContentTypes
         /\ flushed' >= flushed
         /\ ~DiskMayFill => dst' = dst \o Bytes(contents[held[Writer]])
<1> DEFINE c == contents[held[Writer]]
           bytes == Bytes(c)
<1>1. c \in ContentTypes
  OBVIOUS
<1>2. bytes \in Seq(Nat) /\ dst \in Seq(Nat) /\ Len(bytes) \in Nat
  BY <1>1, BytesFacts DEF DstInv
<1> HIDE DEF bytes, c
<1>3. PICK n \in 0..Len(bytes) :
        /\ dst' = dst \o SubSeq(bytes, 1, n)
        /\ ~DiskMayFill => n = Len(bytes)
  <2>1. \E n \in IF DiskMayFill THEN 0..Len(bytes) ELSE {Len(bytes)} :
          dst' = dst \o SubSeq(bytes, 1, n)
    BY DEF WriteFwrites, bytes, c
  <2>2. \A n \in {Len(bytes)} : n \in 0..Len(bytes)
    BY <1>2
  <2>3. CASE DiskMayFill
    BY <2>1, <2>3
  <2>4. CASE ~DiskMayFill
    BY <2>1, <2>2, <2>4
  <2>5. QED
    BY <2>3, <2>4
<1>4. SubSeq(bytes, 1, n) \in Seq(Nat)
  BY <1>2
<1>5. dst' \in Seq(Nat)
  <2>1. dst \o SubSeq(bytes, 1, n) \in Seq(Nat)
    BY <1>2, <1>4, ConcatProperties
  <2>2. QED
    BY <1>3, <2>1
<1>6. ~DiskMayFill => dst' = dst \o bytes
  <2>1. SubSeq(bytes, 1, Len(bytes)) = bytes
    BY <1>2, SubSeqFull
  <2>2. QED
    BY <1>3, <2>1
<1>7. flushed' \in flushed..Len(dst') /\ flushed \in Nat
  BY <1>2 DEF WriteFwrites, DstInv
<1>8. flushed' \in 0..Len(dst') /\ flushed' >= flushed
  BY <1>5, <1>7
<1>9. DstInv'
  BY <1>5, <1>8 DEF DstInv
<1>10. QED
  BY <1>1, <1>6, <1>8, <1>9 DEF bytes, c

LEMMA DstTypeStep ==
  ASSUME contents \in [Buffers -> ContentTypes], WriterHolds, DstInv, [Next]_vars
  PROVE  DstInv' /\ flushed' >= flushed
<1>1. CASE WriteFwrites
  <2>1. contents \in [Buffers -> ContentTypes] /\ held[Writer] \in Buffers
    BY <1>1 DEF WriteFwrites, WriterHolds
  <2>2. QED
    BY <1>1, <2>1, FwriteFacts
<1>2. CASE CopyFlushes
  <2>1. dst' = dst /\ dst \in Seq(Nat) /\ flushed \in 0..Len(dst) /\ Len(dst) \in Nat
    BY <1>2 DEF CopyFlushes, DstInv
  <2>2. flushed' \in 0..Len(dst) /\ flushed' >= flushed
    BY <1>2, <2>1 DEF CopyFlushes
  <2>3. QED
    BY <2>1, <2>2 DEF DstInv
<1>3. CASE UNCHANGED writerVars
  BY <1>3 DEF writerVars, DstInv
<1>4. QED
  BY <1>1, <1>2, <1>3 DEF vars, Next, ReaderStep, WriterStep, Terminated, Wakes,
     CopyStarts, ReadWaits, ReadTakes, ReadFills, ReadFinishes, ReadReturns,
     ReadNotifies, CopyCloses, CopyJoins, MainReturns, WritingChecks, WritingTestsEmpty,
     WriteWaits, WriteTakes, WriteReturns, WriteNotifies

LEMMA DstStep == ToolInv /\ DstInv /\ [Next]_vars => DstInv' /\ flushed' >= flushed
BY DstTypeStep DEF ToolInv, ReadInv, StreamInv, OffsetsInv

LEMMA DstInit == Init => DstInv
BY DEF Init, DstInv

\* The tool's variables keep their types: the offsets stay within the file,
\* no chunk is longer than a buffer, and no more is flushed than was written.
THEOREM ToolTypeCorrect == Spec => []TypeOK
<1>1. ToolInv /\ DstInv => TypeOK
  BY DEF ToolInv, ConservationInv, ControlInv, ReadInv, StreamInv, OffsetsInv, DstInv, TypeOK
<1>2. QED
  BY <1>1, ToolInvariant, DstInit, DstStep, PTL DEF Spec

-----------------------------------------------------------------------------
(***************************************************************************)
(* The chunks on their way from the reader to the writer, in this order:   *)
(* the one the writer is writing, those in writeBuffers, and the one the   *)
(* reader has filled and not returned.  Each begins where the one before   *)
(* it ends, the first where dst ends and the last ends at currentOffset.   *)
(***************************************************************************)
ChunkEnd(b) == contents[b].start + contents[b].bytesUsed

\* The buffer holds all the bytes it is said to hold, and they were read.
GoodChunk(b) ==
  /\ contents[b].bytesUsed = contents[b].filled
  /\ ChunkEnd(b) <= currentOffset

ReaderHasChunk == rpc = "finishRead" \/ (rpc = "return" /\ qpc[Reader] = "idle")

\* Where the chunks in writeBuffers begin and end.
WriteFrom == IF wpc = "fwrite" THEN ChunkEnd(held[Writer]) ELSE Len(dst)
ReadFrom == IF ReaderHasChunk THEN contents[held[Reader]].start ELSE currentOffset

ChunksMeet ==
  /\ \A i \in DOMAIN writeBuffers : GoodChunk(writeBuffers[i])
  /\ \A i, j \in DOMAIN writeBuffers :
       j = i + 1 => contents[writeBuffers[j]].start = ChunkEnd(writeBuffers[i])

EndsMeet ==
  /\ writeBuffers = <<>> => WriteFrom = ReadFrom
  /\ writeBuffers # <<>> =>
       /\ contents[writeBuffers[1]].start = WriteFrom
       /\ ChunkEnd(writeBuffers[Len(writeBuffers)]) = ReadFrom

\* The inductive invariant.
PipeInv ==
  /\ DstIsPrefix
  /\ Len(dst) <= currentOffset
  /\ wpc = "fwrite" =>
       GoodChunk(held[Writer]) /\ contents[held[Writer]].start = Len(dst)
  /\ ReaderHasChunk =>
       GoodChunk(held[Reader]) /\ ChunkEnd(held[Reader]) = currentOffset
  /\ ChunksMeet
  /\ EndsMeet

\* What it says of the writer's end, which is all that the writer needs: the
\* chunks it has and will get are the next ones to write.
PipeOut ==
  /\ DstIsPrefix
  /\ Len(dst) <= currentOffset
  /\ wpc = "fwrite" =>
       GoodChunk(held[Writer]) /\ contents[held[Writer]].start = Len(dst)
  /\ ChunksMeet
  /\ writeBuffers # <<>> => contents[writeBuffers[1]].start = WriteFrom

LEMMA PipeHasAnOut == PipeInv => PipeOut
BY DEF PipeInv, PipeOut, EndsMeet

LEMMA PipeInit == Init => PipeInv
BY DEF Init, QueueInit, PipeInv, DstIsPrefix, ReaderHasChunk, ChunksMeet, EndsMeet,
   WriteFrom, ReadFrom

\* A step that moves no chunk.
LEMMA PipeFrame ==
  ASSUME PipeInv,
         UNCHANGED <<dst, contents, currentOffset, writeBuffers>>,
         ReaderHasChunk' <=> ReaderHasChunk,
         ReaderHasChunk => held'[Reader] = held[Reader],
         wpc' = "fwrite" <=> wpc = "fwrite",
         wpc = "fwrite" => held'[Writer] = held[Writer]
  PROVE  PipeInv'
BY DEF PipeInv, DstIsPrefix, ChunksMeet, EndsMeet, WriteFrom, ReadFrom, GoodChunk, ChunkEnd

\* A step that leaves the writer's end of the pipe alone.
LEMMA OutFrame ==
  ASSUME PipeOut,
         UNCHANGED <<dst, contents, currentOffset, writeBuffers>>,
         wpc' = "fwrite" <=> wpc = "fwrite",
         wpc = "fwrite" => held'[Writer] = held[Writer]
  PROVE  PipeOut'
BY DEF PipeOut, DstIsPrefix, ChunksMeet, WriteFrom, GoodChunk, ChunkEnd

\* Filling a buffer adds a chunk at the reader's end.
LEMMA PipeFills ==
  ASSUME QueueTypeOK, BuffersConserved, OffsetsInv, DstInv, PipeInv, ReadFills,
         held[Reader] \in Buffers, qpc[Reader] = "idle",
         wpc = "fwrite" => held[Writer] \in Buffers
  PROVE  PipeInv'
<1> DEFINE b == held[Reader]
<1>1. /\ b \in Buffers
      /\ \A i \in DOMAIN writeBuffers : writeBuffers[i] \in Buffers /\ writeBuffers[i] # b
      /\ wpc = "fwrite" => held[Writer] \in Buffers /\ held[Writer] # b
  <2>1. b \in Buffers /\ NoBuffer \notin Buffers
    BY DEF Buffers, NoBuffer
  <2>2. writeBuffers \in Seq(Buffers) /\ Reader # Writer /\ Threads = {Reader, Writer}
    BY ToolAssumption DEF QueueTypeOK
  <2>3. QED
    BY <2>1, <2>2 DEF BuffersConserved, NoBufferTwice
<1>2. /\ NextOffset = currentOffset + BytesUsed /\ StdioFills = BytesUsed
      /\ BytesUsed \in Nat /\ currentOffset \in Nat /\ streamPos = currentOffset
      /\ currentOffset' = NextOffset
      /\ contents \in [Buffers -> ContentTypes]
  <2>1. BUFFER_SIZE \in Nat /\ fileSize \in Nat
    BY ToolAssumption DEF OffsetsInv
  <2>2. /\ NextOffset = currentOffset + BytesUsed /\ StdioFills = BytesUsed
        /\ BytesUsed \in 0..BUFFER_SIZE /\ currentOffset' = NextOffset
    BY FillsInv
  <2>3. /\ currentOffset \in 0..fileSize /\ streamPos = currentOffset
        /\ contents \in [Buffers -> ContentTypes]
    BY DEF OffsetsInv, ReadFills
  <2>4. QED
    BY <2>1, <2>2, <2>3
<1>3. contents' = [contents EXCEPT ![b] =
        [start |-> currentOffset, filled |-> BytesUsed, bytesUsed |-> BytesUsed]]
  BY <1>2 DEF ReadFills
<1>4. /\ UNCHANGED <<dst, writeBuffers, held, wpc>>
      /\ ~ReaderHasChunk /\ ReaderHasChunk'
  BY DEF ReadFills, queueVars, writerVars, ReaderHasChunk
<1>5. /\ contents'[b].start = currentOffset
      /\ contents'[b].bytesUsed = BytesUsed /\ contents'[b].filled = BytesUsed
      /\ \A x \in Buffers : x # b => contents'[x] = contents[x]
  BY <1>1, <1>2, <1>3
<1>6. \A x \in Buffers : contents[x].start \in Nat /\ contents[x].bytesUsed \in Nat
  BY <1>2, ToolAssumption DEF ContentTypes
<1> HIDE DEF b
<1>7. \A x \in Buffers : x # b /\ GoodChunk(x) => GoodChunk(x)' /\ ChunkEnd(x)' = ChunkEnd(x)
  BY <1>2, <1>5, <1>6 DEF GoodChunk, ChunkEnd
<1>8. Len(dst) \in Nat
  BY DEF DstInv
<1>9. DstIsPrefix' /\ Len(dst') <= currentOffset'
  BY <1>2, <1>4, <1>8 DEF PipeInv, DstIsPrefix
<1>10. wpc' = "fwrite" => GoodChunk(held[Writer])' /\ contents'[held'[Writer]].start = Len(dst')
  BY <1>1, <1>4, <1>5, <1>7 DEF PipeInv, GoodChunk, ChunkEnd
<1>11. GoodChunk(held[Reader])' /\ ChunkEnd(held[Reader])' = currentOffset'
  BY <1>2, <1>4, <1>5 DEF GoodChunk, ChunkEnd, b
<1>12. ChunksMeet'
  BY <1>1, <1>4, <1>5, <1>7 DEF PipeInv, ChunksMeet, GoodChunk, ChunkEnd
<1>13. WriteFrom' = WriteFrom /\ ReadFrom' = ReadFrom
  BY <1>1, <1>4, <1>5, <1>7 DEF PipeInv, WriteFrom, ReadFrom, ChunkEnd, b
<1>14. EndsMeet'
  <2>1. CASE writeBuffers = <<>>
    BY <1>4, <1>13, <2>1 DEF PipeInv, EndsMeet
  <2>2. CASE writeBuffers # <<>>
    <3>1. 1 \in DOMAIN writeBuffers /\ Len(writeBuffers) \in DOMAIN writeBuffers
      BY <2>2 DEF QueueTypeOK
    <3>2. /\ contents'[writeBuffers[1]] = contents[writeBuffers[1]]
          /\ contents'[writeBuffers[Len(writeBuffers)]] = contents[writeBuffers[Len(writeBuffers)]]
      BY <1>1, <1>5, <3>1
    <3>3. QED
      BY <1>4, <1>13, <2>2, <3>2 DEF PipeInv, EndsMeet, ChunkEnd
  <2>3. QED
    BY <2>1, <2>2
<1>15. QED
  BY <1>9, <1>10, <1>11, <1>12, <1>14 DEF PipeInv

\* Returning it makes it the last chunk in writeBuffers.
LEMMA PipeReturns ==
  ASSUME QueueTypeOK, DstInv, PipeInv, ReadReturns,
         held[Reader] \in Buffers, bufferType[held[Reader]] = "READ"
  PROVE  PipeInv'
<1> DEFINE b == held[Reader]
           last == Len(writeBuffers)
<1>1. b \in Buffers /\ bufferType[b] = "READ"
  OBVIOUS
<1>2. writeBuffers \in Seq(Buffers) /\ Reader # Writer /\ Threads = {Reader, Writer}
      /\ qpc \in [Threads -> CallStates] /\ held \in [Threads -> Buffers \cup {NoBuffer}]
  BY ToolAssumption DEF QueueTypeOK
<1>3. writeBuffers' = Append(writeBuffers, b)
  BY <1>1 DEF ReadReturns, ReturnBuffer
<1>4. /\ UNCHANGED <<dst, contents, currentOffset, wpc>> /\ held'[Writer] = held[Writer]
      /\ ReaderHasChunk /\ ~ReaderHasChunk'
  BY <1>2 DEF ReadReturns, ReturnBuffer, readerVars, writerVars, ReaderHasChunk
<1>5. /\ writeBuffers' # <<>> /\ last \in Nat
      /\ DOMAIN writeBuffers = 1..last /\ DOMAIN writeBuffers' = 1..last + 1
      /\ \A i \in 1..last : writeBuffers'[i] = writeBuffers[i]
      /\ writeBuffers'[last + 1] = b
      /\ Len(writeBuffers') = last + 1
      /\ writeBuffers = <<>> <=> last = 0
  BY <1>1, <1>2, <1>3, AppendFacts
<1>6. \A x : GoodChunk(x)' = GoodChunk(x) /\ ChunkEnd(x)' = ChunkEnd(x)
  BY <1>4 DEF GoodChunk, ChunkEnd
<1>7. /\ GoodChunk(b) /\ ChunkEnd(b) = currentOffset
      /\ ReadFrom = contents[b].start /\ ReadFrom' = currentOffset
      /\ WriteFrom' = WriteFrom
  BY <1>4 DEF PipeInv, ReadFrom, WriteFrom, ChunkEnd
<1> HIDE DEF b, last
<1>8. ChunksMeet'
  <2>1. \A i \in DOMAIN writeBuffers' : GoodChunk(writeBuffers'[i])
    BY <1>5, <1>7 DEF PipeInv, ChunksMeet
  <2>2. ASSUME NEW i \in DOMAIN writeBuffers', NEW j \in DOMAIN writeBuffers', j = i + 1
        PROVE  contents[writeBuffers'[j]].start = ChunkEnd(writeBuffers'[i])
    <3>1. CASE j = last + 1
      BY <1>5, <1>7, <2>2, <3>1 DEF PipeInv, EndsMeet, last
    <3>2. CASE j # last + 1
      BY <1>5, <2>2, <3>2 DEF PipeInv, ChunksMeet
    <3>3. QED
      BY <3>1, <3>2
  <2>3. QED
    BY <1>4, <1>6, <2>1, <2>2 DEF ChunksMeet
<1>9. EndsMeet'
  <2>1. contents[writeBuffers'[1]].start = WriteFrom
    BY <1>5, <1>7 DEF PipeInv, EndsMeet
  <2>2. QED
    BY <1>4, <1>5, <1>6, <1>7, <2>1 DEF EndsMeet
<1>10. QED
  BY <1>4, <1>6, <1>8, <1>9 DEF PipeInv, DstIsPrefix

\* Getting a filled buffer takes the first of writeBuffers.
LEMMA TakesFirst ==
  ASSUME QueueTypeOK, WriteTakes, writeBuffers # <<>>
  PROVE  /\ writeBuffers[1] \in Buffers
         /\ Len(writeBuffers) \in Nat \ {0}
         /\ DOMAIN writeBuffers = 1..Len(writeBuffers)
         /\ DOMAIN writeBuffers' = 1..Len(writeBuffers) - 1
         /\ \A i \in 1..Len(writeBuffers) - 1 : writeBuffers'[i] = writeBuffers[i + 1]
         /\ Len(writeBuffers') = Len(writeBuffers) - 1
         /\ writeBuffers' = <<>> <=> Len(writeBuffers) = 1
         /\ UNCHANGED <<dst, contents, currentOffset, rpc>>
         /\ held'[Reader] = held[Reader] /\ held'[Writer] = writeBuffers[1]
         /\ qpc'[Reader] = qpc[Reader]
         /\ wpc # "fwrite" /\ wpc' = "fwrite"
<1> DEFINE b == writeBuffers[1]
           last == Len(writeBuffers)
<1>1. writeBuffers \in Seq(Buffers) /\ Reader # Writer /\ Threads = {Reader, Writer}
      /\ held \in [Threads -> Buffers \cup {NoBuffer}] /\ NoBuffer \notin Buffers
      /\ qpc \in [Threads -> CallStates]
  BY ToolAssumption DEF QueueTypeOK, Buffers, NoBuffer
<1>2. /\ writeBuffers' = Tail(writeBuffers) /\ b \in Buffers
      /\ last \in Nat \ {0}
      /\ DOMAIN writeBuffers = 1..last /\ DOMAIN writeBuffers' = 1..last - 1
      /\ \A i \in 1..last - 1 : writeBuffers'[i] = writeBuffers[i + 1]
      /\ Head(writeBuffers) = b
      /\ Len(writeBuffers') = last - 1
      /\ writeBuffers' = <<>> <=> last = 1
  <2>1. writeBuffers' = Tail(writeBuffers)
    BY DEF WriteTakes, TakeFilled
  <2>2. /\ Tail(writeBuffers) \in Seq(Buffers) /\ Head(writeBuffers) = b /\ b \in Buffers
        /\ last \in Nat \ {0} /\ DOMAIN writeBuffers = 1..last
        /\ DOMAIN Tail(writeBuffers) = 1..last - 1
        /\ \A i \in 1..last - 1 : Tail(writeBuffers)[i] = writeBuffers[i + 1]
    BY <1>1, TailFacts
  <2>3. Len(Tail(writeBuffers)) = last - 1
    BY <1>1
  <2>4. Tail(writeBuffers) = <<>> <=> last = 1
    <3>1. Tail(writeBuffers) = <<>> => last = 1
      <4>1. Len(<<>>) = 0
        OBVIOUS
      <4>2. Tail(writeBuffers) = <<>> => Len(Tail(writeBuffers)) = 0
        BY <4>1, Zenon
      <4>3. QED
        BY <2>2, <2>3, <4>2
    <3>2. Tail(writeBuffers) # <<>> => last # 1
      <4>1. Tail(writeBuffers) # <<>> => Len(Tail(writeBuffers)) \in Nat \ {0}
        BY <2>2, EmptySeq
      <4>2. QED
        BY <2>2, <2>3, <4>1
    <3>3. QED
      BY <3>1, <3>2
  <2>5. QED
    BY <2>1, <2>2, <2>3, <2>4
<1>3. held' = [held EXCEPT ![Writer] = b] /\ qpc' = [qpc EXCEPT ![Writer] = "idle"]
  BY <1>2 DEF WriteTakes, TakeFilled, Give
<1>4. /\ UNCHANGED <<dst, contents, currentOffset, rpc>>
      /\ held'[Reader] = held[Reader] /\ held'[Writer] = b
      /\ qpc'[Reader] = qpc[Reader]
      /\ wpc # "fwrite" /\ wpc' = "fwrite"
  BY <1>1, <1>2, <1>3 DEF WriteTakes, readerVars, writerVars
<1>5. QED
  BY <1>2, <1>4

\* It makes the first chunk the writer's.
LEMMA OutTakes ==
  ASSUME QueueTypeOK, PipeOut, WriteTakes, writeBuffers # <<>>
  PROVE  /\ PipeOut'
         /\ UNCHANGED <<dst, contents, currentOffset, rpc>>
         /\ held'[Reader] = held[Reader] /\ qpc'[Reader] = qpc[Reader]
         /\ wpc' = "fwrite"
         /\ writeBuffers' = <<>> => WriteFrom' = ChunkEnd(writeBuffers[Len(writeBuffers)])
         /\ writeBuffers' # <<>> =>
              /\ writeBuffers'[Len(writeBuffers')] = writeBuffers[Len(writeBuffers)]
              /\ contents'[writeBuffers'[1]].start = WriteFrom'
<1> DEFINE b == writeBuffers[1]
           last == Len(writeBuffers)
<1>1. writeBuffers \in Seq(Buffers)
  BY DEF QueueTypeOK
<1>2. /\ b \in Buffers
      /\ last \in Nat \ {0}
      /\ DOMAIN writeBuffers = 1..last /\ DOMAIN writeBuffers' = 1..last - 1
      /\ \A i \in 1..last - 1 : writeBuffers'[i] = writeBuffers[i + 1]
      /\ Len(writeBuffers') = last - 1
      /\ writeBuffers' = <<>> <=> last = 1
  BY TakesFirst
<1>3. /\ UNCHANGED <<dst, contents, currentOffset, rpc>>
      /\ held'[Reader] = held[Reader] /\ held'[Writer] = b
      /\ qpc'[Reader] = qpc[Reader]
      /\ wpc # "fwrite" /\ wpc' = "fwrite"
  BY TakesFirst
<1>4. \A x : GoodChunk(x)' = GoodChunk(x) /\ ChunkEnd(x)' = ChunkEnd(x)
  BY <1>3 DEF GoodChunk, ChunkEnd
<1>5. /\ GoodChunk(b) /\ contents[b].start = Len(dst)
      /\ WriteFrom' = ChunkEnd(b)
  BY <1>2, <1>3, <1>4 DEF PipeOut, ChunksMeet, WriteFrom
<1> HIDE DEF b, last
<1>6. ChunksMeet'
  <2>1. \A i \in DOMAIN writeBuffers' : GoodChunk(writeBuffers'[i])
    <3>1. \A i \in DOMAIN writeBuffers : GoodChunk(writeBuffers[i])
      BY DEF PipeOut, ChunksMeet
    <3>2. QED
      BY <1>2, <3>1
  <2>2. ASSUME NEW i \in DOMAIN writeBuffers', NEW j \in DOMAIN writeBuffers', j = i + 1
        PROVE  contents[writeBuffers'[j]].start = ChunkEnd(writeBuffers'[i])
    <3>1. i + 1 \in DOMAIN writeBuffers /\ j + 1 \in DOMAIN writeBuffers /\ j + 1 = (i + 1) + 1
      BY <1>2, <2>2
    <3>2. writeBuffers'[i] = writeBuffers[i + 1] /\ writeBuffers'[j] = writeBuffers[j + 1]
      BY <1>2
    <3>3. QED
      BY <3>1, <3>2 DEF PipeOut, ChunksMeet
  <2>3. QED
    BY <1>3, <1>4, <2>1, <2>2 DEF ChunksMeet
<1>7. last # 1 =>
        /\ writeBuffers'[last - 1] = writeBuffers[last]
        /\ contents[writeBuffers'[1]].start = ChunkEnd(b)
  <2> SUFFICES ASSUME last # 1
               PROVE  /\ writeBuffers'[last - 1] = writeBuffers[last]
                      /\ contents[writeBuffers'[1]].start = ChunkEnd(b)
    OBVIOUS
  <2>1. /\ 1 \in DOMAIN writeBuffers /\ 2 \in DOMAIN writeBuffers
        /\ writeBuffers'[1] = writeBuffers[2]
        /\ writeBuffers'[last - 1] = writeBuffers[last]
    BY <1>2
  <2>2. contents[writeBuffers[2]].start = ChunkEnd(b)
    BY <2>1 DEF PipeOut, ChunksMeet, b
  <2>3. QED
    BY <2>1, <2>2
<1>8. /\ writeBuffers' = <<>> => WriteFrom' = ChunkEnd(writeBuffers[last])
      /\ writeBuffers' # <<>> =>
           /\ writeBuffers'[Len(writeBuffers')] = writeBuffers[last]
           /\ contents'[writeBuffers'[1]].start = WriteFrom'
  BY <1>2, <1>3, <1>5, <1>7 DEF b
<1>9. PipeOut'
  BY <1>3, <1>4, <1>5, <1>6, <1>8 DEF PipeOut, DstIsPrefix
<1>10. QED
  BY <1>3, <1>8, <1>9 DEF last

LEMMA PipeTakes ==
  ASSUME QueueTypeOK, PipeInv, WriteTakes, writeBuffers # <<>> PROVE PipeInv'
<1>1. PipeOut
  BY PipeHasAnOut
<1>2. /\ PipeOut'
      /\ UNCHANGED <<dst, contents, currentOffset, rpc>>
      /\ held'[Reader] = held[Reader] /\ qpc'[Reader] = qpc[Reader]
      /\ writeBuffers' = <<>> => WriteFrom' = ChunkEnd(writeBuffers[Len(writeBuffers)])
      /\ writeBuffers' # <<>> =>
           /\ writeBuffers'[Len(writeBuffers')] = writeBuffers[Len(writeBuffers)]
           /\ contents'[writeBuffers'[1]].start = WriteFrom'
  BY <1>1, OutTakes
<1>3. (ReaderHasChunk' <=> ReaderHasChunk) /\ ReadFrom' = ReadFrom
  BY <1>2 DEF ReaderHasChunk, ReadFrom
<1>4. ChunkEnd(writeBuffers[Len(writeBuffers)]) = ReadFrom
  BY DEF PipeInv, EndsMeet
<1>5. EndsMeet'
  BY <1>2, <1>3, <1>4 DEF EndsMeet, ChunkEnd
<1>6. QED
  BY <1>2, <1>3, <1>5 DEF PipeInv, PipeOut, GoodChunk, ChunkEnd

\* If fwrite takes all of it, dst grows by what the buffer is said to hold.
LEMMA FwriteAppends ==
  ASSUME DstInv, WriteFwrites, ~DiskMayFill, NEW c \in ContentTypes,
         contents \in [Buffers -> ContentTypes], held[Writer] \in Buffers,
         c = contents[held[Writer]]
  PROVE  /\ c.start \in Nat /\ c.filled \in Nat /\ c.bytesUsed \in Nat /\ Len(dst) \in Nat
         /\ Len(dst') = Len(dst) + c.bytesUsed
         /\ \A i \in 1..Len(dst) : dst'[i] = dst[i]
         /\ \A i \in 1..c.bytesUsed :
              dst'[Len(dst) + i] = IF i <= c.filled THEN c.start + i ELSE Stale
<1> DEFINE bytes == Bytes(c)
<1>1. dst' = dst \o bytes /\ dst \in Seq(Nat) /\ Len(dst) \in Nat
  BY FwriteFacts DEF DstInv
<1>2. /\ bytes \in Seq(Nat) /\ Len(bytes) = c.bytesUsed
      /\ c.bytesUsed \in Nat /\ c.filled \in Nat /\ c.start \in Nat
      /\ \A i \in 1..c.bytesUsed :
           bytes[i] = IF i <= c.filled THEN c.start + i ELSE Stale
  BY BytesFacts
<1> HIDE DEF bytes
<1>3. /\ Len(dst \o bytes) = Len(dst) + Len(bytes)
      /\ \A i \in 1..Len(dst) + Len(bytes) :
           (dst \o bytes)[i] = IF i <= Len(dst) THEN dst[i] ELSE bytes[i - Len(dst)]
  BY <1>1, <1>2, ConcatProperties
<1>4. \A i \in 1..Len(dst) : dst'[i] = dst[i]
  BY <1>1, <1>2, <1>3
<1>5. ASSUME NEW i \in 1..c.bytesUsed
      PROVE  dst'[Len(dst) + i] = bytes[i]
  <2>1. /\ Len(dst) + i \in 1..Len(dst) + Len(bytes) /\ ~(Len(dst) + i <= Len(dst))
        /\ (Len(dst) + i) - Len(dst) = i
    BY <1>1, <1>2
  <2>2. QED
    BY <1>1, <1>3, <2>1
<1>6. QED
  BY <1>1, <1>2, <1>3, <1>4, <1>5

\* Writing it makes dst end where it ended.
LEMMA OutWrites ==
  ASSUME DstInv, PipeOut, WriteFwrites, ~DiskMayFill,
         contents \in [Buffers -> ContentTypes], held[Writer] \in Buffers
  PROVE  PipeOut' /\ WriteFrom' = WriteFrom
<1> DEFINE c == contents[held[Writer]]
<1>1. c \in ContentTypes
  OBVIOUS
<1>2. /\ UNCHANGED <<contents, currentOffset, held, writeBuffers>>
      /\ wpc = "fwrite" /\ wpc' = "return"
  BY DEF WriteFwrites, queueVars, readerVars
<1>3. \A x : GoodChunk(x)' = GoodChunk(x) /\ ChunkEnd(x)' = ChunkEnd(x)
  BY <1>2 DEF GoodChunk, ChunkEnd
<1>4. /\ c.start = Len(dst) /\ c.filled = c.bytesUsed
      /\ Len(dst) + c.bytesUsed <= currentOffset
      /\ WriteFrom = Len(dst) + c.bytesUsed
  BY <1>2 DEF PipeOut, GoodChunk, ChunkEnd, WriteFrom
<1>5. /\ Len(dst) \in Nat /\ c.bytesUsed \in Nat
      /\ Len(dst') = Len(dst) + c.bytesUsed
      /\ \A i \in 1..Len(dst) : dst'[i] = dst[i]
      /\ \A i \in 1..c.bytesUsed : dst'[Len(dst) + i] = Len(dst) + i
  <2>1. /\ Len(dst) \in Nat /\ c.bytesUsed \in Nat
        /\ Len(dst') = Len(dst) + c.bytesUsed
        /\ \A i \in 1..Len(dst) : dst'[i] = dst[i]
        /\ \A i \in 1..c.bytesUsed :
             dst'[Len(dst) + i] = IF i <= c.filled THEN c.start + i ELSE Stale
    BY <1>1, FwriteAppends
  <2>2. \A i \in 1..c.bytesUsed : i <= c.filled
    BY <1>4, <2>1
  <2> HIDE DEF c
  <2>3. QED
    BY <1>4, <2>1, <2>2
<1> HIDE DEF c
<1>6. DstIsPrefix'
  <2> SUFFICES ASSUME NEW i \in 1..Len(dst')
               PROVE  dst'[i] = i
    BY DEF DstIsPrefix
  <2>1. CASE i <= Len(dst)
    BY <1>5, <2>1 DEF PipeOut, DstIsPrefix
  <2>2. CASE i > Len(dst)
    <3>1. i - Len(dst) \in 1..c.bytesUsed /\ Len(dst) + (i - Len(dst)) = i
      BY <1>5, <2>2
    <3>2. QED
      BY <1>5, <3>1
  <2>3. QED
    BY <1>5, <2>1, <2>2
<1>7. WriteFrom' = WriteFrom
  BY <1>2, <1>4, <1>5 DEF WriteFrom
<1>8. ChunksMeet'
  BY <1>2, <1>3 DEF PipeOut, ChunksMeet
<1>9. QED
  BY <1>2, <1>3, <1>4, <1>5, <1>6, <1>7, <1>8 DEF PipeOut

LEMMA PipeWrites ==
  ASSUME DstInv, PipeInv, WriteFwrites, ~DiskMayFill,
         contents \in [Buffers -> ContentTypes], held[Writer] \in Buffers
  PROVE  PipeInv'
<1>1. /\ UNCHANGED <<contents, currentOffset, rpc, qpc, held, writeBuffers>>
      /\ wpc = "fwrite" /\ wpc' = "return"
  BY DEF WriteFwrites, queueVars, readerVars
<1>2. PipeOut' /\ WriteFrom' = WriteFrom
  BY PipeHasAnOut, OutWrites
<1>3. (ReaderHasChunk' <=> ReaderHasChunk) /\ ReadFrom' = ReadFrom
  BY <1>1 DEF ReaderHasChunk, ReadFrom
<1>4. EndsMeet'
  BY <1>1, <1>2, <1>3 DEF PipeInv, EndsMeet, ChunkEnd
<1>5. QED
  BY <1>1, <1>2, <1>3, <1>4 DEF PipeInv, PipeOut, GoodChunk, ChunkEnd

LEMMA PipeStep ==
  ASSUME ~DiskMayFill, ToolInv, DstInv, PipeInv, [Next]_vars PROVE PipeInv'
<1>1. /\ Reader # Writer /\ Threads = {Reader, Writer} /\ NoBuffer \notin Buffers
      /\ qpc \in [Threads -> CallStates]
      /\ held \in [Threads -> Buffers \cup {NoBuffer}]
      /\ readBuffers \in Seq(Buffers)
  BY ToolAssumption DEF ToolInv, ConservationInv, QueueTypeOK, Buffers, NoBuffer
<1> USE DEF ReaderHasChunk
<1>2. CASE UNCHANGED vars
  <2>1. UNCHANGED <<dst, contents, currentOffset, writeBuffers, rpc, wpc, qpc, held>>
    BY <1>2 DEF vars, queueVars, readerVars, writerVars
  <2>2. QED
    BY <2>1, PipeFrame
<1>3. CASE CopyStarts
  <2>1. UNCHANGED <<dst, contents, currentOffset, writeBuffers, qpc, held>>
    BY <1>3 DEF CopyStarts, Open, SetOpen, readerVars, writerVars
  <2>2. rpc = "open" /\ rpc' = "getFree" /\ wpc = "none" /\ wpc' = "check"
    BY <1>3 DEF CopyStarts, ToolInv, ControlInv, OpenWhileReading
  <2>3. QED
    BY <2>1, <2>2, PipeFrame
<1>4. CASE ReadWaits
  <2>1. UNCHANGED <<dst, contents, currentOffset, writeBuffers, rpc, wpc, held>> /\ rpc = "getFree"
    BY <1>4 DEF ReadWaits, WaitFree, WaitUntil, readerVars, writerVars
  <2>2. QED
    BY <2>1, PipeFrame
<1>5. CASE ReadTakes
  <2>1. /\ UNCHANGED <<dst, contents, currentOffset, wpc>> /\ rpc = "getFree"
        /\ rpc' \in {"noBuffer", "fill"}
    BY <1>5 DEF ReadTakes, readerVars, writerVars
  <2>2. writeBuffers' = writeBuffers /\ held'[Writer] = held[Writer]
    BY <1>1, <1>5 DEF ReadTakes, TakeFree, GiveNothing, Give
  <2>3. QED
    BY <2>1, <2>2, PipeFrame
<1>6. CASE ReadFinishes
  <2>1. /\ UNCHANGED <<dst, contents, currentOffset, writeBuffers, wpc, held, qpc>>
        /\ rpc = "finishRead" /\ rpc' = "return" /\ qpc[Reader] = "idle"
    BY <1>6 DEF ReadFinishes, FinishRead, readerVars, writerVars
  <2>2. QED
    BY <2>1, PipeFrame
<1>7. CASE ReadNotifies
  <2>1. /\ UNCHANGED <<dst, contents, currentOffset, writeBuffers, wpc, held>>
        /\ rpc = "return" /\ qpc[Reader] = "notify"
        /\ rpc' \in {"close", "getFree"}
    BY <1>7 DEF ReadNotifies, NotifyAll, readerVars, writerVars
  <2>2. QED
    BY <2>1, PipeFrame
<1>8. CASE CopyCloses \/ CopyJoins \/ CopyFlushes \/ MainReturns
  <2>1. /\ UNCHANGED <<dst, contents, currentOffset, writeBuffers, wpc, held, qpc>>
        /\ rpc \in {"close", "join", "flush", "exit"} /\ rpc' \in {"join", "flush", "exit", "exited"}
    BY <1>8 DEF CopyCloses, Close, SetOpen, CopyJoins, CopyFlushes, MainReturns, queueVars,
       readerVars, writerVars
  <2>2. QED
    BY <2>1, PipeFrame
<1>9. CASE WritingChecks \/ WritingTestsEmpty
  <2>1. /\ UNCHANGED <<dst, contents, currentOffset, writeBuffers, rpc, held, qpc>>
        /\ wpc # "fwrite" /\ wpc' # "fwrite"
    BY <1>9 DEF WritingChecks, WritingTestsEmpty, queueVars, readerVars, writerVars
  <2>2. QED
    BY <2>1, PipeFrame
<1>10. CASE WriteWaits
  <2>1. /\ UNCHANGED <<dst, contents, currentOffset, writeBuffers, rpc, wpc, held>>
        /\ qpc'[Reader] = qpc[Reader]
    BY <1>1, <1>10 DEF WriteWaits, WaitFilled, WaitUntil, readerVars, writerVars
  <2>2. QED
    BY <2>1, PipeFrame
<1>11. CASE WriteTakes /\ writeBuffers = <<>>
  <2>1. /\ UNCHANGED <<dst, contents, currentOffset, writeBuffers, rpc, held>>
        /\ qpc'[Reader] = qpc[Reader] /\ held[Writer] = NoBuffer /\ wpc = "getFilled"
    BY <1>1, <1>11 DEF WriteTakes, TakeFilled, GiveNothing, readerVars, writerVars,
       ToolInv, ReadInv, WriterHolds
  <2>2. wpc' = "check"
    BY <1>11, <2>1 DEF WriteTakes
  <2>3. QED
    BY <2>1, <2>2, PipeFrame
<1>12. CASE WriteReturns
  <2>1. bufferType[held[Writer]] = "WRITE"
    BY <1>12 DEF WriteReturns, ReturnBuffer, ToolInv, ReadInv, WriterHolds
  <2>2. /\ UNCHANGED <<dst, contents, currentOffset, writeBuffers, rpc, wpc>>
        /\ qpc'[Reader] = qpc[Reader] /\ held'[Reader] = held[Reader] /\ wpc = "return"
    BY <1>1, <1>12, <2>1 DEF WriteReturns, ReturnBuffer, readerVars, writerVars
  <2>3. QED
    BY <2>2, PipeFrame
<1>13. CASE WriteNotifies
  <2>1. /\ UNCHANGED <<dst, contents, currentOffset, writeBuffers, rpc, held>>
        /\ qpc'[Reader] = qpc[Reader] /\ wpc = "return" /\ wpc' = "check"
    BY <1>1, <1>13 DEF WriteNotifies, NotifyAll, readerVars, writerVars
  <2>2. QED
    BY <2>1, PipeFrame
<1>14. ASSUME NEW t \in Threads, Wakes(t)
       PROVE  PipeInv'
  <2>1. UNCHANGED <<dst, contents, currentOffset, writeBuffers, rpc, wpc, held, qpc>>
    BY <1>14 DEF Wakes, SpuriousWakeup, readerVars, writerVars
  <2>2. QED
    BY <2>1, PipeFrame
<1>15. CASE ReadFills
  BY <1>15, PipeFills DEF ReadFills, ToolInv, ControlInv, ReaderCalls, ConservationInv, ReadInv,
     StreamInv, ReaderHolds, WriterHolds
<1>16. CASE ReadReturns
  BY <1>16, PipeReturns DEF ReadReturns, ReturnBuffer, ToolInv, ConservationInv, ReadInv, ReaderHolds
<1>17. CASE WriteTakes /\ writeBuffers # <<>>
  BY <1>17, PipeTakes DEF ToolInv, ConservationInv
<1>18. CASE WriteFwrites
  BY <1>18, PipeWrites DEF WriteFwrites, ToolInv, ReadInv, StreamInv, OffsetsInv, WriterHolds
<1>19. QED
  BY <1>2, <1>3, <1>4, <1>5, <1>6, <1>7, <1>8, <1>9, <1>10, <1>11, <1>12, <1>13, <1>14,
     <1>15, <1>16, <1>17, <1>18 DEF Next, ReaderStep, WriterStep, Terminated

\* As long as fwrite takes what it is given, every byte that reaches the
\* destination is the byte of the source in its place, for any number and size
\* of buffers and any file.
THEOREM WrittenInOrder == ~DiskMayFill /\ Spec => []DstIsPrefix
<1>1. ~DiskMayFill /\ ToolInv /\ DstInv /\ PipeInv /\ [Next]_vars => PipeInv'
  BY PipeStep
<1>2. PipeInv => DstIsPrefix
  BY DEF PipeInv
<1>3. (~DiskMayFill) => [](~DiskMayFill)
  OBVIOUS
<1>4. QED
  BY <1>1, <1>2, <1>3, PipeInit, ToolInvariant, DstInit, DstStep, PTL DEF Spec

-----------------------------------------------------------------------------
(* The tool implements CopyFile *)

\* The writer leaves its loop only with the queue closed and empty; the files
\* are closed only after that; and the process ends only after that.
EndInv ==
  /\ rpc # "open" => wpc # "none"
  /\ wpc = "done" => writeBuffers = <<>> /\ ~isOpen
  /\ rpc \in {"flush", "exit", "exited"} => wpc = "done"
  /\ rpc \in {"exit", "exited"} /\ ~DiskMayFill => flushed = Len(dst)

\* All that has been proved, and the end.
CopyInv == ToolInv /\ DstInv /\ PipeInv /\ EndInv

LEMMA EndStep ==
  ASSUME ControlInv, EndInv, [Next]_vars PROVE EndInv'
<1> USE DEF EndInv
<1>1. isOpen <=> rpc \in OpenStates
  BY DEF ControlInv, OpenWhileReading
<1>2. CASE UNCHANGED vars
  <2>1. UNCHANGED <<rpc, wpc, writeBuffers, isOpen, flushed, dst>>
    BY <1>2 DEF vars, queueVars, writerVars
  <2>2. QED
    BY <2>1
<1>3. CASE CopyStarts \/ ReadFills \/ ReadFinishes
  BY <1>3 DEF CopyStarts, Open, SetOpen, ReadFills, ReadFinishes, FinishRead, queueVars, writerVars,
     ControlInv, OpenWhileReading
<1>4. CASE ReadWaits \/ ReadTakes
  <2>1. /\ UNCHANGED <<wpc, writeBuffers, isOpen, flushed, dst>>
        /\ rpc = "getFree" /\ rpc' \in {"getFree", "noBuffer", "fill"}
    BY <1>4 DEF ReadWaits, WaitFree, WaitUntil, ReadTakes, TakeFree, GiveNothing, writerVars
  <2>2. QED
    BY <2>1
<1>5. CASE ReadReturns
  <2>1. UNCHANGED <<rpc, wpc>> /\ rpc = "return"
    BY <1>5 DEF ReadReturns
  <2>2. isOpen
    BY <1>1, <2>1 DEF OpenStates
  <2>3. QED
    BY <2>1, <2>2
<1>6. CASE ReadNotifies \/ CopyCloses
  BY <1>6 DEF ReadNotifies, NotifyAll, CopyCloses, Close, SetOpen, writerVars
<1>7. CASE CopyJoins
  BY <1>7 DEF CopyJoins, queueVars, writerVars
<1>8. CASE CopyFlushes
  <2>1. ~DiskMayFill => flushed' = Len(dst)
    BY <1>8 DEF CopyFlushes
  <2>2. QED
    BY <1>8, <2>1 DEF CopyFlushes, queueVars
<1>9. CASE MainReturns
  BY <1>9 DEF MainReturns, queueVars, writerVars
<1>10. CASE WritingChecks
  BY <1>10 DEF WritingChecks, queueVars, writerVars
<1>11. CASE WritingTestsEmpty
  BY <1>11 DEF WritingTestsEmpty, IsEmpty, queueVars, writerVars
<1>12. CASE WriteWaits \/ WriteTakes \/ WriteFwrites \/ WriteReturns \/ WriteNotifies
  <2>1. wpc \notin {"done", "none"} /\ wpc' \notin {"done", "none"} /\ rpc' = rpc
    BY <1>12 DEF WriteWaits, WriteTakes, WriteFwrites, WriteReturns, WriteNotifies
  <2>2. QED
    BY <2>1
<1>13. ASSUME NEW t \in Threads, Wakes(t)
       PROVE  EndInv'
  BY <1>13 DEF Wakes, SpuriousWakeup, writerVars
<1>14. QED
  BY <1>2, <1>3, <1>4, <1>5, <1>6, <1>7, <1>8, <1>9, <1>10, <1>11, <1>12, <1>13
     DEF Next, ReaderStep, WriterStep, Terminated

LEMMA EndInit == Init => EndInv
BY DEF Init, EndInv

LEMMA CopyInvariant == ~DiskMayFill /\ Spec => []CopyInv
<1>1. ~DiskMayFill /\ ToolInv /\ DstInv /\ PipeInv /\ [Next]_vars => PipeInv'
  BY PipeStep
<1>2. ToolInv /\ EndInv /\ [Next]_vars => EndInv'
  BY EndStep DEF ToolInv
<1>3. ToolInv /\ DstInv /\ PipeInv /\ EndInv <=> CopyInv
  BY DEF CopyInv
<1>4. (~DiskMayFill) => [](~DiskMayFill)
  OBVIOUS
<1>5. QED
  BY <1>1, <1>2, <1>3, <1>4, PipeInit, EndInit, ToolInvariant, DstInit, DstStep, PTL DEF Spec

\* Once the writer is done, everything is in dst.
LEMMA DoneWritesAll == CopyInv /\ wpc = "done" => Len(dst) = fileSize
<1> SUFFICES ASSUME CopyInv, wpc = "done"
             PROVE  Len(dst) = fileSize
  OBVIOUS
<1>1. writeBuffers = <<>> /\ ~isOpen
  BY DEF CopyInv, EndInv
<1>2. rpc \in {"open", "join", "flush", "exit", "exited"} /\ rpc # "open"
  BY <1>1 DEF CopyInv, ToolInv, ControlInv, OpenWhileReading, OpenStates, ReaderStates
<1>3. readFinished /\ currentOffset = fileSize
  BY <1>2 DEF CopyInv, ToolInv, ReadInv, StreamInv, OffsetsInv
<1>4. Len(dst) = currentOffset
  BY <1>1, <1>2 DEF CopyInv, PipeInv, EndsMeet, WriteFrom, ReadFrom, ReaderHasChunk
<1>5. QED
  BY <1>3, <1>4

\* The destination file is as much of the source as was flushed.
LEMMA FileFacts ==
  DstInv /\ DstIsPrefix => File = Abstract!Source(flushed) /\ Len(File) = flushed
<1> SUFFICES ASSUME DstInv, DstIsPrefix
             PROVE  File = Abstract!Source(flushed) /\ Len(File) = flushed
  OBVIOUS
<1>1. dst \in Seq(Nat) /\ flushed \in Nat /\ flushed <= Len(dst) /\ Len(dst) \in Nat
  BY DEF DstInv
<1>2. \A i \in 1..flushed : dst[i] \in Nat /\ dst[i] = i
  BY <1>1 DEF DstIsPrefix
<1>3. /\ File \in Seq(Nat) /\ Len(File) = flushed
      /\ \A i \in 1..flushed : File[i] = i
  BY <1>1, <1>2 DEF File
<1>4. File = [i \in 1..flushed |-> File[i]]
  BY <1>1, <1>3
<1>5. QED
  BY <1>3, <1>4 DEF Abstract!Source

LEMMA CopyStep ==
  ASSUME ~DiskMayFill, CopyInv, CopyInv', [Next]_vars
  PROVE  [Abstract!CopyNext]_<<fileSize, File, Status>>
<1>1. /\ File = Abstract!Source(flushed) /\ Len(File) = flushed
      /\ File' = Abstract!Source(flushed')
  <2>1. (DstInv /\ DstIsPrefix => File = Abstract!Source(flushed) /\ Len(File) = flushed)'
    BY FileFacts, PTL
  <2>2. DstInv /\ DstIsPrefix /\ DstInv' /\ DstIsPrefix'
    BY DEF CopyInv, PipeInv
  <2>3. QED
    BY <2>1, <2>2, FileFacts
<1>2. /\ flushed \in Nat /\ flushed' \in Nat /\ flushed' >= flushed
      /\ flushed' <= fileSize'
      /\ fileSize \in Nat /\ fileSize' = fileSize
  <2>1. flushed' >= flushed /\ flushed \in Nat /\ flushed' \in 0..Len(dst') /\ Len(dst') \in Nat
    BY DstStep DEF CopyInv, DstInv
  <2>2. Len(dst') <= currentOffset' /\ currentOffset' \in 0..fileSize' /\ fileSize \in FileSizes
        /\ fileSize' \in FileSizes
    BY DEF CopyInv, PipeInv, ToolInv, ReadInv, StreamInv, OffsetsInv
  <2>3. fileSize' = fileSize
    BY DEF vars, readerVars, Next, ReaderStep, WriterStep, Terminated, Wakes,
       CopyStarts, ReadWaits, ReadTakes, ReadFills, ReadFinishes, ReadReturns,
       ReadNotifies, CopyCloses, CopyJoins, CopyFlushes, MainReturns, WritingChecks,
       WritingTestsEmpty, WriteWaits, WriteTakes, WriteFwrites, WriteReturns, WriteNotifies
  <2>4. QED
    BY <2>1, <2>2, <2>3, ToolAssumption
<1>3. CASE MainReturns
  <2>1. flushed' = flushed /\ Status = "copying" /\ Status' = "done"
    BY <1>3 DEF MainReturns, writerVars, Status
  <2>2. flushed = fileSize
    BY <1>3, DoneWritesAll DEF MainReturns, CopyInv, EndInv
  <2>3. QED
    BY <1>1, <1>2, <2>1, <2>2 DEF Abstract!CopyNext, Abstract!Finish
<1>4. CASE ~MainReturns
  <2>1. Status' = Status
    BY <1>4 DEF Status, vars, Next, ReaderStep, WriterStep, Terminated, Wakes,
       CopyStarts, ReadWaits, ReadTakes, ReadFills, ReadFinishes, ReadReturns,
       ReadNotifies, CopyCloses, CopyJoins, CopyFlushes, WritingChecks,
       WritingTestsEmpty, WriteWaits, WriteTakes, WriteFwrites, WriteReturns, WriteNotifies
  <2>2. CASE flushed' = flushed
    BY <1>1, <1>2, <2>1, <2>2
  <2>3. CASE flushed' # flushed
    <3>1. WriteFwrites \/ CopyFlushes
      BY <2>3 DEF vars, writerVars, Next, ReaderStep, WriterStep, Terminated, Wakes,
         CopyStarts, ReadWaits, ReadTakes, ReadFills, ReadFinishes, ReadReturns,
         ReadNotifies, CopyCloses, CopyJoins, MainReturns, WritingChecks,
         WritingTestsEmpty, WriteWaits, WriteTakes, WriteReturns, WriteNotifies
    <3>2. Status = "copying"
      BY <3>1 DEF WriteFwrites, CopyFlushes, Status, CopyInv, EndInv
    <3>3. flushed' \in Len(File) + 1 .. fileSize
      BY <1>1, <1>2, <2>3
    <3>4. QED
      BY <1>1, <1>2, <2>1, <3>2, <3>3 DEF Abstract!CopyNext, Abstract!Extend
  <2>4. QED
    BY <2>2, <2>3
<1>5. QED
  BY <1>3, <1>4

\* As long as fwrite takes what it is given, the tool implements CopyFile: the
\* destination grows along the source, and the process ends with status 0 only
\* when all of the source is in it.
THEOREM ToolImplementsCopyFile == ~DiskMayFill /\ Spec => ImplementsCopyFile
<1>1. Init => Abstract!CopyInit
  <2> SUFFICES ASSUME Init
               PROVE  Abstract!CopyInit
    OBVIOUS
  <2>1. fileSize \in FileSizes /\ Status = "copying"
    BY DEF Init, Status
  <2>2. File = <<>>
    BY SubSeqEmpty DEF Init, File
  <2>3. QED
    BY <2>1, <2>2 DEF Abstract!CopyInit
<1>2. ~DiskMayFill /\ CopyInv /\ CopyInv' /\ [Next]_vars
        => [Abstract!CopyNext]_(Abstract!copyVars)
  BY CopyStep DEF Abstract!copyVars
<1>3. (~DiskMayFill) => [](~DiskMayFill)
  OBVIOUS
<1>4. QED
  BY <1>1, <1>2, <1>3, CopyInvariant, PTL DEF Spec, ImplementsCopyFile, Abstract!CopySpec

-----------------------------------------------------------------------------
(* The two threads stop each other in one state only *)

\* Whoever has the mutex goes on.
LEMMA OwnerGoesOn ==
  ASSUME ControlInv, TakersAreOwners, SleepersWait, QueueTypeOK, queueMutex # NoThread
  PROVE  ~(Stopped(Reader) /\ Stopped(Writer))
<1>1. Reader # Writer /\ Threads = {Reader, Writer}
  BY ToolAssumption
<1>2. PICK t \in Threads : queueMutex = t /\ qpc[t] \in {"takeFree", "takeFilled"}
  BY DEF TakersAreOwners, QueueTypeOK
<1>3. t \notin waiting
  BY <1>2 DEF SleepersWait
<1>4. t = Reader => rpc # "join"
  BY <1>2 DEF ControlInv, ReaderCalls
<1>5. t = Writer => wpc \notin {"none", "done"}
  BY <1>2 DEF ControlInv, WriterCalls
<1>6. ~Stopped(t)
  BY <1>1, <1>2, <1>3, <1>4, <1>5 DEF Stopped
<1>7. QED
  BY <1>1, <1>6

\* A reader that sleeps has a writer, for the queue is open as long as it
\* reads; and that writer is awake.
LEMMA SleepingReaderHasWriter ==
  ASSUME ControlInv, EndInv, SleepersWait, Reader \in waiting
  PROVE  wpc \notin {"none", "done"}
<1>1. qpc[Reader] # "idle"
  BY ToolAssumption DEF SleepersWait
<1>2. rpc = "getFree"
  BY <1>1 DEF ControlInv, ReaderCalls, SleepersWait
<1>3. QED
  BY <1>2 DEF ControlInv, OpenWhileReading, OpenStates, EndInv

\* Where a writer sleeps whom the main thread waits for at the join.
LEMMA WriterSleepsAtTheEnd ==
  ASSUME CopyInv, WakeupInv, rpc = "join", Writer \in waiting
  PROVE  AsleepOnClosedQueue
<1>1. Reader # Writer /\ Threads = {Reader, Writer}
  BY ToolAssumption
<1>2. ~isOpen /\ qpc[Reader] = "idle"
  BY DEF CopyInv, ToolInv, ControlInv, OpenWhileReading, OpenStates, ReaderCalls
<1>3. qpc[Writer] = "getFilled" /\ wpc = "getFilled"
  BY <1>1 DEF WakeupInv, SleepersWait, CopyInv, ToolInv, ControlInv, WriterCalls
<1>4. writeBuffers = <<>>
  BY <1>1, <1>2, <1>3 DEF WakeupInv, NoLostReturn
<1>5. readFinished /\ currentOffset = fileSize
  BY DEF CopyInv, ToolInv, ReadInv, StreamInv, OffsetsInv
<1>6. Len(dst) = currentOffset
  BY <1>3, <1>4 DEF CopyInv, PipeInv, EndsMeet, WriteFrom, ReadFrom, ReaderHasChunk
<1>7. QED
  BY <1>2, <1>4, <1>5, <1>6 DEF AsleepOnClosedQueue

\* Nothing the two threads can wait for - a buffer, the mutex, each other's end -
\* stops them both, for any number and size of buffers, any file and any
\* interleaving, but the end of a queue that is closed without a notification;
\* and there every byte has been written.
THEOREM NoOtherDeadlock == ~DiskMayFill /\ Spec => []StopsOnlyOnClosedQueue
<1>1. ASSUME CopyInv, WakeupInv, MutexInv, NeverBothAsleep, Stopped(Reader), Stopped(Writer)
      PROVE  AsleepOnClosedQueue
  <2>1. Reader # Writer
    BY ToolAssumption
  <2>2. queueMutex = NoThread
    BY <1>1, OwnerGoesOn DEF CopyInv, ToolInv, WakeupInv, MutexInv
  <2>3. \/ Reader \in waiting
        \/ rpc = "join" /\ wpc \notin {"none", "done"}
    BY <1>1, <2>1, <2>2 DEF Stopped
  <2>4. Writer \in waiting \/ wpc \in {"none", "done"}
    BY <1>1, <2>1, <2>2 DEF Stopped
  <2>5. Reader \notin waiting
    BY <1>1, <2>4, SleepingReaderHasWriter
       DEF NeverBothAsleep, CopyInv, ToolInv, WakeupInv
  <2>6. QED
    BY <1>1, <2>3, <2>4, <2>5, WriterSleepsAtTheEnd
<1>2. CopyInv /\ WakeupInv /\ MutexInv /\ NeverBothAsleep => StopsOnlyOnClosedQueue
  BY <1>1 DEF StopsOnlyOnClosedQueue
<1>3. QueueSpec => []WakeupInv
  BY WakeupInit, WakeupStep, PTL DEF QueueSpec
<1>4. QED
  BY <1>2, <1>3, MutexInvariant, CopyInvariant, NoMutualSleep, ToolImplementsQueue, PTL

=============================================================================
