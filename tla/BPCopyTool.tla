------------------------------ MODULE BPCopyTool ------------------------------
(***************************************************************************)
(* The buffered copy tool (--type=vbuf): BPCopyTool::copy in the main      *)
(* thread, which drives a BufferedReader; BPCopyTool::writingFunction in   *)
(* writingThread, which drives a BufferedFileWriter; and the               *)
(* FixedBufferQueue between them.                                          *)
(*                                                                         *)
(* Data.  Byte i of the source is the number i.  A buffer records where    *)
(* the bytes stdio put in it begin, how many they are, and bytesUsed, what *)
(* the reader says they are; a byte beyond the filled part is Stale.       *)
(*                                                                         *)
(* Ends.  copy() returns and main() destroys the tool, which joins          *)
(* writingThread and then closes the files.  A run that an exception or a  *)
(* signal cuts short is the subject of InterruptedCopy.                    *)
(***************************************************************************)
EXTENDS FixedBufferQueue

CONSTANTS
  Reader, Writer,     \* the main thread and writingThread
  BUFFER_SIZE,        \* bytes in a buffer
  FileSizes,          \* the sizes the source may have
  DiskMayFill         \* whether fwrite may accept fewer bytes than it is given

ASSUME ToolAssumption ==
  /\ Reader # Writer
  /\ Threads = {Reader, Writer}
  /\ BUFFER_SIZE \in Nat \ {0}
  /\ FileSizes \in SUBSET Nat
  /\ DiskMayFill \in BOOLEAN

VARIABLES
  rpc,                \* program counter of the main thread
  wpc,                \* program counter of writingThread
  fileSize,           \* BufferedReader::fileSize, taken by its constructor
  currentOffset,      \* BufferedReader::currentOffset
  readFinished,       \* BufferedReader::readFinished
  streamPos,          \* position of the source stream
  contents,           \* what every buffer holds
  dst,                \* the bytes fwrite has accepted
  flushed             \* how many of them are in the destination file

readerVars == <<fileSize, currentOffset, readFinished, streamPos, contents>>
writerVars == <<dst, flushed>>
vars == <<queueVars, rpc, wpc, readerVars, writerVars>>

Stale == 0

ReaderStates == {"open", "getFree", "noBuffer", "fill", "finishRead", "return",
                 "close", "join", "flush", "exit", "exited"}
WriterStates == {"none", "check", "isEmpty", "getFilled", "fwrite", "return", "done"}

Init ==
  /\ QueueInit
  /\ rpc = "open"
  /\ wpc = "none"
  /\ fileSize \in FileSizes
  /\ currentOffset = 0
  /\ readFinished = FALSE
  /\ streamPos = 0
  /\ contents = [b \in Buffers |-> [start |-> 0, filled |-> 0, bytesUsed |-> 0]]
  /\ dst = <<>>
  /\ flushed = 0

-----------------------------------------------------------------------------
(* The main thread *)

\* Mutant: the queue is never opened.
CopyStartsUnopened ==
  /\ rpc = "open"
  /\ rpc' = "getFree"
  /\ wpc' = "check"
  /\ UNCHANGED <<queueVars, readerVars, writerVars>>

\* queue->open(), fileReader->open(), fileWriter->create(), start writingThread.
CopyStarts ==
  /\ rpc = "open"
  /\ Open(Reader)
  /\ rpc' = "getFree"
  /\ wpc' = "check"
  /\ UNCHANGED <<readerVars, writerVars>>

\* fileReader->read(): getFreeBuffer().value().
ReadWaits ==
  /\ rpc = "getFree"
  /\ WaitFree(Reader)
  /\ UNCHANGED <<rpc, wpc, readerVars, writerVars>>

ReadTakes ==
  /\ rpc = "getFree"
  /\ TakeFree(Reader)
  /\ rpc' = IF held'[Reader] = NoBuffer THEN "noBuffer" ELSE "fill"
  /\ UNCHANGED <<wpc, readerVars, writerVars>>

\* Mutant: the last chunk counts as a whole one.
WholeBuffer == BUFFER_SIZE

\* How many bytes the reader says the next chunk has.
BytesUsed ==
  IF currentOffset + BUFFER_SIZE <= fileSize THEN BUFFER_SIZE
                                             ELSE fileSize - currentOffset

\* fgetc on the stream whose buffer setvbuf has just replaced: stdio reads as
\* much as fits and the file has; one byte of it is consumed.
StdioFills ==
  IF streamPos + BUFFER_SIZE <= fileSize THEN BUFFER_SIZE
                                         ELSE fileSize - streamPos
AfterFgetc == IF streamPos < fileSize THEN streamPos + 1 ELSE streamPos

\* Mutant: currentOffset is advanced without std::min.
OffsetPastEnd == currentOffset + BUFFER_SIZE

\* std::min(currentOffset + BUFFER_SIZE, fileSize).
NextOffset ==
  IF currentOffset + BUFFER_SIZE <= fileSize THEN currentOffset + BUFFER_SIZE
                                             ELSE fileSize

\* The rest of read() up to the return of the buffer: fill it, advance, and
\* either fseek over what is left of the chunk or set readFinished.
ReadFills ==
  /\ rpc = "fill"
  /\ contents' = [contents EXCEPT ![held[Reader]] =
                    [start |-> streamPos, filled |-> StdioFills, bytesUsed |-> BytesUsed]]
  /\ currentOffset' = NextOffset
  /\ \/ /\ NextOffset < fileSize
        /\ streamPos' = AfterFgetc + BUFFER_SIZE - 1
        /\ rpc' = "return"
        /\ UNCHANGED readFinished
     \/ /\ NextOffset >= fileSize
        /\ streamPos' = AfterFgetc
        /\ readFinished' = TRUE
        /\ rpc' = "finishRead"
  /\ UNCHANGED <<queueVars, wpc, fileSize, writerVars>>

ReadFinishes ==
  /\ rpc = "finishRead"
  /\ FinishRead(Reader)
  /\ rpc' = "return"
  /\ UNCHANGED <<wpc, readerVars, writerVars>>

ReadReturns ==
  /\ rpc = "return"
  /\ ReturnBuffer(Reader)
  /\ UNCHANGED <<rpc, wpc, readerVars, writerVars>>

\* The end of returnBuffer, and the test of copy()'s loop.
ReadNotifies ==
  /\ rpc = "return"
  /\ NotifyAll(Reader)
  /\ rpc' = IF readFinished THEN "close" ELSE "getFree"
  /\ UNCHANGED <<wpc, readerVars, writerVars>>

\* Mutant: close() is forgotten.
CopyForgetsToClose ==
  /\ rpc = "close"
  /\ rpc' = "join"
  /\ UNCHANGED <<queueVars, wpc, readerVars, writerVars>>

CopyCloses ==
  /\ rpc = "close"
  /\ Close(Reader)
  /\ rpc' = "join"
  /\ UNCHANGED <<wpc, readerVars, writerVars>>

\* The tool is destroyed, writingThread first: it is joined if it was started.
CopyJoins ==
  /\ rpc = "join"
  /\ wpc \in {"none", "done"}
  /\ rpc' = "flush"
  /\ UNCHANGED <<queueVars, wpc, readerVars, writerVars>>

\* ~BufferedFileWriter: finishWrite() closes the stream, which writes it out.
CopyFlushes ==
  /\ rpc = "flush"
  /\ flushed' \in IF DiskMayFill THEN flushed..Len(dst) ELSE {Len(dst)}
  /\ rpc' = "exit"
  /\ UNCHANGED <<queueVars, wpc, readerVars, dst>>

MainReturns ==
  /\ rpc = "exit"
  /\ rpc' = "exited"
  /\ UNCHANGED <<queueVars, wpc, readerVars, writerVars>>

ReaderStep ==
  \/ CopyStarts
  \/ ReadWaits
  \/ ReadTakes
  \/ ReadFills
  \/ ReadFinishes
  \/ ReadReturns
  \/ ReadNotifies
  \/ CopyCloses
  \/ CopyJoins
  \/ CopyFlushes
  \/ MainReturns

-----------------------------------------------------------------------------
(* writingThread *)

\* The loop condition of writingFunction: !isReadFinished() || !isEmpty().
WritingChecks ==
  /\ wpc = "check"
  /\ wpc' = IF readFinished THEN "isEmpty" ELSE "getFilled"
  /\ UNCHANGED <<queueVars, rpc, readerVars, writerVars>>

WritingTestsEmpty ==
  /\ wpc = "isEmpty"
  /\ queueMutex = NoThread
  /\ wpc' = IF IsEmpty THEN "done" ELSE "getFilled"
  /\ UNCHANGED <<queueVars, rpc, readerVars, writerVars>>

\* fileWriter->write(): getFilledBuffer(), and nothing more if it gives none.
WriteWaits ==
  /\ wpc = "getFilled"
  /\ WaitFilled(Writer)
  /\ UNCHANGED <<rpc, wpc, readerVars, writerVars>>

WriteTakes ==
  /\ wpc = "getFilled"
  /\ TakeFilled(Writer)
  /\ wpc' = IF held'[Writer] = NoBuffer THEN "check" ELSE "fwrite"
  /\ UNCHANGED <<rpc, readerVars, writerVars>>

\* The bytes fwrite is given from a buffer.
Bytes(c) == [i \in 1..c.bytesUsed |-> IF i <= c.filled THEN c.start + i ELSE Stale]

\* fwrite, whose result nobody looks at.  stdio passes on to the file what it
\* likes of what it has.
WriteFwrites ==
  /\ wpc = "fwrite"
  /\ LET bytes == Bytes(contents[held[Writer]])
     IN  \E n \in IF DiskMayFill THEN 0..Len(bytes) ELSE {Len(bytes)} :
           dst' = dst \o SubSeq(bytes, 1, n)
  /\ flushed' \in flushed..Len(dst')
  /\ wpc' = "return"
  /\ UNCHANGED <<queueVars, rpc, readerVars>>

WriteReturns ==
  /\ wpc = "return"
  /\ ReturnBuffer(Writer)
  /\ UNCHANGED <<rpc, wpc, readerVars, writerVars>>

WriteNotifies ==
  /\ wpc = "return"
  /\ NotifyAll(Writer)
  /\ wpc' = "check"
  /\ UNCHANGED <<rpc, readerVars, writerVars>>

WriterStep ==
  \/ WritingChecks
  \/ WritingTestsEmpty
  \/ WriteWaits
  \/ WriteTakes
  \/ WriteFwrites
  \/ WriteReturns
  \/ WriteNotifies

-----------------------------------------------------------------------------

Wakes(t) ==
  /\ SpuriousWakeup(t)
  /\ UNCHANGED <<rpc, wpc, readerVars, writerVars>>

\* The process has ended.
Terminated == rpc = "exited" /\ UNCHANGED vars

Next ==
  \/ ReaderStep
  \/ WriterStep
  \/ \E t \in Threads : Wakes(t)
  \/ Terminated

(***************************************************************************)
(* The operating system runs a thread that can run.  Weak fairness is      *)
(* enough for the mutex too: a thread that waits for it can be overtaken   *)
(* only as often as the other has buffers to take.  Spurious wakeups are   *)
(* allowed and never owed.                                                 *)
(***************************************************************************)
Fairness == WF_vars(ReaderStep) /\ WF_vars(WriterStep)

Spec == Init /\ [][Next]_vars
FairSpec == Spec /\ Fairness

-----------------------------------------------------------------------------
(* Properties *)

\* Type invariant of the tool.
ContentTypes ==
  [start : Nat, filled : 0..BUFFER_SIZE, bytesUsed : 0..BUFFER_SIZE]

TypeOK ==
  /\ QueueTypeOK
  /\ rpc \in ReaderStates
  /\ wpc \in WriterStates
  /\ fileSize \in FileSizes
  /\ currentOffset \in 0..fileSize
  /\ readFinished \in BOOLEAN
  /\ streamPos \in 0..fileSize
  /\ contents \in [Buffers -> ContentTypes]
  /\ dst \in Seq(Nat)
  /\ flushed \in 0..Len(dst)

\* The writer's bytes are those of the source, in its order: no byte is
\* skipped, repeated or taken from an earlier use of the buffer, whatever
\* the interleaving, although every chunk passes through a LIFO of free
\* buffers and a FIFO of filled ones and the reader jumps over each chunk with
\* fgetc and fseek (BufferedFileReader.hpp:53-76).
DstIsPrefix == \A i \in 1..Len(dst) : dst[i] = i

\* The reader never dereferences an empty optional (line 50) and nobody reads
\* front() or back() of an empty deque: the tool opens the queue before it
\* starts the writer and closes it after the reader's last call.
CallsSucceed ==
  /\ rpc # "noBuffer"
  /\ \A t \in Threads : qpc[t] # "undefined"

\* The reader and the writer never sleep both: one condition variable serves
\* "a free buffer" and "a filled buffer", and the pool has no third place.
NeverBothAsleep == ~(Reader \in waiting /\ Writer \in waiting)

\* The writer sleeps on a closed queue that holds nothing for it.
AsleepOnClosedQueue ==
  /\ Writer \in waiting
  /\ ~isOpen
  /\ writeBuffers = <<>>
  /\ rpc = "join"
  /\ Len(dst) = fileSize

\* The places in which a thread can be stopped: asleep in cv.wait, at a mutex
\* that is taken (wherever it stands, unless it is the one that has it), or, in
\* the main thread, at the join of a thread that has not ended.  A thread that
\* has not begun or has ended does nothing either.
Stopped(t) ==
  \/ t \in waiting
  \/ queueMutex # NoThread /\ qpc[t] \notin {"takeFree", "takeFilled"}
  \/ t = Reader /\ rpc = "join" /\ wpc \notin {"none", "done"}
  \/ t = Writer /\ wpc \in {"none", "done"}

\* The two threads, one condition variable, one mutex and one join stop each
\* other in no other state than the one in which close() forgets the writer
\* (BufferedParallelCopyTool.hpp:42-49, BufferedQueue.hpp:83-94, 107-118).
StopsOnlyOnClosedQueue == Stopped(Reader) /\ Stopped(Writer) => AsleepOnClosedQueue

\* The process ends, or stays for ever in the one state close() can leave it
\* in by not notifying, with all bytes handed to stdio.
ExitsOrSleepsOnClosedQueue == <>(rpc = "exited") \/ <>[]AsleepOnClosedQueue

\* What the comment on queue->close() says (BufferedParallelCopyTool.hpp:48):
\* the writing thread does not wait once reading is done, so copy ends.
CopyEnds == <>(rpc = "exited")

\* The destination file, and how a run ended.
File == SubSeq(dst, 1, flushed)
Status == IF rpc = "exited" THEN "done" ELSE "copying"

Abstract == INSTANCE CopyFile WITH size <- fileSize, file <- File, status <- Status

\* The tool implements CopyFile: the file only grows along the source and the
\* tool returns 0 only with the whole source in it.
ImplementsCopyFile == Abstract!CopySpec

\* What the comment on BufferedFileWriter::write says (line 25): a filled
\* buffer is written to the file; so a run that returns 0 has written all.
ExitMeansComplete == rpc = "exited" => File = [i \in 1..fileSize |-> i]

=============================================================================
