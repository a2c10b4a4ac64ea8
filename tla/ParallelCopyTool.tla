--------------------------- MODULE ParallelCopyTool ---------------------------
(***************************************************************************)
(* The mmap copy tool (--type=mmap): ParallelCopyTool::copy in the main    *)
(* thread, which drives a MMapFileReader; writingFunction in writingThread,*)
(* which drives a MMapFileWriter; and the SynchronizedQueue between them.  *)
(*                                                                         *)
(* Data.  Byte i of the source is the number i; a chunk is where it begins *)
(* and how long it is.  create() gives the destination its final length,   *)
(* fileLength, and maps it shared, so a byte is in the file as soon as it  *)
(* is copied.  dst is what has been copied, one chunk after the other, and *)
(* currentOffset of the writer is Len(dst); behind it the file has zeros,  *)
(* or what an older file had there, for it is not opened with O_TRUNC.     *)
(***************************************************************************)
EXTENDS SynchronizedQueue

CONSTANTS
  Reader, Writer,     \* the main thread and writingThread
  defaultBufferSize,  \* bytes in a chunk: the page size
  FileSizes           \* the sizes the source may have

ASSUME ToolAssumption ==
  /\ Reader # Writer
  /\ Threads = {Reader, Writer}
  /\ defaultBufferSize \in Nat \ {0}
  /\ FileSizes \in SUBSET Nat
  /\ \A size \in FileSizes :
       [start : 0..size, size : 0..defaultBufferSize] \subseteq Chunks

VARIABLES
  rpc,                \* program counter of the main thread
  wpc,                \* program counter of writingThread
  fileSize,           \* size of the source, and of the destination
  currentOffset,      \* MMapFileReader::currentOffset
  readFinished,       \* MMapFileReader::readFinished
  chunkRead,          \* what read() returned, until it is pushed
  fileLength,         \* length of the destination; 0 before create()
  dst                 \* the bytes written into it

readerVars == <<fileSize, currentOffset, readFinished, chunkRead>>
writerVars == <<fileLength, dst>>
vars == <<syncVars, rpc, wpc, readerVars, writerVars>>

\* "failed": the process has ended with status 1.
ReaderStates == {"open", "copy", "start", "read", "push", "close", "finishRead",
                 "join", "exited", "failed"}
\* "thrown": an exception left writingFunction, which is std::terminate.
WriterStates == {"none", "check", "isEmpty", "pop", "write", "finishWrite", "done",
                 "thrown"}

Init ==
  /\ SyncInit
  /\ rpc = "open"
  /\ wpc = "none"
  /\ fileSize \in FileSizes
  /\ currentOffset = 0
  /\ readFinished = FALSE
  /\ chunkRead = NoChunk
  /\ fileLength = 0
  /\ dst = <<>>

-----------------------------------------------------------------------------
(* The main thread *)

\* The constructor opens the queue.
ToolIsCreated ==
  /\ rpc = "open"
  /\ SyncOpen(Reader)
  /\ rpc' = "copy"
  /\ UNCHANGED <<wpc, readerVars, writerVars>>

\* Mutant: ftruncate is left out; the file is as long as what is in it.
CreatesEmpty ==
  /\ rpc = "copy"
  /\ \/ fileSize = 0 /\ rpc' = "failed"
     \/ fileSize > 0 /\ rpc' = "start"
  /\ UNCHANGED <<syncVars, wpc, readerVars, writerVars>>

\* fileReader->open() and fileWriter->create(), which sets the length of the
\* destination.  An empty file cannot be mapped: open() throws before anything
\* else is done.
CopyCreates ==
  /\ rpc = "copy"
  /\ \/ fileSize = 0 /\ rpc' = "failed" /\ UNCHANGED fileLength
     \/ fileSize > 0 /\ rpc' = "start" /\ fileLength' = fileSize
  /\ UNCHANGED <<syncVars, wpc, readerVars, dst>>

\* writingThread is started.
CopyStarts ==
  /\ rpc = "start"
  /\ rpc' = "read"
  /\ wpc' = "check"
  /\ UNCHANGED <<syncVars, readerVars, writerVars>>

\* Mutant: a chunk is not cut at the end of the file.
OffsetPastEnd == currentOffset + defaultBufferSize

\* std::min(currentOffset + defaultBufferSize, fileSize).
NextOffset ==
  IF currentOffset + defaultBufferSize <= fileSize
  THEN currentOffset + defaultBufferSize ELSE fileSize

ReadChunk ==
  /\ rpc = "read"
  /\ chunkRead' = [start |-> currentOffset, size |-> NextOffset - currentOffset]
  /\ currentOffset' = NextOffset
  /\ readFinished' = (NextOffset >= fileSize)
  /\ rpc' = "push"
  /\ UNCHANGED <<syncVars, wpc, fileSize, writerVars>>

PushChunk ==
  /\ rpc = "push"
  /\ Push(Reader, chunkRead)
  /\ UNCHANGED <<rpc, wpc, readerVars, writerVars>>

\* The end of push, and the test of copy()'s loop.
PushNotifies ==
  /\ rpc = "push"
  /\ NotifyOne(Reader)
  /\ rpc' = IF readFinished THEN "close" ELSE "read"
  /\ UNCHANGED <<wpc, readerVars, writerVars>>

\* Mutant: close() is forgotten.
CopyForgetsToClose ==
  /\ rpc = "close"
  /\ rpc' = "finishRead"
  /\ UNCHANGED <<syncVars, wpc, readerVars, writerVars>>

CopyCloses ==
  /\ rpc = "close"
  /\ SyncClose(Reader)
  /\ rpc' = "finishRead"
  /\ UNCHANGED <<wpc, readerVars, writerVars>>

\* finishRead() of the reader, which stores readFinished once more.
CopyFinishesRead ==
  /\ rpc = "finishRead"
  /\ readFinished' = TRUE
  /\ rpc' = "join"
  /\ UNCHANGED <<syncVars, wpc, fileSize, currentOffset, chunkRead, writerVars>>

\* main() destroys the tool, writingThread first, and returns 0.
CopyJoins ==
  /\ rpc = "join"
  /\ wpc = "done"
  /\ rpc' = "exited"
  /\ UNCHANGED <<syncVars, wpc, readerVars, writerVars>>

ReaderStep ==
  \/ ToolIsCreated
  \/ CopyCreates
  \/ CopyStarts
  \/ ReadChunk
  \/ PushChunk
  \/ PushNotifies
  \/ CopyCloses
  \/ CopyFinishesRead
  \/ CopyJoins

-----------------------------------------------------------------------------
(* writingThread *)

\* The loop condition of writingFunction: !isReadFinished() || !isEmpty().
WritingChecks ==
  /\ wpc = "check"
  /\ wpc' = IF readFinished THEN "isEmpty" ELSE "pop"
  /\ UNCHANGED <<syncVars, rpc, readerVars, writerVars>>

WritingTestsEmpty ==
  /\ wpc = "isEmpty"
  /\ wpc' = IF SyncIsEmpty THEN "finishWrite" ELSE "pop"
  /\ UNCHANGED <<syncVars, rpc, readerVars, writerVars>>

\* queue->pop(); writingFunction leaves its loop if there is nothing.
WritingPops ==
  /\ wpc = "pop"
  /\ Pop(Writer)
  /\ wpc' = IF call'[Writer] = "pop" THEN "pop"
            ELSE IF popped'[Writer] = NoChunk THEN "finishWrite" ELSE "write"
  /\ UNCHANGED <<rpc, readerVars, writerVars>>

\* fileWriter->write(), which throws rather than write beyond the mapping.
WritesChunk ==
  /\ wpc = "write"
  /\ LET chunk == popped[Writer]
         fits == Len(dst) + chunk.size <= fileSize
     IN  /\ wpc' = IF fits THEN "check" ELSE "thrown"
         /\ dst' = IF fits THEN dst \o [i \in 1..chunk.size |-> chunk.start + i] ELSE dst
  /\ UNCHANGED <<syncVars, rpc, readerVars, fileLength>>

FinishesWrite ==
  /\ wpc = "finishWrite"
  /\ wpc' = "done"
  /\ UNCHANGED <<syncVars, rpc, readerVars, writerVars>>

WriterStep ==
  \/ WritingChecks
  \/ WritingTestsEmpty
  \/ WritingPops
  \/ WritesChunk
  \/ FinishesWrite

-----------------------------------------------------------------------------

Wakes(t) ==
  /\ WakeSpuriously(t)
  /\ UNCHANGED <<rpc, wpc, readerVars, writerVars>>

Terminated == rpc \in {"exited", "failed"} /\ UNCHANGED vars

Next ==
  \/ ReaderStep
  \/ WriterStep
  \/ \E t \in Threads : Wakes(t)
  \/ Terminated

\* The operating system runs a thread that can run; wakeups are not owed.
Fairness == WF_vars(ReaderStep) /\ WF_vars(WriterStep)

Spec == Init /\ [][Next]_vars
FairSpec == Spec /\ Fairness

-----------------------------------------------------------------------------
(* Properties *)

\* Type invariant of the tool.
TypeOK ==
  /\ SyncTypeOK
  /\ rpc \in ReaderStates
  /\ wpc \in WriterStates
  /\ fileSize \in FileSizes
  /\ currentOffset \in 0..fileSize
  /\ readFinished \in BOOLEAN
  /\ chunkRead \in Chunks \cup {NoChunk}
  /\ fileLength \in {0, fileSize}
  /\ dst \in Seq(Nat)

\* The writer's own check, "writing more than expected"
\* (MMapFileWriter.hpp:25), never stops it in the middle of a copy.
NeverWritesTooMuch == wpc # "thrown"

\* The writer does not leave before everything is written: readFinished is
\* set before the last chunk is in the queue (MMapFileReader.hpp:70), and an
\* empty queue that is open must not pass for the end.
WriterStaysToTheEnd == wpc \in {"finishWrite", "done"} => Len(dst) = fileSize

AsleepOnClosedQueue ==
  /\ Writer \in sleeping
  /\ SyncIsEmpty
  /\ rpc = "join"
  /\ Len(dst) = fileSize

\* The process ends, or stays for ever in the one state close() can leave it
\* in by not notifying, with everything written.
ExitsOrSleepsOnClosedQueue ==
  <>(rpc \in {"exited", "failed"}) \/ <>[]AsleepOnClosedQueue

\* What the comment on queue->close() says (ParallelCopyTool.hpp:45): the
\* writing thread does not wait once reading is done, so copy ends.
CopyEnds == <>(rpc \in {"exited", "failed"})

\* The destination as it is on disk.
Unwritten == 0
File == [i \in 1..fileLength |-> IF i <= Len(dst) THEN dst[i] ELSE Unwritten]

Status ==
  IF rpc = "exited" THEN "done" ELSE IF rpc = "failed" THEN "failed" ELSE "copying"

Abstract == INSTANCE FillFile WITH size <- fileSize, file <- File, status <- Status

\* The tool implements FillFile: the destination has its final length before a
\* byte is written, it is filled along the source without a gap, and the tool
\* returns 0 only with the whole source in it.
ImplementsFillFile == Abstract!FillSpec

=============================================================================
