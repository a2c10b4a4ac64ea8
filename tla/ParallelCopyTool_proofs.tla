------------------------ MODULE ParallelCopyTool_proofs ------------------------
(***************************************************************************)
(* What holds of SynchronizedQueue for any finite number of threads and    *)
(* any number of chunks, and of ParallelCopyTool, which uses one, left     *)
(* alone or cut short as in InterruptedParallelCopy, for any size of       *)
(* chunks and of files.                                                    *)
(***************************************************************************)
EXTENDS InterruptedParallelCopy, FiniteSetTheorems, SequenceTheorems, TLAPS

-----------------------------------------------------------------------------
(* The queue *)

\* What push and pop leave of a queue.
LEMMA PushFacts ==
  ASSUME NEW S, NEW s \in Seq(S), NEW x \in S
  PROVE  /\ Append(s, x) \in Seq(S)
         /\ Len(Append(s, x)) = Len(s) + 1
         /\ \A i \in 1..Len(s) : Append(s, x)[i] = s[i]
         /\ Append(s, x)[Len(s) + 1] = x
         /\ Len(s) \in Nat
OBVIOUS

LEMMA PopFacts ==
  ASSUME NEW S, NEW s \in Seq(S), s # <<>>
  PROVE  /\ Tail(s) \in Seq(S)
         /\ Len(Tail(s)) = Len(s) - 1
         /\ \A i \in 1..Len(s) - 1 : Tail(s)[i] = s[i + 1]
         /\ Head(s) = s[1]
         /\ Head(s) \in S
         /\ Len(s) \in Nat \ {0}
OBVIOUS

-----------------------------------------------------------------------------
(* Type correctness *)

LEMMA SyncTypeInit == SyncInit => SyncTypeOK
<1> SUFFICES ASSUME SyncInit
             PROVE  SyncTypeOK
  OBVIOUS
<1>1. queue \in Seq(Chunks)
  BY EmptySeq DEF SyncInit
<1>2. popped \in [Threads -> Chunks \cup {NoChunk}]
  BY DEF SyncInit
<1>3. call \in [Threads -> {"idle", "pop", "notify"}]
  BY DEF SyncInit
<1>4. isQueueOpen \in BOOLEAN /\ sleeping \in SUBSET Threads
  BY DEF SyncInit
<1>5. QED
  BY <1>1, <1>2, <1>3, <1>4 DEF SyncTypeOK

LEMMA SyncTypeStep == SyncTypeOK /\ [SyncNext]_syncVars => SyncTypeOK'
<1> SUFFICES ASSUME SyncTypeOK, [SyncNext]_syncVars
             PROVE  SyncTypeOK'
  OBVIOUS
<1> USE DEF SyncTypeOK
<1>1. CASE UNCHANGED syncVars
  BY <1>1 DEF syncVars
<1>2. ASSUME NEW t \in Threads, NEW chunk \in Chunks, Push(t, chunk)
      PROVE  SyncTypeOK'
  BY <1>2, PushFacts DEF Push
<1>3. ASSUME NEW t \in Threads, NotifyOne(t)
      PROVE  SyncTypeOK'
  BY <1>3 DEF NotifyOne
<1>4. ASSUME NEW t \in Threads, Pop(t)
      PROVE  SyncTypeOK'
  <2>1. queue # <<>> => Head(queue) \in Chunks /\ Tail(queue) \in Seq(Chunks)
    BY PopFacts
  <2>2. QED
    BY <1>4, <2>1 DEF Pop
<1>5. ASSUME NEW t \in Threads, SyncClose(t) \/ SyncOpen(t) \/ WakeSpuriously(t)
      PROVE  SyncTypeOK'
  BY <1>5 DEF SyncClose, SyncOpen, SetQueueOpen, WakeSpuriously
<1>6. QED
  BY <1>1, <1>2, <1>3, <1>4, <1>5 DEF SyncNext

\* The queue's variables keep their types, whatever its clients do; nothing but
\* what was pushed is ever in it.
THEOREM SyncTypeCorrect == SyncSpec => []SyncTypeOK
BY SyncTypeInit, SyncTypeStep, PTL DEF SyncSpec

-----------------------------------------------------------------------------
(* No wakeup is lost *)

\* Who sleeps is inside pop.
SleepersPop == \A t \in sleeping : call[t] = "pop"

\* The inductive invariant.
WakerInv == SyncTypeOK /\ SleepersPop /\ EveryChunkHasAWaker

LEMMA SleepersPopStep ==
  SyncTypeOK /\ SleepersPop /\ [SyncNext]_syncVars => SleepersPop'
<1> SUFFICES ASSUME SyncTypeOK, SleepersPop, [SyncNext]_syncVars
             PROVE  SleepersPop'
  OBVIOUS
<1> USE DEF SyncTypeOK, SleepersPop
<1>1. CASE UNCHANGED syncVars
  BY <1>1 DEF syncVars
<1>2. ASSUME NEW t \in Threads, NEW chunk \in Chunks, Push(t, chunk)
      PROVE  SleepersPop'
  BY <1>2 DEF Push
<1>3. ASSUME NEW t \in Threads, NotifyOne(t)
      PROVE  SleepersPop'
  BY <1>3 DEF NotifyOne
<1>4. ASSUME NEW t \in Threads, Pop(t)
      PROVE  SleepersPop'
  BY <1>4 DEF Pop
<1>5. ASSUME NEW t \in Threads, SyncClose(t) \/ SyncOpen(t) \/ WakeSpuriously(t)
      PROVE  SleepersPop'
  BY <1>5 DEF SyncClose, SyncOpen, SetQueueOpen, WakeSpuriously
<1>6. QED
  BY <1>1, <1>2, <1>3, <1>4, <1>5 DEF SyncNext

\* The two sets that EveryChunkHasAWaker counts are finite.
LEMMA WakersFinite ==
  /\ IsFiniteSet(Notifying) /\ Cardinality(Notifying) \in Nat
  /\ IsFiniteSet(Woken) /\ Cardinality(Woken) \in Nat
<1>1. Notifying \in SUBSET Threads /\ Woken \in SUBSET Threads
  BY DEF Notifying, Woken
<1>2. QED
  BY <1>1, ThreadsAssumption, FS_Subset, FS_CardinalityType

\* Every step that adds a chunk adds a notification, and every notification
\* that is used up wakes somebody, if there is anybody to wake.
LEMMA WakerStep ==
  ASSUME WakerInv, [SyncNext]_syncVars
  PROVE  EveryChunkHasAWaker'
<1> DEFINE N == Cardinality(Notifying)  W == Cardinality(Woken)
<1>1. /\ IsFiniteSet(Notifying) /\ N \in Nat /\ IsFiniteSet(Woken) /\ W \in Nat
      /\ N' \in Nat /\ W' \in Nat
  <2>1. (/\ IsFiniteSet(Notifying) /\ Cardinality(Notifying) \in Nat
         /\ IsFiniteSet(Woken) /\ Cardinality(Woken) \in Nat)'
    BY WakersFinite, PTL
  <2>2. QED
    BY <2>1, WakersFinite
<1>2. /\ queue \in Seq(Chunks) /\ sleeping \in SUBSET Threads
      /\ call \in [Threads -> {"idle", "pop", "notify"}]
      /\ \A t \in sleeping : call[t] = "pop"
      /\ Len(queue) \in Nat
      /\ sleeping # {} => Len(queue) <= N + W
  BY LenProperties DEF WakerInv, SyncTypeOK, SleepersPop, EveryChunkHasAWaker
<1>3. SUFFICES ASSUME sleeping' # {}
               PROVE  Len(queue') <= N' + W'
  BY DEF EveryChunkHasAWaker
<1>4. CASE UNCHANGED syncVars
  <2>1. N' = N /\ W' = W /\ UNCHANGED <<queue, sleeping>>
    BY <1>4 DEF syncVars, Notifying, Woken
  <2>2. QED
    BY <1>2, <1>3, <2>1
<1>5. ASSUME NEW t \in Threads, NEW chunk \in Chunks, Push(t, chunk)
      PROVE  Len(queue') <= N' + W'
  <2>1. Notifying' = Notifying \cup {t} /\ t \notin Notifying /\ Woken' = Woken
    BY <1>2, <1>5 DEF Push, Notifying, Woken
  <2>2. N' = N + 1 /\ W' = W
    BY <1>1, <2>1, FS_AddElement
  <2>3. Len(queue') = Len(queue) + 1 /\ sleeping' = sleeping
    BY <1>2, <1>5, PushFacts DEF Push
  <2>4. QED
    BY <1>1, <1>2, <1>3, <2>2, <2>3
<1>6. ASSUME NEW t \in Threads, NotifyOne(t)
      PROVE  Len(queue') <= N' + W'
  <2>1. PICK u \in sleeping : sleeping' = sleeping \ {u}
    BY <1>3, <1>6 DEF NotifyOne
  <2>2. u # t
    BY <1>2, <1>6 DEF NotifyOne
  <2>3. /\ Notifying' = Notifying \ {t} /\ t \in Notifying
        /\ Woken' = Woken \cup {u} /\ u \notin Woken
    BY <1>2, <1>6, <2>1, <2>2 DEF NotifyOne, Notifying, Woken
  <2>4. N' = N - 1 /\ W' = W + 1
    BY <1>1, <2>3, FS_AddElement, FS_RemoveElement
  <2>5. queue' = queue
    BY <1>6 DEF NotifyOne
  <2>6. QED
    BY <1>1, <1>2, <2>4, <2>5
<1>7. ASSUME NEW t \in Threads, Pop(t)
      PROVE  Len(queue') <= N' + W'
  <2>1. CASE queue # <<>>
    <3>1. Notifying' = Notifying /\ Woken' = Woken \ {t}
      BY <1>2, <1>7, <2>1 DEF Pop, Notifying, Woken
    <3>2. N' = N
      BY <3>1
    <3>3. Cardinality(Woken \ {t}) = IF t \in Woken THEN W - 1 ELSE W
      BY <1>1, FS_RemoveElement
    <3>4. W' >= W - 1
      BY <1>1, <3>1, <3>3
    <3>5. Len(queue') = Len(queue) - 1 /\ sleeping' = sleeping
      BY <1>2, <1>7, <2>1, PopFacts DEF Pop
    <3>6. QED
      BY <1>1, <1>2, <1>3, <3>2, <3>4, <3>5
  <2>2. CASE queue = <<>>
    <3>1. queue' = <<>>
      BY <1>7, <2>2 DEF Pop
    <3>2. Len(queue') = 0
      BY <3>1
    <3>3. QED
      BY <1>1, <3>2
  <2>3. QED
    BY <2>1, <2>2
<1>8. ASSUME NEW t \in Threads, SyncClose(t) \/ SyncOpen(t)
      PROVE  Len(queue') <= N' + W'
  <2>1. N' = N /\ W' = W /\ UNCHANGED <<queue, sleeping>>
    BY <1>8 DEF SyncClose, SyncOpen, SetQueueOpen, Notifying, Woken
  <2>2. QED
    BY <1>2, <1>3, <2>1
<1>9. ASSUME NEW t \in Threads, WakeSpuriously(t)
      PROVE  Len(queue') <= N' + W'
  <2>1. Notifying' = Notifying /\ Woken' = Woken \cup {t} /\ t \notin Woken
    BY <1>2, <1>9 DEF WakeSpuriously, Notifying, Woken
  <2>2. N' = N /\ W' = W + 1
    BY <1>1, <2>1, FS_AddElement
  <2>3. queue' = queue /\ sleeping # {}
    BY <1>9 DEF WakeSpuriously
  <2>4. QED
    BY <1>1, <1>2, <2>2, <2>3
<1>10. QED
  BY <1>4, <1>5, <1>6, <1>7, <1>8, <1>9 DEF SyncNext

LEMMA WakerInvariant == SyncSpec => []WakerInv
<1>1. SyncInit => SleepersPop /\ EveryChunkHasAWaker
  BY DEF SyncInit, SleepersPop, EveryChunkHasAWaker
<1>2. SyncTypeOK /\ SleepersPop /\ EveryChunkHasAWaker /\ [SyncNext]_syncVars
        => EveryChunkHasAWaker'
  BY WakerStep DEF WakerInv
<1>3. WakerInv <=> SyncTypeOK /\ SleepersPop /\ EveryChunkHasAWaker
  BY DEF WakerInv
<1>4. QED
  BY <1>1, <1>2, <1>3, SyncTypeCorrect, SleepersPopStep, PTL DEF SyncSpec

\* Although push notifies after it has unlocked, any number of threads may push
\* and pop and none is left asleep with a chunk it could have had.
THEOREM EveryPushWakes == SyncSpec => []EveryChunkHasAWaker
<1>1. WakerInv => EveryChunkHasAWaker
  BY DEF WakerInv
<1>2. QED
  BY <1>1, WakerInvariant, PTL

-----------------------------------------------------------------------------
(* The tool *)

(***************************************************************************)
(* An interrupt changes nothing but where the main thread stands, so both  *)
(* specifications are dealt with at once: the invariants below are         *)
(* preserved by a step of the tool, by the jump out of copy(), and by the  *)
(* end of a run that was cut short.                                        *)
(***************************************************************************)
JumpsOut ==
  /\ rpc \in CopyStates
  /\ rpc' = "join"
  /\ UNCHANGED <<syncVars, wpc, readerVars, writerVars>>

JoinsAfterJump ==
  /\ rpc = "join"
  /\ wpc \in {"none", "done"}
  /\ rpc' = "failed"
  /\ UNCHANGED <<syncVars, wpc, readerVars, writerVars>>

AnyStep == Next \/ JumpsOut \/ JoinsAfterJump

-----------------------------------------------------------------------------
(* The inductive invariant *)

\* Where each thread may stand in a call of the queue.
CallInv ==
  /\ call[Reader] \in {"idle", "notify"}
  /\ rpc \in {"open", "copy", "start", "read", "close", "finishRead"} => call[Reader] = "idle"
  /\ call[Writer] \in {"idle", "pop"}
  /\ call[Writer] = "pop" => wpc = "pop"

\* How far the one thread is when the other is there, and when the queue is open.
LifeInv ==
  /\ rpc \in ReaderStates
  /\ wpc \in WriterStates \ {"thrown"}
  /\ rpc \in {"open", "copy", "start"} => wpc = "none"
  /\ rpc \in {"exited", "failed"} => wpc \in {"none", "done"}
  /\ rpc = "exited" => wpc = "done"
  /\ rpc = "open" => ~isQueueOpen
  /\ rpc \in {"copy", "start", "read", "push", "close"} => isQueueOpen
  /\ rpc = "finishRead" => ~isQueueOpen

Chunk == [start : Nat, size : Nat]
ChunkEnd(chunk) == chunk.start + chunk.size

\* What the reader has read.  A queue that was opened and is closed again says
\* that it has read all there is, even if it was cut short after that.
OffsetInv ==
  /\ fileSize \in FileSizes
  /\ currentOffset \in 0..fileSize
  /\ readFinished \in BOOLEAN
  /\ chunkRead \in (Chunks \cap Chunk) \cup {NoChunk}
  /\ rpc \in {"open", "copy", "start"} => currentOffset = 0
  /\ rpc = "start" => fileSize > 0
  /\ rpc = "read" => currentOffset < fileSize
  /\ rpc = "push" => chunkRead # NoChunk /\ ChunkEnd(chunkRead) = currentOffset
  /\ rpc = "push" /\ ~readFinished => currentOffset < fileSize
  /\ readFinished => currentOffset = fileSize
  /\ rpc = "close" => currentOffset = fileSize
  /\ rpc # "open" /\ ~isQueueOpen => currentOffset = fileSize

(***************************************************************************)
(* The chunks on their way, in this order: the one the writer is writing,  *)
(* those in the queue, and the one the reader has read and not pushed.     *)
(* Each begins where the one before it ends, the first where dst ends; the *)
(* last ends at currentOffset, unless the reader was cut short.            *)
(***************************************************************************)
ReaderHasChunk == rpc = "push" /\ call[Reader] = "idle"
ReadFrom == IF ReaderHasChunk THEN chunkRead.start ELSE currentOffset
WriteFrom == IF wpc = "write" THEN ChunkEnd(popped[Writer]) ELSE Len(dst)
PushedTo == IF queue = <<>> THEN WriteFrom ELSE ChunkEnd(queue[Len(queue)])

DstIsPrefix == \A i \in 1..Len(dst) : dst[i] = i

\* The main thread has not been cut short, or not before the queue was closed.
AllPushed == rpc \in {"open"} \cup CopyStates \/ ~isQueueOpen

PipeInv ==
  /\ dst \in Seq(Nat)
  /\ DstIsPrefix
  /\ wpc = "write" => popped[Writer] \in Chunk /\ popped[Writer].start = Len(dst)
  /\ WriteFrom <= currentOffset
  /\ queue \in Seq(Chunk)
  /\ \A i \in 1..Len(queue) : ChunkEnd(queue[i]) <= currentOffset
  /\ \A i, j \in 1..Len(queue) : j = i + 1 => queue[j].start = ChunkEnd(queue[i])
  /\ queue # <<>> => queue[1].start = WriteFrom
  /\ AllPushed => PushedTo = ReadFrom

\* The writer leaves its loop only when the queue is closed and empty.
EndInv ==
  wpc \in {"finishWrite", "done"} => rpc # "open" /\ ~isQueueOpen /\ queue = <<>>

\* The destination has its final length before the writer is there.
FileInv ==
  /\ fileLength \in {0, fileSize}
  /\ rpc \in {"open", "copy"} => fileLength = 0
  /\ rpc = "start" \/ wpc # "none" => fileLength = fileSize
  /\ wpc = "none" => dst = <<>>

ToolInv ==
  /\ SyncTypeOK
  /\ CallInv
  /\ LifeInv
  /\ OffsetInv
  /\ PipeInv
  /\ EndInv
  /\ FileInv

-----------------------------------------------------------------------------
(* The tool uses the queue as any client may *)

LEMMA ToolFacts ==
  /\ Reader # Writer /\ Threads = {Reader, Writer}
  /\ Reader \in Threads /\ Writer \in Threads
  /\ NoChunk \notin Chunks
  /\ defaultBufferSize \in Nat \ {0}
  /\ FileSizes \in SUBSET Nat
BY ToolAssumption, ChunkAssumption

LEMMA ToolStepIsSyncStep == OffsetInv /\ [AnyStep]_vars => [SyncNext]_syncVars
<1> SUFFICES ASSUME OffsetInv, [AnyStep]_vars
             PROVE  [SyncNext]_syncVars
  OBVIOUS
<1>1. CASE UNCHANGED vars
  BY <1>1 DEF vars
<1>2. CASE PushChunk
  <2>1. chunkRead \in Chunks
    BY <1>2 DEF PushChunk, OffsetInv
  <2>2. QED
    BY <1>2, <2>1, ToolFacts DEF PushChunk, SyncNext
<1>3. CASE ReaderStep /\ ~PushChunk
  BY <1>3, ToolFacts DEF ReaderStep, SyncNext, ToolIsCreated, CopyCreates, CopyStarts, ReadChunk,
     PushNotifies, CopyCloses, CopyFinishesRead, CopyJoins
<1>4. CASE WriterStep
  BY <1>4, ToolFacts DEF WriterStep, SyncNext, WritingChecks, WritingTestsEmpty,
     WritingPops, WritesChunk, FinishesWrite
<1>5. CASE \E t \in Threads : Wakes(t)
  BY <1>5 DEF Wakes, SyncNext
<1>6. CASE JumpsOut \/ JoinsAfterJump \/ Terminated
  BY <1>6 DEF JumpsOut, JoinsAfterJump, Terminated, vars
<1>7. QED
  BY <1>1, <1>2, <1>3, <1>4, <1>5, <1>6 DEF AnyStep, Next

-----------------------------------------------------------------------------
(* Where the threads stand *)

LEMMA ControlInit == Init => CallInv /\ LifeInv /\ EndInv
BY ToolFacts DEF Init, SyncInit, CallInv, LifeInv, EndInv, ReaderStates, WriterStates

\* The writer's check never fails: what it writes was read from the file.
LEMMA ChunkFits ==
  ASSUME OffsetInv, PipeInv, wpc = "write"
  PROVE  /\ popped[Writer] \in Chunk
         /\ Len(dst) \in Nat
         /\ popped[Writer].start = Len(dst)
         /\ Len(dst) + popped[Writer].size <= fileSize
<1>1. fileSize \in Nat /\ currentOffset \in 0..fileSize
  BY ToolFacts DEF OffsetInv
<1>2. /\ popped[Writer] \in Chunk /\ popped[Writer].start = Len(dst) /\ dst \in Seq(Nat)
      /\ ChunkEnd(popped[Writer]) <= currentOffset
  BY DEF PipeInv, WriteFrom
<1>3. QED
  BY <1>1, <1>2 DEF Chunk, ChunkEnd

LEMMA ControlStep ==
  ASSUME ToolInv, [AnyStep]_vars PROVE CallInv' /\ LifeInv' /\ EndInv'
<1> USE DEF CallInv, LifeInv, EndInv, ReaderStates, WriterStates, CopyStates
<1>1. /\ CallInv /\ LifeInv /\ EndInv
      /\ Reader # Writer /\ Threads = {Reader, Writer}
      /\ call \in [Threads -> {"idle", "pop", "notify"}]
      /\ isQueueOpen \in BOOLEAN
      /\ queue \in Seq(Chunks)
      /\ popped \in [Threads -> Chunks \cup {NoChunk}]
  BY ToolFacts DEF ToolInv, SyncTypeOK
<1>2. CASE UNCHANGED vars
  BY <1>1, <1>2 DEF vars, syncVars
<1>3. CASE ToolIsCreated
  BY <1>1, <1>3 DEF ToolIsCreated, SyncOpen, SetQueueOpen
<1>4. CASE CopyCreates \/ CopyStarts
  BY <1>1, <1>4 DEF CopyCreates, CopyStarts, syncVars
<1>5. CASE ReadChunk
  BY <1>1, <1>5 DEF ReadChunk, syncVars
<1>6. CASE PushChunk
  BY <1>1, <1>6 DEF PushChunk, Push
<1>7. CASE PushNotifies
  BY <1>1, <1>7 DEF PushNotifies, NotifyOne
<1>8. CASE CopyCloses
  BY <1>1, <1>8 DEF CopyCloses, SyncClose, SetQueueOpen
<1>9. CASE CopyFinishesRead \/ CopyJoins \/ JumpsOut \/ JoinsAfterJump
  BY <1>1, <1>9 DEF CopyFinishesRead, CopyJoins, JumpsOut, JoinsAfterJump, syncVars
<1>10. CASE WritingChecks \/ FinishesWrite
  BY <1>1, <1>10 DEF WritingChecks, FinishesWrite, syncVars
<1>11. CASE WritingTestsEmpty
  BY <1>1, <1>11 DEF WritingTestsEmpty, SyncIsEmpty, syncVars
<1>12. CASE WritingPops
  <2>1. /\ UNCHANGED <<rpc, isQueueOpen>> /\ wpc = "pop"
        /\ call'[Reader] = call[Reader]
        /\ call'[Writer] \in {"idle", "pop"}
        /\ call'[Writer] = "pop" => wpc' = "pop"
        /\ wpc' \in {"pop", "finishWrite", "write"}
    BY <1>1, <1>12 DEF WritingPops, Pop
  <2>2. wpc' = "finishWrite" => queue' = <<>> /\ ~isQueueOpen
    <3>1. SUFFICES ASSUME wpc' = "finishWrite"
                   PROVE  queue' = <<>> /\ ~isQueueOpen
      OBVIOUS
    <3>2. popped'[Writer] = NoChunk /\ call'[Writer] # "pop"
      BY <1>12, <3>1 DEF WritingPops
    <3>3. CASE queue # <<>>
      <4>1. popped'[Writer] = Head(queue)
        BY <1>1, <1>12, <3>3 DEF WritingPops, Pop
      <4>2. QED
        BY <1>1, <3>2, <3>3, <4>1, PopFacts, ToolFacts
    <3>4. CASE queue = <<>>
      BY <1>1, <1>12, <3>2, <3>4 DEF WritingPops, Pop
    <3>5. QED
      BY <3>3, <3>4
  <2>3. QED
    BY <1>1, <2>1, <2>2
<1>13. CASE WritesChunk
  <2>1. Len(dst) + popped[Writer].size <= fileSize
    BY <1>13, ChunkFits DEF WritesChunk, ToolInv
  <2>2. wpc' = "check"
    BY <1>13, <2>1 DEF WritesChunk
  <2>3. QED
    BY <1>1, <1>13, <2>2 DEF WritesChunk, syncVars
<1>14. ASSUME NEW t \in Threads, Wakes(t)
       PROVE  CallInv' /\ LifeInv' /\ EndInv'
  BY <1>1, <1>14 DEF Wakes, WakeSpuriously
<1>15. QED
  BY <1>2, <1>3, <1>4, <1>5, <1>6, <1>7, <1>8, <1>9, <1>10, <1>11, <1>12, <1>13, <1>14
     DEF AnyStep, Next, ReaderStep, WriterStep, Terminated

-----------------------------------------------------------------------------
(* What the reader has read *)

LEMMA OffsetInit == Init => OffsetInv
<1> SUFFICES ASSUME Init
             PROVE  OffsetInv
  OBVIOUS
<1>1. /\ fileSize \in FileSizes /\ fileSize \in Nat /\ currentOffset = 0
      /\ readFinished = FALSE /\ chunkRead = NoChunk /\ rpc = "open"
  BY ToolFacts DEF Init
<1>2. currentOffset \in 0..fileSize
  BY <1>1
<1>3. readFinished \in BOOLEAN /\ ~readFinished
  BY <1>1
<1>4. QED
  BY <1>1, <1>2, <1>3, Zenon DEF OffsetInv

\* What read() makes of the offsets.
LEMMA ReadFacts ==
  ASSUME OffsetInv, ReadChunk
  PROVE  /\ chunkRead' \in Chunks \cap Chunk
         /\ chunkRead'.start = currentOffset
         /\ ChunkEnd(chunkRead') = currentOffset'
         /\ currentOffset' = NextOffset
         /\ NextOffset \in currentOffset..fileSize
<1>1. /\ fileSize \in Nat /\ fileSize \in FileSizes /\ currentOffset \in 0..fileSize
      /\ defaultBufferSize \in Nat
  BY ToolFacts DEF OffsetInv
<1>2. /\ NextOffset \in currentOffset..fileSize
      /\ NextOffset - currentOffset \in 0..defaultBufferSize
  BY <1>1 DEF NextOffset
<1>3. /\ chunkRead' = [start |-> currentOffset, size |-> NextOffset - currentOffset]
      /\ currentOffset' = NextOffset
  BY DEF ReadChunk
<1>4. chunkRead' \in [start : 0..fileSize, size : 0..defaultBufferSize]
  BY <1>1, <1>2, <1>3
<1>5. chunkRead' \in Chunks
  BY <1>1, <1>4, ToolAssumption
<1>6. QED
  BY <1>1, <1>2, <1>3, <1>5 DEF Chunk, ChunkEnd

LEMMA OffsetStep ==
  ASSUME ToolInv, [AnyStep]_vars PROVE OffsetInv'
<1>1. /\ OffsetInv /\ LifeInv /\ CallInv
      /\ fileSize \in Nat /\ currentOffset \in 0..fileSize
      /\ NoChunk \notin Chunks
  BY ToolFacts DEF ToolInv, OffsetInv
<1> USE DEF OffsetInv, LifeInv, readerVars
\* The steps of the writer, and those of the queue.
<1>2. CASE UNCHANGED <<readerVars, rpc, isQueueOpen>>
  BY <1>1, <1>2
<1>3. CASE ToolIsCreated
  BY <1>1, <1>3 DEF ToolIsCreated, SyncOpen, SetQueueOpen
<1>4. CASE CopyCreates \/ CopyStarts
  BY <1>1, <1>4 DEF CopyCreates, CopyStarts, syncVars
<1>5. CASE ReadChunk
  <2>1. /\ chunkRead' \in Chunks \cap Chunk
        /\ ChunkEnd(chunkRead') = currentOffset'
        /\ currentOffset' = NextOffset
        /\ NextOffset \in 0..fileSize
        /\ fileSize' = fileSize /\ rpc' = "push" /\ isQueueOpen' = isQueueOpen /\ isQueueOpen
    BY <1>1, <1>5, ReadFacts DEF ReadChunk, syncVars
  <2>2. readFinished' = (NextOffset >= fileSize)
    BY <1>5 DEF ReadChunk
  <2>3. CASE NextOffset >= fileSize
    <3>1. readFinished' = TRUE
      BY <2>2, <2>3, Zenon
    <3>2. NextOffset = fileSize
      BY <1>1, <2>1, <2>3
    <3>3. QED
      BY <1>1, <2>1, <3>1, <3>2
  <2>4. CASE ~(NextOffset >= fileSize)
    <3>1. readFinished' = FALSE
      <4>1. (NextOffset >= fileSize) = FALSE
        BY <1>1, <2>1, <2>4, SMT
      <4>2. QED
        BY <2>2, <4>1, Zenon
    <3>2. NextOffset < fileSize
      BY <1>1, <2>1, <2>4
    <3>3. QED
      BY <1>1, <2>1, <3>1, <3>2
  <2>5. QED
    BY <2>3, <2>4
<1>6. CASE PushNotifies
  BY <1>1, <1>6 DEF PushNotifies, NotifyOne
<1>7. CASE CopyCloses
  BY <1>1, <1>7 DEF CopyCloses, SyncClose, SetQueueOpen
<1>8. CASE CopyFinishesRead
  <2>1. ~isQueueOpen \/ isQueueOpen
    OBVIOUS
  <2>2. rpc = "finishRead" /\ rpc' = "join" /\ UNCHANGED <<isQueueOpen, fileSize, currentOffset, chunkRead>>
        /\ readFinished' = TRUE
    BY <1>8 DEF CopyFinishesRead, syncVars
  <2>3. currentOffset = fileSize
    BY <1>1, <2>2
  <2>4. QED
    BY <1>1, <2>2, <2>3
<1>9. CASE CopyJoins \/ JumpsOut \/ JoinsAfterJump
  BY <1>1, <1>9 DEF CopyJoins, JumpsOut, JoinsAfterJump, syncVars, CopyStates
<1>10. CASE PushChunk \/ WriterStep \/ (\E t \in Threads : Wakes(t)) \/ UNCHANGED vars
  <2>1. UNCHANGED <<readerVars, rpc, isQueueOpen>>
    BY <1>10 DEF PushChunk, Push, WriterStep, WritingChecks, WritingTestsEmpty, WritingPops, Pop,
       WritesChunk, FinishesWrite, Wakes, WakeSpuriously, vars, syncVars
  <2>2. QED
    BY <1>2, <2>1
<1>11. QED
  BY <1>3, <1>4, <1>5, <1>6, <1>7, <1>8, <1>9, <1>10
     DEF AnyStep, Next, ReaderStep, Terminated

-----------------------------------------------------------------------------
(* The chunks on their way *)

LEMMA PipeInit == Init => PipeInv
<1> SUFFICES ASSUME Init
             PROVE  PipeInv
  OBVIOUS
<1>1. queue = <<>> /\ dst = <<>> /\ currentOffset = 0 /\ wpc = "none" /\ rpc = "open"
  BY DEF Init, SyncInit
<1>2. WriteFrom = 0 /\ ReadFrom = 0 /\ PushedTo = 0
  BY <1>1 DEF WriteFrom, ReadFrom, PushedTo, ReaderHasChunk
<1>3. queue \in Seq(Chunk) /\ dst \in Seq(Nat)
  BY <1>1, EmptySeq
<1>4. QED
  BY <1>1, <1>2, <1>3 DEF PipeInv, DstIsPrefix

LEMMA PipeFacts ==
  ASSUME OffsetInv, PipeInv
  PROVE  /\ currentOffset \in Nat
         /\ Len(queue) \in Nat
         /\ Len(dst) \in Nat
         /\ \A i \in 1..Len(queue) : queue[i] \in Chunk
         /\ \A chunk \in Chunk : chunk.start \in Nat /\ chunk.size \in Nat /\ ChunkEnd(chunk) \in Nat
         /\ queue # <<>> <=> Len(queue) > 0
<1>1. currentOffset \in Nat
  BY ToolFacts DEF OffsetInv
<1>2. Len(dst) \in Nat
  BY LenProperties DEF PipeInv
<1>3. /\ Len(queue) \in Nat
      /\ \A i \in 1..Len(queue) : queue[i] \in Chunk
      /\ queue # <<>> <=> Len(queue) > 0
  <2>1. queue \in Seq(Chunk)
    BY DEF PipeInv
  <2>2. QED
    BY <2>1, EmptySeq, LenProperties, ElementOfSeq
<1>4. \A chunk \in Chunk : chunk.start \in Nat /\ chunk.size \in Nat /\ ChunkEnd(chunk) \in Nat
  BY DEF Chunk, ChunkEnd
<1>5. QED
  BY <1>1, <1>2, <1>3, <1>4

\* A step that moves no chunk.
LEMMA PipeFrame ==
  ASSUME PipeInv,
         UNCHANGED <<dst, queue, currentOffset>>,
         wpc' = "write" <=> wpc = "write",
         wpc = "write" => popped'[Writer] = popped[Writer],
         AllPushed' => AllPushed /\ ReadFrom' = ReadFrom
  PROVE  PipeInv'
<1>1. WriteFrom' = WriteFrom
  BY DEF WriteFrom, ChunkEnd
<1>2. PushedTo' = PushedTo
  BY <1>1 DEF PushedTo, ChunkEnd
<1>3. QED
  BY <1>1, <1>2 DEF PipeInv, DstIsPrefix, ChunkEnd

\* read() adds a chunk at the reader's end.
LEMMA PipeReads == ASSUME ToolInv, ReadChunk PROVE PipeInv'
<1>1. OffsetInv /\ PipeInv /\ CallInv /\ rpc = "read" /\ rpc' = "push" /\ call[Reader] = "idle"
      /\ UNCHANGED <<syncVars, wpc, dst>>
  BY DEF ToolInv, CallInv, ReadChunk, writerVars
<1>2. UNCHANGED <<queue, popped, call, isQueueOpen>>
  BY <1>1 DEF syncVars
<1>3. chunkRead'.start = currentOffset /\ currentOffset' >= currentOffset /\ currentOffset' \in Nat
  <2>1. fileSize \in Nat /\ currentOffset \in 0..fileSize
    BY <1>1, ToolFacts DEF OffsetInv
  <2>2. QED
    BY <1>1, <2>1, ReadFacts
<1>4. ReadFrom = currentOffset /\ ReadFrom' = currentOffset /\ AllPushed
  BY <1>1, <1>2, <1>3 DEF ReadFrom, ReaderHasChunk, AllPushed, CopyStates
<1>5. WriteFrom' = WriteFrom /\ PushedTo' = PushedTo
  BY <1>1, <1>2 DEF WriteFrom, PushedTo, ChunkEnd
<1>6. PushedTo = ReadFrom
  BY <1>1, <1>4 DEF PipeInv
<1>7. WriteFrom' <= currentOffset'
  <2>1. WriteFrom \in Nat
    BY <1>1, PipeFacts DEF WriteFrom, PipeInv
  <2>2. QED
    BY <1>1, <1>3, <1>5, <2>1, PipeFacts DEF PipeInv
<1>8. \A i \in 1..Len(queue) : ChunkEnd(queue[i])' <= currentOffset'
  <2>1. SUFFICES ASSUME NEW i \in 1..Len(queue)
                 PROVE  ChunkEnd(queue[i]) <= currentOffset'
    BY <1>2 DEF ChunkEnd
  <2>2. ChunkEnd(queue[i]) <= currentOffset /\ ChunkEnd(queue[i]) \in Nat /\ currentOffset \in Nat
    BY <1>1, PipeFacts DEF PipeInv
  <2>3. QED
    BY <1>3, <2>2
<1>9. QED
  BY <1>1, <1>2, <1>4, <1>5, <1>6, <1>7, <1>8 DEF PipeInv, DstIsPrefix, ChunkEnd

\* push() makes it the last chunk of the queue.
LEMMA PipePushes == ASSUME ToolInv, PushChunk PROVE PipeInv'
<1> DEFINE n == Len(queue)
<1>1. /\ OffsetInv /\ PipeInv /\ rpc = "push" /\ rpc' = "push" /\ call[Reader] = "idle"
      /\ queue' = Append(queue, chunkRead)
      /\ call' = [call EXCEPT ![Reader] = "notify"]
      /\ UNCHANGED <<popped, wpc, dst, chunkRead, currentOffset, isQueueOpen>>
  BY DEF ToolInv, PushChunk, Push, readerVars, writerVars
<1>2. chunkRead \in Chunk /\ ChunkEnd(chunkRead) = currentOffset
  BY <1>1 DEF OffsetInv
<1>3. /\ queue \in Seq(Chunk) /\ queue' \in Seq(Chunk) /\ n \in Nat /\ Len(queue') = n + 1
      /\ \A i \in 1..n : queue'[i] = queue[i]
      /\ queue'[n + 1] = chunkRead
      /\ queue' # <<>>
  <2>1. queue \in Seq(Chunk)
    BY <1>1 DEF PipeInv
  <2>2. QED
    BY <1>1, <1>2, <2>1, PushFacts
<1>4. ~ReaderHasChunk' /\ ReaderHasChunk
  BY <1>1, ToolFacts DEF ReaderHasChunk, ToolInv, SyncTypeOK
<1>5. /\ AllPushed
      /\ ReadFrom = chunkRead.start /\ ReadFrom' = currentOffset
      /\ PushedTo = chunkRead.start
      /\ WriteFrom' = WriteFrom
  BY <1>1, <1>4 DEF AllPushed, CopyStates, ReadFrom, PipeInv, WriteFrom, ChunkEnd
<1>6. PushedTo' = currentOffset
  BY <1>2, <1>3, <1>1 DEF PushedTo, ChunkEnd
<1>7. \A i \in 1..n + 1 : ChunkEnd(queue'[i]) <= currentOffset
  <2>1. SUFFICES ASSUME NEW i \in 1..n + 1
                 PROVE  ChunkEnd(queue'[i]) <= currentOffset
    OBVIOUS
  <2>2. CASE i = n + 1
    BY <1>1, <1>2, <1>3, <2>2, PipeFacts
  <2>3. CASE i # n + 1
    <3>1. i \in 1..n
      BY <1>3, <2>3
    <3>2. QED
      BY <1>1, <1>3, <3>1 DEF PipeInv
  <2>4. QED
    BY <2>2, <2>3
<1>8. \A i, j \in 1..n + 1 : j = i + 1 => queue'[j].start = ChunkEnd(queue'[i])
  <2>1. SUFFICES ASSUME NEW i \in 1..n + 1, NEW j \in 1..n + 1, j = i + 1
                 PROVE  queue'[j].start = ChunkEnd(queue'[i])
    OBVIOUS
  <2>2. CASE j = n + 1
    <3>1. i = n /\ n > 0
      BY <1>3, <2>1, <2>2
    <3>2. queue # <<>> /\ PushedTo = ChunkEnd(queue[n])
      BY <1>1, <1>3, <3>1, PipeFacts DEF PushedTo
    <3>3. queue'[j] = chunkRead /\ queue'[i] = queue[n]
      BY <1>3, <2>2, <3>1
    <3>4. QED
      BY <1>5, <3>2, <3>3
  <2>3. CASE j # n + 1
    <3>1. i \in 1..n /\ j \in 1..n
      BY <1>3, <2>1, <2>3
    <3>2. QED
      BY <1>1, <1>3, <2>1, <3>1 DEF PipeInv
  <2>4. QED
    BY <2>2, <2>3
<1>9. queue'[1].start = WriteFrom
  <2>1. CASE n = 0
    <3>1. queue = <<>>
      BY <1>1, <2>1, PipeFacts
    <3>2. QED
      BY <1>3, <1>5, <2>1, <3>1 DEF PushedTo
  <2>2. CASE n # 0
    <3>1. queue # <<>> /\ 1 \in 1..n
      BY <1>1, <1>3, <2>2, PipeFacts
    <3>2. QED
      BY <1>1, <1>3, <3>1 DEF PipeInv
  <2>3. QED
    BY <2>1, <2>2
<1>10. QED
  BY <1>1, <1>3, <1>5, <1>6, <1>7, <1>8, <1>9 DEF PipeInv, DstIsPrefix, ChunkEnd

\* pop() makes the first chunk of the queue the writer's.
LEMMA PipePops == ASSUME ToolInv, WritingPops, queue # <<>> PROVE PipeInv'
<1> DEFINE n == Len(queue)
<1>1. /\ OffsetInv /\ PipeInv /\ wpc = "pop"
      /\ queue' = Tail(queue)
      /\ popped' = [popped EXCEPT ![Writer] = Head(queue)]
      /\ call' = [call EXCEPT ![Writer] = "idle"]
      /\ UNCHANGED <<rpc, dst, chunkRead, currentOffset, isQueueOpen>>
  BY DEF ToolInv, WritingPops, Pop, readerVars, writerVars
<1>2. /\ queue' \in Seq(Chunk) /\ n \in Nat \ {0} /\ Len(queue') = n - 1
      /\ \A i \in 1..n - 1 : queue'[i] = queue[i + 1]
      /\ Head(queue) = queue[1] /\ queue[1] \in Chunk
  <2>1. queue \in Seq(Chunk)
    BY <1>1 DEF PipeInv
  <2>2. QED
    BY <1>1, <2>1, PopFacts
<1>3. popped'[Writer] = queue[1] /\ call'[Reader] = call[Reader] /\ call'[Writer] = "idle"
  BY <1>1, <1>2, ToolFacts DEF ToolInv, SyncTypeOK
<1>4. queue[1] \in Chunks
  BY <1>2 DEF ToolInv, SyncTypeOK
<1>5. wpc' = "write"
  BY <1>1, <1>3, <1>4, ToolFacts DEF WritingPops
<1>6. /\ WriteFrom = Len(dst) /\ queue[1].start = Len(dst)
      /\ WriteFrom' = ChunkEnd(queue[1])
      /\ ChunkEnd(queue[1]) <= currentOffset
  <2>1. 1 \in 1..n
    BY <1>2
  <2>2. QED
    BY <1>1, <1>3, <1>5, <2>1 DEF PipeInv, WriteFrom, ChunkEnd
<1>7. (AllPushed' <=> AllPushed) /\ ReadFrom' = ReadFrom
  BY <1>1, <1>3 DEF AllPushed, ReadFrom, ReaderHasChunk
<1>8. queue' = <<>> <=> n = 1
  <2>1. queue' # <<>> => Len(queue') # 0
    BY <1>2, EmptySeq
  <2>2. queue' = <<>> => Len(queue') = 0
    BY EmptySeq
  <2>3. QED
    BY <1>2, <2>1, <2>2
<1>9. queue' # <<>> => queue'[1].start = WriteFrom'
  <2>1. SUFFICES ASSUME queue' # <<>>
                 PROVE  queue'[1].start = WriteFrom'
    OBVIOUS
  <2>2. 1 \in 1..n /\ 2 \in 1..n /\ 1 \in 1..n - 1
    BY <1>2, <1>8, <2>1
  <2>3. queue[2].start = ChunkEnd(queue[1]) /\ queue'[1] = queue[2]
    BY <1>1, <1>2, <2>2 DEF PipeInv
  <2>4. QED
    BY <1>6, <2>3
<1>10. PushedTo' = PushedTo
  <2>1. CASE n = 1
    BY <1>2, <1>6, <1>8, <2>1 DEF PushedTo
  <2>2. CASE n # 1
    <3>1. n - 1 \in 1..n - 1 /\ (n - 1) + 1 = n
      BY <1>2, <2>2
    <3>2. queue'[Len(queue')] = queue[n]
      BY <1>2, <3>1
    <3>3. QED
      BY <1>8, <2>2, <3>2 DEF PushedTo, ChunkEnd
  <2>3. QED
    BY <2>1, <2>2
<1>11. /\ \A i \in 1..n - 1 : ChunkEnd(queue'[i]) <= currentOffset
       /\ \A i, j \in 1..n - 1 : j = i + 1 => queue'[j].start = ChunkEnd(queue'[i])
  <2>1. \A i \in 1..n - 1 : i + 1 \in 1..n
    BY <1>2
  <2>2. QED
    BY <1>1, <1>2, <2>1 DEF PipeInv
<1>12. QED
  BY <1>1, <1>2, <1>3, <1>5, <1>6, <1>7, <1>9, <1>10, <1>11 DEF PipeInv, DstIsPrefix, ChunkEnd

\* Appending the bytes of a chunk that begins where the prefix ends.
LEMMA PrefixGrows ==
  ASSUME NEW s \in Seq(Nat), \A i \in 1..Len(s) : s[i] = i,
         NEW n \in Nat, NEW t, t = s \o [i \in 1..n |-> Len(s) + i]
  PROVE  t \in Seq(Nat) /\ Len(t) = Len(s) + n /\ \A i \in 1..Len(t) : t[i] = i
<1> DEFINE bytes == [i \in 1..n |-> Len(s) + i]
<1>1. Len(s) \in Nat
  BY LenProperties
<1>2. bytes \in Seq(Nat) /\ Len(bytes) = n /\ \A i \in 1..n : bytes[i] = Len(s) + i
  <2>1. bytes \in [1..n -> Nat]
    BY <1>1
  <2>2. bytes \in Seq(Nat)
    BY <2>1, SeqDef
  <2>3. QED
    BY <2>1, <2>2, LenProperties
<1>3. t = s \o bytes
  OBVIOUS
<1> HIDE DEF bytes
<1>4. /\ t \in Seq(Nat) /\ Len(t) = Len(s) + n
      /\ \A i \in 1..Len(s) + n : t[i] = IF i <= Len(s) THEN s[i] ELSE bytes[i - Len(s)]
  BY <1>2, <1>3, ConcatProperties
<1>5. SUFFICES ASSUME NEW i \in 1..Len(t)
               PROVE  t[i] = i
  BY <1>4
<1>6. CASE i <= Len(s)
  <2>1. i \in 1..Len(s)
    BY <1>1, <1>4, <1>6
  <2>2. QED
    BY <1>4, <1>6, <2>1
<1>7. CASE ~(i <= Len(s))
  <2>1. i - Len(s) \in 1..n /\ Len(s) + (i - Len(s)) = i
    BY <1>1, <1>4, <1>7
  <2>2. QED
    BY <1>2, <1>4, <1>7, <2>1
<1>8. QED
  BY <1>6, <1>7

\* write() appends it to dst.
LEMMA PipeWrites == ASSUME ToolInv, WritesChunk PROVE PipeInv'
<1> DEFINE c == popped[Writer]
<1>1. /\ OffsetInv /\ PipeInv /\ wpc = "write"
      /\ UNCHANGED <<queue, popped, call, isQueueOpen, rpc, chunkRead, currentOffset>>
  BY DEF ToolInv, WritesChunk, syncVars, readerVars, writerVars
<1>2. /\ c \in Chunk /\ c.start = Len(dst)
      /\ Len(dst) \in Nat /\ dst \in Seq(Nat)
      /\ Len(dst) + c.size <= fileSize
  BY <1>1, ChunkFits, PipeFacts DEF PipeInv
<1>3. c.size \in Nat
  BY <1>2 DEF Chunk
<1>4. dst' = dst \o [i \in 1..c.size |-> c.start + i] /\ wpc' = "check"
  BY <1>2 DEF WritesChunk
<1> HIDE DEF c
<1>5. dst' \in Seq(Nat) /\ Len(dst') = Len(dst) + c.size /\ DstIsPrefix'
  <2>1. dst' = dst \o [i \in 1..c.size |-> Len(dst) + i]
    BY <1>2, <1>4
  <2>2. \A i \in 1..Len(dst) : dst[i] = i
    BY <1>1 DEF PipeInv, DstIsPrefix
  <2>3. QED
    BY <1>2, <1>3, <2>1, <2>2, PrefixGrows DEF DstIsPrefix
<1>6. WriteFrom' = WriteFrom
  BY <1>1, <1>2, <1>4, <1>5 DEF WriteFrom, ChunkEnd, c
<1>7. /\ PushedTo' = PushedTo /\ ReadFrom' = ReadFrom /\ (AllPushed' <=> AllPushed)
  BY <1>1, <1>6 DEF PushedTo, ReadFrom, ReaderHasChunk, AllPushed, ChunkEnd
<1>8. QED
  BY <1>1, <1>4, <1>5, <1>6, <1>7 DEF PipeInv, ChunkEnd

LEMMA PipeStep == ASSUME ToolInv, [AnyStep]_vars PROVE PipeInv'
<1>1. /\ PipeInv /\ LifeInv /\ CallInv
      /\ Reader # Writer /\ Threads = {Reader, Writer}
      /\ call \in [Threads -> {"idle", "pop", "notify"}]
      /\ popped \in [Threads -> Chunks \cup {NoChunk}]
  BY ToolFacts DEF ToolInv, SyncTypeOK
<1> USE DEF AllPushed, ReadFrom, ReaderHasChunk, CopyStates
<1>2. CASE UNCHANGED vars
  BY <1>1, <1>2, PipeFrame DEF vars, syncVars, readerVars, writerVars
<1>3. CASE ToolIsCreated
  <2>1. /\ UNCHANGED <<dst, queue, currentOffset, wpc, popped, call>>
        /\ rpc = "open" /\ rpc' = "copy"
    BY <1>3 DEF ToolIsCreated, SyncOpen, SetQueueOpen, readerVars, writerVars
  <2>2. QED
    BY <1>1, <2>1, PipeFrame
<1>4. CASE CopyCreates \/ CopyStarts
  <2>1. /\ UNCHANGED <<dst, queue, currentOffset, popped, call, isQueueOpen>>
        /\ rpc \in {"copy", "start"} /\ rpc' \in {"failed", "start", "read"}
        /\ wpc = "none" /\ wpc' \in {"none", "check"}
        /\ isQueueOpen
    BY <1>1, <1>4 DEF CopyCreates, CopyStarts, LifeInv, syncVars, readerVars, writerVars
  <2>2. QED
    BY <1>1, <2>1, PipeFrame
<1>5. CASE PushNotifies
  <2>1. /\ UNCHANGED <<dst, queue, currentOffset, popped, wpc>>
        /\ rpc = "push" /\ rpc' \in {"close", "read"}
        /\ call[Reader] = "notify"
    BY <1>5 DEF PushNotifies, NotifyOne, readerVars, writerVars
  <2>2. QED
    BY <1>1, <2>1, PipeFrame
<1>6. CASE CopyCloses
  <2>1. /\ UNCHANGED <<dst, queue, currentOffset, popped, wpc, call>>
        /\ rpc = "close" /\ rpc' = "finishRead"
    BY <1>6 DEF CopyCloses, SyncClose, SetQueueOpen, readerVars, writerVars
  <2>2. QED
    BY <1>1, <2>1, PipeFrame
<1>7. CASE CopyFinishesRead \/ CopyJoins \/ JoinsAfterJump
  <2>1. /\ UNCHANGED <<dst, queue, currentOffset, popped, wpc, call, isQueueOpen>>
        /\ rpc \in {"finishRead", "join"} /\ rpc' \in {"join", "exited", "failed"}
    BY <1>7 DEF CopyFinishesRead, CopyJoins, JoinsAfterJump, syncVars, readerVars, writerVars
  <2>2. QED
    BY <1>1, <2>1, PipeFrame
<1>8. CASE JumpsOut
  <2>1. /\ UNCHANGED <<dst, queue, currentOffset, popped, wpc, call, isQueueOpen>>
        /\ rpc \in CopyStates /\ rpc' = "join"
        /\ ~isQueueOpen => rpc = "finishRead"
    BY <1>1, <1>8 DEF JumpsOut, LifeInv, syncVars, readerVars, writerVars
  <2>2. QED
    BY <1>1, <2>1, PipeFrame
<1>9. CASE WritingChecks \/ WritingTestsEmpty \/ FinishesWrite
  <2>1. /\ UNCHANGED <<dst, queue, currentOffset, popped, rpc, call, isQueueOpen, chunkRead>>
        /\ wpc # "write" /\ wpc' # "write"
    BY <1>9 DEF WritingChecks, WritingTestsEmpty, FinishesWrite, syncVars, readerVars, writerVars
  <2>2. QED
    BY <1>1, <2>1, PipeFrame
<1>10. CASE WritingPops /\ queue = <<>>
  <2>1. /\ UNCHANGED <<dst, queue, currentOffset, rpc, isQueueOpen, chunkRead>>
        /\ call'[Reader] = call[Reader]
        /\ wpc # "write" /\ wpc' # "write"
    BY <1>1, <1>10 DEF WritingPops, Pop, readerVars, writerVars
  <2>2. QED
    BY <1>1, <2>1, PipeFrame
<1>11. ASSUME NEW t \in Threads, Wakes(t)
       PROVE  PipeInv'
  <2>1. UNCHANGED <<dst, queue, currentOffset, popped, rpc, wpc, call, isQueueOpen, chunkRead>>
    BY <1>11 DEF Wakes, WakeSpuriously, readerVars, writerVars
  <2>2. QED
    BY <1>1, <2>1, PipeFrame
<1>12. QED
  BY <1>2, <1>3, <1>4, <1>5, <1>6, <1>7, <1>8, <1>9, <1>10, <1>11,
     PipeReads, PipePushes, PipePops, PipeWrites
     DEF AnyStep, Next, ReaderStep, WriterStep, Terminated

-----------------------------------------------------------------------------
(* The destination *)

LEMMA FileInit == Init => FileInv
BY DEF Init, FileInv

LEMMA FileStep == ASSUME ToolInv, [AnyStep]_vars PROVE FileInv'
<1> USE DEF FileInv
<1>1. FileInv /\ LifeInv
  BY DEF ToolInv
<1>2. CASE UNCHANGED vars
  BY <1>1, <1>2 DEF vars, readerVars, writerVars
<1>3. CASE ToolIsCreated \/ CopyCreates \/ CopyStarts
  BY <1>1, <1>3 DEF ToolIsCreated, CopyCreates, CopyStarts, readerVars, writerVars, LifeInv
<1>4. CASE WritesChunk
  <2>1. wpc = "write" /\ wpc' \in {"check", "thrown"} /\ UNCHANGED <<rpc, fileSize, fileLength>>
    BY <1>4 DEF WritesChunk, readerVars
  <2>2. QED
    BY <1>1, <2>1
\* The other steps neither begin the copy nor touch the file.
<1>5. CASE \/ ReadChunk \/ PushChunk \/ PushNotifies \/ CopyCloses \/ CopyFinishesRead
           \/ CopyJoins \/ JumpsOut \/ JoinsAfterJump
           \/ WritingChecks \/ WritingTestsEmpty \/ WritingPops \/ FinishesWrite
           \/ \E t \in Threads : Wakes(t)
  <2>1. /\ UNCHANGED <<fileSize, fileLength, dst>>
        /\ rpc' \in {"open", "copy", "start"} => rpc' = rpc
        /\ wpc' = "none" <=> wpc = "none"
    BY <1>5 DEF ReadChunk, PushChunk, PushNotifies, CopyCloses, CopyFinishesRead,
       CopyJoins, JumpsOut, JoinsAfterJump, WritingChecks, WritingTestsEmpty, WritingPops,
       FinishesWrite, Wakes, readerVars, writerVars
  <2>2. QED
    BY <1>1, <2>1
<1>6. QED
  BY <1>2, <1>3, <1>4, <1>5 DEF AnyStep, Next, ReaderStep, WriterStep, Terminated

-----------------------------------------------------------------------------
(* The theorems *)

LEMMA ToolInvariantInit == Init => ToolInv
<1>1. Init => SyncInit
  BY DEF Init
<1>2. QED
  BY <1>1, SyncTypeInit, ControlInit, OffsetInit, PipeInit, FileInit DEF ToolInv

LEMMA ToolInvariantStep == ToolInv /\ [AnyStep]_vars => ToolInv'
<1> SUFFICES ASSUME ToolInv, [AnyStep]_vars
             PROVE  ToolInv'
  OBVIOUS
<1>1. SyncTypeOK'
  BY ToolStepIsSyncStep, SyncTypeStep DEF ToolInv
<1>2. QED
  BY <1>1, ControlStep, OffsetStep, PipeStep, FileStep DEF ToolInv

\* A step of either specification is one of AnyStep.
LEMMA StepsAreAnySteps ==
  /\ [Next]_vars => [AnyStep]_vars
  /\ [AbortedNext]_abortedVars => [AnyStep]_vars
<1>1. [Next]_vars => [AnyStep]_vars
  BY DEF AnyStep
<1>2. ASSUME AbortedNext PROVE AnyStep
  <2>1. CASE MainStep
    BY <2>1 DEF MainStep, AbortedJoins, JoinsAfterJump, AnyStep, Next
  <2>2. CASE WritingStep
    BY <2>2 DEF WritingStep, AnyStep, Next
  <2>3. CASE Interrupt
    BY <2>3 DEF Interrupt, JumpsOut, AnyStep
  <2>4. CASE Terminated \/ \E t \in Threads : Wakes(t)
    BY <2>4 DEF AnyStep, Next
  <2>5. QED
    BY <1>2, <2>1, <2>2, <2>3, <2>4 DEF AbortedNext
<1>3. UNCHANGED abortedVars => UNCHANGED vars
  BY DEF abortedVars
<1>4. QED
  BY <1>1, <1>2, <1>3

LEMMA ToolInvariant == (Spec => []ToolInv) /\ (AbortedSpec => []ToolInv)
<1>1. Spec => []ToolInv
  BY ToolInvariantInit, ToolInvariantStep, StepsAreAnySteps, PTL DEF Spec
<1>2. AbortedSpec => []ToolInv
  BY ToolInvariantInit, ToolInvariantStep, StepsAreAnySteps, PTL DEF AbortedSpec, AbortedInit
<1>3. QED
  BY <1>1, <1>2

\* The variables keep their types, whether or not the copy is cut short.
THEOREM ToolTypeCorrect == (Spec => []TypeOK) /\ (AbortedSpec => []TypeOK)
<1>1. ToolInv => TypeOK
  BY DEF ToolInv, TypeOK, LifeInv, OffsetInv, PipeInv, FileInv
<1>2. QED
  BY <1>1, ToolInvariant, PTL

\* The writer's check that it does not write beyond the mapping never fails
\* (MMapFileWriter::write), for any page size and any file.
THEOREM MappingIsEnough ==
  (Spec => []NeverWritesTooMuch) /\ (AbortedSpec => []NeverWritesTooMuch)
<1>1. ToolInv => NeverWritesTooMuch
  BY DEF ToolInv, LifeInv, NeverWritesTooMuch
<1>2. QED
  BY <1>1, ToolInvariant, PTL

LEMMA EndMeansAll == ToolInv => WriterStaysToTheEnd
<1> SUFFICES ASSUME ToolInv, wpc \in {"finishWrite", "done"}
             PROVE  Len(dst) = fileSize
  BY DEF WriterStaysToTheEnd
<1>1. rpc # "open" /\ ~isQueueOpen /\ queue = <<>>
  BY DEF ToolInv, EndInv
<1>2. currentOffset = fileSize
  BY <1>1 DEF ToolInv, OffsetInv
<1>3. PushedTo = Len(dst)
  BY <1>1 DEF PushedTo, WriteFrom
<1>4. ReadFrom = currentOffset
  BY <1>1 DEF ReadFrom, ReaderHasChunk, ToolInv, LifeInv
<1>5. PushedTo = ReadFrom
  BY <1>1 DEF AllPushed, ToolInv, PipeInv
<1>6. QED
  BY <1>2, <1>3, <1>4, <1>5

\* writingFunction leaves its loop only with the whole source written: neither
\* readFinished, which is set before the last chunk is in the queue, nor an
\* empty queue, nor a handler that runs in the middle of copy() makes it leave
\* before.
THEOREM WriterLeavesNothing ==
  (Spec => []WriterStaysToTheEnd) /\ (AbortedSpec => []WriterStaysToTheEnd)
BY EndMeansAll, ToolInvariant, PTL

\* The two threads use the queue as any client may: what is proved of
\* SynchronizedQueue holds of it inside the tool.
THEOREM ToolIsAQueueClient == (Spec => SyncSpec) /\ (AbortedSpec => SyncSpec)
<1>1. Init => SyncInit
  BY DEF Init
<1>2. ToolInv /\ [AnyStep]_vars => [SyncNext]_syncVars
  BY ToolStepIsSyncStep DEF ToolInv
<1>3. Spec => SyncSpec
  BY <1>1, <1>2, StepsAreAnySteps, ToolInvariant, PTL DEF Spec, SyncSpec
<1>4. AbortedSpec => SyncSpec
  BY <1>1, <1>2, StepsAreAnySteps, ToolInvariant, PTL DEF AbortedSpec, AbortedInit, SyncSpec
<1>5. QED
  BY <1>3, <1>4

-----------------------------------------------------------------------------
(* The tool implements FillFile *)

\* The file has the bytes of the source as far as it has been written.
LEMMA FileIsFilled ==
  ASSUME OffsetInv, PipeInv, FileInv
  PROVE  /\ Len(dst) \in Nat /\ fileSize \in Nat
         /\ fileLength = fileSize => File = Abstract!Filled(Len(dst))
         /\ fileLength = 0 => File = <<>>
         /\ fileLength = fileSize /\ Len(dst) = fileSize => File = Abstract!Source(fileSize)
<1>1. Len(dst) \in Nat /\ \A i \in 1..Len(dst) : dst[i] = i
  BY LenProperties DEF PipeInv, DstIsPrefix
<1>2. fileSize \in Nat
  BY ToolFacts DEF OffsetInv
<1>3. fileLength = fileSize => File = Abstract!Filled(Len(dst))
  <2>1. ASSUME NEW i \in 1..fileSize
        PROVE  (IF i <= Len(dst) THEN dst[i] ELSE Unwritten)
                 = IF i <= Len(dst) THEN i ELSE Abstract!Hole
    BY <1>1, <1>2 DEF Unwritten, Abstract!Hole
  <2>2. QED
    BY <2>1 DEF File, Abstract!Filled
<1>4. fileLength = 0 => File = <<>>
  <2>1. 1..0 = {}
    OBVIOUS
  <2>2. ASSUME fileLength = 0
        PROVE  File = <<>>
    <3>1. File = [i \in {} |-> IF i <= Len(dst) THEN dst[i] ELSE Unwritten]
      BY <2>1, <2>2 DEF File
    <3>2. QED
      BY <3>1
  <2>3. QED
    BY <2>2
<1>5. fileLength = fileSize /\ Len(dst) = fileSize => File = Abstract!Source(fileSize)
  <2>1. ASSUME NEW i \in 1..fileSize, Len(dst) = fileSize
        PROVE  (IF i <= Len(dst) THEN dst[i] ELSE Unwritten) = i
    BY <1>1, <1>2, <2>1
  <2>2. QED
    BY <2>1 DEF File, Abstract!Source
<1>6. QED
  BY <1>1, <1>2, <1>3, <1>4, <1>5

LEMMA ToolFillStep ==
  ASSUME ToolInv, ToolInv', [AnyStep]_vars
  PROVE  [Abstract!FillNext]_<<fileSize, File, Status>>
<1>1. /\ Len(dst) \in Nat /\ fileSize \in Nat /\ FileInv /\ FileInv'
      /\ fileLength = fileSize => File = Abstract!Filled(Len(dst))
      /\ fileLength = 0 => File = <<>>
      /\ fileLength = fileSize /\ Len(dst) = fileSize => File = Abstract!Source(fileSize)
  BY FileIsFilled DEF ToolInv
<1>2. fileLength' = fileSize' => File' = Abstract!Filled(Len(dst))'
  <2>1. (OffsetInv /\ PipeInv /\ FileInv
           => (fileLength = fileSize => File = Abstract!Filled(Len(dst))))'
    BY FileIsFilled, PTL
  <2>2. QED
    BY <2>1 DEF ToolInv
<1>3. fileSize' = fileSize
  BY DEF AnyStep, JumpsOut, JoinsAfterJump, vars, readerVars, Next, ReaderStep,
     WriterStep, Terminated, Wakes, ToolIsCreated, CopyCreates, CopyStarts, ReadChunk, PushChunk,
     PushNotifies, CopyCloses, CopyFinishesRead, CopyJoins, WritingChecks,
     WritingTestsEmpty, WritingPops, WritesChunk, FinishesWrite
<1>4. CASE CopyCreates
  <2>1. CASE fileSize = 0
    <3>1. UNCHANGED <<fileLength, dst>> /\ Status = "copying" /\ Status' = "failed"
      BY <1>4, <2>1 DEF CopyCreates, Status
    <3>2. File' = File
      BY <3>1 DEF File
    <3>3. QED
      BY <1>3, <3>1, <3>2 DEF Abstract!FillNext, Abstract!Fail
  <2>2. CASE fileSize # 0
    <3>1. /\ fileLength = 0 /\ fileLength' = fileSize /\ dst = <<>> /\ dst' = dst
          /\ Status = "copying" /\ Status' = "copying"
      BY <1>4, <2>2 DEF CopyCreates, Status, ToolInv, LifeInv, FileInv
    <3>2. File = <<>> /\ File' = Abstract!Filled(Len(dst))'
      BY <1>1, <1>2, <1>3, <3>1
    <3>3. File' = Abstract!Filled(0)
      BY <1>3, <3>1, <3>2 DEF Abstract!Filled
    <3>4. QED
      BY <1>3, <3>1, <3>2, <3>3 DEF Abstract!FillNext, Abstract!Create
  <2>3. QED
    BY <2>1, <2>2
<1>5. CASE WritesChunk
  <2>1. /\ Status' = Status /\ Status = "copying" /\ wpc = "write"
        /\ fileLength = fileSize /\ fileLength' = fileLength
    BY <1>1, <1>5 DEF WritesChunk, Status, ToolInv, LifeInv, FileInv
  <2>2. /\ popped[Writer] \in Chunk /\ popped[Writer].start = Len(dst)
        /\ Len(dst) + popped[Writer].size <= fileSize
    BY <2>1, ChunkFits DEF ToolInv
  <2>3. Len(dst') = Len(dst) + popped[Writer].size
    <3>1. dst' = dst \o [i \in 1..popped[Writer].size |-> Len(dst) + i]
      BY <1>5, <2>2 DEF WritesChunk
    <3>2. dst \in Seq(Nat) /\ popped[Writer].size \in Nat /\ \A i \in 1..Len(dst) : dst[i] = i
      BY <2>2 DEF ToolInv, PipeInv, DstIsPrefix, Chunk
    <3>3. QED
      BY <3>1, <3>2, PrefixGrows
  <2>4. File = Abstract!Filled(Len(dst)) /\ File' = Abstract!Filled(Len(dst'))
    BY <1>1, <1>2, <1>3, <2>1 DEF Abstract!Filled
  <2>5. CASE Len(dst') = Len(dst)
    BY <1>3, <2>1, <2>4, <2>5
  <2>6. CASE Len(dst') # Len(dst)
    <3>1. popped[Writer].size \in Nat
      BY <2>2 DEF Chunk
    <3>2. Len(dst) \in 0..fileSize /\ Len(dst') \in Len(dst) + 1 .. fileSize
      BY <1>1, <2>2, <2>3, <2>6, <3>1
    <3>3. QED
      BY <1>3, <2>1, <2>4, <3>2 DEF Abstract!FillNext, Abstract!Fill
  <2>7. QED
    BY <2>5, <2>6
<1>6. CASE CopyJoins
  <2>1. UNCHANGED <<fileLength, dst>> /\ Status = "copying" /\ Status' = "done" /\ wpc = "done"
    BY <1>6 DEF CopyJoins, Status, writerVars
  <2>2. Len(dst) = fileSize /\ fileLength = fileSize
    BY <1>1, <2>1, EndMeansAll DEF WriterStaysToTheEnd, FileInv
  <2>3. File = Abstract!Source(fileSize) /\ File' = File
    BY <1>1, <2>1, <2>2 DEF File
  <2>4. QED
    BY <1>3, <2>1, <2>3 DEF Abstract!FillNext, Abstract!Finish
<1>7. CASE JoinsAfterJump
  <2>1. File' = File /\ Status = "copying" /\ Status' = "failed"
    BY <1>7 DEF JoinsAfterJump, Status, writerVars, File
  <2>2. QED
    BY <1>3, <2>1 DEF Abstract!FillNext, Abstract!Fail
<1>8. CASE ~(WritesChunk \/ CopyJoins \/ CopyCreates \/ JoinsAfterJump)
  <2>1. UNCHANGED <<fileLength, dst>> /\ Status' = Status
    BY <1>8 DEF Status, CopyStates, AnyStep, JumpsOut, vars, writerVars, Next, ReaderStep,
       WriterStep, Terminated, Wakes, ToolIsCreated, CopyStarts, ReadChunk, PushChunk,
       PushNotifies, CopyCloses, CopyFinishesRead, WritingChecks, WritingTestsEmpty,
       WritingPops, FinishesWrite
  <2>2. File' = File
    BY <2>1 DEF File
  <2>3. QED
    BY <1>3, <2>1, <2>2
<1>9. QED
  BY <1>4, <1>5, <1>6, <1>7, <1>8

\* For any page size and any file, interrupted or not: the destination gets its
\* final length before a byte is written, it is filled along the source without
\* a gap, it does not change after the process has ended, and status 0 means
\* that all of the source is in it.
THEOREM ParallelToolImplementsFillFile ==
  (Spec => ImplementsFillFile) /\ (AbortedSpec => ImplementsFillFile)
<1>1. Init => Abstract!CopyInit
  <2> SUFFICES ASSUME Init
               PROVE  Abstract!CopyInit
    OBVIOUS
  <2>1. fileSize \in FileSizes /\ Status = "copying" /\ fileLength = 0
    BY DEF Init, Status
  <2>2. File = <<>>
    BY <2>1, OffsetInit, PipeInit, FileInit, FileIsFilled
  <2>3. QED
    BY <2>1, <2>2 DEF Abstract!CopyInit
<1>2. ToolInv /\ ToolInv' /\ [AnyStep]_vars
        => [Abstract!FillNext]_(Abstract!copyVars)
  BY ToolFillStep DEF Abstract!copyVars
<1>3. Spec => ImplementsFillFile
  BY <1>1, <1>2, StepsAreAnySteps, ToolInvariant, PTL
     DEF Spec, ImplementsFillFile, Abstract!FillSpec
<1>4. AbortedSpec => ImplementsFillFile
  BY <1>1, <1>2, StepsAreAnySteps, ToolInvariant, PTL
     DEF AbortedSpec, AbortedInit, ImplementsFillFile, Abstract!FillSpec
<1>5. QED
  BY <1>3, <1>4

-----------------------------------------------------------------------------
(* The two threads stop each other in one state only *)

\* The places in which a thread can be stopped: asleep in pop() or, in the main
\* thread, at the join of a thread that has not ended; qm is never kept between
\* two steps.  A thread that has not begun or has ended does nothing either.
Stopped(t) ==
  \/ t \in sleeping
  \/ t = Reader /\ rpc = "join" /\ wpc # "done"
  \/ t = Writer /\ wpc \in {"none", "done"}

\* No buffer, mutex or join stops both threads, but the end of a queue that was
\* closed without a notification.
StopsOnlyOnClosedQueue == Stopped(Reader) /\ Stopped(Writer) => AsleepOnClosedQueue

\* Of a tool that is left alone: when the main thread waits for the writer, the
\* writer was started, the queue is closed, and no push is under way.
LeftAlone ==
  /\ wpc = "none" => rpc \in {"open", "copy", "start", "failed"}
  /\ rpc = "join" => ~isQueueOpen /\ call[Reader] = "idle"

LEMMA LeftAloneStep == ToolInv /\ LeftAlone /\ [Next]_vars => LeftAlone'
<1> SUFFICES ASSUME ToolInv, LeftAlone, [Next]_vars
             PROVE  LeftAlone'
  OBVIOUS
<1> USE DEF LeftAlone
<1>1. /\ rpc = "finishRead" => ~isQueueOpen /\ call[Reader] = "idle"
      /\ call \in [Threads -> {"idle", "pop", "notify"}]
  BY DEF ToolInv, LifeInv, CallInv, SyncTypeOK
<1>2. CASE UNCHANGED vars
  BY <1>2 DEF vars, syncVars
<1>3. CASE ToolIsCreated \/ CopyCreates \/ CopyStarts \/ ReadChunk
  BY <1>3 DEF ToolIsCreated, CopyCreates, CopyStarts, ReadChunk
<1>4. CASE PushChunk \/ PushNotifies
  BY <1>4 DEF PushChunk, PushNotifies
<1>5. CASE CopyCloses \/ CopyFinishesRead \/ CopyJoins
  BY <1>1, <1>5 DEF CopyCloses, CopyFinishesRead, CopyJoins, syncVars
<1>6. CASE WriterStep
  <2>1. /\ wpc' # "none" /\ wpc # "none"
        /\ rpc' = rpc /\ isQueueOpen' = isQueueOpen /\ call'[Reader] = call[Reader]
    BY <1>1, <1>6, ToolFacts
       DEF WriterStep, WritingChecks, WritingTestsEmpty, WritingPops, Pop, WritesChunk,
           FinishesWrite, syncVars
  <2>2. QED
    BY <2>1
<1>7. ASSUME NEW t \in Threads, Wakes(t)
      PROVE  LeftAlone'
  BY <1>7 DEF Wakes, WakeSpuriously
<1>8. QED
  BY <1>2, <1>3, <1>4, <1>5, <1>6, <1>7 DEF Next, ReaderStep, Terminated

LEMMA LeftAloneInvariant == Spec => []LeftAlone
<1>1. Init => LeftAlone
  BY DEF Init, LeftAlone
<1>2. QED
  BY <1>1, LeftAloneStep, ToolInvariant, PTL DEF Spec

\* Where a writer sleeps whom the main thread waits for at the join: nobody is
\* about to notify or to pop, so EveryChunkHasAWaker leaves no chunk.
LEMMA WriterSleepsAtTheEnd ==
  ASSUME ToolInv, LeftAlone, SleepersPop, EveryChunkHasAWaker,
         rpc = "join", Writer \in sleeping
  PROVE  AsleepOnClosedQueue
<1>1. call[Writer] = "pop" /\ wpc = "pop" /\ call[Reader] = "idle" /\ ~isQueueOpen
  BY DEF SleepersPop, LeftAlone, ToolInv, SyncTypeOK, CallInv
<1>2. Notifying = {} /\ Woken = {}
  BY <1>1, ToolFacts DEF Notifying, Woken
<1>3. queue = <<>>
  <2>1. Len(queue) <= 0 + 0 /\ queue \in Seq(Chunk)
    BY <1>2, FS_EmptySet DEF EveryChunkHasAWaker, ToolInv, PipeInv
  <2>2. QED
    BY <2>1
<1>4. currentOffset = fileSize
  BY <1>1 DEF ToolInv, OffsetInv
<1>5. PushedTo = Len(dst) /\ ReadFrom = currentOffset /\ PushedTo = ReadFrom
  BY <1>1, <1>3 DEF PushedTo, WriteFrom, ReadFrom, ReaderHasChunk, AllPushed, ToolInv, PipeInv
<1>6. QED
  BY <1>1, <1>3, <1>4, <1>5 DEF AsleepOnClosedQueue, SyncIsEmpty

\* Nothing the two threads can wait for, a chunk or each other's end, stops them
\* both, for any page size, any file and any interleaving, but the end of a
\* queue that is closed without a notification; and there every byte has been
\* written.
THEOREM NoOtherParallelDeadlock == Spec => []StopsOnlyOnClosedQueue
<1>1. ASSUME ToolInv, LeftAlone, WakerInv, Stopped(Reader), Stopped(Writer)
      PROVE  AsleepOnClosedQueue
  <2>1. Reader \notin sleeping
    BY <1>1 DEF WakerInv, SleepersPop, ToolInv, CallInv
  <2>2. rpc = "join" /\ wpc # "done"
    BY <1>1, <2>1, ToolFacts DEF Stopped
  <2>3. Writer \in sleeping
    BY <1>1, <2>2, ToolFacts DEF Stopped, LeftAlone
  <2>4. QED
    BY <1>1, <2>2, <2>3, WriterSleepsAtTheEnd DEF WakerInv
<1>2. ToolInv /\ LeftAlone /\ WakerInv => StopsOnlyOnClosedQueue
  BY <1>1 DEF StopsOnlyOnClosedQueue
<1>3. QED
  BY <1>2, WakerInvariant, LeftAloneInvariant, ToolInvariant, ToolIsAQueueClient, PTL

=============================================================================
