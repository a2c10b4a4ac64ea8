------------------------- MODULE ChangingSource_proofs -------------------------
(***************************************************************************)
(* What holds of a copy whose source changes or fails under it, for any    *)
(* number and size of buffers, any size of file and any such trouble, as   *)
(* long as fwrite takes what it is given.                                  *)
(***************************************************************************)
EXTENDS ChangingSource, BPCopyTool_proofs

(***************************************************************************)
(* The reader's offset counts what it was to read, not what it read.  The  *)
(* stream is never ahead of it, and with it if the source only grew.       *)
(***************************************************************************)
OnlyGrew == happened \subseteq {"grows"}

SourceInv ==
  /\ fileSize \in FileSizes
  /\ sourceSize \in FileSizes
  /\ currentOffset \in 0..fileSize
  /\ streamPos \in Nat
  /\ readFinished \in BOOLEAN
  /\ contents \in [Buffers -> ContentTypes]
  /\ ~readFinished => streamPos <= currentOffset
  /\ readFinished => currentOffset = fileSize
  /\ rpc \in {"open", "getFree", "fill"} => ~readFinished
  /\ rpc \in {"finishRead", "close", "join", "flush", "exit", "exited"} => readFinished
  /\ OnlyGrew => sourceSize >= fileSize /\ (~readFinished => streamPos = currentOffset)

\* What the tool's other steps keep, which no step that fills a buffer touches.
ChangingInv ==
  /\ ControlInv
  /\ ConservationInv
  /\ ReaderHolds
  /\ WriterHolds
  /\ EndInv
  /\ DstInv
  /\ SourceInv

(***************************************************************************)
(* A chunk's place in the destination is no longer where its bytes came    *)
(* from, nor is it written anywhere: pos[b] is that place for the chunk in *)
(* buffer b.  The chunks under way are consecutive, from the end of dst to *)
(* currentOffset, whatever is in them.                                     *)
(***************************************************************************)
PlaceEnd(pos, b) == pos[b] + contents[b].bytesUsed

WriterPlace(pos) == IF wpc = "fwrite" THEN PlaceEnd(pos, held[Writer]) ELSE Len(dst)
ReaderPlace(pos) == IF ReaderHasChunk THEN pos[held[Reader]] ELSE currentOffset

PlacesMeet(pos) ==
  /\ wpc = "fwrite" => pos[held[Writer]] = Len(dst)
  /\ ReaderHasChunk => PlaceEnd(pos, held[Reader]) = currentOffset
  /\ \A i, j \in DOMAIN writeBuffers :
       j = i + 1 => pos[writeBuffers[j]] = PlaceEnd(pos, writeBuffers[i])
  /\ writeBuffers = <<>> => WriterPlace(pos) = ReaderPlace(pos)
  /\ writeBuffers # <<>> =>
       /\ pos[writeBuffers[1]] = WriterPlace(pos)
       /\ PlaceEnd(pos, writeBuffers[Len(writeBuffers)]) = ReaderPlace(pos)

\* The bytes of a chunk come from its place or from before it, and from its
\* place, all of them, if the source only grew.
ComesFromBefore(pos, b) ==
  /\ contents[b].start <= pos[b]
  /\ OnlyGrew => contents[b].start = pos[b] /\ contents[b].bytesUsed <= contents[b].filled

\* What there is to say of the bytes in the destination.
BytesInv == NeverAhead /\ (OnlyGrew => DstIsPrefix)

PlacesInv(pos) ==
  /\ PlacesMeet(pos)
  /\ \A b \in Buffers : ComesFromBefore(pos, b)

\* The inductive invariant, beside ChangingInv.
ChunksInv == BytesInv /\ \E pos \in [Buffers -> Nat] : PlacesInv(pos)

-----------------------------------------------------------------------------
(* The steps *)

LEMMA ToolStepIsNext ==
  ToolStep => Next /\ ~ReadFills /\ UNCHANGED <<sourceSize, happened>>
BY DEF ToolStep, Next, ReaderStep, WriterStep, ReadFills, WritingChecks, WritingTestsEmpty,
   WriteWaits, WriteTakes, WriteFwrites, WriteReturns, WriteNotifies, Wakes, Terminated,
   vars, CopyStarts, ReadWaits, ReadTakes, ReadFinishes, ReadReturns, ReadNotifies,
   CopyCloses, CopyJoins, CopyFlushes, MainReturns

\* A step that changes nothing but the source and what is known of it.
LEMMA ChangingFrame ==
  ASSUME ChangingInv, UNCHANGED vars, sourceSize' \in FileSizes,
         OnlyGrew' => OnlyGrew /\ sourceSize' >= sourceSize
  PROVE  ChangingInv'
<1> USE DEF ChangingInv
<1>1. ConservationInv'
  BY ConservationStep DEF vars
<1>2. ControlInv'
  BY ControlStep DEF ConservationInv
<1>3. ReaderHolds' /\ WriterHolds' /\ EndInv'
  BY HoldsStep, EndStep
<1>4. DstInv'
  BY DstTypeStep DEF SourceInv
<1>5. SourceInv'
  <2>1. UNCHANGED <<rpc, readerVars>>
    BY DEF vars
  <2>2. sourceSize \in Nat /\ sourceSize' \in Nat /\ fileSize \in Nat
    BY ToolAssumption DEF SourceInv
  <2>3. OnlyGrew' => sourceSize' >= fileSize' /\ (~readFinished' => streamPos' = currentOffset')
    BY <2>1, <2>2 DEF SourceInv, readerVars
  <2>4. QED
    BY <2>1, <2>3 DEF SourceInv, readerVars
<1>6. QED
  BY <1>1, <1>2, <1>3, <1>4, <1>5

LEMMA ChangingToolStep ==
  ASSUME ChangingInv, ToolStep PROVE ChangingInv'
<1> USE DEF ChangingInv
<1>1. Next /\ ~ReadFills /\ UNCHANGED <<sourceSize, happened>>
  BY ToolStepIsNext
<1>2. ConservationInv'
  BY <1>1, ToolStepIsQueueStep, ConservationStep
<1>3. ControlInv'
  BY <1>1, ControlStep DEF ConservationInv
<1>4. ReaderHolds' /\ WriterHolds' /\ EndInv'
  BY <1>1, HoldsStep, EndStep
<1>5. DstInv'
  BY <1>1, DstTypeStep DEF SourceInv
<1>6. SourceInv'
  <2>1. OnlyGrew' = OnlyGrew
    BY <1>1 DEF OnlyGrew
  <2>2. CASE UNCHANGED <<rpc, readerVars>>
    BY <1>1, <2>1, <2>2 DEF SourceInv, readerVars
  <2>3. CASE CopyStarts \/ ReadTakes
    BY <1>1, <2>1, <2>3 DEF CopyStarts, ReadTakes, readerVars, SourceInv
  <2>4. CASE ReadFinishes \/ ReadNotifies
    BY <1>1, <2>1, <2>4 DEF ReadFinishes, ReadNotifies, readerVars, SourceInv
  <2>5. CASE CopyCloses \/ CopyJoins \/ CopyFlushes \/ MainReturns
    BY <1>1, <2>1, <2>5 DEF SourceInv, readerVars, CopyCloses, CopyJoins, CopyFlushes, MainReturns
  <2>6. QED
    BY <1>1, <2>2, <2>3, <2>4, <2>5 DEF Next, ReaderStep, WriterStep, ReadWaits, ReadReturns,
       WritingChecks, WritingTestsEmpty, WriteWaits, WriteTakes, WriteFwrites, WriteReturns,
       WriteNotifies, Wakes, Terminated, vars
<1>7. QED
  BY <1>2, <1>3, <1>4, <1>5, <1>6

\* Filling a buffer with n bytes, whichever they are: the chunk counts as the
\* bytes expected of it.
LEMMA FillsFacts ==
  ASSUME SourceInv, NEW n \in 0..BUFFER_SIZE, FillsWith(n)
  PROVE  /\ BytesUsed \in 0..BUFFER_SIZE
         /\ streamPos <= currentOffset
         /\ currentOffset' = currentOffset + BytesUsed
         /\ currentOffset' \in 0..fileSize
         /\ OnlyGrew => streamPos = currentOffset /\ BytesUsed <= Available
         /\ [start |-> streamPos, filled |-> n, bytesUsed |-> BytesUsed] \in ContentTypes
         /\ streamPos' \in Nat
         /\ ~readFinished' => streamPos' <= currentOffset'
         /\ OnlyGrew /\ n = Available /\ ~readFinished' => streamPos' = currentOffset'
         /\ readFinished' \in BOOLEAN
         /\ readFinished' => currentOffset' = fileSize
         /\ rpc' = "finishRead" => readFinished'
         /\ rpc' \in {"finishRead", "return"}
<1>1. /\ BUFFER_SIZE \in Nat \ {0} /\ fileSize \in Nat /\ sourceSize \in Nat
      /\ currentOffset \in 0..fileSize /\ ~readFinished
      /\ streamPos \in Nat /\ streamPos <= currentOffset
      /\ OnlyGrew => sourceSize >= fileSize /\ streamPos = currentOffset
  BY ToolAssumption DEF SourceInv, FillsWith
<1>2. /\ BytesUsed \in 0..BUFFER_SIZE /\ NextOffset = currentOffset + BytesUsed
      /\ NextOffset \in 0..fileSize
      /\ NextOffset < fileSize => NextOffset = currentOffset + BUFFER_SIZE
  BY <1>1 DEF BytesUsed, NextOffset
<1>3. OnlyGrew => BytesUsed <= Available
  BY <1>1 DEF BytesUsed, Available
<1>4. OnlyGrew /\ NextOffset < fileSize => Available > 0
  BY <1>1, <1>2 DEF Available
<1>5. [start |-> streamPos, filled |-> n, bytesUsed |-> BytesUsed] \in ContentTypes
  BY <1>1, <1>2 DEF ContentTypes
<1>6. currentOffset' = NextOffset
  BY DEF FillsWith
<1> DEFINE after == IF n > 0 THEN streamPos + 1 ELSE streamPos
<1>7. after \in Nat /\ after <= streamPos + 1 /\ (n > 0 => after = streamPos + 1)
  BY <1>1
<1>8. \/ /\ NextOffset < fileSize /\ streamPos' = after + BUFFER_SIZE - 1
         /\ rpc' = "return" /\ readFinished' = readFinished
      \/ /\ NextOffset >= fileSize /\ streamPos' = after
         /\ readFinished' = TRUE /\ rpc' = "finishRead"
  BY DEF FillsWith, Skips
<1> HIDE DEF after
<1>9. CASE NextOffset < fileSize
  <2>1. streamPos' = after + BUFFER_SIZE - 1 /\ rpc' = "return" /\ readFinished' = readFinished
    BY <1>1, <1>2, <1>8, <1>9
  <2>2. streamPos' \in Nat /\ streamPos' <= currentOffset'
    BY <1>1, <1>2, <1>6, <1>7, <1>9, <2>1
  <2>3. OnlyGrew /\ n = Available => streamPos' = currentOffset'
    BY <1>1, <1>2, <1>4, <1>6, <1>7, <1>9, <2>1
  <2>4. readFinished' = FALSE
    BY <1>1, <2>1 DEF SourceInv
  <2>5. QED
    BY <1>1, <1>2, <1>3, <1>5, <1>6, <2>1, <2>2, <2>3, <2>4
<1>10. CASE NextOffset >= fileSize
  <2>1. streamPos' = after /\ readFinished' = TRUE /\ rpc' = "finishRead"
    BY <1>1, <1>2, <1>8, <1>10
  <2>2. currentOffset' = fileSize
    BY <1>1, <1>2, <1>6, <1>10
  <2>3. QED
    BY <1>1, <1>2, <1>3, <1>5, <1>6, <1>7, <2>1, <2>2
<1>11. QED
  BY <1>1, <1>2, <1>9, <1>10

LEMMA ChangingFills ==
  ASSUME ChangingInv, NEW n \in 0..BUFFER_SIZE, FillsWith(n),
         OnlyGrew' => OnlyGrew /\ n = Available
  PROVE  ChangingInv'
<1> USE DEF ChangingInv
<1>1. /\ UNCHANGED <<queueVars, wpc, fileSize, writerVars, sourceSize>>
      /\ rpc = "fill" /\ rpc' \in {"finishRead", "return"}
      /\ contents' = [contents EXCEPT ![held[Reader]] =
                        [start |-> streamPos, filled |-> n, bytesUsed |-> BytesUsed]]
  BY DEF FillsWith
<1>2. ConservationInv'
  BY <1>1, ConservationStep
<1>3. ControlInv'
  BY <1>1 DEF queueVars, ControlInv, ReaderStates, WriterStates, ReaderCalls, WriterCalls,
     OpenStates, OpenWhileReading, TakersOwnMutex, TakersFind
<1>4. ReaderHolds' /\ WriterHolds'
  BY <1>1 DEF queueVars, ReaderHolds, WriterHolds
<1>5. EndInv' /\ DstInv'
  BY <1>1 DEF queueVars, writerVars, EndInv, DstInv
<1>6. SourceInv'
  <2>1. contents' \in [Buffers -> ContentTypes]
    BY <1>1, FillsFacts DEF SourceInv
  <2>2. OnlyGrew' => sourceSize' >= fileSize' /\ (~readFinished' => streamPos' = currentOffset')
    BY <1>1, FillsFacts DEF SourceInv
  <2>3. QED
    BY <1>1, <2>1, <2>2, FillsFacts DEF SourceInv
<1>7. QED
  BY <1>2, <1>3, <1>4, <1>5, <1>6

-----------------------------------------------------------------------------
(* The chunks under way *)

LEMMA PlacesInit ==
  ASSUME Init PROVE PlacesInv([b \in Buffers |-> 0]) /\ BytesInv
<1> DEFINE pos == [b \in Buffers |-> 0]
<1>1. /\ rpc = "open" /\ wpc = "none" /\ dst = <<>> /\ writeBuffers = <<>> /\ currentOffset = 0
      /\ \A b \in Buffers : contents[b] = [start |-> 0, filled |-> 0, bytesUsed |-> 0]
  BY DEF Init, QueueInit
<1>2. PlacesMeet(pos)
  BY <1>1 DEF PlacesMeet, WriterPlace, ReaderPlace, ReaderHasChunk
<1>3. \A b \in Buffers : ComesFromBefore(pos, b)
  BY <1>1 DEF ComesFromBefore
<1>4. BytesInv
  BY <1>1 DEF BytesInv, NeverAhead, DstIsPrefix
<1>5. QED
  BY <1>2, <1>3, <1>4 DEF PlacesInv

\* A step that moves no chunk.
LEMMA PlacesFrame ==
  ASSUME BytesInv, NEW pos \in [Buffers -> Nat], PlacesInv(pos),
         OnlyGrew' => OnlyGrew,
         UNCHANGED <<dst, contents, currentOffset, writeBuffers>>,
         ReaderHasChunk' <=> ReaderHasChunk,
         ReaderHasChunk => held'[Reader] = held[Reader],
         wpc' = "fwrite" <=> wpc = "fwrite",
         wpc = "fwrite" => held'[Writer] = held[Writer]
  PROVE  BytesInv' /\ PlacesInv(pos)'
<1>1. BytesInv'
  BY DEF BytesInv, NeverAhead, DstIsPrefix
<1>2. PlacesMeet(pos)'
  BY DEF PlacesInv, PlacesMeet, WriterPlace, ReaderPlace, PlaceEnd
<1>3. \A b \in Buffers : ComesFromBefore(pos, b)'
  BY DEF PlacesInv, ComesFromBefore
<1>4. QED
  BY <1>1, <1>2, <1>3 DEF PlacesInv

\* Filling a buffer adds a chunk at the reader's end, at currentOffset.
LEMMA PlacesFills ==
  ASSUME ChangingInv, BytesInv, NEW pos \in [Buffers -> Nat], PlacesInv(pos),
         NEW n \in 0..BUFFER_SIZE, FillsWith(n), OnlyGrew' => OnlyGrew /\ n = Available
  PROVE  BytesInv' /\ \E new \in [Buffers -> Nat] : PlacesInv(new)'
<1>1. PICK b \in Buffers : b = held[Reader]
  BY DEF ChangingInv, ReaderHolds, FillsWith
<1>2. /\ \A i \in DOMAIN writeBuffers : writeBuffers[i] \in Buffers /\ writeBuffers[i] # b
      /\ wpc = "fwrite" => held[Writer] \in Buffers /\ held[Writer] # b
  <2>1. NoBuffer \notin Buffers
    BY DEF Buffers, NoBuffer
  <2>2. writeBuffers \in Seq(Buffers) /\ Reader # Writer /\ Threads = {Reader, Writer}
    BY ToolAssumption DEF ChangingInv, ConservationInv, QueueTypeOK
  <2>3. QED
    BY <1>1, <2>1, <2>2 DEF ChangingInv, ConservationInv, BuffersConserved, NoBufferTwice, WriterHolds
<1>3. /\ BytesUsed \in 0..BUFFER_SIZE /\ BUFFER_SIZE \in Nat
      /\ currentOffset \in Nat /\ currentOffset' = currentOffset + BytesUsed
      /\ streamPos <= currentOffset
      /\ OnlyGrew' => streamPos = currentOffset /\ BytesUsed <= n
  <2>1. /\ BytesUsed \in 0..BUFFER_SIZE /\ currentOffset' = currentOffset + BytesUsed
        /\ streamPos <= currentOffset
        /\ OnlyGrew => streamPos = currentOffset /\ BytesUsed <= Available
    BY FillsFacts DEF ChangingInv
  <2>2. BUFFER_SIZE \in Nat /\ currentOffset \in 0..fileSize /\ fileSize \in Nat
    BY ToolAssumption DEF ChangingInv, SourceInv
  <2>3. QED
    BY <2>1, <2>2
<1>4. /\ contents \in [Buffers -> ContentTypes]
      /\ contents' = [contents EXCEPT ![b] =
                        [start |-> streamPos, filled |-> n, bytesUsed |-> BytesUsed]]
  BY <1>1 DEF ChangingInv, SourceInv, FillsWith
<1>5. /\ UNCHANGED <<dst, writeBuffers, held, wpc>>
      /\ ~ReaderHasChunk /\ ReaderHasChunk'
  BY FillsFacts DEF FillsWith, queueVars, writerVars, ReaderHasChunk, ChangingInv, ControlInv,
     ReaderCalls
<1>6. /\ contents'[b].start = streamPos
      /\ contents'[b].bytesUsed = BytesUsed /\ contents'[b].filled = n
      /\ \A x \in Buffers : x # b => contents'[x] = contents[x]
  BY <1>2, <1>4
<1>7. PICK new \in [Buffers -> Nat] :
        /\ new[b] = currentOffset
        /\ \A x \in Buffers : x # b => new[x] = pos[x]
  <2>1. [pos EXCEPT ![b] = currentOffset] \in [Buffers -> Nat]
    BY <1>3
  <2>2. QED
    BY <1>2, <2>1
<1>8. \A x \in Buffers : ComesFromBefore(new, x)'
  <2>1. ASSUME NEW x \in Buffers, x # b
        PROVE  ComesFromBefore(new, x)'
    BY <1>6, <1>7, <2>1 DEF PlacesInv, ComesFromBefore
  <2>2. ComesFromBefore(new, b)'
    BY <1>3, <1>6, <1>7 DEF ComesFromBefore
  <2>3. QED
    BY <2>1, <2>2
<1>9. \A x \in Buffers : x # b => PlaceEnd(new, x)' = PlaceEnd(pos, x)
  BY <1>6, <1>7 DEF PlaceEnd
<1>10. PlaceEnd(new, b)' = currentOffset'
  BY <1>3, <1>6, <1>7 DEF PlaceEnd
<1>11. WriterPlace(new)' = WriterPlace(pos) /\ ReaderPlace(new)' = ReaderPlace(pos)
  BY <1>1, <1>2, <1>5, <1>7, <1>9 DEF WriterPlace, ReaderPlace
<1>12. writeBuffers # <<>> =>
         /\ new[writeBuffers[1]] = pos[writeBuffers[1]]
         /\ PlaceEnd(new, writeBuffers[Len(writeBuffers)])'
              = PlaceEnd(pos, writeBuffers[Len(writeBuffers)])
  <2>1. writeBuffers # <<>> => 1 \in DOMAIN writeBuffers /\ Len(writeBuffers) \in DOMAIN writeBuffers
    BY DEF ChangingInv, ConservationInv, QueueTypeOK
  <2>2. writeBuffers' = writeBuffers
    BY <1>5
  <2>3. QED
    BY <1>2, <1>7, <1>9, <2>1, <2>2 DEF PlaceEnd
<1>13. \A i, j \in DOMAIN writeBuffers :
         j = i + 1 => new[writeBuffers[j]] = PlaceEnd(new, writeBuffers[i])'
  <2>1. writeBuffers' = writeBuffers
    BY <1>5
  <2>2. QED
    BY <1>2, <1>7, <1>9, <2>1 DEF PlacesInv, PlacesMeet, PlaceEnd
<1>14. PlacesMeet(new)'
  <2>1. wpc' = "fwrite" => new[held'[Writer]] = Len(dst')
    BY <1>2, <1>5, <1>7 DEF PlacesInv, PlacesMeet
  <2>2. ReaderHasChunk' => PlaceEnd(new, held[Reader])' = currentOffset'
    BY <1>1, <1>5, <1>10 DEF PlaceEnd
  <2>3. writeBuffers' = <<>> => WriterPlace(new)' = ReaderPlace(new)'
    BY <1>5, <1>11 DEF PlacesInv, PlacesMeet
  <2>4. writeBuffers' # <<>> =>
          /\ new[writeBuffers'[1]] = WriterPlace(new)'
          /\ PlaceEnd(new, writeBuffers[Len(writeBuffers)])' = ReaderPlace(new)'
    BY <1>5, <1>11, <1>12 DEF PlacesInv, PlacesMeet, PlaceEnd
  <2>5. \A i, j \in DOMAIN writeBuffers' :
          j = i + 1 => new[writeBuffers'[j]] = PlaceEnd(new, writeBuffers[i])'
    BY <1>5, <1>13 DEF PlaceEnd
  <2>6. QED
    BY <2>1, <2>2, <2>3, <2>4, <2>5 DEF PlacesMeet
<1>15. BytesInv'
  BY <1>5 DEF BytesInv, NeverAhead, DstIsPrefix
<1>16. QED
  BY <1>7, <1>8, <1>14, <1>15 DEF PlacesInv

\* Returning it makes it the last chunk in writeBuffers.
LEMMA PlacesReturns ==
  ASSUME ChangingInv, BytesInv, NEW pos \in [Buffers -> Nat], PlacesInv(pos),
         ReadReturns, OnlyGrew' => OnlyGrew
  PROVE  BytesInv' /\ PlacesInv(pos)'
<1> DEFINE b == held[Reader]
           last == Len(writeBuffers)
<1>1. b \in Buffers /\ bufferType[b] = "READ"
  BY DEF ChangingInv, ReaderHolds, ReadReturns, ReturnBuffer
<1>2. writeBuffers \in Seq(Buffers) /\ Reader # Writer /\ Threads = {Reader, Writer}
      /\ qpc \in [Threads -> CallStates] /\ held \in [Threads -> Buffers \cup {NoBuffer}]
  BY ToolAssumption DEF ChangingInv, ConservationInv, QueueTypeOK
<1>3. writeBuffers' = Append(writeBuffers, b)
  BY <1>1 DEF ReadReturns, ReturnBuffer
<1>4. /\ UNCHANGED <<dst, contents, currentOffset, wpc>> /\ held'[Writer] = held[Writer]
      /\ ReaderHasChunk /\ ~ReaderHasChunk'
  BY <1>2 DEF ReadReturns, ReturnBuffer, readerVars, writerVars, ReaderHasChunk
<1>5. /\ writeBuffers' # <<>> /\ last \in Nat
      /\ DOMAIN writeBuffers = 1..last /\ DOMAIN writeBuffers' = 1..last + 1
      /\ \A i \in 1..last : writeBuffers'[i] = writeBuffers[i]
      /\ writeBuffers'[last + 1] = b
      /\ Len(writeBuffers') = last + 1
      /\ writeBuffers = <<>> <=> last = 0
  BY <1>1, <1>2, <1>3, AppendFacts
<1>6. \A x : PlaceEnd(pos, x)' = PlaceEnd(pos, x)
  BY <1>4 DEF PlaceEnd
<1>7. /\ PlaceEnd(pos, b) = currentOffset
      /\ ReaderPlace(pos) = pos[b] /\ ReaderPlace(pos)' = currentOffset
      /\ WriterPlace(pos)' = WriterPlace(pos)
  BY <1>4 DEF PlacesInv, PlacesMeet, ReaderPlace, WriterPlace, PlaceEnd
<1> HIDE DEF b, last
<1>8. ASSUME NEW i \in DOMAIN writeBuffers', NEW j \in DOMAIN writeBuffers', j = i + 1
      PROVE  pos[writeBuffers'[j]] = PlaceEnd(pos, writeBuffers'[i])
  <2>1. CASE j = last + 1
    BY <1>5, <1>7, <1>8, <2>1 DEF PlacesInv, PlacesMeet, last
  <2>2. CASE j # last + 1
    BY <1>5, <1>8, <2>2 DEF PlacesInv, PlacesMeet
  <2>3. QED
    BY <2>1, <2>2
<1>9. pos[writeBuffers'[1]] = WriterPlace(pos)
  BY <1>5, <1>7 DEF PlacesInv, PlacesMeet
<1>10. PlacesMeet(pos)'
  <2>1. \A i, j \in DOMAIN writeBuffers' :
          j = i + 1 => pos[writeBuffers'[j]] = pos[writeBuffers'[i]] + contents'[writeBuffers'[i]].bytesUsed
    BY <1>4, <1>8 DEF PlaceEnd
  <2>2. /\ pos[writeBuffers'[1]] = WriterPlace(pos)'
        /\ pos[writeBuffers'[Len(writeBuffers')]] + contents'[writeBuffers'[Len(writeBuffers')]].bytesUsed
             = ReaderPlace(pos)'
    BY <1>4, <1>5, <1>7, <1>9 DEF PlaceEnd
  <2>3. wpc' = "fwrite" => pos[held'[Writer]] = Len(dst')
    BY <1>4 DEF PlacesInv, PlacesMeet
  <2>4. QED
    BY <1>4, <1>5, <2>1, <2>2, <2>3 DEF PlacesMeet, PlaceEnd
<1>11. QED
  BY <1>4, <1>10 DEF PlacesInv, ComesFromBefore, BytesInv, NeverAhead, DstIsPrefix

\* Getting a filled buffer makes the first chunk the writer's.
LEMMA PlacesTakes ==
  ASSUME ChangingInv, BytesInv, NEW pos \in [Buffers -> Nat], PlacesInv(pos),
         WriteTakes, writeBuffers # <<>>, OnlyGrew' => OnlyGrew
  PROVE  BytesInv' /\ PlacesInv(pos)'
<1> DEFINE last == Len(writeBuffers)
<1>1. /\ last \in Nat \ {0}
      /\ DOMAIN writeBuffers = 1..last /\ DOMAIN writeBuffers' = 1..last - 1
      /\ \A i \in 1..last - 1 : writeBuffers'[i] = writeBuffers[i + 1]
      /\ Len(writeBuffers') = last - 1
      /\ writeBuffers' = <<>> <=> last = 1
      /\ UNCHANGED <<dst, contents, currentOffset, rpc>>
      /\ held'[Reader] = held[Reader] /\ held'[Writer] = writeBuffers[1]
      /\ qpc'[Reader] = qpc[Reader]
      /\ wpc # "fwrite" /\ wpc' = "fwrite"
  BY TakesFirst DEF ChangingInv, ConservationInv
<1>2. /\ pos[writeBuffers[1]] = Len(dst)
      /\ WriterPlace(pos)' = PlaceEnd(pos, writeBuffers[1])
      /\ ReaderPlace(pos)' = ReaderPlace(pos)
      /\ (ReaderHasChunk' <=> ReaderHasChunk)
  BY <1>1 DEF PlacesInv, PlacesMeet, WriterPlace, ReaderPlace, ReaderHasChunk, PlaceEnd
<1> HIDE DEF last
<1>3. ASSUME NEW i \in DOMAIN writeBuffers', NEW j \in DOMAIN writeBuffers', j = i + 1
      PROVE  pos[writeBuffers'[j]] = PlaceEnd(pos, writeBuffers'[i])
  <2>1. i + 1 \in DOMAIN writeBuffers /\ j + 1 \in DOMAIN writeBuffers /\ j + 1 = (i + 1) + 1
    BY <1>1, <1>3
  <2>2. writeBuffers'[i] = writeBuffers[i + 1] /\ writeBuffers'[j] = writeBuffers[j + 1]
    BY <1>1
  <2>3. QED
    BY <2>1, <2>2 DEF PlacesInv, PlacesMeet
<1>4. last # 1 =>
        /\ writeBuffers'[last - 1] = writeBuffers[last]
        /\ pos[writeBuffers'[1]] = PlaceEnd(pos, writeBuffers[1])
  <2> SUFFICES ASSUME last # 1
               PROVE  /\ writeBuffers'[last - 1] = writeBuffers[last]
                      /\ pos[writeBuffers'[1]] = PlaceEnd(pos, writeBuffers[1])
    OBVIOUS
  <2>1. /\ 1 \in DOMAIN writeBuffers /\ 2 \in DOMAIN writeBuffers
        /\ writeBuffers'[1] = writeBuffers[2]
        /\ writeBuffers'[last - 1] = writeBuffers[last]
    BY <1>1
  <2>2. pos[writeBuffers[2]] = PlaceEnd(pos, writeBuffers[1])
    BY <2>1 DEF PlacesInv, PlacesMeet
  <2>3. QED
    BY <2>1, <2>2
<1>5. PlaceEnd(pos, writeBuffers[last]) = ReaderPlace(pos)
  BY DEF PlacesInv, PlacesMeet, last
<1>6. PlacesMeet(pos)'
  <2>1. \A i, j \in DOMAIN writeBuffers' :
          j = i + 1 => pos[writeBuffers'[j]] = PlaceEnd(pos, writeBuffers[i])'
    BY <1>1, <1>3 DEF PlaceEnd
  <2>2. writeBuffers' = <<>> => WriterPlace(pos)' = ReaderPlace(pos)'
    BY <1>1, <1>2, <1>5
  <2>3. writeBuffers' # <<>> => pos[writeBuffers'[1]] = WriterPlace(pos)'
    BY <1>1, <1>2, <1>4
  <2>4. writeBuffers' # <<>> => PlaceEnd(pos, writeBuffers[Len(writeBuffers)])' = ReaderPlace(pos)'
    BY <1>1, <1>2, <1>4, <1>5 DEF PlaceEnd
  <2>5. ReaderHasChunk' => PlaceEnd(pos, held[Reader])' = currentOffset'
    BY <1>1, <1>2 DEF PlacesInv, PlacesMeet, PlaceEnd
  <2>6. pos[held'[Writer]] = Len(dst')
    BY <1>1, <1>2 DEF PlacesInv, PlacesMeet
  <2>7. QED
    BY <2>1, <2>2, <2>3, <2>4, <2>5, <2>6 DEF PlacesMeet
<1>7. QED
  BY <1>1, <1>6 DEF PlacesInv, ComesFromBefore, BytesInv, NeverAhead, DstIsPrefix

\* Writing it makes dst end where the next chunk begins.
LEMMA PlacesWrites ==
  ASSUME ChangingInv, BytesInv, NEW pos \in [Buffers -> Nat], PlacesInv(pos),
         WriteFwrites, ~DiskMayFill, OnlyGrew' => OnlyGrew
  PROVE  BytesInv' /\ PlacesInv(pos)'
<1>1. contents \in [Buffers -> ContentTypes] /\ held[Writer] \in Buffers
  BY DEF ChangingInv, SourceInv, WriterHolds, WriteFwrites
<1>2. PICK c \in ContentTypes : c = contents[held[Writer]]
  BY <1>1
<1>3. /\ c.start \in Nat /\ c.filled \in Nat /\ c.bytesUsed \in Nat /\ Len(dst) \in Nat
      /\ Len(dst') = Len(dst) + c.bytesUsed
      /\ \A i \in 1..Len(dst) : dst'[i] = dst[i]
      /\ \A i \in 1..c.bytesUsed :
           dst'[Len(dst) + i] = IF i <= c.filled THEN c.start + i ELSE Stale
  BY <1>1, <1>2, FwriteAppends DEF ChangingInv
<1>4. /\ UNCHANGED <<contents, currentOffset, held, writeBuffers, rpc, qpc>>
      /\ wpc = "fwrite" /\ wpc' = "return"
  BY DEF WriteFwrites, queueVars, readerVars
<1>5. /\ pos[held[Writer]] = Len(dst)
      /\ c.start <= Len(dst)
      /\ OnlyGrew => c.start = Len(dst) /\ c.bytesUsed <= c.filled
  BY <1>1, <1>2, <1>4 DEF PlacesInv, PlacesMeet, ComesFromBefore
<1>6. ASSUME NEW i \in 1..Len(dst'), i > Len(dst)
      PROVE  dst'[i] <= i /\ (OnlyGrew => dst'[i] = i)
  <2>1. i - Len(dst) \in 1..c.bytesUsed /\ Len(dst) + (i - Len(dst)) = i
    BY <1>3, <1>6
  <2>2. dst'[i] = IF i - Len(dst) <= c.filled THEN c.start + (i - Len(dst)) ELSE Stale
    BY <1>3, <2>1
  <2>3. dst'[i] <= i
    BY <1>3, <1>5, <2>1, <2>2 DEF Stale
  <2>4. ASSUME OnlyGrew PROVE dst'[i] = i
    <3>1. c.start = Len(dst) /\ i - Len(dst) <= c.filled
      BY <1>3, <1>5, <2>1, <2>4
    <3>2. QED
      BY <2>1, <2>2, <3>1
  <2>5. QED
    BY <2>3, <2>4
<1>7. BytesInv'
  <2>1. NeverAhead'
    BY <1>3, <1>6 DEF BytesInv, NeverAhead
  <2>2. OnlyGrew => DstIsPrefix'
    BY <1>3, <1>6 DEF BytesInv, DstIsPrefix
  <2>3. QED
    BY <2>1, <2>2 DEF BytesInv
<1>8. WriterPlace(pos) = Len(dst') /\ WriterPlace(pos)' = Len(dst')
  BY <1>2, <1>3, <1>4, <1>5 DEF WriterPlace, PlaceEnd
<1>9. ReaderPlace(pos)' = ReaderPlace(pos) /\ (ReaderHasChunk' <=> ReaderHasChunk)
  BY <1>4 DEF ReaderPlace, ReaderHasChunk
<1>10. PlacesMeet(pos)'
  BY <1>4, <1>8, <1>9 DEF PlacesInv, PlacesMeet, PlaceEnd
<1>11. QED
  BY <1>4, <1>7, <1>10 DEF PlacesInv, ComesFromBefore

\* Any other step of the tool moves no chunk.
LEMMA PlacesToolStep ==
  ASSUME ~DiskMayFill, ChangingInv, BytesInv, NEW pos \in [Buffers -> Nat], PlacesInv(pos),
         ToolStep
  PROVE  BytesInv' /\ PlacesInv(pos)'
<1>1. /\ Reader # Writer /\ Threads = {Reader, Writer}
      /\ qpc \in [Threads -> CallStates]
      /\ held \in [Threads -> Buffers \cup {NoBuffer}]
  BY ToolAssumption DEF ChangingInv, ConservationInv, QueueTypeOK
<1>2. OnlyGrew' => OnlyGrew
  BY DEF ToolStep, OnlyGrew
<1> USE DEF ReaderHasChunk
<1>3. CASE CopyStarts
  <2>1. UNCHANGED <<dst, contents, currentOffset, writeBuffers, qpc, held>>
    BY <1>3 DEF CopyStarts, Open, SetOpen, readerVars, writerVars
  <2>2. rpc = "open" /\ rpc' = "getFree" /\ wpc = "none" /\ wpc' = "check"
    BY <1>3 DEF CopyStarts, ChangingInv, ControlInv, OpenWhileReading
  <2>3. QED
    BY <1>2, <2>1, <2>2, PlacesFrame
<1>4. CASE ReadWaits
  <2>1. UNCHANGED <<dst, contents, currentOffset, writeBuffers, rpc, wpc, held>> /\ rpc = "getFree"
    BY <1>4 DEF ReadWaits, WaitFree, WaitUntil, readerVars, writerVars
  <2>2. QED
    BY <1>2, <2>1, PlacesFrame
<1>5. CASE ReadTakes
  <2>1. /\ UNCHANGED <<dst, contents, currentOffset, wpc>> /\ rpc = "getFree"
        /\ rpc' \in {"noBuffer", "fill"}
    BY <1>5 DEF ReadTakes, readerVars, writerVars
  <2>2. writeBuffers' = writeBuffers /\ held'[Writer] = held[Writer]
    BY <1>1, <1>5 DEF ReadTakes, TakeFree, GiveNothing, Give
  <2>3. QED
    BY <1>2, <2>1, <2>2, PlacesFrame
<1>6. CASE ReadFinishes
  <2>1. /\ UNCHANGED <<dst, contents, currentOffset, writeBuffers, wpc, held, qpc>>
        /\ rpc = "finishRead" /\ rpc' = "return" /\ qpc[Reader] = "idle"
    BY <1>6 DEF ReadFinishes, FinishRead, readerVars, writerVars
  <2>2. QED
    BY <1>2, <2>1, PlacesFrame
<1>7. CASE ReadNotifies
  <2>1. /\ UNCHANGED <<dst, contents, currentOffset, writeBuffers, wpc, held>>
        /\ rpc = "return" /\ qpc[Reader] = "notify"
        /\ rpc' \in {"close", "getFree"}
    BY <1>7 DEF ReadNotifies, NotifyAll, readerVars, writerVars
  <2>2. QED
    BY <1>2, <2>1, PlacesFrame
<1>8. CASE CopyCloses \/ CopyJoins \/ CopyFlushes \/ MainReturns
  <2>1. /\ UNCHANGED <<dst, contents, currentOffset, writeBuffers, wpc, held, qpc>>
        /\ rpc \in {"close", "join", "flush", "exit"} /\ rpc' \in {"join", "flush", "exit", "exited"}
    BY <1>8 DEF CopyCloses, Close, SetOpen, CopyJoins, CopyFlushes, MainReturns, queueVars,
       readerVars, writerVars
  <2>2. QED
    BY <1>2, <2>1, PlacesFrame
<1>9. CASE WritingChecks \/ WritingTestsEmpty
  <2>1. /\ UNCHANGED <<dst, contents, currentOffset, writeBuffers, rpc, held, qpc>>
        /\ wpc # "fwrite" /\ wpc' # "fwrite"
    BY <1>9 DEF WritingChecks, WritingTestsEmpty, queueVars, readerVars, writerVars
  <2>2. QED
    BY <1>2, <2>1, PlacesFrame
<1>10. CASE WriteWaits
  <2>1. /\ UNCHANGED <<dst, contents, currentOffset, writeBuffers, rpc, wpc, held>>
        /\ qpc'[Reader] = qpc[Reader]
    BY <1>1, <1>10 DEF WriteWaits, WaitFilled, WaitUntil, readerVars, writerVars
  <2>2. QED
    BY <1>2, <2>1, PlacesFrame
<1>11. CASE WriteTakes /\ writeBuffers = <<>>
  <2>1. /\ UNCHANGED <<dst, contents, currentOffset, writeBuffers, rpc, held>>
        /\ qpc'[Reader] = qpc[Reader] /\ held[Writer] = NoBuffer /\ wpc = "getFilled"
    BY <1>1, <1>11 DEF WriteTakes, TakeFilled, GiveNothing, readerVars, writerVars,
       ChangingInv, WriterHolds
  <2>2. wpc' = "check"
    BY <1>11, <2>1 DEF WriteTakes
  <2>3. QED
    BY <1>2, <2>1, <2>2, PlacesFrame
<1>12. CASE WriteReturns
  <2>1. bufferType[held[Writer]] = "WRITE"
    BY <1>12 DEF WriteReturns, ReturnBuffer, ChangingInv, WriterHolds
  <2>2. /\ UNCHANGED <<dst, contents, currentOffset, writeBuffers, rpc, wpc>>
        /\ qpc'[Reader] = qpc[Reader] /\ held'[Reader] = held[Reader] /\ wpc = "return"
    BY <1>1, <1>12, <2>1 DEF WriteReturns, ReturnBuffer, readerVars, writerVars
  <2>3. QED
    BY <1>2, <2>2, PlacesFrame
<1>13. CASE WriteNotifies
  <2>1. /\ UNCHANGED <<dst, contents, currentOffset, writeBuffers, rpc, held>>
        /\ qpc'[Reader] = qpc[Reader] /\ wpc = "return" /\ wpc' = "check"
    BY <1>1, <1>13 DEF WriteNotifies, NotifyAll, readerVars, writerVars
  <2>2. QED
    BY <1>2, <2>1, PlacesFrame
<1>14. ASSUME NEW t \in Threads, Wakes(t)
       PROVE  BytesInv' /\ PlacesInv(pos)'
  <2>1. UNCHANGED <<dst, contents, currentOffset, writeBuffers, rpc, wpc, held, qpc>>
    BY <1>14 DEF Wakes, SpuriousWakeup, readerVars, writerVars
  <2>2. QED
    BY <1>2, <2>1, PlacesFrame
<1>15. CASE Terminated
  <2>1. UNCHANGED <<dst, contents, currentOffset, writeBuffers, rpc, wpc, qpc, held>>
    BY <1>15 DEF Terminated, vars, queueVars, readerVars, writerVars
  <2>2. QED
    BY <1>2, <2>1, PlacesFrame
<1>16. CASE ReadReturns
  BY <1>2, <1>16, PlacesReturns
<1>17. CASE WriteTakes /\ writeBuffers # <<>>
  BY <1>2, <1>17, PlacesTakes
<1>18. CASE WriteFwrites
  BY <1>2, <1>18, PlacesWrites
<1>19. Next /\ ~ReadFills
  BY ToolStepIsNext
<1>20. QED
  BY <1>3, <1>4, <1>5, <1>6, <1>7, <1>8, <1>9, <1>10, <1>11, <1>12, <1>13, <1>14, <1>15,
     <1>16, <1>17, <1>18, <1>19 DEF Next, ReaderStep, WriterStep

-----------------------------------------------------------------------------
(* The whole run *)

CopyChangingInv == ChangingInv /\ ChunksInv

LEMMA AvailableFits == ASSUME SourceInv PROVE Available \in 0..BUFFER_SIZE
<1>1. BUFFER_SIZE \in Nat /\ sourceSize \in Nat /\ streamPos \in Nat
  BY ToolAssumption DEF SourceInv
<1>2. QED
  BY <1>1 DEF Available

LEMMA ChangingStep ==
  ASSUME ~DiskMayFill, CopyChangingInv, [ChangingNext]_changingVars PROVE CopyChangingInv'
<1>1. PICK pos \in [Buffers -> Nat] : PlacesInv(pos)
  BY DEF CopyChangingInv, ChunksInv
<1>2. ChangingInv /\ BytesInv
  BY DEF CopyChangingInv, ChunksInv
<1>3. sourceSize \in Nat /\ sourceSize \in FileSizes /\ FileSizes \in SUBSET Nat
      /\ BUFFER_SIZE \in Nat
  BY <1>2, ToolAssumption DEF ChangingInv, SourceInv
\* A step of the world outside.
<1>4. ASSUME UNCHANGED vars, sourceSize' \in FileSizes,
             OnlyGrew' => OnlyGrew /\ sourceSize' >= sourceSize
      PROVE  CopyChangingInv'
  <2>1. ChangingInv'
    BY <1>2, <1>4, ChangingFrame
  <2>2. UNCHANGED <<dst, contents, currentOffset, writeBuffers, rpc, wpc, qpc, held>>
    BY <1>4 DEF vars, queueVars, readerVars, writerVars
  <2>3. BytesInv' /\ PlacesInv(pos)'
    BY <1>1, <1>2, <1>4, <2>2, PlacesFrame DEF ReaderHasChunk
  <2>4. QED
    BY <2>1, <2>3 DEF CopyChangingInv, ChunksInv
<1>5. ASSUME NEW n \in 0..BUFFER_SIZE, FillsWith(n), OnlyGrew' => OnlyGrew /\ n = Available
      PROVE  CopyChangingInv'
  <2>1. ChangingInv'
    BY <1>2, <1>5, ChangingFills
  <2>2. BytesInv' /\ \E new \in [Buffers -> Nat] : PlacesInv(new)'
    BY <1>1, <1>2, <1>5, PlacesFills
  <2>3. QED
    BY <2>1, <2>2 DEF CopyChangingInv, ChunksInv
<1>6. CASE UNCHANGED changingVars
  BY <1>3, <1>4, <1>6 DEF changingVars, OnlyGrew
<1>7. CASE ToolStep
  <2>1. ChangingInv'
    BY <1>2, <1>7, ChangingToolStep
  <2>2. BytesInv' /\ PlacesInv(pos)'
    BY <1>1, <1>2, <1>7, PlacesToolStep
  <2>3. QED
    BY <2>1, <2>2 DEF CopyChangingInv, ChunksInv
<1>8. CASE ReadFillsNow
  BY <1>2, <1>5, <1>8, AvailableFits DEF ReadFillsNow, OnlyGrew, ChangingInv
<1>9. CASE ReadFails
  BY <1>3, <1>5, <1>9 DEF ReadFails, OnlyGrew
<1>10. CASE SourceGrows
  BY <1>3, <1>4, <1>10 DEF SourceGrows, OnlyGrew
<1>11. CASE SourceShrinks
  BY <1>3, <1>4, <1>11 DEF SourceShrinks, OnlyGrew
<1>12. QED
  BY <1>6, <1>7, <1>8, <1>9, <1>10, <1>11 DEF ChangingNext

LEMMA ChangingInvariant == ~DiskMayFill /\ ChangingSpec => []CopyChangingInv
<1>1. ChangingInit => CopyChangingInv
  <2> SUFFICES ASSUME ChangingInit
               PROVE  CopyChangingInv
    OBVIOUS
  <2>1. Init /\ sourceSize = fileSize /\ happened = {}
    BY DEF ChangingInit
  <2>2. ControlInv /\ ConservationInv /\ ReadInv /\ EndInv /\ DstInv
    BY <2>1, ControlInit, ConservationInit, ReadInit, EndInit, DstInit DEF Init
  <2>3. SourceInv
    <3>1. StreamInv /\ ~readFinished
      BY <2>1, <2>2 DEF ReadInv, Init
    <3>2. fileSize \in Nat /\ streamPos = currentOffset /\ streamPos \in Nat
      BY <3>1, ToolAssumption DEF StreamInv, OffsetsInv
    <3>3. QED
      BY <2>1, <3>1, <3>2 DEF StreamInv, OffsetsInv, SourceInv
  <2>4. BytesInv /\ PlacesInv([b \in Buffers |-> 0])
    BY <2>1, PlacesInit
  <2>5. [b \in Buffers |-> 0] \in [Buffers -> Nat]
    OBVIOUS
  <2>6. QED
    BY <2>2, <2>3, <2>4, <2>5 DEF CopyChangingInv, ChangingInv, ReadInv, ChunksInv
<1>2. ~DiskMayFill /\ CopyChangingInv /\ [ChangingNext]_changingVars => CopyChangingInv'
  BY ChangingStep
<1>3. (~DiskMayFill) => [](~DiskMayFill)
  OBVIOUS
<1>4. QED
  BY <1>1, <1>2, <1>3, PTL DEF ChangingSpec

\* Once the process has ended, what is in the file is what the reader was to
\* read, and all of it is flushed.
LEMMA ExitedFacts ==
  ASSUME ~DiskMayFill, CopyChangingInv, rpc = "exited"
  PROVE  flushed = fileSize /\ Len(dst) = fileSize
<1>1. wpc = "done" /\ writeBuffers = <<>> /\ flushed = Len(dst) /\ currentOffset = fileSize
  BY DEF CopyChangingInv, ChangingInv, EndInv, SourceInv
<1>2. PICK pos \in [Buffers -> Nat] : PlacesMeet(pos)
  BY DEF CopyChangingInv, ChunksInv, PlacesInv
<1>3. Len(dst) = currentOffset
  BY <1>1, <1>2 DEF PlacesMeet, WriterPlace, ReaderPlace, ReaderHasChunk
<1>4. QED
  BY <1>1, <1>3

\* Whatever happens to the source during the copy, the destination ends up as
\* long as the source was when the reader took its size.
THEOREM SizeOfTheStart == ~DiskMayFill /\ ChangingSpec => []SizeIsTaken
<1>1. ~DiskMayFill /\ CopyChangingInv => SizeIsTaken
  <2> SUFFICES ASSUME ~DiskMayFill, CopyChangingInv, rpc = "exited"
               PROVE  Len(File) = fileSize
    BY DEF SizeIsTaken
  <2>1. flushed = Len(dst) /\ Len(dst) = fileSize /\ dst \in Seq(Nat)
    BY ExitedFacts DEF CopyChangingInv, ChangingInv, DstInv
  <2>2. File = dst
    BY <2>1, SubSeqFull DEF File
  <2>3. QED
    BY <2>1, <2>2
<1>2. (~DiskMayFill) => [](~DiskMayFill)
  OBVIOUS
<1>3. QED
  BY <1>1, <1>2, ChangingInvariant, PTL

\* No byte of the destination comes from further on in the source than its own
\* place: a failed read makes the stream lag behind the reader's count of what
\* it has read, and nothing makes it lead.
THEOREM NeverRunsAhead == ~DiskMayFill /\ ChangingSpec => []NeverAhead
<1>1. CopyChangingInv => NeverAhead
  BY DEF CopyChangingInv, ChunksInv, BytesInv
<1>2. QED
  BY <1>1, ChangingInvariant, PTL

\* A source that only grows is copied as it was at first, byte for byte.
THEOREM GrowthIsHarmless == ~DiskMayFill /\ ChangingSpec => []GrowingSourceIsCopied
<1>1. ~DiskMayFill /\ CopyChangingInv => GrowingSourceIsCopied
  <2> SUFFICES ASSUME ~DiskMayFill, CopyChangingInv, OnlyGrew
               PROVE  /\ DstIsPrefix
                      /\ rpc = "exited" => File = [i \in 1..fileSize |-> i]
    BY DEF GrowingSourceIsCopied, OnlyGrew
  <2>1. DstIsPrefix /\ DstInv
    BY DEF CopyChangingInv, ChunksInv, BytesInv, ChangingInv
  <2>2. File = Abstract!Source(flushed)
    BY <2>1, FileFacts
  <2>3. rpc = "exited" => flushed = fileSize
    BY ExitedFacts
  <2>4. QED
    BY <2>1, <2>2, <2>3 DEF Abstract!Source
<1>2. (~DiskMayFill) => [](~DiskMayFill)
  OBVIOUS
<1>3. QED
  BY <1>1, <1>2, ChangingInvariant, PTL

=============================================================================
