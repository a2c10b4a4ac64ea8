---------------------------- MODULE ChangingSource ----------------------------
(***************************************************************************)
(* BPCopyTool with a source that does not keep still: another program      *)
(* appends to it or truncates it during the copy, or a read of it fails.   *)
(* BufferedReader takes the size once, in its constructor                  *)
(* (BufferedFileReader.hpp:27), and ignores the result of fgetc (line 69). *)
(* Only the step that reads from the file differs from BPCopyTool.         *)
(***************************************************************************)
EXTENDS BPCopyTool

CONSTANT Troubles       \* what may happen to the source

ASSUME TroublesAssumption == Troubles \subseteq {"grows", "shrinks", "readError"}

VARIABLES
  sourceSize,           \* the size of the source by now
  happened              \* what has happened to it

changingVars == <<vars, sourceSize, happened>>

ChangingInit ==
  /\ Init
  /\ sourceSize = fileSize
  /\ happened = {}

\* What one read of a buffer's size gives at the stream's position.
Available ==
  IF streamPos >= sourceSize THEN 0
  ELSE IF streamPos + BUFFER_SIZE <= sourceSize THEN BUFFER_SIZE
  ELSE sourceSize - streamPos

\* Mutant: fseek by a whole buffer.
SkipsTooFar(pos) == pos + BUFFER_SIZE

\* fseek over the rest of the chunk, from where fgetc has left the stream.
Skips(pos) == pos + BUFFER_SIZE - 1

\* The rest of read(), as in ReadFills, with as many bytes as there are: fgetc
\* moves on by one only if it gets a byte.
FillsWith(n) ==
  /\ rpc = "fill"
  /\ contents' = [contents EXCEPT ![held[Reader]] =
                    [start |-> streamPos, filled |-> n, bytesUsed |-> BytesUsed]]
  /\ currentOffset' = NextOffset
  /\ LET afterFgetc == IF n > 0 THEN streamPos + 1 ELSE streamPos
     IN \/ /\ NextOffset < fileSize
           /\ streamPos' = Skips(afterFgetc)
           /\ rpc' = "return"
           /\ UNCHANGED readFinished
        \/ /\ NextOffset >= fileSize
           /\ streamPos' = afterFgetc
           /\ readFinished' = TRUE
           /\ rpc' = "finishRead"
  /\ UNCHANGED <<queueVars, wpc, fileSize, writerVars, sourceSize>>

ReadFillsNow == FillsWith(Available) /\ UNCHANGED happened

ReadFails ==
  /\ "readError" \in Troubles
  /\ FillsWith(0)
  /\ happened' = happened \cup {"readError"}

SourceGrows ==
  /\ "grows" \in Troubles
  /\ \E size \in FileSizes : size > sourceSize /\ sourceSize' = size
  /\ happened' = happened \cup {"grows"}
  /\ UNCHANGED vars

SourceShrinks ==
  /\ "shrinks" \in Troubles
  /\ \E size \in FileSizes : size < sourceSize /\ sourceSize' = size
  /\ happened' = happened \cup {"shrinks"}
  /\ UNCHANGED vars

ToolStep ==
  /\ \/ rpc # "fill" /\ ReaderStep
     \/ WriterStep
     \/ \E t \in Threads : Wakes(t)
     \/ Terminated
  /\ UNCHANGED <<sourceSize, happened>>

ChangingNext == ToolStep \/ ReadFillsNow \/ ReadFails \/ SourceGrows \/ SourceShrinks

ChangingSpec == ChangingInit /\ [][ChangingNext]_changingVars

-----------------------------------------------------------------------------
(* Properties *)

\* Appending to the source during the copy does no harm: what is written is a
\* prefix of the source, and with exit status 0 it is what was there when the
\* reader was constructed.
GrowingSourceIsCopied ==
  happened \subseteq {"grows"} =>
    /\ DstIsPrefix
    /\ rpc = "exited" => File = [i \in 1..fileSize |-> i]

\* Whatever happens to the source, the destination ends up with the size the
\* source had at first: every chunk counts as the bytes expected of it.
SizeIsTaken == rpc = "exited" => Len(File) = fileSize

\* Nor does a byte ever come from further ahead in the source than its place
\* in the destination: after a failed read the stream lags, and never leads.
NeverAhead == \A i \in 1..Len(dst) : dst[i] <= i

\* What the comment on read() says (BufferedFileReader.hpp:46): it reads a
\* chunk from the file and stores that in the queue, not what the buffer had
\* before.
WritesOnlyRead == \A i \in 1..Len(dst) : dst[i] # Stale

=============================================================================
