------------------------------ MODULE IPCSession ------------------------------
(***************************************************************************)
(* Any number of processes of the ipc tool with one name of a shared       *)
(* memory object and one destination, from main() to exit: who creates the *)
(* segment and what is in it when the next one opens it                    *)
(* (src/IPC/SharedMemoryManager.cpp), which role each one takes            *)
(* (createTool in src/common/PseudoToolFactory.hpp), how it is counted in  *)
(* and out and who removes the segment (src/common/IPCTool.hpp).           *)
(*                                                                         *)
(* A segment is named by the process that created it; shm is the one that  *)
(* the name stands for.  A removed segment lives on in the processes that  *)
(* have mapped it, and the name is then free for another.                  *)
(*                                                                         *)
(* The copy is taken from IPCCopy, coarser: a chunk is read, or written,   *)
(* in one step, and who sleeps where is left out, so this module is about  *)
(* safety alone.  Only where the two loads of isOpen in getFilledBuffer    *)
(* may differ are they two steps, with the queue's mutex held in between.  *)
(* An observer has two steps as well: it finds the counter it watches at   *)
(* zero and decides to give up, and later it does.                         *)
(***************************************************************************)
EXTENDS Naturals, Sequences, FiniteSets

CONSTANTS
  Processes,          \* the processes somebody launches
  NoSegment,          \* no segment, or none mapped yet
  Chunks,             \* so many chunks are read: one even of an empty source
  BUFFERS_IN_QUEUE,   \* a queue holds that many
  WithoutSource,      \* the processes launched without --src
  LosesSource,        \* the processes whose source may vanish before copy()
  Observed,           \* do the observers give up
  Killable            \* the processes that may be killed

ASSUME SessionAssumption ==
  /\ IsFiniteSet(Processes)
  /\ NoSegment \notin Processes
  /\ Chunks \in Nat \ {0}
  /\ BUFFERS_IN_QUEUE \in Nat \ {0}
  /\ Observed \in BOOLEAN
  /\ WithoutSource \subseteq Processes
  /\ LosesSource \subseteq Processes
  /\ Killable \subseteq Processes

VARIABLES
  shm,                \* the segment that has the name
  segment,            \* what is in every segment
  process,            \* where every process stands and what it has
  file                \* the chunks in the destination file

sessionVars == <<shm, segment, process, file>>

Roles == {"Reader", "Writer"}
Other(role) == IF role = "Reader" THEN "Writer" ELSE "Reader"

\* A chunk of the file that was skipped over, never written.
Hole == 0
Source == [i \in 1..Chunks |-> i]

(***************************************************************************)
(* "crashed": a null pointer was used; the language gives it no meaning,   *)
(* the program dies of it.  "undefined": neither has the first element of  *)
(* an empty deque a meaning; the queue's mutex stays taken.  "failed":     *)
(* exit with an exception or status 1.  "dead": killed, or terminated by   *)
(* the timeout.                                                            *)
(***************************************************************************)
Setup == {"open", "procInfo", "queue", "fill", "choose", "register"}
InCopy == {"openQueue", "read", "close", "await", "create", "signal", "write", "take"}
Cleanup == {"leave", "check", "checkReaders", "remove", "flush"}
Ended == {"exited", "failed", "crashed", "undefined", "dead"}

EmptySegment ==
  [procInfo |-> FALSE, queue |-> FALSE,             \* constructed
   lost |-> FALSE,                                  \* ProcInfo::mutex stays taken
   dst |-> FALSE, started |-> FALSE,                \* ProcInfo
   count |-> [r \in Roles |-> 0],
   isOpen |-> FALSE, readFinished |-> FALSE, filled |-> <<>>]     \* the queue

NewProcess ==
  [pc |-> "none", calm |-> FALSE, segment |-> NoSegment, first |-> FALSE,
   queue |-> FALSE, dst |-> FALSE, role |-> "Invalid", alone |-> FALSE, next |-> 1, position |-> 0, stream |-> <<>>, status |-> 0]

SessionInit ==
  /\ shm = NoSegment
  /\ segment = [s \in Processes |-> EmptySegment]
  /\ process = [p \in Processes |-> NewProcess]
  /\ file = <<>>

At(p, pc) == process[p].pc = pc
Mine(p) == segment[process[p].segment]

Goto(p, pc) == process' = [process EXCEPT ![p].pc = pc]

\* A section under ProcInfo::mutex, which is one step.
Locks(p) == ~Mine(p).lost

\* The same of the queue's mutex: nobody is between the two loads of isOpen, or
\* has gone on from there into the undefined.
LocksQueue(p) ==
  \A q \in Processes : process[q].segment = process[p].segment
                        => process[q].pc \notin {"take", "undefined"}

-----------------------------------------------------------------------------
(* SharedMemoryManager's constructor and getQueue *)

\* Whether all the others are either in copy(), with the queue open if they are
\* to read, or gone, or not yet there; a process remembers that it was launched
\* at such a time.
Calm == \A q \in Processes :
          process[q].pc \in {"none"} \cup (InCopy \ {"openQueue"}) \cup Ended

CreatesSegment(p) ==
  /\ At(p, "none")
  /\ shm = NoSegment
  /\ shm' = p
  /\ process' = [process EXCEPT ![p].pc = "procInfo", ![p].calm = Calm,
                                ![p].first = TRUE, ![p].segment = p]
  /\ UNCHANGED <<segment, file>>

FindsNameTaken(p) ==
  /\ At(p, "none")
  /\ shm # NoSegment
  /\ process' = [process EXCEPT ![p].pc = "open", ![p].calm = Calm]
  /\ UNCHANGED <<shm, segment, file>>

\* open_only throws if the segment has gone in the meantime, and nobody
\* catches; find() gives null if ProcInfo is not there yet.
OpensSegment(p) ==
  /\ At(p, "open")
  /\ \/ /\ shm = NoSegment
        /\ Goto(p, "failed")
     \/ /\ shm # NoSegment
        /\ process' = [process EXCEPT
             ![p].pc = IF segment[shm].procInfo THEN "queue" ELSE "crashed",
             ![p].segment = shm]
  /\ UNCHANGED <<shm, segment, file>>

ConstructsProcInfo(p) ==
  /\ At(p, "procInfo")
  /\ segment' = [segment EXCEPT ![p].procInfo = TRUE]
  /\ Goto(p, "queue")
  /\ UNCHANGED <<shm, file>>

\* The first process constructs the queue, another one finds it, or null.
GetsQueue(p) ==
  /\ At(p, "queue")
  /\ \/ /\ process[p].first
        /\ segment' = [segment EXCEPT ![p].queue = TRUE]
        /\ process' = [process EXCEPT ![p].pc = "fill", ![p].queue = TRUE]
     \/ /\ ~process[p].first
        /\ process' = [process EXCEPT ![p].pc = "choose", ![p].queue = Mine(p).queue]
        /\ UNCHANGED segment
  /\ UNCHANGED <<shm, file>>

-----------------------------------------------------------------------------
(* createTool and IPCTool's constructor *)

\* The first process leaves the name of the destination for the writer.
FillsProcInfo(p) ==
  /\ At(p, "fill")
  /\ Locks(p)
  /\ segment' = [segment EXCEPT ![p].dst = TRUE, ![p].started = FALSE]
  /\ Goto(p, "choose")
  /\ UNCHANGED <<shm, file>>

\* Who finds as many readers as writers is to be a reader.
ShouldRead(p) == Mine(p).count["Reader"] <= Mine(p).count["Writer"]

\* The size of a source that was not named cannot be had: an exception, with
\* the mutex taken and no handler installed, so nothing is unwound.
ChoosesReader(p) ==
  /\ At(p, "choose")
  /\ Locks(p)
  /\ ShouldRead(p)
  /\ \/ /\ p \notin WithoutSource
        /\ process' = [process EXCEPT ![p].pc = "register", ![p].role = "Reader"]
        /\ UNCHANGED segment
     \/ /\ p \in WithoutSource
        /\ segment' = [segment EXCEPT ![process[p].segment].lost = TRUE]
        /\ Goto(p, "failed")
  /\ UNCHANGED <<shm, file>>

\* The writer's destination is the one in ProcInfo, if it is there yet.
ChoosesWriter(p) ==
  /\ At(p, "choose")
  /\ Locks(p)
  /\ ~ShouldRead(p)
  /\ process' = [process EXCEPT ![p].pc = "register", ![p].role = "Writer",
                                ![p].dst = Mine(p).dst]
  /\ UNCHANGED <<shm, segment, file>>

\* Mutant: the counter is not looked at again.
RegistersUnasked(p) ==
  /\ At(p, "register")
  /\ Locks(p)
  /\ segment' = [segment EXCEPT ![process[p].segment].count[process[p].role] = @ + 1]
  /\ Goto(p, IF process[p].role = "Reader" THEN "openQueue" ELSE "create")
  /\ UNCHANGED <<shm, file>>

\* A process that finds its role taken is Invalid: it copies nothing.
Registers(p) ==
  /\ At(p, "register")
  /\ Locks(p)
  /\ LET role == process[p].role
     IN \/ /\ Mine(p).count[role] # 0
           /\ process' = [process EXCEPT ![p].role = "Invalid", ![p].pc = "leave"]
           /\ UNCHANGED segment
        \/ /\ Mine(p).count[role] = 0
           /\ segment' = [segment EXCEPT ![process[p].segment].count[role] = @ + 1]
           /\ Goto(p, IF role = "Reader" THEN "openQueue" ELSE "create")
  /\ UNCHANGED <<shm, file>>

-----------------------------------------------------------------------------
(* copy() of the reader *)

\* The queue of a segment is the one object that may be null here.
UsesNullQueue(p) ==
  /\ At(p, "openQueue") \/ At(p, "write")
  /\ ~process[p].queue
  /\ Goto(p, "crashed")
  /\ UNCHANGED <<shm, segment, file>>

\* The source is opened next.  The exception that tells of its loss ends copy(),
\* as that of CreatesFile does: the queue stays open.
OpensQueue(p) ==
  /\ At(p, "openQueue")
  /\ process[p].queue
  /\ segment' = [segment EXCEPT ![process[p].segment].isOpen = TRUE]
  /\ \/ Goto(p, "read")
     \/ /\ p \in LosesSource
        /\ process' = [process EXCEPT ![p].pc = "leave", ![p].status = 1]
  /\ UNCHANGED <<shm, file>>

Reads(p) ==
  /\ At(p, "read")
  /\ LocksQueue(p)
  /\ Len(Mine(p).filled) < BUFFERS_IN_QUEUE
  /\ LET chunk == process[p].next
     IN /\ segment' = [segment EXCEPT
             ![process[p].segment].filled = Append(@, chunk),
             ![process[p].segment].readFinished = @ \/ chunk = Chunks]
        /\ process' = [process EXCEPT ![p].next = @ + 1,
                                      ![p].pc = IF chunk = Chunks THEN "close" ELSE @]
  /\ UNCHANGED <<shm, file>>

ClosesQueue(p) ==
  /\ At(p, "close")
  /\ segment' = [segment EXCEPT ![process[p].segment].isOpen = FALSE]
  /\ Goto(p, "await")
  /\ UNCHANGED <<shm, file>>

\* Mutant: the reader does not wait for the writer.
AwaitsNobody(p) ==
  /\ At(p, "await")
  /\ Goto(p, "leave")
  /\ UNCHANGED <<shm, segment, file>>

\* The destructor of an observer that has decided to give up does not return.
AwaitsWriter(p) ==
  /\ At(p, "await")
  /\ ~process[p].alone
  /\ Locks(p)
  /\ Mine(p).started
  /\ Goto(p, "leave")
  /\ UNCHANGED <<shm, segment, file>>

-----------------------------------------------------------------------------
(* copy() of the writer *)

\* fopen(..., "wb") empties the file, whoever wrote it; the empty name is
\* refused, the exception ends copy(), and main() destroys the tool.
CreatesFile(p) ==
  /\ At(p, "create")
  /\ \/ /\ process[p].dst
        /\ file' = <<>>
        /\ Goto(p, "signal")
     \/ /\ ~process[p].dst
        /\ process' = [process EXCEPT ![p].pc = "leave", ![p].status = 1]
        /\ UNCHANGED file
  /\ UNCHANGED <<shm, segment>>

SignalsStart(p) ==
  /\ At(p, "signal")
  /\ Locks(p)
  /\ segment' = [segment EXCEPT ![process[p].segment].started = TRUE]
  /\ Goto(p, "write")
  /\ UNCHANGED <<shm, file>>

\* Writing chunks into the file at a position, over what is there, or after
\* a hole if another process has emptied the file.
Overwrite(f, position, chunks) ==
  LET end == position + Len(chunks)
  IN [i \in 1..(IF Len(f) > end THEN Len(f) ELSE end) |->
        IF i \in position + 1 .. end THEN chunks[i - position]
        ELSE IF i <= Len(f) THEN f[i] ELSE Hole]

\* A chunk goes through stdio's buffer, which may keep it until fclose.
Writes(p) ==
  /\ At(p, "write")
  /\ process[p].queue
  /\ LocksQueue(p)
  /\ Mine(p).filled # <<>>
  /\ segment' = [segment EXCEPT ![process[p].segment].filled = Tail(@)]
  /\ LET stream == Append(process[p].stream, Head(Mine(p).filled))
     IN \/ /\ process' = [process EXCEPT ![p].stream = stream]
           /\ UNCHANGED file
        \/ /\ process' = [process EXCEPT ![p].stream = <<>>, ![p].position = @ + Len(stream)]
           /\ file' = Overwrite(file, process[p].position, stream)
  /\ UNCHANGED shm

\* A closed queue without a chunk ends the wait of getFilledBuffer ...
PassesWait(p) ==
  /\ At(p, "write")
  /\ process[p].queue
  /\ LocksQueue(p)
  /\ Mine(p).filled = <<>>
  /\ ~Mine(p).isOpen
  /\ Goto(p, "take")
  /\ UNCHANGED <<shm, segment, file>>

\* ... and isOpen is loaded again.
TakesNothing(p) ==
  /\ At(p, "take")
  /\ Goto(p, IF Mine(p).isOpen THEN "undefined" ELSE "write")
  /\ UNCHANGED <<shm, segment, file>>

\* isReadFinished() && isEmpty().
StopsWriting(p) ==
  /\ At(p, "write")
  /\ process[p].queue
  /\ LocksQueue(p)
  /\ Mine(p).readFinished
  /\ Mine(p).filled = <<>>
  /\ ~Mine(p).isOpen
  /\ Goto(p, "leave")
  /\ UNCHANGED <<shm, segment, file>>

-----------------------------------------------------------------------------
(* ~IPCTool, ~SharedMemoryManager, ~BufferedFileWriter *)

\* Mutant: the destructor counts nobody out.
LeavesUncounted(p) ==
  /\ At(p, "leave")
  /\ Locks(p)
  /\ Goto(p, "check")
  /\ UNCHANGED <<shm, segment, file>>

\* Mutant: whoever leaves is counted out as a reader.
LeavesAsReader(p) ==
  /\ At(p, "leave")
  /\ Locks(p)
  /\ segment' = [segment EXCEPT ![process[p].segment].count["Reader"] = @ - 1]
  /\ Goto(p, "check")
  /\ UNCHANGED <<shm, file>>

Leaves(p) ==
  /\ At(p, "leave")
  /\ Locks(p)
  /\ segment' = [segment EXCEPT ![process[p].segment].count =
                   [r \in Roles |-> IF r = process[p].role THEN @[r] - 1 ELSE @[r]]]
  /\ Goto(p, "check")
  /\ UNCHANGED <<shm, file>>

\* The two counters are read one after the other and without the mutex.
ChecksWriters(p) ==
  /\ At(p, "check")
  /\ Goto(p, IF Mine(p).count["Writer"] = 0 THEN "checkReaders" ELSE "flush")
  /\ UNCHANGED <<shm, segment, file>>

\* Mutant: the second counter is not tested.
ChecksNoReaders(p) ==
  /\ At(p, "checkReaders")
  /\ Goto(p, "remove")
  /\ UNCHANGED <<shm, segment, file>>

ChecksReaders(p) ==
  /\ At(p, "checkReaders")
  /\ Goto(p, IF Mine(p).count["Reader"] = 0 THEN "remove" ELSE "flush")
  /\ UNCHANGED <<shm, segment, file>>

\* What is removed is whatever has the name by now.
RemovesSegment(p) ==
  /\ At(p, "remove")
  /\ shm' = NoSegment
  /\ Goto(p, "flush")
  /\ UNCHANGED <<segment, file>>

ClosesFile(p) ==
  /\ At(p, "flush")
  /\ file' = IF process[p].stream = <<>> THEN file
             ELSE Overwrite(file, process[p].position, process[p].stream)
  /\ process' = [process EXCEPT ![p].stream = <<>>,
                   ![p].pc = IF process[p].status = 0 THEN "exited" ELSE "failed"]
  /\ UNCHANGED <<shm, segment>>

-----------------------------------------------------------------------------
(* Timeouts and kills *)

Watches(p) == process[p].pc \in {"read", "close", "await", "write", "take"}

\* The observer has seen nobody for its time: timeout() is next.
SeesNobody(p) ==
  /\ Observed
  /\ Watches(p)
  /\ process[p].queue
  /\ Locks(p)
  /\ Mine(p).count[Other(process[p].role)] = 0
  /\ process' = [process EXCEPT ![p].alone = TRUE]
  /\ UNCHANGED <<shm, segment, file>>

\* timeout() does not look at the counter again: the name is removed and the
\* process dies, counted out or not, with its chunks flushed or not.
TimesOut(p) ==
  /\ process[p].alone
  /\ Watches(p)
  /\ process[p].role = "Reader" \/ (LocksQueue(p) /\ ~Mine(p).readFinished)
  /\ shm' = NoSegment
  /\ \/ UNCHANGED segment
     \/ /\ Locks(p)
        /\ segment' = [segment EXCEPT ![process[p].segment].count[process[p].role] = @ - 1]
  /\ \/ UNCHANGED file
     \/ /\ process[p].stream # <<>>
        /\ file' = Overwrite(file, process[p].position, process[p].stream)
  /\ Goto(p, "dead")

\* Between two sections; IPCCopy has the kill inside one.
Dies(p) ==
  /\ p \in Killable
  /\ process[p].pc \in Setup \cup (InCopy \ {"take"}) \cup Cleanup
  /\ Goto(p, "dead")
  /\ UNCHANGED <<shm, segment, file>>

-----------------------------------------------------------------------------

SetsUp(p) ==
  \/ CreatesSegment(p)
  \/ FindsNameTaken(p)
  \/ OpensSegment(p)
  \/ ConstructsProcInfo(p)
  \/ GetsQueue(p)
  \/ FillsProcInfo(p)
  \/ ChoosesReader(p)
  \/ ChoosesWriter(p)
  \/ Registers(p)

Copies(p) ==
  \/ UsesNullQueue(p)
  \/ OpensQueue(p)
  \/ Reads(p)
  \/ ClosesQueue(p)
  \/ AwaitsWriter(p)
  \/ CreatesFile(p)
  \/ SignalsStart(p)
  \/ Writes(p)
  \/ PassesWait(p)
  \/ TakesNothing(p)
  \/ StopsWriting(p)

CleansUp(p) ==
  \/ Leaves(p)
  \/ ChecksWriters(p)
  \/ ChecksReaders(p)
  \/ RemovesSegment(p)
  \/ ClosesFile(p)

\* The processes that were launched, and whether all of them have gone.
Launched == {p \in Processes : ~At(p, "none")}
AllEnded == \A p \in Launched : process[p].pc \in Ended

SessionNext ==
  \/ \E p \in Processes :
       \/ SetsUp(p)
       \/ Copies(p)
       \/ CleansUp(p)
       \/ SeesNobody(p)
       \/ TimesOut(p)
       \/ Dies(p)
  \/ AllEnded /\ UNCHANGED sessionVars

SessionSpec == SessionInit /\ [][SessionNext]_sessionVars

-----------------------------------------------------------------------------
(* Properties *)

\* Type invariant of segments, processes and the file.
SegmentTypes ==
  [procInfo : BOOLEAN, queue : BOOLEAN, lost : BOOLEAN, dst : BOOLEAN, started : BOOLEAN,
   count : [Roles -> Nat], isOpen : BOOLEAN, readFinished : BOOLEAN,
   filled : Seq(1..Chunks)]

ProcessTypes ==
  [pc : {"none"} \cup Setup \cup InCopy \cup Cleanup \cup Ended,
   calm : BOOLEAN, segment : Processes \cup {NoSegment}, first : BOOLEAN,
   queue : BOOLEAN, dst : BOOLEAN, role : Roles \cup {"Invalid"}, alone : BOOLEAN,
   next : 1..Chunks + 1, position : Nat,
   stream : Seq(1..Chunks), status : {0, 1}]

SessionTypeOK ==
  /\ shm \in Processes \cup {NoSegment}
  /\ segment \in [Processes -> SegmentTypes]
  /\ \A s \in Processes : Len(segment[s].filled) <= BUFFERS_IN_QUEUE
  /\ process \in [Processes -> ProcessTypes]
  /\ file \in Seq({Hole} \cup 1..Chunks)

\* Those that are counted in a segment for a role, and those that died
\* in it, who may still be.
CountedIn(s, role) ==
  {p \in Processes : /\ process[p].segment = s
                     /\ process[p].role = role
                     /\ process[p].pc \in InCopy \cup {"leave"}}
DiedIn(s, role) ==
  {p \in Processes : /\ process[p].segment = s
                     /\ process[p].role = role
                     /\ process[p].pc \in {"crashed", "undefined", "dead"}}

\* The role is chosen under the lock and the process counted under it later;
\* still a counter is never above 1 (IPCProcInfo.hpp:38-39), it misses nobody
\* who copies, and it counts nobody who has left.
CountersAreTrue ==
  \A s \in Processes, role \in Roles :
    LET count == segment[s].count[role]
    IN /\ count <= 1
       /\ Cardinality(CountedIn(s, role)) <= count
       /\ count <= Cardinality(CountedIn(s, role) \cup DiedIn(s, role))

\* Who was cut short in a segment, by a kill, a timeout or an exception
\* before the tool existed.
CutShortIn(s) ==
  {p \in Processes : /\ process[p].segment = s
                     /\ \/ process[p].pc \in {"crashed", "undefined", "dead"}
                        \/ process[p].pc = "failed" /\ process[p].role = "Invalid"}

\* The counters are read without the mutex, one after the other; still of
\* those who leave a segment, also with an exception that main() catches, one
\* removes it, unless somebody was cut short in it (SharedMemoryManager.cpp:56-65).
NoSegmentLeaks == AllEnded /\ shm # NoSegment => CutShortIn(shm) # {}

\* A process that had to read and could not have its source.
LacksSource(p) == \/ p \in WithoutSource /\ At(p, "failed")
                  \/ p \in LosesSource /\ process[p].status = 1

\* Two processes launched one after the other, the second once the first has
\* opened its queue, and neither cut short nor without its source.
UndisturbedPair ==
  /\ Cardinality(Launched) = 2
  /\ \A p \in Launched : process[p].calm /\ ~At(p, "dead") /\ ~LacksSource(p)

\* Such a pair copies: one reads and the other writes the file, however short
\* it is and however late the second comes; nobody fails, meets a null pointer or
\* reads an empty deque (IPCTool.hpp:118-122, the test IPCToolTest).
PairCopies ==
  AllEnded /\ UndisturbedPair
  => /\ \A p \in Launched : At(p, "exited")
     /\ {process[p].role : p \in Launched} = Roles
     /\ file = Source

\* The segment keeps its name as long as one of such a pair has not counted
\* itself out, however the two tests of the counters fall together: the other
\* removes nothing under its feet, nor before it has found the segment
\* (SharedMemoryManager.cpp:56-65, 77-83).
PairKeepsName ==
  UndisturbedPair =>
    \A p \in Launched :
      process[p].pc \in Setup \cup InCopy \cup {"leave"}
        => shm # NoSegment /\ process[p].segment \in {shm, NoSegment}

\* What the comment in the constructor says (SharedMemoryManager.cpp:12-14):
\* who finds the name taken finds all resources allocated.
ResourcesAreReady == \A p \in Processes : ~At(p, "crashed")

\* What IPCTool's comment says (IPCTool.hpp:36): the first process is always
\* the reader.
FirstIsReader == \A p \in Processes : process[p].first => process[p].role # "Writer"

\* What the comment on tryRemoveActiveSharedMemoryObject says
\* (SharedMemoryManager.hpp:61-62): the region is deallocated if no one else
\* uses it.
RemovedOnlyUnused ==
  [][shm # NoSegment /\ shm' = NoSegment =>
       \A p \in Processes :
         process[p].segment = shm => process[p].pc \in Cleanup \cup Ended
                                     \/ process'[p].pc \in Ended]_sessionVars

\* What the comment in createTool says (PseudoToolFactory.hpp:81-85): a third
\* process copies nothing, so a copy that has succeeded stays, at least if
\* nobody is launched before the others are in copy() and the queue is open.
DoneMeansComplete ==
  /\ \A p \in Launched : process[p].calm
  /\ \E p \in Launched : At(p, "exited") /\ process[p].role = "Writer"
  => file = Source

\* What IPCTool's comment says of the counters (IPCTool.hpp:32-33): they are
\* there to deallocate the shared memory correctly.
NoSegmentLeft == AllEnded => shm = NoSegment

\* What the comment on createScopedLock says (IPCProcInfo.hpp:18): the lock is
\* RAII, so it is free again when its owner has gone.
LockIsReleased == \A s \in Processes : ~segment[s].lost

=============================================================================
