-------------------------- MODULE IPCSession_proofs ---------------------------
(***************************************************************************)
(* What holds of IPCSession for any finite number of processes, any length *)
(* of the source and any capacity of the queue, whoever is killed and      *)
(* whether or not the observers give up.                                   *)
(***************************************************************************)
EXTENDS IPCSession, FiniteSetTheorems, SequenceTheorems, TLAPS

(***************************************************************************)
(* The inductive invariant.  GoodProcess is about one process; CountInv    *)
(* relates a counter to the processes it stands for; LeakInv says who is   *)
(* still to remove the segment.                                            *)
(***************************************************************************)
PCs == {"none"} \cup Setup \cup InCopy \cup Cleanup \cup Ended

\* Where a process has its segment mapped.
Mapped == (Setup \ {"open"}) \cup InCopy \cup Cleanup

\* r: the record of a process.  It has a role from choosing it to its end, and
\* the reader has a chunk left to read as long as it reads.
GoodProcess(r) ==
  /\ r.pc \in Mapped => r.segment \in Processes
  /\ r.pc \in {"none"} \cup (Setup \ {"register"}) => r.role = "Invalid"
  /\ r.pc \in {"register"} \cup InCopy => r.role \in Roles
  /\ r.pc \in {"none", "openQueue"} \cup Setup => r.next = 1
  /\ r.pc = "read" => r.next <= Chunks

ProcessInv ==
  /\ process \in [Processes -> ProcessTypes]
  /\ \A p \in Processes : GoodProcess(process[p])

SegmentInv ==
  /\ segment \in [Processes -> SegmentTypes]
  /\ \A s \in Processes : Len(segment[s].filled) <= BUFFERS_IN_QUEUE

\* A counter is 0 or 1.  At 0 nobody is counted; at 1 somebody is, or has died.
TrueCount(s, role) ==
  LET count == segment[s].count[role]
  IN /\ count \in {0, 1}
     /\ count = 0 => CountedIn(s, role) = {}
     /\ count = 1 => CountedIn(s, role) \cup DiedIn(s, role) # {}
     /\ \A p, q \in CountedIn(s, role) : p = q

CountInv == \A s \in Processes, role \in Roles : TrueCount(s, role)

\* Those who have not come past the check of the counters in ~IPCTool.
MayRemove(s) ==
  {p \in Processes : /\ process[p].segment = s
                     /\ process[p].pc \in Mapped \ {"flush"}}

LeakInv ==
  /\ shm \in Processes \cup {NoSegment}
  /\ shm # NoSegment => MayRemove(shm) \cup CutShortIn(shm) # {}

SessionInv ==
  /\ ProcessInv
  /\ SegmentInv
  /\ CountInv
  /\ LeakInv
  /\ file \in Seq({Hole} \cup 1..Chunks)

-----------------------------------------------------------------------------
(* The processes *)

\* The head of a sequence and the rest of it.
LEMMA FirstAndRest ==
  ASSUME NEW S, NEW s \in Seq(S), s # <<>>
  PROVE  Head(s) \in S /\ Tail(s) \in Seq(S) /\ Len(Tail(s)) = Len(s) - 1
OBVIOUS

\* One process takes every step but the last, in its main thread or with its
\* observer, whose decision nobody else can see.
Moves(p) == SetsUp(p) \/ Copies(p) \/ CleansUp(p) \/ TimesOut(p) \/ Dies(p)

LEMMA SessionSteps ==
  [SessionNext]_sessionVars
    => (\E p \in Processes : Moves(p) \/ SeesNobody(p)) \/ UNCHANGED sessionVars
BY DEF SessionNext, Moves

SameButAlone(r, n) ==
  /\ n.pc = r.pc /\ n.calm = r.calm /\ n.segment = r.segment /\ n.first = r.first
  /\ n.queue = r.queue /\ n.dst = r.dst /\ n.role = r.role /\ n.next = r.next
  /\ n.position = r.position /\ n.stream = r.stream /\ n.status = r.status

LEMMA AloneIsNoMatter ==
  ASSUME NEW r \in ProcessTypes, NEW n, n = [r EXCEPT !.alone = TRUE]
  PROVE  n \in ProcessTypes /\ SameButAlone(r, n)
BY DEF ProcessTypes, SameButAlone

LEMMA DecisionIsPrivate ==
  ASSUME ProcessInv, NEW p \in Processes, SeesNobody(p)
  PROVE  /\ UNCHANGED <<shm, segment, file>>
         /\ process' \in [Processes -> ProcessTypes]
         /\ \A q \in Processes : SameButAlone(process[q], process'[q])
         /\ \A q \in Processes : process[q].pc = "none" => process'[q] = process[q]
<1> DEFINE n == [process[p] EXCEPT !.alone = TRUE]
<1>1. /\ UNCHANGED <<shm, segment, file>>
      /\ process' = [process EXCEPT ![p] = n]
      /\ process[p].pc # "none"
      /\ process \in [Processes -> ProcessTypes]
  BY DEF SeesNobody, Watches, ProcessInv, ProcessTypes
<1>2. n \in ProcessTypes /\ SameButAlone(process[p], n)
  BY <1>1, AloneIsNoMatter
<1>3. \A q \in Processes : SameButAlone(process[q], process[q])
  BY DEF SameButAlone
<1> HIDE DEF n
<1>4. QED
  BY <1>1, <1>2, <1>3

\* It suffices to look at the process that moves.
LEMMA OneProcessMoves ==
  ASSUME ProcessInv, NEW p \in Processes, NEW r \in ProcessTypes, GoodProcess(r),
         process' = [process EXCEPT ![p] = r]
  PROVE  ProcessInv'
BY DEF ProcessInv, GoodProcess

LEMMA ProcessGoes ==
  ASSUME ProcessInv, NEW p \in Processes, NEW pc \in PCs, Goto(p, pc),
         GoodProcess([process[p] EXCEPT !.pc = pc])
  PROVE  ProcessInv'
<1> DEFINE r == [process[p] EXCEPT !.pc = pc]
<1>1. r \in ProcessTypes
  <2>1. process[p] \in ProcessTypes /\ pc \in {"none"} \cup Setup \cup InCopy \cup Cleanup \cup Ended
    BY DEF ProcessInv, PCs
  <2>2. QED
    BY <2>1 DEF ProcessTypes
<1>2. process' = [process EXCEPT ![p] = r]
  BY DEF ProcessInv, ProcessTypes, Goto
<1> HIDE DEF r
<1>3. GoodProcess(r)
  BY DEF r
<1>4. QED
  BY <1>1, <1>2, <1>3, OneProcessMoves

LEMMA SetupStep ==
  ASSUME SessionInv, NEW p \in Processes, SetsUp(p)
  PROVE  ProcessInv'
<1> DEFINE r == process[p]
<1>1. /\ ProcessInv /\ process \in [Processes -> ProcessTypes]
      /\ r \in ProcessTypes /\ GoodProcess(r)
      /\ shm \in Processes \cup {NoSegment}
      /\ NoSegment \notin Processes
      /\ Chunks \in Nat \ {0}
  BY SessionAssumption DEF SessionInv, ProcessInv, LeakInv
<1> USE DEF PCs, GoodProcess, Setup, InCopy, Cleanup, Ended, Mapped
<1>2. /\ Calm \in BOOLEAN
      /\ r.pc \in Mapped => Mine(p).queue \in BOOLEAN /\ Mine(p).dst \in BOOLEAN
  <2>1. r.pc \in Mapped => Mine(p) \in SegmentTypes
    BY <1>1 DEF SessionInv, SegmentInv, Mine
  <2>2. QED
    BY <2>1 DEF Calm, SegmentTypes
<1>3. CASE CreatesSegment(p)
  <2> DEFINE n == [r EXCEPT !.pc = "procInfo", !.calm = Calm, !.first = TRUE, !.segment = p]
  <2>1. process' = [process EXCEPT ![p] = n] /\ r.pc = "none"
    BY <1>1, <1>3 DEF CreatesSegment, At, ProcessTypes
  <2>2. n \in ProcessTypes
    BY <1>1, <1>2, <2>1 DEF ProcessTypes
  <2>3. GoodProcess(n)
    BY <1>1, <2>1 DEF ProcessTypes
  <2>4. QED
    BY <1>1, <2>1, <2>2, <2>3, OneProcessMoves
<1>4. CASE FindsNameTaken(p)
  <2> DEFINE n == [r EXCEPT !.pc = "open", !.calm = Calm]
  <2>1. process' = [process EXCEPT ![p] = n] /\ r.pc = "none"
    BY <1>1, <1>4 DEF FindsNameTaken, At, ProcessTypes
  <2>2. n \in ProcessTypes
    BY <1>1, <1>2, <2>1 DEF ProcessTypes
  <2>3. GoodProcess(n)
    BY <1>1, <2>1 DEF ProcessTypes
  <2>4. QED
    BY <1>1, <2>1, <2>2, <2>3, OneProcessMoves
<1>5. CASE OpensSegment(p)
  <2>1. CASE shm = NoSegment
    <3>1. Goto(p, "failed")
      BY <1>5, <2>1 DEF OpensSegment
    <3>2. QED
      BY <1>1, <3>1, ProcessGoes DEF ProcessTypes
  <2>2. CASE shm # NoSegment
    <3> DEFINE pc == IF segment[shm].procInfo THEN "queue" ELSE "crashed"
               n == [r EXCEPT !.pc = pc, !.segment = shm]
    <3>1. process' = [process EXCEPT ![p] = n] /\ r.pc = "open"
      BY <1>1, <1>5, <2>2 DEF OpensSegment, At, ProcessTypes
    <3>2. pc \in {"queue", "crashed"}
      OBVIOUS
    <3> HIDE DEF pc
    <3>3. n \in ProcessTypes
      BY <1>1, <3>2 DEF ProcessTypes
    <3>4. GoodProcess(n)
      BY <1>1, <2>2, <3>1, <3>2 DEF ProcessTypes
    <3>5. QED
      BY <1>1, <3>1, <3>3, <3>4, OneProcessMoves
  <2>3. QED
    BY <2>1, <2>2
<1>6. CASE ConstructsProcInfo(p) \/ FillsProcInfo(p)
  <2>1. /\ \E pc \in {"queue", "choose"} : Goto(p, pc)
        /\ r.pc \in {"procInfo", "fill"}
    BY <1>6 DEF ConstructsProcInfo, FillsProcInfo, At
  <2>2. QED
    BY <1>1, <2>1, ProcessGoes DEF ProcessTypes
<1>7. CASE GetsQueue(p) /\ r.first
  <2> DEFINE n == [r EXCEPT !.pc = "fill", !.queue = TRUE]
  <2>1. process' = [process EXCEPT ![p] = n] /\ r.pc = "queue"
    BY <1>1, <1>7 DEF GetsQueue, At, ProcessTypes
  <2>2. n \in ProcessTypes
    BY <1>1, <1>2, <2>1 DEF ProcessTypes
  <2>3. GoodProcess(n)
    BY <1>1, <2>1 DEF ProcessTypes
  <2>4. QED
    BY <1>1, <2>1, <2>2, <2>3, OneProcessMoves
<1>8. CASE GetsQueue(p) /\ ~r.first
  <2> DEFINE n == [r EXCEPT !.pc = "choose", !.queue = Mine(p).queue]
  <2>1. process' = [process EXCEPT ![p] = n] /\ r.pc = "queue"
    BY <1>1, <1>8 DEF GetsQueue, At, ProcessTypes
  <2>2. n \in ProcessTypes
    BY <1>1, <1>2, <2>1 DEF ProcessTypes
  <2>3. GoodProcess(n)
    BY <1>1, <2>1 DEF ProcessTypes
  <2>4. QED
    BY <1>1, <2>1, <2>2, <2>3, OneProcessMoves
<1>9. CASE ChoosesReader(p) /\ p \in WithoutSource
  <2>1. Goto(p, "failed") /\ r.pc = "choose"
    BY <1>9 DEF ChoosesReader, At
  <2>2. QED
    BY <1>1, <2>1, ProcessGoes DEF ProcessTypes
<1>10. CASE ChoosesReader(p) /\ p \notin WithoutSource
  <2> DEFINE n == [r EXCEPT !.pc = "register", !.role = "Reader"]
  <2>1. process' = [process EXCEPT ![p] = n] /\ r.pc = "choose"
    BY <1>1, <1>10 DEF ChoosesReader, At, ProcessTypes
  <2>2. n \in ProcessTypes
    BY <1>1, <1>2, <2>1 DEF ProcessTypes, Roles
  <2>3. GoodProcess(n)
    BY <1>1, <2>1 DEF ProcessTypes, Roles
  <2>4. QED
    BY <1>1, <2>1, <2>2, <2>3, OneProcessMoves
<1>11. CASE ChoosesWriter(p)
  <2> DEFINE n == [r EXCEPT !.pc = "register", !.role = "Writer", !.dst = Mine(p).dst]
  <2>1. process' = [process EXCEPT ![p] = n] /\ r.pc = "choose"
    BY <1>1, <1>11 DEF ChoosesWriter, At, ProcessTypes
  <2>2. n \in ProcessTypes
    BY <1>1, <1>2, <2>1 DEF ProcessTypes, Roles
  <2>3. GoodProcess(n)
    BY <1>1, <2>1 DEF ProcessTypes, Roles
  <2>4. QED
    BY <1>1, <2>1, <2>2, <2>3, OneProcessMoves
<1>12. CASE Registers(p) /\ Mine(p).count[r.role] # 0
  <2> DEFINE n == [r EXCEPT !.role = "Invalid", !.pc = "leave"]
  <2>1. process' = [process EXCEPT ![p] = n] /\ r.pc = "register"
    BY <1>1, <1>12 DEF Registers, At, ProcessTypes
  <2>2. n \in ProcessTypes
    BY <1>1, <1>2, <2>1 DEF ProcessTypes, Roles
  <2>3. GoodProcess(n)
    BY <1>1, <2>1 DEF ProcessTypes, Roles
  <2>4. QED
    BY <1>1, <2>1, <2>2, <2>3, OneProcessMoves
<1>13. CASE Registers(p) /\ Mine(p).count[r.role] = 0
  <2>1. /\ Goto(p, IF r.role = "Reader" THEN "openQueue" ELSE "create")
        /\ r.pc = "register"
    BY <1>13 DEF Registers, At
  <2>2. \E pc \in {"openQueue", "create"} : Goto(p, pc)
    BY <2>1
  <2>3. QED
    BY <1>1, <2>1, <2>2, ProcessGoes DEF ProcessTypes
<1>14. QED
  BY <1>3, <1>4, <1>5, <1>6, <1>7, <1>8, <1>9, <1>10, <1>11, <1>12, <1>13
     DEF SetsUp, GetsQueue, ChoosesReader, Registers

LEMMA CopiesStep ==
  ASSUME SessionInv, NEW p \in Processes, Copies(p)
  PROVE  ProcessInv'
<1> DEFINE r == process[p]
<1>1. /\ ProcessInv /\ process \in [Processes -> ProcessTypes]
      /\ r \in ProcessTypes /\ GoodProcess(r)
      /\ Chunks \in Nat \ {0}
  BY SessionAssumption DEF SessionInv, ProcessInv
<1> USE DEF PCs, GoodProcess, Setup, InCopy, Cleanup, Ended, Mapped
<1>2. r.pc \in InCopy => Mine(p).filled \in Seq(1..Chunks)
  BY <1>1 DEF SessionInv, SegmentInv, Mine, SegmentTypes
<1>3. CASE UsesNullQueue(p) \/ ClosesQueue(p) \/ AwaitsWriter(p) \/ SignalsStart(p)
             \/ PassesWait(p) \/ TakesNothing(p) \/ StopsWriting(p)
  <2>1. /\ \E pc \in {"crashed", "await", "leave", "write", "take", "undefined"} : Goto(p, pc)
        /\ r.pc \in InCopy
    BY <1>3 DEF UsesNullQueue, ClosesQueue, AwaitsWriter, SignalsStart, PassesWait, TakesNothing,
       StopsWriting, At
  <2>2. QED
    BY <1>1, <2>1, ProcessGoes DEF ProcessTypes
<1>4. CASE OpensQueue(p)
  <2> DEFINE n == [r EXCEPT !.pc = "leave", !.status = 1]
  <2>1. CASE Goto(p, "read") /\ r.pc = "openQueue"
    BY <1>1, <2>1, ProcessGoes DEF ProcessTypes
  <2>2. CASE process' = [process EXCEPT ![p] = n] /\ r.pc = "openQueue"
    <3>1. n \in ProcessTypes
      BY <1>1, <2>2 DEF ProcessTypes
    <3>2. GoodProcess(n)
      BY <1>1, <2>2 DEF ProcessTypes
    <3>3. QED
      BY <1>1, <2>2, <3>1, <3>2, OneProcessMoves
  <2>3. QED
    BY <1>1, <1>4, <2>1, <2>2 DEF OpensQueue, At, ProcessTypes
<1>5. CASE Reads(p)
  <2> DEFINE pc == IF r.next = Chunks THEN "close" ELSE r.pc
             n == [r EXCEPT !.next = r.next + 1, !.pc = pc]
  <2>1. process' = [process EXCEPT ![p] = n] /\ r.pc = "read"
    BY <1>1, <1>5 DEF Reads, At, ProcessTypes
  <2>2. r.next \in 1..Chunks
    BY <1>1, <2>1 DEF ProcessTypes
  <2>3. pc \in {"close", "read"} /\ (pc = "read" => r.next + 1 <= Chunks)
    BY <1>1, <2>1, <2>2
  <2> HIDE DEF pc
  <2>4. n \in ProcessTypes
    <3>1. r.next + 1 \in 1..Chunks + 1
      BY <1>1, <2>2
    <3>2. QED
      BY <1>1, <2>3, <3>1 DEF ProcessTypes
  <2>5. GoodProcess(n)
    BY <1>1, <2>1, <2>3 DEF ProcessTypes
  <2>6. QED
    BY <1>1, <2>1, <2>4, <2>5, OneProcessMoves
<1>6. CASE CreatesFile(p) /\ r.dst
  <2>1. Goto(p, "signal") /\ r.pc = "create"
    BY <1>6 DEF CreatesFile, At
  <2>2. QED
    BY <1>1, <2>1, ProcessGoes DEF ProcessTypes
<1>7. CASE CreatesFile(p) /\ ~r.dst
  <2> DEFINE n == [r EXCEPT !.pc = "leave", !.status = 1]
  <2>1. process' = [process EXCEPT ![p] = n] /\ r.pc = "create"
    BY <1>1, <1>7 DEF CreatesFile, At, ProcessTypes
  <2>2. n \in ProcessTypes
    BY <1>1, <1>2, <2>1 DEF ProcessTypes
  <2>3. GoodProcess(n)
    BY <1>1, <2>1 DEF ProcessTypes
  <2>4. QED
    BY <1>1, <2>1, <2>2, <2>3, OneProcessMoves
<1>8. CASE Writes(p)
  <2> DEFINE stream == Append(r.stream, Head(Mine(p).filled))
             kept == [r EXCEPT !.stream = stream]
             passed == [r EXCEPT !.stream = <<>>, !.position = r.position + Len(stream)]
  <2>1. /\ r.pc = "write" /\ Mine(p).filled # <<>>
        /\ \/ process' = [process EXCEPT ![p] = kept]
           \/ process' = [process EXCEPT ![p] = passed]
    BY <1>1, <1>8 DEF Writes, At, ProcessTypes
  <2>2. stream \in Seq(1..Chunks) /\ Len(stream) \in Nat /\ r.position \in Nat
    <3>1. r.stream \in Seq(1..Chunks) /\ r.position \in Nat
      BY <1>1 DEF ProcessTypes
    <3>2. Head(Mine(p).filled) \in 1..Chunks
      BY <1>2, <2>1, FirstAndRest DEF InCopy
    <3>3. QED
      BY <3>1, <3>2
  <2> HIDE DEF stream
  <2>3. kept \in ProcessTypes /\ GoodProcess(kept)
    <3>1. kept \in ProcessTypes
      BY <1>1, <2>2 DEF ProcessTypes
    <3>2. /\ kept.pc = r.pc /\ kept.segment = r.segment
          /\ kept.role = r.role /\ kept.next = r.next
      BY <1>1 DEF ProcessTypes
    <3> HIDE DEF kept
    <3>3. QED
      BY <1>1, <3>1, <3>2
  <2>4. passed \in ProcessTypes /\ GoodProcess(passed)
    <3>1. r.position + Len(stream) \in Nat /\ <<>> \in Seq(1..Chunks)
      BY <2>2
    <3>2. passed \in ProcessTypes
      BY <1>1, <3>1 DEF ProcessTypes
    <3>3. /\ passed.pc = r.pc /\ passed.segment = r.segment
          /\ passed.role = r.role /\ passed.next = r.next
      BY <1>1 DEF ProcessTypes
    <3> HIDE DEF passed
    <3>4. QED
      BY <1>1, <3>2, <3>3
  <2>5. QED
    BY <1>1, <2>1, <2>3, <2>4, OneProcessMoves
<1>9. QED
  BY <1>3, <1>4, <1>5, <1>6, <1>7, <1>8 DEF Copies, CreatesFile

LEMMA CleanupStep ==
  ASSUME SessionInv, NEW p \in Processes, CleansUp(p) \/ TimesOut(p) \/ Dies(p)
  PROVE  ProcessInv'
<1> DEFINE r == process[p]
<1>1. /\ ProcessInv /\ process \in [Processes -> ProcessTypes]
      /\ r \in ProcessTypes /\ GoodProcess(r)
  BY DEF SessionInv, ProcessInv
<1> USE DEF PCs, GoodProcess, Setup, InCopy, Cleanup, Ended, Mapped
<1>2. CASE Leaves(p) \/ ChecksWriters(p) \/ ChecksReaders(p) \/ RemovesSegment(p)
  <2>1. /\ \E pc \in {"check", "checkReaders", "remove", "flush"} : Goto(p, pc)
        /\ r.pc \in Cleanup
    BY <1>2 DEF Leaves, ChecksWriters, ChecksReaders, RemovesSegment, At
  <2>2. QED
    BY <1>1, <2>1, ProcessGoes DEF ProcessTypes
<1>3. CASE ClosesFile(p)
  <2> DEFINE pc == IF r.status = 0 THEN "exited" ELSE "failed"
             n == [r EXCEPT !.stream = <<>>, !.pc = pc]
  <2>1. process' = [process EXCEPT ![p] = n] /\ r.pc = "flush"
    BY <1>1, <1>3 DEF ClosesFile, At, ProcessTypes
  <2>2. pc \in {"exited", "failed"} /\ <<>> \in Seq(1..Chunks)
    OBVIOUS
  <2> HIDE DEF pc
  <2>3. n \in ProcessTypes
    BY <1>1, <2>2 DEF ProcessTypes
  <2>4. GoodProcess(n)
    BY <1>1, <2>1, <2>2 DEF ProcessTypes
  <2>5. QED
    BY <1>1, <2>1, <2>3, <2>4, OneProcessMoves
<1>4. CASE TimesOut(p) \/ Dies(p)
  <2>1. Goto(p, "dead")
    BY <1>4 DEF TimesOut, Dies
  <2>2. QED
    BY <1>1, <2>1, ProcessGoes DEF ProcessTypes
<1>5. QED
  BY <1>2, <1>3, <1>4 DEF CleansUp

LEMMA ProcessesStep ==
  ASSUME SessionInv, NEW p \in Processes, Moves(p)
  PROVE  ProcessInv'
BY SetupStep, CopiesStep, CleanupStep DEF Moves

\* A step is one process's, which stays launched, and ends once.
LEMMA MovesFacts ==
  ASSUME SessionInv, NEW p \in Processes, Moves(p)
  PROVE  /\ \A q \in Processes : q # p => process'[q] = process[q]
         /\ process'[p].pc # "none"
         /\ process[p].pc \notin Ended
         /\ process[p].pc # "none" => process'[p].calm = process[p].calm
         /\ process[p].status = 1 => process'[p].status = 1
<1>1. process \in [Processes -> ProcessTypes] /\ process[p] \in ProcessTypes
  BY DEF SessionInv, ProcessInv
<1> USE DEF At, Goto, Ended
<1>2. CASE SetsUp(p)
  BY <1>1, <1>2 DEF SetsUp, CreatesSegment, FindsNameTaken, OpensSegment, ConstructsProcInfo,
     GetsQueue, FillsProcInfo, ChoosesReader, ChoosesWriter, Registers, ProcessTypes
<1>3. CASE Copies(p)
  BY <1>1, <1>3 DEF Copies, UsesNullQueue, OpensQueue, Reads, ClosesQueue, AwaitsWriter,
     CreatesFile, SignalsStart, Writes, PassesWait, TakesNothing, StopsWriting, ProcessTypes
<1>4. CASE CleansUp(p)
  BY <1>1, <1>4 DEF CleansUp, Leaves, ChecksWriters, ChecksReaders, RemovesSegment, ClosesFile,
     ProcessTypes
<1>5. CASE TimesOut(p) \/ Dies(p)
  BY <1>1, <1>5 DEF TimesOut, Dies, Watches, Setup, InCopy, Cleanup, ProcessTypes
<1>6. QED
  BY <1>2, <1>3, <1>4, <1>5 DEF Moves

-----------------------------------------------------------------------------
(* The segments *)

\* Where a segment is used, it is there, and whoever is counted in it is counted.
LEMMA MineFacts ==
  ASSUME SessionInv, NEW p \in Processes, process[p].pc \in Mapped
  PROVE  /\ process[p].segment \in Processes
         /\ Mine(p) \in SegmentTypes
         /\ Len(Mine(p).filled) \in Nat /\ Len(Mine(p).filled) <= BUFFERS_IN_QUEUE
         /\ process[p].pc \in InCopy \cup {"leave"} /\ process[p].role \in Roles
              => Mine(p).count[process[p].role] = 1
<1>1. process[p].segment \in Processes
  BY DEF SessionInv, ProcessInv, GoodProcess
<1>2. /\ Mine(p) \in SegmentTypes
      /\ Len(Mine(p).filled) <= BUFFERS_IN_QUEUE
      /\ Mine(p).filled \in Seq(1..Chunks)
  BY <1>1 DEF SessionInv, SegmentInv, Mine, SegmentTypes
<1>3. Len(Mine(p).filled) \in Nat
  BY <1>2, LenProperties
<1>4. ASSUME process[p].pc \in InCopy \cup {"leave"}, process[p].role \in Roles
      PROVE  Mine(p).count[process[p].role] = 1
  <2>1. p \in CountedIn(process[p].segment, process[p].role)
    BY <1>4 DEF CountedIn
  <2>2. TrueCount(process[p].segment, process[p].role)
    BY <1>1, <1>4 DEF SessionInv, CountInv
  <2>3. QED
    BY <2>1, <2>2 DEF TrueCount, Mine
<1>5. QED
  BY <1>1, <1>2, <1>3, <1>4

LEMMA OneSegmentChanges ==
  ASSUME SegmentInv, NEW s \in Processes, NEW g \in SegmentTypes,
         Len(g.filled) <= BUFFERS_IN_QUEUE,
         segment' = [segment EXCEPT ![s] = g]
  PROVE  SegmentInv'
BY DEF SegmentInv

\* Only Registers, Leaves and TimesOut change a counter.
Counts(p) == Registers(p) \/ Leaves(p) \/ TimesOut(p)

LEMMA FlagsStep ==
  ASSUME SessionInv, NEW p \in Processes, Moves(p), ~Counts(p)
  PROVE  /\ SegmentInv'
         /\ \A s \in Processes : segment'[s].count = segment[s].count
<1> DEFINE s == process[p].segment
<1>1. /\ SegmentInv /\ ProcessInv
      /\ process[p] \in ProcessTypes
      /\ segment \in [Processes -> SegmentTypes] /\ segment[p] \in SegmentTypes
      /\ Len(segment[p].filled) <= BUFFERS_IN_QUEUE
  BY DEF SessionInv, SegmentInv, ProcessInv
<1>2. process[p].pc \in Mapped
        => /\ s \in Processes
           /\ Mine(p) = segment[s] /\ segment[s] \in SegmentTypes
           /\ Len(segment[s].filled) <= BUFFERS_IN_QUEUE
  BY MineFacts DEF Mine
<1> USE DEF Mapped, Setup, InCopy, Cleanup
<1>3. CASE UNCHANGED segment
  BY <1>1, <1>3 DEF SegmentInv
<1>4. CASE ConstructsProcInfo(p)
  <2> DEFINE g == [segment[p] EXCEPT !.procInfo = TRUE]
  <2>1. segment' = [segment EXCEPT ![p] = g]
    BY <1>1, <1>4 DEF ConstructsProcInfo, SegmentTypes
  <2>2. g \in SegmentTypes /\ g.filled = segment[p].filled /\ g.count = segment[p].count
    BY <1>1 DEF SegmentTypes
  <2>3. QED
    BY <1>1, <2>1, <2>2, OneSegmentChanges
<1>5. CASE GetsQueue(p)
  <2> DEFINE g == [segment[p] EXCEPT !.queue = TRUE]
  <2>1. segment' = [segment EXCEPT ![p] = g] \/ UNCHANGED segment
    BY <1>1, <1>5 DEF GetsQueue, SegmentTypes
  <2>2. g \in SegmentTypes /\ g.filled = segment[p].filled /\ g.count = segment[p].count
    BY <1>1 DEF SegmentTypes
  <2>3. QED
    BY <1>1, <1>3, <2>1, <2>2, OneSegmentChanges
<1>6. CASE FillsProcInfo(p)
  <2> DEFINE g == [segment[p] EXCEPT !.dst = TRUE, !.started = FALSE]
  <2>1. segment' = [segment EXCEPT ![p] = g]
    BY <1>1, <1>6 DEF FillsProcInfo, SegmentTypes
  <2>2. g \in SegmentTypes /\ g.filled = segment[p].filled /\ g.count = segment[p].count
    BY <1>1 DEF SegmentTypes
  <2>3. QED
    BY <1>1, <2>1, <2>2, OneSegmentChanges
<1>7. CASE ChoosesReader(p)
  <2> DEFINE g == [segment[s] EXCEPT !.lost = TRUE]
  <2>1. /\ segment' = [segment EXCEPT ![s] = g] \/ UNCHANGED segment
        /\ s \in Processes /\ segment[s] \in SegmentTypes
        /\ Len(segment[s].filled) <= BUFFERS_IN_QUEUE
    BY <1>1, <1>2, <1>7 DEF ChoosesReader, At, SegmentTypes
  <2>2. g \in SegmentTypes /\ g.filled = segment[s].filled /\ g.count = segment[s].count
    BY <2>1 DEF SegmentTypes
  <2>3. QED
    BY <1>1, <1>3, <2>1, <2>2, OneSegmentChanges
<1>8. CASE OpensQueue(p)
  <2> DEFINE g == [segment[s] EXCEPT !.isOpen = TRUE]
  <2>1. /\ segment' = [segment EXCEPT ![s] = g] \/ UNCHANGED segment
        /\ s \in Processes /\ segment[s] \in SegmentTypes
        /\ Len(segment[s].filled) <= BUFFERS_IN_QUEUE
    BY <1>1, <1>2, <1>8 DEF OpensQueue, At, SegmentTypes
  <2>2. g \in SegmentTypes /\ g.filled = segment[s].filled /\ g.count = segment[s].count
    BY <2>1 DEF SegmentTypes
  <2>3. QED
    BY <1>1, <1>3, <2>1, <2>2, OneSegmentChanges
<1>9. CASE ClosesQueue(p)
  <2> DEFINE g == [segment[s] EXCEPT !.isOpen = FALSE]
  <2>1. /\ segment' = [segment EXCEPT ![s] = g] \/ UNCHANGED segment
        /\ s \in Processes /\ segment[s] \in SegmentTypes
        /\ Len(segment[s].filled) <= BUFFERS_IN_QUEUE
    BY <1>1, <1>2, <1>9 DEF ClosesQueue, At, SegmentTypes
  <2>2. g \in SegmentTypes /\ g.filled = segment[s].filled /\ g.count = segment[s].count
    BY <2>1 DEF SegmentTypes
  <2>3. QED
    BY <1>1, <1>3, <2>1, <2>2, OneSegmentChanges
<1>10. CASE SignalsStart(p)
  <2> DEFINE g == [segment[s] EXCEPT !.started = TRUE]
  <2>1. /\ segment' = [segment EXCEPT ![s] = g] \/ UNCHANGED segment
        /\ s \in Processes /\ segment[s] \in SegmentTypes
        /\ Len(segment[s].filled) <= BUFFERS_IN_QUEUE
    BY <1>1, <1>2, <1>10 DEF SignalsStart, At, SegmentTypes
  <2>2. g \in SegmentTypes /\ g.filled = segment[s].filled /\ g.count = segment[s].count
    BY <2>1 DEF SegmentTypes
  <2>3. QED
    BY <1>1, <1>3, <2>1, <2>2, OneSegmentChanges
<1>11. CASE Reads(p)
  <2> DEFINE c == process[p].next
             fin == segment[s].readFinished \/ c = Chunks
             q == Append(segment[s].filled, c)
             g == [segment[s] EXCEPT !.filled = q, !.readFinished = fin]
  <2>1. /\ process[p].pc = "read" /\ s \in Processes /\ segment[s] \in SegmentTypes
        /\ Len(segment[s].filled) < BUFFERS_IN_QUEUE
    BY <1>2, <1>11 DEF Reads, At
  <2>2. segment' = [segment EXCEPT ![s] = g]
    BY <1>1, <1>11, <2>1 DEF Reads, SegmentTypes
  <2>3. c \in 1..Chunks
    <3>1. c \in 1..Chunks + 1 /\ c <= Chunks
      BY <1>1, <2>1 DEF ProcessInv, ProcessTypes, GoodProcess
    <3>2. QED
      BY <3>1, SessionAssumption
  <2>4. q \in Seq(1..Chunks) /\ Len(q) <= BUFFERS_IN_QUEUE
    <3>1. segment[s].filled \in Seq(1..Chunks)
      BY <2>1 DEF SegmentTypes
    <3>2. QED
      BY <2>1, <2>3, <3>1, SessionAssumption
  <2>5. fin \in BOOLEAN
    OBVIOUS
  <2> HIDE DEF q, fin
  <2>6. g \in SegmentTypes /\ g.filled = q /\ g.count = segment[s].count
    BY <2>1, <2>4, <2>5 DEF SegmentTypes
  <2>7. QED
    BY <1>1, <2>1, <2>2, <2>4, <2>6, OneSegmentChanges
<1>12. CASE Writes(p)
  <2> DEFINE q == Tail(segment[s].filled)
             g == [segment[s] EXCEPT !.filled = q]
  <2>1. /\ s \in Processes /\ segment[s] \in SegmentTypes
        /\ segment[s].filled \in Seq(1..Chunks) /\ segment[s].filled # <<>>
        /\ Len(segment[s].filled) <= BUFFERS_IN_QUEUE
    BY <1>2, <1>12 DEF Writes, At, SegmentTypes
  <2>2. segment' = [segment EXCEPT ![s] = g]
    BY <1>1, <1>12, <2>1 DEF Writes, SegmentTypes
  <2>3. q \in Seq(1..Chunks) /\ Len(q) <= BUFFERS_IN_QUEUE
    <3>1. q \in Seq(1..Chunks) /\ Len(q) = Len(segment[s].filled) - 1
      BY <2>1, FirstAndRest
    <3>2. Len(segment[s].filled) \in Nat
      BY <2>1, LenProperties
    <3>3. QED
      BY <2>1, <3>1, <3>2, SessionAssumption
  <2> HIDE DEF q
  <2>4. g \in SegmentTypes /\ g.filled = q /\ g.count = segment[s].count
    BY <2>1, <2>3 DEF SegmentTypes
  <2>5. QED
    BY <1>1, <2>1, <2>2, <2>3, <2>4, OneSegmentChanges
<1>13. CASE \/ CreatesSegment(p) \/ FindsNameTaken(p) \/ OpensSegment(p) \/ ChoosesWriter(p)
            \/ UsesNullQueue(p) \/ AwaitsWriter(p) \/ CreatesFile(p)
            \/ PassesWait(p) \/ TakesNothing(p) \/ StopsWriting(p)
            \/ ChecksWriters(p) \/ ChecksReaders(p) \/ RemovesSegment(p) \/ ClosesFile(p)
            \/ Dies(p)
  BY <1>3, <1>13 DEF CreatesSegment, FindsNameTaken, OpensSegment, ChoosesWriter,
     UsesNullQueue, AwaitsWriter, CreatesFile, PassesWait, TakesNothing, StopsWriting,
     ChecksWriters, ChecksReaders, RemovesSegment, ClosesFile, Dies
<1>14. QED
  BY <1>4, <1>5, <1>6, <1>7, <1>8, <1>9, <1>10, <1>11, <1>12, <1>13
     DEF Moves, SetsUp, Copies, CleansUp, Counts

-----------------------------------------------------------------------------
(* The counters *)

\* Nobody is newly counted, and whoever was counted or had died still is.
LEMMA CountsStay ==
  ASSUME CountInv, NEW p \in Processes,
         \A s \in Processes : segment'[s].count = segment[s].count,
         \A q \in Processes : q # p => process'[q] = process[q],
         \A s \in Processes, role \in Roles :
           /\ p \in CountedIn(s, role)' => p \in CountedIn(s, role)
           /\ p \in CountedIn(s, role) \cup DiedIn(s, role)
                => p \in CountedIn(s, role)' \cup DiedIn(s, role)'
  PROVE  CountInv'
<1> SUFFICES ASSUME NEW s \in Processes, NEW role \in Roles
             PROVE  TrueCount(s, role)'
  BY DEF CountInv
<1>1. TrueCount(s, role) /\ segment'[s].count[role] = segment[s].count[role]
  BY DEF CountInv
<1>2. CountedIn(s, role)' \subseteq CountedIn(s, role)
  BY DEF CountedIn
<1>3. CountedIn(s, role) \cup DiedIn(s, role) \subseteq CountedIn(s, role)' \cup DiedIn(s, role)'
  BY DEF CountedIn, DiedIn
<1>4. QED
  BY <1>1, <1>2, <1>3 DEF TrueCount

\* One process is counted in where nobody is, or out where it alone is.
LEMMA CountChanges ==
  ASSUME CountInv, NEW p \in Processes, NEW s \in Processes, NEW role \in Roles,
         \A q \in Processes : q # p => process'[q] = process[q],
         process[p].segment = s, process'[p].segment = s,
         process[p].role = role, process'[p].role = role,
         \A s1 \in Processes, r1 \in Roles :
           s1 # s \/ r1 # role => segment'[s1].count[r1] = segment[s1].count[r1],
         \/ /\ segment[s].count[role] = 0 /\ segment'[s].count[role] = 1
            /\ p \in CountedIn(s, role)'
         \/ /\ segment[s].count[role] = 1 /\ segment'[s].count[role] = 0
            /\ p \in CountedIn(s, role) /\ p \notin CountedIn(s, role)'
  PROVE  CountInv'
<1> SUFFICES ASSUME NEW s1 \in Processes, NEW r1 \in Roles
             PROVE  TrueCount(s1, r1)'
  BY DEF CountInv
<1>1. TrueCount(s1, r1)
  BY DEF CountInv
<1>2. CASE s1 # s \/ r1 # role
  <2>1. /\ CountedIn(s1, r1)' = CountedIn(s1, r1) /\ DiedIn(s1, r1)' = DiedIn(s1, r1)
        /\ segment'[s1].count[r1] = segment[s1].count[r1]
    BY <1>2 DEF CountedIn, DiedIn
  <2>2. QED
    BY <1>1, <2>1 DEF TrueCount
<1>3. CASE s1 = s /\ r1 = role
  <2>1. \A q \in Processes : q # p => (q \in CountedIn(s, role)' <=> q \in CountedIn(s, role))
    BY DEF CountedIn
  <2>2. \A q \in CountedIn(s, role)' : q \in Processes
    BY DEF CountedIn
  <2>3. QED
    BY <1>1, <1>3, <2>1, <2>2 DEF TrueCount
<1>4. QED
  BY <1>2, <1>3

\* The steps that leave the counters alone.
LEMMA UncountedStep ==
  ASSUME SessionInv, NEW p \in Processes, Moves(p), ~Counts(p)
  PROVE  CountInv'
<1> USE DEF Setup, InCopy, Cleanup, At
<1>1. /\ process \in [Processes -> ProcessTypes] /\ GoodProcess(process[p]) /\ CountInv
      /\ \A s \in Processes : segment'[s].count = segment[s].count
  BY FlagsStep DEF SessionInv, ProcessInv
<1>2. \A q \in Processes : q # p => process'[q] = process[q]
  BY MovesFacts
\* Outside of copy(), before and after.
<1>3. CASE SetsUp(p) \/ ChecksWriters(p) \/ ChecksReaders(p) \/ RemovesSegment(p) \/ ClosesFile(p)
  <2>1. process[p].pc \notin InCopy \cup {"leave", "crashed", "undefined", "dead"}
    BY <1>3 DEF SetsUp, Counts, CreatesSegment, FindsNameTaken, OpensSegment, ConstructsProcInfo,
       GetsQueue, FillsProcInfo, ChoosesReader, ChoosesWriter, ChecksWriters, ChecksReaders,
       RemovesSegment, ClosesFile
  <2>2. process'[p].pc \notin InCopy \cup {"leave"}
    BY <1>1, <1>3 DEF SetsUp, Counts, Goto, CreatesSegment, FindsNameTaken, OpensSegment,
       ConstructsProcInfo, GetsQueue, FillsProcInfo, ChoosesReader, ChoosesWriter,
       ChecksWriters, ChecksReaders, RemovesSegment, ClosesFile, ProcessTypes
  <2>3. QED
    BY <1>1, <1>2, <2>1, <2>2, CountsStay DEF CountedIn, DiedIn
\* Inside copy() before, and inside, leaving or dead after.
<1>4. CASE Copies(p)
  <2>1. /\ process[p].pc \in InCopy
        /\ process'[p].pc \in InCopy \cup {"leave", "crashed", "undefined"}
        /\ process'[p].segment = process[p].segment
        /\ process'[p].role = process[p].role
    BY <1>1, <1>4 DEF Copies, Goto, UsesNullQueue, OpensQueue, Reads, ClosesQueue, AwaitsWriter,
       CreatesFile, SignalsStart, Writes, PassesWait, TakesNothing, StopsWriting, ProcessTypes
  <2>2. QED
    BY <1>1, <1>2, <2>1, CountsStay DEF CountedIn, DiedIn
<1>5. CASE Dies(p)
  <2>1. /\ process'[p].pc = "dead"
        /\ process'[p].segment = process[p].segment
        /\ process'[p].role = process[p].role
    BY <1>1, <1>5 DEF Dies, Goto, ProcessTypes
  <2>2. QED
    BY <1>1, <1>2, <2>1, CountsStay DEF CountedIn, DiedIn
<1>6. QED
  BY <1>3, <1>4, <1>5 DEF Moves, CleansUp, Counts

\* A segment with one counter set.
LEMMA CounterSet ==
  ASSUME SegmentInv, NEW s \in Processes, NEW role \in Roles, NEW n \in {0, 1}, NEW counts,
         counts = [r \in Roles |-> IF r = role THEN n ELSE segment[s].count[r]],
         segment' = [segment EXCEPT ![s] = [segment[s] EXCEPT !.count = counts]]
  PROVE  /\ SegmentInv'
         /\ segment'[s].count[role] = n
         /\ \A s1 \in Processes, r1 \in Roles :
              s1 # s \/ r1 # role => segment'[s1].count[r1] = segment[s1].count[r1]
<1> DEFINE g == [segment[s] EXCEPT !.count = counts]
<1>1. segment[s] \in SegmentTypes /\ Len(segment[s].filled) <= BUFFERS_IN_QUEUE
  BY DEF SegmentInv
<1>2. counts \in [Roles -> Nat]
  BY <1>1 DEF SegmentTypes
<1>3. g \in SegmentTypes /\ g.filled = segment[s].filled /\ g.count = counts
  BY <1>1, <1>2 DEF SegmentTypes
<1>4. segment' = [segment EXCEPT ![s] = g]
  OBVIOUS
<1> HIDE DEF g
<1>5. SegmentInv'
  BY <1>1, <1>3, <1>4, OneSegmentChanges
<1>6. segment'[s].count = counts /\ \A s1 \in Processes : s1 # s => segment'[s1] = segment[s1]
  BY <1>3, <1>4 DEF SegmentInv
<1>7. QED
  BY <1>5, <1>6

LEMMA RegistersStep ==
  ASSUME SessionInv, NEW p \in Processes, Registers(p)
  PROVE  SegmentInv' /\ CountInv'
<1> DEFINE s == process[p].segment
           role == process[p].role
           counts == [segment[s].count EXCEPT ![role] = segment[s].count[role] + 1]
<1> USE DEF Setup, InCopy, Cleanup, Mapped, At
<1>1. /\ process \in [Processes -> ProcessTypes] /\ process[p] \in ProcessTypes
      /\ GoodProcess(process[p]) /\ CountInv /\ SegmentInv
      /\ segment \in [Processes -> SegmentTypes]
      /\ process[p].pc = "register"
  BY DEF SessionInv, ProcessInv, SegmentInv, Registers
<1>2. s \in Processes /\ role \in Roles /\ Mine(p) = segment[s] /\ segment[s] \in SegmentTypes
  BY <1>1, MineFacts DEF GoodProcess, Mine
<1>3. \A q \in Processes : q # p => process'[q] = process[q]
  BY <1>1 DEF Registers, Goto
<1>4. CASE Mine(p).count[role] # 0
  <2>1. /\ UNCHANGED segment /\ process'[p].role = "Invalid"
    BY <1>1, <1>4 DEF Registers, ProcessTypes
  <2>2. SegmentInv'
    BY <1>1, <2>1 DEF SegmentInv
  <2>3. \A s1 \in Processes, r1 \in Roles :
          /\ p \notin CountedIn(s1, r1)'
          /\ p \notin CountedIn(s1, r1) \cup DiedIn(s1, r1)
    BY <1>1, <2>1 DEF CountedIn, DiedIn, Roles
  <2>4. QED
    BY <1>1, <1>3, <2>1, <2>2, <2>3, CountsStay
<1>5. CASE Mine(p).count[role] = 0
  <2>1. segment' = [segment EXCEPT ![s] = [segment[s] EXCEPT !.count = counts]]
    BY <1>1, <1>2, <1>5 DEF Registers, SegmentTypes
  <2>2. /\ process'[p].segment = s /\ process'[p].role = role
        /\ process'[p].pc \in {"openQueue", "create"}
    BY <1>1, <1>5 DEF Registers, Goto, ProcessTypes
  <2>3. counts = [r \in Roles |-> IF r = role THEN 1 ELSE segment[s].count[r]]
    BY <1>2, <1>5 DEF SegmentTypes
  <2> HIDE DEF counts
  <2>4. /\ SegmentInv' /\ segment'[s].count[role] = 1
        /\ \A s1 \in Processes, r1 \in Roles :
             s1 # s \/ r1 # role => segment'[s1].count[r1] = segment[s1].count[r1]
    <3> HIDE DEF s, role
    <3>1. SegmentInv /\ s \in Processes /\ role \in Roles /\ 1 \in {0, 1}
      BY <1>1, <1>2
    <3>2. QED
      BY <2>1, <2>3, <3>1, CounterSet
  <2>5. p \in CountedIn(s, role)'
    BY <2>2 DEF CountedIn
  <2>6. segment[s].count[role] = 0
    BY <1>2, <1>5
  <2>7. QED
    BY <1>1, <1>2, <1>3, <2>2, <2>4, <2>5, <2>6, CountChanges
<1>6. QED
  BY <1>4, <1>5

\* Being counted out, in ~IPCTool or by the observer.
LEMMA CountedOut ==
  ASSUME SessionInv, NEW p \in Processes, NEW counts,
         process[p].pc \in InCopy \cup {"leave"}, process[p].role \in Roles,
         \E pc \in {"check", "dead"} : Goto(p, pc),
         counts = [r \in Roles |-> IF r = process[p].role
                                   THEN Mine(p).count[r] - 1 ELSE Mine(p).count[r]],
         segment' = [segment EXCEPT ![process[p].segment] = [Mine(p) EXCEPT !.count = counts]]
  PROVE  SegmentInv' /\ CountInv'
<1> DEFINE s == process[p].segment
           role == process[p].role
<1> USE DEF Setup, InCopy, Cleanup, Mapped
<1>1. /\ process \in [Processes -> ProcessTypes] /\ process[p] \in ProcessTypes
      /\ CountInv /\ SegmentInv
  BY DEF SessionInv, ProcessInv
<1>2. /\ s \in Processes /\ role \in Roles /\ Mine(p) = segment[s]
      /\ segment[s].count[role] = 1
  BY MineFacts DEF Mine
<1>3. /\ \A q \in Processes : q # p => process'[q] = process[q]
      /\ process'[p].segment = s /\ process'[p].role = role
      /\ process'[p].pc \in {"check", "dead"}
  BY <1>1 DEF Goto, ProcessTypes
<1>4. counts = [r \in Roles |-> IF r = role THEN 0 ELSE segment[s].count[r]]
  BY <1>2
<1>5. /\ SegmentInv' /\ segment'[s].count[role] = 0
      /\ \A s1 \in Processes, r1 \in Roles :
           s1 # s \/ r1 # role => segment'[s1].count[r1] = segment[s1].count[r1]
  BY <1>1, <1>2, <1>4, CounterSet
<1>6. p \in CountedIn(s, role) /\ p \notin CountedIn(s, role)'
  BY <1>3 DEF CountedIn
<1>7. QED
  BY <1>1, <1>2, <1>3, <1>5, <1>6, CountChanges

LEMMA LeavesStep ==
  ASSUME SessionInv, NEW p \in Processes, Leaves(p)
  PROVE  SegmentInv' /\ CountInv'
<1> DEFINE s == process[p].segment
           role == process[p].role
           counts == [r \in Roles |-> IF r = role THEN Mine(p).count[r] - 1 ELSE Mine(p).count[r]]
<1> USE DEF Setup, InCopy, Cleanup, Mapped, At
<1>1. /\ process \in [Processes -> ProcessTypes] /\ process[p] \in ProcessTypes
      /\ CountInv /\ SegmentInv
      /\ segment \in [Processes -> SegmentTypes]
      /\ process[p].pc = "leave" /\ Goto(p, "check")
  BY DEF SessionInv, ProcessInv, SegmentInv, Leaves
<1>2. s \in Processes /\ Mine(p) = segment[s] /\ segment[s] \in SegmentTypes
  BY <1>1, MineFacts DEF Mine
<1>3. segment' = [segment EXCEPT ![s] = [Mine(p) EXCEPT !.count = counts]]
  BY <1>1, <1>2 DEF Leaves, SegmentTypes
<1>4. CASE role \in Roles
  <2> HIDE DEF counts
  <2>1. \E pc \in {"check", "dead"} : Goto(p, pc)
    BY <1>1
  <2>2. process[p].pc \in InCopy \cup {"leave"}
    BY <1>1
  <2>3. QED
    BY <1>3, <1>4, <2>1, <2>2, CountedOut DEF counts
<1>5. CASE role \notin Roles
  <2>1. counts = segment[s].count
    BY <1>2, <1>5 DEF SegmentTypes
  <2>2. [Mine(p) EXCEPT !.count = counts] = segment[s]
    BY <1>2, <2>1 DEF SegmentTypes
  <2>3. segment' = segment
    BY <1>1, <1>2, <1>3, <2>2
  <2>4. SegmentInv'
    BY <1>1, <2>3 DEF SegmentInv
  <2>5. /\ \A q \in Processes : q # p => process'[q] = process[q]
        /\ process'[p].pc = "check"
    BY <1>1 DEF Goto, ProcessTypes
  <2>6. \A s1 \in Processes, r1 \in Roles :
          /\ p \notin CountedIn(s1, r1)'
          /\ p \notin CountedIn(s1, r1) \cup DiedIn(s1, r1)
    BY <1>1, <1>5, <2>5 DEF CountedIn, DiedIn
  <2>7. QED
    BY <1>1, <2>3, <2>4, <2>5, <2>6, CountsStay
<1>6. QED
  BY <1>4, <1>5

LEMMA TimesOutStep ==
  ASSUME SessionInv, NEW p \in Processes, TimesOut(p)
  PROVE  SegmentInv' /\ CountInv'
<1> DEFINE s == process[p].segment
           role == process[p].role
           counts == [r \in Roles |-> IF r = role THEN Mine(p).count[r] - 1 ELSE Mine(p).count[r]]
<1> USE DEF Setup, InCopy, Cleanup, Mapped
<1>1. /\ process \in [Processes -> ProcessTypes] /\ process[p] \in ProcessTypes
      /\ GoodProcess(process[p]) /\ CountInv /\ SegmentInv
      /\ segment \in [Processes -> SegmentTypes]
      /\ process[p].pc \in InCopy /\ Goto(p, "dead")
  BY DEF SessionInv, ProcessInv, SegmentInv, TimesOut, Watches
<1>2. /\ s \in Processes /\ Mine(p) = segment[s] /\ segment[s] \in SegmentTypes
      /\ role \in Roles
  BY <1>1, MineFacts DEF Mine, GoodProcess
<1>3. CASE UNCHANGED segment
  <2>1. SegmentInv'
    BY <1>1, <1>3 DEF SegmentInv
  <2>2. /\ \A q \in Processes : q # p => process'[q] = process[q]
        /\ process'[p].pc = "dead"
        /\ process'[p].segment = s /\ process'[p].role = role
    BY <1>1 DEF Goto, ProcessTypes
  <2>3. QED
    BY <1>1, <1>3, <2>1, <2>2, CountsStay DEF CountedIn, DiedIn
<1>4. CASE segment' = [segment EXCEPT ![s].count[role] = @ - 1]
  <2>1. [segment[s].count EXCEPT ![role] = @ - 1] = counts
    BY <1>2 DEF SegmentTypes
  <2>2. segment' = [segment EXCEPT ![s] = [Mine(p) EXCEPT !.count = counts]]
    BY <1>1, <1>2, <1>4, <2>1 DEF SegmentTypes
  <2> HIDE DEF counts
  <2>3. (\E pc \in {"check", "dead"} : Goto(p, pc)) /\ process[p].pc \in InCopy \cup {"leave"}
    BY <1>1
  <2>4. QED
    BY <1>2, <2>2, <2>3, CountedOut DEF counts
<1>5. QED
  BY <1>3, <1>4 DEF TimesOut

-----------------------------------------------------------------------------
(* The name *)

\* Somebody is still to remove the segment that has the name, or was cut short
\* in it: so it stays if nobody but p moves, and if p goes on towards the check
\* of the counters, or is cut short, or finds somebody counted.
LEMMA NameStays ==
  ASSUME LeakInv, NEW p \in Processes, shm' = shm,
         \A q \in Processes : q # p => process'[q] = process[q],
         process[p].pc \notin Ended,
         process[p].pc \in Mapped \ {"flush"} =>
           /\ process'[p].segment = process[p].segment
           /\ \/ process'[p].pc \in (Mapped \ {"flush"}) \cup {"crashed", "undefined", "dead"}
              \/ process'[p].pc = "failed" /\ process'[p].role = "Invalid"
              \/ \E q \in MayRemove(process[p].segment) \cup CutShortIn(process[p].segment) : q # p
  PROVE  LeakInv'
<1> USE DEF Ended
<1>1. SUFFICES ASSUME shm # NoSegment
               PROVE  \E q \in Processes : q \in MayRemove(shm)' \cup CutShortIn(shm)'
  BY DEF LeakInv
<1>2. ASSUME NEW q \in MayRemove(shm) \cup CutShortIn(shm), q # p
      PROVE  q \in Processes /\ q \in MayRemove(shm)' \cup CutShortIn(shm)'
  BY <1>2 DEF MayRemove, CutShortIn
<1>3. PICK q \in MayRemove(shm) \cup CutShortIn(shm) : TRUE
  BY <1>1 DEF LeakInv
<1>4. CASE q = p
  <2>1. p \in MayRemove(shm)
    BY <1>3, <1>4 DEF MayRemove, CutShortIn
  <2>2. process[p].segment = shm /\ process[p].pc \in Mapped \ {"flush"}
    BY <2>1 DEF MayRemove
  <2>3. CASE \E u \in MayRemove(shm) \cup CutShortIn(shm) : u # p
    BY <1>2, <2>3
  <2>4. CASE \/ process'[p].pc \in (Mapped \ {"flush"}) \cup {"crashed", "undefined", "dead"}
             \/ process'[p].pc = "failed" /\ process'[p].role = "Invalid"
    BY <2>2, <2>4 DEF MayRemove, CutShortIn
  <2>5. QED
    BY <2>2, <2>3, <2>4
<1>5. QED
  BY <1>2, <1>3, <1>4

\* A counter that is not zero counts somebody who is to check it later, or died.
LEMMA CountedMayRemove ==
  ASSUME SessionInv, NEW p \in Processes, process[p].pc \in {"check", "checkReaders"},
         NEW role \in Roles, Mine(p).count[role] # 0
  PROVE  \E q \in MayRemove(process[p].segment) \cup CutShortIn(process[p].segment) : q # p
<1> DEFINE s == process[p].segment
<1>1. s \in Processes /\ Mine(p) = segment[s]
  BY MineFacts DEF Mine, Mapped, Cleanup
<1>2. TrueCount(s, role)
  BY <1>1 DEF SessionInv, CountInv
<1>3. PICK q \in CountedIn(s, role) \cup DiedIn(s, role) : TRUE
  BY <1>1, <1>2 DEF TrueCount
<1>4. q # p
  BY <1>3 DEF CountedIn, DiedIn, InCopy
<1>5. q \in MayRemove(s) \cup CutShortIn(s)
  BY <1>3 DEF CountedIn, DiedIn, MayRemove, CutShortIn, Mapped, Setup, InCopy, Cleanup
<1>6. QED
  BY <1>4, <1>5

LEMMA NameStep ==
  ASSUME SessionInv, NEW p \in Processes, Moves(p)
  PROVE  LeakInv'
<1> USE DEF Setup, InCopy, Cleanup, Ended, Mapped, At
<1>1. /\ process \in [Processes -> ProcessTypes] /\ process[p] \in ProcessTypes
      /\ GoodProcess(process[p]) /\ LeakInv /\ NoSegment \notin Processes
  BY SessionAssumption DEF SessionInv, ProcessInv
<1>2. CASE RemovesSegment(p) \/ TimesOut(p)
  BY <1>1, <1>2 DEF RemovesSegment, TimesOut, LeakInv
<1>3. CASE CreatesSegment(p)
  <2>1. shm' = p /\ process'[p].pc = "procInfo" /\ process'[p].segment = p
    BY <1>1, <1>3 DEF CreatesSegment, ProcessTypes
  <2>2. p \in MayRemove(p)'
    BY <2>1 DEF MayRemove
  <2>3. QED
    BY <2>1, <2>2 DEF LeakInv, MayRemove, CutShortIn
<1>4. CASE ~(RemovesSegment(p) \/ TimesOut(p) \/ CreatesSegment(p))
  <2>1. /\ \A q \in Processes : q # p => process'[q] = process[q]
        /\ process[p].pc \notin Ended
    BY MovesFacts
  <2>2. shm' = shm
    <3>1. CASE SetsUp(p)
      BY <1>4, <3>1 DEF SetsUp, FindsNameTaken, OpensSegment, ConstructsProcInfo, GetsQueue,
         FillsProcInfo, ChoosesReader, ChoosesWriter, Registers
    <3>2. CASE Copies(p)
      BY <3>2 DEF Copies, UsesNullQueue, OpensQueue, Reads, ClosesQueue, AwaitsWriter,
         CreatesFile, SignalsStart, Writes, PassesWait, TakesNothing, StopsWriting
    <3>3. CASE CleansUp(p) \/ Dies(p)
      BY <1>4, <3>3 DEF CleansUp, Leaves, ChecksWriters, ChecksReaders, ClosesFile, Dies
    <3>4. QED
      BY <1>4, <3>1, <3>2, <3>3 DEF Moves
  <2>3. CASE SetsUp(p)
    <3>1. process[p].pc \in Mapped => process'[p].segment = process[p].segment
      BY <1>1, <1>4, <2>3 DEF SetsUp, Goto, FindsNameTaken, OpensSegment, ConstructsProcInfo,
         GetsQueue, FillsProcInfo, ChoosesReader, ChoosesWriter, Registers, ProcessTypes
    <3>2. process[p].pc \in Mapped =>
            \/ process'[p].pc \in (Mapped \ {"flush"}) \cup {"crashed", "undefined", "dead"}
            \/ process'[p].pc = "failed" /\ process'[p].role = "Invalid"
      BY <1>1, <1>4, <2>3 DEF SetsUp, Goto, FindsNameTaken, OpensSegment, ConstructsProcInfo,
         GetsQueue, FillsProcInfo, ChoosesReader, ChoosesWriter, Registers, ProcessTypes, GoodProcess
    <3>3. QED
      BY <1>1, <2>1, <2>2, <3>1, <3>2, NameStays
  <2>4. CASE Copies(p) \/ Leaves(p) \/ Dies(p)
    <3>1. process'[p].segment = process[p].segment
      BY <1>1, <2>4 DEF Copies, Goto, UsesNullQueue, OpensQueue, Reads, ClosesQueue, AwaitsWriter,
         CreatesFile, SignalsStart, Writes, PassesWait, TakesNothing, StopsWriting, Leaves, Dies, ProcessTypes
    <3>2. process'[p].pc \in (Mapped \ {"flush"}) \cup {"crashed", "undefined", "dead"}
      BY <1>1, <2>4 DEF Copies, Goto, UsesNullQueue, OpensQueue, Reads, ClosesQueue, AwaitsWriter,
         CreatesFile, SignalsStart, Writes, PassesWait, TakesNothing, StopsWriting, Leaves, Dies, ProcessTypes
    <3>3. QED
      BY <1>1, <2>1, <2>2, <3>1, <3>2, NameStays
  <2>5. CASE ChecksWriters(p) \/ ChecksReaders(p)
    <3>1. /\ process'[p].segment = process[p].segment
          /\ process[p].pc \in {"check", "checkReaders"}
      BY <1>1, <2>5 DEF ChecksWriters, ChecksReaders, Goto, ProcessTypes
    <3>2. \/ process'[p].pc \in {"checkReaders", "remove"}
          \/ \E role \in Roles : Mine(p).count[role] # 0
      BY <1>1, <2>5 DEF ChecksWriters, ChecksReaders, Goto, ProcessTypes, Roles
    <3>3. QED
      BY <1>1, <2>1, <2>2, <3>1, <3>2, NameStays, CountedMayRemove
  <2>6. CASE ClosesFile(p)
    <3>1. process[p].pc = "flush"
      BY <2>6 DEF ClosesFile
    <3>2. QED
      BY <1>1, <2>1, <2>2, <3>1, NameStays
  <2>7. QED
    BY <1>4, <2>3, <2>4, <2>5, <2>6 DEF Moves, CleansUp
<1>5. QED
  BY <1>2, <1>3, <1>4

-----------------------------------------------------------------------------
(* The file *)

FileTypes == Seq({Hole} \cup 1..Chunks)

LEMMA OverwriteType ==
  ASSUME NEW f \in FileTypes, NEW position \in Nat, NEW chunks \in Seq(1..Chunks)
  PROVE  Overwrite(f, position, chunks) \in FileTypes
<1> DEFINE S == {Hole} \cup 1..Chunks
           end == position + Len(chunks)
           n == IF Len(f) > end THEN Len(f) ELSE end
<1>1. /\ Len(f) \in Nat /\ Len(chunks) \in Nat /\ end \in Nat /\ n \in Nat
      /\ \A i \in 1..Len(f) : f[i] \in S
      /\ \A i \in 1..Len(chunks) : chunks[i] \in S
  <2>1. Len(f) \in Nat /\ Len(chunks) \in Nat
    BY LenProperties DEF FileTypes
  <2>2. end \in Nat /\ n \in Nat
    BY <2>1
  <2>3. \A i \in 1..Len(f) : f[i] \in S
    BY ElementOfSeq DEF FileTypes
  <2>4. \A i \in 1..Len(chunks) : chunks[i] \in 1..Chunks
    BY ElementOfSeq
  <2>5. QED
    BY <2>1, <2>2, <2>3, <2>4
<1>2. \A i \in position + 1 .. end : i - position \in 1..Len(chunks)
  BY <1>1
<1> DEFINE new == [i \in 1..n |->
                     IF i \in position + 1 .. end THEN chunks[i - position]
                     ELSE IF i <= Len(f) THEN f[i] ELSE Hole]
<1>3. \A i \in 1..n : i <= Len(f) => i \in 1..Len(f)
  BY <1>1
<1>4. Hole \in S
  OBVIOUS
<1> HIDE DEF S, end, n
<1>5. new \in [1..n -> S]
  BY <1>1, <1>2, <1>3, <1>4
<1>6. Overwrite(f, position, chunks) = new
  BY DEF Overwrite, end, n
<1> HIDE DEF new
<1>7. new \in Seq(S)
  BY <1>1, <1>5, SeqDef
<1>8. QED
  BY <1>6, <1>7 DEF FileTypes, S

LEMMA FileStep ==
  ASSUME SessionInv, NEW p \in Processes, Moves(p)
  PROVE  file' \in FileTypes
<1>1. /\ process[p] \in ProcessTypes /\ file \in FileTypes
  BY DEF SessionInv, ProcessInv, FileTypes
<1>2. process[p].position \in Nat /\ process[p].stream \in Seq(1..Chunks)
  BY <1>1 DEF ProcessTypes
<1>3. CASE Writes(p)
  <2> DEFINE stream == Append(process[p].stream, Head(Mine(p).filled))
  <2>1. process[p].pc = "write" /\ Mine(p).filled # <<>>
    BY <1>3 DEF Writes, At
  <2>2. Mine(p) \in SegmentTypes
    BY <2>1, MineFacts DEF Mapped, InCopy
  <2>3. Mine(p).filled \in Seq(1..Chunks)
    BY <2>2 DEF SegmentTypes
  <2>4. Head(Mine(p).filled) \in 1..Chunks
    BY <2>1, <2>3, FirstAndRest
  <2>5. stream \in Seq(1..Chunks)
    BY <1>2, <2>4
  <2>6. file' = file \/ file' = Overwrite(file, process[p].position, stream)
    BY <1>3 DEF Writes
  <2> HIDE DEF stream
  <2>7. QED
    BY <1>1, <1>2, <2>5, <2>6, OverwriteType
<1>4. CASE ClosesFile(p) \/ TimesOut(p)
  <2>1. file' = file \/ file' = Overwrite(file, process[p].position, process[p].stream)
    BY <1>4 DEF ClosesFile, TimesOut
  <2>2. QED
    BY <1>1, <1>2, <2>1, OverwriteType
<1>5. CASE CreatesFile(p)
  <2>1. file' = file \/ file' = <<>>
    BY <1>5 DEF CreatesFile
  <2>2. <<>> \in FileTypes
    BY DEF FileTypes
  <2>3. QED
    BY <1>1, <2>1, <2>2
<1>6. CASE ~(Writes(p) \/ ClosesFile(p) \/ TimesOut(p) \/ CreatesFile(p))
  <2>1. file' = file
    <3>1. CASE SetsUp(p)
      BY <3>1 DEF SetsUp, CreatesSegment, FindsNameTaken, OpensSegment, ConstructsProcInfo,
         GetsQueue, FillsProcInfo, ChoosesReader, ChoosesWriter, Registers
    <3>2. CASE Copies(p)
      BY <1>6, <3>2 DEF Copies, UsesNullQueue, OpensQueue, Reads, ClosesQueue, AwaitsWriter,
         SignalsStart, PassesWait, TakesNothing, StopsWriting
    <3>3. CASE CleansUp(p) \/ Dies(p)
      BY <1>6, <3>3 DEF CleansUp, Leaves, ChecksWriters, ChecksReaders, RemovesSegment, Dies
    <3>4. QED
      BY <1>6, <3>1, <3>2, <3>3 DEF Moves
  <2>2. QED
    BY <1>1, <2>1
<1>7. QED
  BY <1>3, <1>4, <1>5, <1>6

-----------------------------------------------------------------------------
(* The theorems *)

LEMMA SessionStarts == SessionInit => SessionInv
<1> SUFFICES ASSUME SessionInit
             PROVE  SessionInv
  OBVIOUS
<1>1. NewProcess \in ProcessTypes /\ GoodProcess(NewProcess)
  <2>1. <<>> \in Seq(1..Chunks) /\ 1 \in 1..Chunks + 1
    BY SessionAssumption
  <2>2. QED
    BY <2>1 DEF NewProcess, ProcessTypes, GoodProcess, Setup, InCopy, Cleanup, Mapped
<1>2. ProcessInv
  BY <1>1 DEF SessionInit, ProcessInv
<1>3. EmptySegment \in SegmentTypes /\ Len(EmptySegment.filled) = 0
  <2>1. <<>> \in Seq(1..Chunks)
    OBVIOUS
  <2>2. QED
    BY <2>1 DEF EmptySegment, SegmentTypes
<1>4. SegmentInv
  BY <1>3, SessionAssumption DEF SessionInit, SegmentInv
<1>5. CountInv
  <2> SUFFICES ASSUME NEW s \in Processes, NEW role \in Roles
               PROVE  TrueCount(s, role)
    BY DEF CountInv
  <2>1. CountedIn(s, role) = {}
    BY DEF SessionInit, NewProcess, CountedIn, InCopy
  <2>2. segment[s].count[role] = 0
    BY DEF SessionInit, EmptySegment
  <2>3. QED
    BY <2>1, <2>2 DEF TrueCount
<1>6. LeakInv /\ file \in FileTypes
  BY DEF SessionInit, LeakInv, FileTypes
<1>7. QED
  BY <1>2, <1>4, <1>5, <1>6 DEF SessionInv, FileTypes

LEMMA SessionStep == SessionInv /\ [SessionNext]_sessionVars => SessionInv'
<1> SUFFICES ASSUME SessionInv, [SessionNext]_sessionVars
             PROVE  SessionInv'
  OBVIOUS
<1>1. CASE UNCHANGED sessionVars
  BY <1>1 DEF sessionVars, SessionInv, ProcessInv, SegmentInv, CountInv, TrueCount, CountedIn,
     DiedIn, LeakInv, MayRemove, CutShortIn
<1>2. ASSUME NEW p \in Processes, Moves(p)
      PROVE  SessionInv'
  <2>1. SegmentInv' /\ CountInv'
    BY <1>2, FlagsStep, UncountedStep, RegistersStep, LeavesStep, TimesOutStep DEF Counts
  <2>2. QED
    BY <1>2, <2>1, ProcessesStep, NameStep, FileStep DEF SessionInv, FileTypes
<1>3. ASSUME NEW p \in Processes, SeesNobody(p)
      PROVE  SessionInv'
  <2>1. /\ UNCHANGED <<shm, segment, file>>
        /\ process' \in [Processes -> ProcessTypes]
        /\ \A q \in Processes :
             /\ process'[q].pc = process[q].pc
             /\ process'[q].segment = process[q].segment
             /\ process'[q].role = process[q].role
             /\ process'[q].next = process[q].next
    BY <1>3, DecisionIsPrivate DEF SessionInv, SameButAlone
  <2>2. ProcessInv' /\ SegmentInv'
    BY <2>1 DEF SessionInv, ProcessInv, GoodProcess, SegmentInv
  <2>3. CountInv'
    BY <2>1 DEF SessionInv, CountInv, TrueCount, CountedIn, DiedIn
  <2>4. LeakInv'
    BY <2>1 DEF SessionInv, LeakInv, MayRemove, CutShortIn
  <2>5. QED
    BY <2>1, <2>2, <2>3, <2>4 DEF SessionInv
<1>4. QED
  BY <1>1, <1>2, <1>3, SessionSteps

LEMMA SessionInvariant == SessionSpec => []SessionInv
BY SessionStarts, SessionStep, PTL DEF SessionSpec

\* Segments, processes and the file keep their types: no counter falls below
\* zero, and nothing but chunks of the source and holes is ever in the file.
THEOREM SessionTypeCorrect == SessionSpec => []SessionTypeOK
<1>1. SessionInv => SessionTypeOK
  BY DEF SessionInv, ProcessInv, SegmentInv, LeakInv, SessionTypeOK
<1>2. QED
  BY <1>1, SessionInvariant, PTL

\* However many processes are launched, at whatever moment, and whoever is
\* killed or gives up: a counter is the number of those who copy in that role,
\* one at most, but for one who died in it.
THEOREM CountersStayTrue == SessionSpec => []CountersAreTrue
<1>1. ASSUME SessionInv, NEW s \in Processes, NEW role \in Roles
      PROVE  LET count == segment[s].count[role]
             IN /\ count <= 1
                /\ Cardinality(CountedIn(s, role)) <= count
                /\ count <= Cardinality(CountedIn(s, role) \cup DiedIn(s, role))
  <2> DEFINE count == segment[s].count[role]
             C == CountedIn(s, role)
             D == DiedIn(s, role)
  <2>1. /\ count \in {0, 1} /\ (count = 0 => C = {}) /\ (count = 1 => C \cup D # {})
        /\ \A p, q \in C : p = q
    BY <1>1 DEF SessionInv, CountInv, TrueCount
  <2>2. IsFiniteSet(C \cup D) /\ Cardinality(C \cup D) \in Nat
    <3>1. C \cup D \in SUBSET Processes
      BY DEF CountedIn, DiedIn
    <3>2. QED
      BY <3>1, SessionAssumption, FS_Subset, FS_CardinalityType
  <2>3. C = {} \/ \E p : C = {p}
    BY <2>1
  <2> HIDE DEF C, D
  <2>4. \/ C = {} /\ Cardinality(C) = 0
        \/ C # {} /\ Cardinality(C) = 1
    BY <2>3, FS_EmptySet, FS_Singleton
  <2>5. C \cup D # {} => Cardinality(C \cup D) # 0
    BY <2>2, FS_EmptySet
  <2>6. QED
    BY <2>1, <2>2, <2>4, <2>5 DEF C, D
<1>2. SessionInv => CountersAreTrue
  BY <1>1 DEF CountersAreTrue
<1>3. QED
  BY <1>2, SessionInvariant, PTL

\* Although the counters are read without the mutex, one after the other, of
\* those who leave a segment one removes it: when all have ended and there is
\* still a segment, somebody was cut short in it.
THEOREM NothingLeaks == SessionSpec => []NoSegmentLeaks
<1>1. ASSUME SessionInv, AllEnded, shm # NoSegment
      PROVE  CutShortIn(shm) # {}
  <2>1. MayRemove(shm) = {}
    BY <1>1 DEF AllEnded, Launched, At, MayRemove, Mapped, Setup, InCopy, Cleanup, Ended
  <2>2. QED
    BY <1>1, <2>1 DEF SessionInv, LeakInv
<1>2. SessionInv => NoSegmentLeaks
  BY <1>1 DEF NoSegmentLeaks
<1>3. QED
  BY <1>2, SessionInvariant, PTL

-----------------------------------------------------------------------------
(***************************************************************************)
(* A pair of processes.  PairInv says of one process that was launched     *)
(* alone, and of two that were launched one after the other, where they    *)
(* can be and what is then in the segment and in the file; of three it     *)
(* says nothing, and nothing of two of which one was cut short.            *)
(***************************************************************************)

\* It was not launched too early, neither killed nor given up, and it had its
\* source if it was to read.
Fine(p) == process[p].calm /\ ~At(p, "dead") /\ ~LacksSource(p)

BeforeReading == {"procInfo", "queue", "fill", "choose", "register", "openQueue"}
AfterReading == {"close", "await", "leave", "check", "checkReaders", "remove", "flush", "exited"}

\* r: the first process; w: the second, or a process that was not launched;
\* s: the segment that the first has created.
ReaderOfPair(f, r, s) ==
  /\ r.pc \in BeforeReading \cup {"read"} \cup AfterReading
  /\ r.first /\ r.segment = f /\ r.stream = <<>> /\ r.status = 0
  /\ r.role = IF r.pc \in {"procInfo", "queue", "fill", "choose"} THEN "Invalid" ELSE "Reader"
  /\ r.pc # "procInfo" => s.procInfo
  /\ r.pc \notin {"procInfo", "queue"} => s.queue /\ r.queue
  /\ r.pc \notin {"procInfo", "queue", "fill"} => s.dst
  /\ r.pc \in AfterReading => r.next = Chunks + 1

WriterPath == {"none", "open", "queue", "choose", "register", "create", "signal", "write",
               "take", "leave", "check", "checkReaders", "remove", "flush", "exited"}

WriterOfPair(f, r, w, name) ==
  /\ w.pc \in WriterPath
  /\ ~w.first /\ w.status = 0
  /\ w.pc # "none" => r.pc \in {"read"} \cup AfterReading
  /\ w.pc = "take" => r.pc \in AfterReading \ {"close"}
  /\ w.pc \in {"none", "open"} => name = f /\ w.segment = NoSegment
  /\ w.pc \notin {"none", "open"} => w.segment = f
  /\ w.pc \notin {"none", "open", "queue"} => w.queue
  /\ w.pc \notin {"none", "open", "queue", "choose"} => w.role = "Writer" /\ w.dst

SegmentOfPair(r, w, s) ==
  /\ ~s.lost
  /\ s.count["Reader"] = IF r.pc \in InCopy \cup {"leave"} THEN 1 ELSE 0
  /\ s.count["Writer"] = IF w.pc \in InCopy \cup {"leave"} THEN 1 ELSE 0
  /\ s.isOpen <=> r.pc \in {"read", "close"}
  /\ s.readFinished <=> r.pc \in AfterReading
  /\ s.started <=> w.pc \in {"write", "take", "exited"} \cup Cleanup
  /\ r.pc \in {"exited"} \cup Cleanup => s.started

\* The chunks k + 1, k + 2 and so on.
Consecutive(chunks, k) == \A i \in 1..Len(chunks) : chunks[i] = k + i

\* Every chunk that was read is in the file, in the writer's stream or in the
\* queue, in this order.
ChunksOfPair(r, w, s, copy) ==
  /\ w.pc # "exited" =>
       /\ Len(copy) = w.position
       /\ Consecutive(copy, 0)
       /\ Consecutive(w.stream, w.position)
       /\ Consecutive(s.filled, w.position + Len(w.stream))
       /\ w.position + Len(w.stream) + Len(s.filled) + 1 = r.next
  /\ w.pc \notin {"write", "take", "exited"} \cup Cleanup => copy = <<>> /\ w.stream = <<>>
  /\ w.pc \in Cleanup \cup {"exited"} => r.pc \in AfterReading /\ s.filled = <<>>
  /\ w.pc = "exited" => copy = Source

PairState(f, r, w, s, name, copy) ==
  /\ ReaderOfPair(f, r, s)
  /\ WriterOfPair(f, r, w, name)
  /\ SegmentOfPair(r, w, s)
  /\ ChunksOfPair(r, w, s, copy)

Lonely(f) ==
  /\ \A q \in Processes \ {f} : process[q] = NewProcess
  /\ PairState(f, process[f], NewProcess, segment[f], shm, file)

\* Those who have counted themselves out.  Who removes the name has seen that the
\* other has as well.
CountedOff == {"check", "checkReaders", "remove", "flush", "exited"}

NameOfPair(f, r, w, name) ==
  /\ r.pc \in {"checkReaders", "remove"} => w.pc \in CountedOff
  /\ w.pc = "remove" => r.pc \in CountedOff
  /\ name # f => r.pc \in CountedOff /\ w.pc \in CountedOff

Couple(f, g) ==
  /\ PairState(f, process[f], process[g], segment[f], shm, file)
  /\ NameOfPair(f, process[f], process[g], shm)
  /\ process[g].pc # "none"

PairInv ==
  /\ Launched = {} => SessionInit
  /\ \A f \in Processes : Launched = {f} /\ Fine(f) => Lonely(f)
  /\ \A f, g \in Processes :
       f # g /\ Launched = {f, g} /\ Fine(f) /\ Fine(g) => Couple(f, g) \/ Couple(g, f)

\* Writing at the end of the file appends.
LEMMA OverwriteAppends ==
  ASSUME NEW f \in FileTypes, NEW chunks \in Seq(1..Chunks)
  PROVE  LET new == Overwrite(f, Len(f), chunks)
         IN /\ new = [i \in 1..Len(f) + Len(chunks) |->
                         IF i <= Len(f) THEN f[i] ELSE chunks[i - Len(f)]]
            /\ Len(new) = Len(f) + Len(chunks)
<1> DEFINE new == [i \in 1..Len(f) + Len(chunks) |->
                     IF i <= Len(f) THEN f[i] ELSE chunks[i - Len(f)]]
<1>1. Len(f) \in Nat /\ Len(chunks) \in Nat
  BY LenProperties DEF FileTypes
<1>2. (IF Len(f) > Len(f) + Len(chunks) THEN Len(f) ELSE Len(f) + Len(chunks)) = Len(f) + Len(chunks)
  BY <1>1
<1>3. Overwrite(f, Len(f), chunks) =
        [i \in 1..Len(f) + Len(chunks) |->
           IF i \in Len(f) + 1 .. Len(f) + Len(chunks) THEN chunks[i - Len(f)]
           ELSE IF i <= Len(f) THEN f[i] ELSE Hole]
  BY <1>2 DEF Overwrite
<1>4. ASSUME NEW i \in 1..Len(f) + Len(chunks)
      PROVE  (IF i \in Len(f) + 1 .. Len(f) + Len(chunks) THEN chunks[i - Len(f)]
              ELSE IF i <= Len(f) THEN f[i] ELSE Hole)
             = IF i <= Len(f) THEN f[i] ELSE chunks[i - Len(f)]
  BY <1>1
<1>5. Overwrite(f, Len(f), chunks) = new
  BY <1>3, <1>4
<1>6. Len(new) = Len(f) + Len(chunks)
  <2>1. Overwrite(f, Len(f), chunks) \in FileTypes
    BY <1>1, OverwriteType
  <2>2. new \in Seq({Hole} \cup 1..Chunks)
    BY <1>5, <2>1 DEF FileTypes
  <2>3. DOMAIN new = 1..Len(new) /\ DOMAIN new = 1..Len(f) + Len(chunks) /\ Len(new) \in Nat
    BY <2>2, LenProperties
  <2>4. QED
    BY <1>1, <2>3
<1>7. QED
  BY <1>5, <1>6

\* A run of consecutive chunks stays one when the next is added, when the first
\* is taken, and when it is written behind another that it continues.
LEMMA NextAdded ==
  ASSUME NEW q \in Seq(1..Chunks), NEW k \in Nat, NEW c \in 1..Chunks,
         Consecutive(q, k), c = k + Len(q) + 1
  PROVE  /\ Append(q, c) \in Seq(1..Chunks) /\ Len(Append(q, c)) = Len(q) + 1
         /\ Consecutive(Append(q, c), k)
<1>1. Len(q) \in Nat
  BY LenProperties
<1>2. QED
  BY <1>1 DEF Consecutive

LEMMA FirstTaken ==
  ASSUME NEW q \in Seq(1..Chunks), NEW k \in Nat, Consecutive(q, k), q # <<>>
  PROVE  /\ Head(q) \in 1..Chunks /\ Head(q) = k + 1
         /\ Tail(q) \in Seq(1..Chunks) /\ Len(Tail(q)) = Len(q) - 1
         /\ Consecutive(Tail(q), k + 1)
<1>1. /\ Head(q) \in 1..Chunks /\ Tail(q) \in Seq(1..Chunks) /\ Len(Tail(q)) = Len(q) - 1
  BY FirstAndRest
<1>2. Len(q) \in Nat /\ Len(q) # 0
  BY LenProperties
<1>3. Head(q) = q[1] /\ \A i \in 1..Len(q) - 1 : Tail(q)[i] = q[i + 1]
  BY <1>2
<1>4. Head(q) = k + 1
  BY <1>2, <1>3 DEF Consecutive
<1>5. ASSUME NEW i \in 1..Len(q) - 1
      PROVE  Tail(q)[i] = k + 1 + i
  BY <1>2, <1>3 DEF Consecutive
<1>6. QED
  BY <1>1, <1>4, <1>5 DEF Consecutive

LEMMA RunWritten ==
  ASSUME NEW f \in FileTypes, NEW chunks \in Seq(1..Chunks),
         Consecutive(f, 0), Consecutive(chunks, Len(f))
  PROVE  LET new == Overwrite(f, Len(f), chunks)
         IN new \in FileTypes /\ Len(new) = Len(f) + Len(chunks) /\ Consecutive(new, 0)
<1> DEFINE new == Overwrite(f, Len(f), chunks)
<1>1. Len(f) \in Nat /\ Len(chunks) \in Nat
  BY LenProperties DEF FileTypes
<1>2. /\ new = [i \in 1..Len(f) + Len(chunks) |->
                  IF i <= Len(f) THEN f[i] ELSE chunks[i - Len(f)]]
      /\ Len(new) = Len(f) + Len(chunks)
  BY OverwriteAppends
<1>3. new \in FileTypes
  BY <1>1, OverwriteType
<1> HIDE DEF new
<1>4. ASSUME NEW i \in 1..Len(new)
      PROVE  new[i] = 0 + i
  <2>1. CASE i <= Len(f)
    BY <1>1, <1>2, <2>1 DEF Consecutive
  <2>2. CASE ~(i <= Len(f))
    <3>1. i - Len(f) \in 1..Len(chunks) /\ i \in Nat
      BY <1>1, <1>2, <2>2
    <3>2. chunks[i - Len(f)] = Len(f) + (i - Len(f))
      BY <3>1 DEF Consecutive
    <3>3. QED
      BY <1>1, <1>2, <2>2, <3>1, <3>2
  <2>3. QED
    BY <2>1, <2>2
<1>5. QED
  BY <1>2, <1>3, <1>4 DEF Consecutive, new

LEMMA RunIsSource ==
  ASSUME NEW f \in FileTypes, Consecutive(f, 0), Len(f) = Chunks
  PROVE  f = Source
<1>1. f = [i \in 1..Len(f) |-> f[i]]
  BY DEF FileTypes
<1>2. \A i \in 1..Chunks : f[i] = i
  BY SessionAssumption DEF Consecutive
<1>3. QED
  BY <1>1, <1>2 DEF Source

LEMMA TwoAreLaunched ==
  ASSUME Cardinality(Launched) = 2
  PROVE  \E f, g \in Processes : f # g /\ Launched = {f, g}
<1>1. IsFiniteSet(Launched)
  <2>1. Launched \in SUBSET Processes
    BY DEF Launched
  <2>2. QED
    BY <2>1, SessionAssumption, FS_Subset
<1>2. PICK f : f \in Launched
  BY <1>1, FS_EmptySet
<1>3. IsFiniteSet(Launched \ {f}) /\ Cardinality(Launched \ {f}) = 1
  BY <1>1, <1>2, FS_RemoveElement
<1>4. PICK g : Launched \ {f} = {g}
  BY <1>3, FS_Singleton
<1>5. QED
  BY <1>2, <1>4 DEF Launched

\* The invariant has in it what the property says.
LEMMA PairHasCopied ==
  ASSUME PairInv
  PROVE  PairCopies
<1> SUFFICES ASSUME AllEnded, Cardinality(Launched) = 2,
                    \A p \in Launched : Fine(p)
             PROVE  /\ \A p \in Launched : At(p, "exited")
                    /\ {process[p].role : p \in Launched} = Roles
                    /\ file = Source
  BY DEF PairCopies, UndisturbedPair, Fine
<1>1. PICK a, b \in Processes : a # b /\ Launched = {a, b}
  BY TwoAreLaunched
<1>2. Fine(a) /\ Fine(b)
  BY <1>1
<1>3. \E f, g \in Processes : Launched = {f, g} /\ Couple(f, g)
  BY <1>1, <1>2 DEF PairInv
<1>4. PICK f, g \in Processes : Launched = {f, g} /\ Couple(f, g)
  BY <1>3
<1>5. process[f].pc \in Ended /\ process[g].pc \in Ended
  BY <1>4 DEF AllEnded
<1>6. process[f].pc = "exited" /\ process[f].role = "Reader"
  BY <1>4, <1>5 DEF Couple, PairState, ReaderOfPair, BeforeReading, AfterReading, Ended
<1>7. process[g].pc = "exited" /\ process[g].role = "Writer"
  BY <1>4, <1>5 DEF Couple, PairState, WriterOfPair, WriterPath, Ended
<1>8. file = Source
  BY <1>4, <1>7 DEF Couple, PairState, ChunksOfPair
<1>9. QED
  BY <1>4, <1>6, <1>7, <1>8 DEF At, Roles

LEMMA PairHasName ==
  ASSUME PairInv, SessionInv
  PROVE  PairKeepsName
<1> SUFFICES ASSUME Cardinality(Launched) = 2, \A p \in Launched : Fine(p),
                    NEW p \in Launched, process[p].pc \in Setup \cup InCopy \cup {"leave"}
             PROVE  shm # NoSegment /\ process[p].segment \in {shm, NoSegment}
  BY DEF PairKeepsName, UndisturbedPair, Fine
<1>1. PICK a, b \in Processes : a # b /\ Launched = {a, b}
  BY TwoAreLaunched
<1>2. \E f, g \in Processes : Launched = {f, g} /\ Couple(f, g)
  BY <1>1 DEF PairInv
<1>3. PICK f, g \in Processes : Launched = {f, g} /\ Couple(f, g)
  BY <1>2
<1>4. shm = f
  BY <1>3 DEF Couple, NameOfPair, CountedOff, Setup, InCopy
<1>5. process[p].segment \in {f, NoSegment}
  <2>1. process[f].segment = f
    BY <1>3 DEF Couple, PairState, ReaderOfPair
  <2>2. process[g].pc \notin {"none", "open"} => process[g].segment = f
    BY <1>3 DEF Couple, PairState, WriterOfPair
  <2>3. process[g].pc = "open" => process[g].segment = NoSegment
    BY <1>3 DEF Couple, PairState, WriterOfPair
  <2>4. QED
    BY <1>3, <2>1, <2>2, <2>3 DEF Couple
<1>6. QED
  BY <1>4, <1>5, SessionAssumption

\* The first process, f, takes a step, and w, the other one, none.
LEMMA ReaderStep ==
  ASSUME SessionInv, NEW f \in Processes, NEW w \in ProcessTypes,
         PairState(f, process[f], w, segment[f], shm, file),
         Moves(f), ~At(f, "dead")', ~LacksSource(f)'
  PROVE  PairState(f, process'[f], w, segment'[f], shm', file')
<1> DEFINE r == process[f]
           s == segment[f]
<1>1. /\ process \in [Processes -> ProcessTypes] /\ r \in ProcessTypes
      /\ segment \in [Processes -> SegmentTypes] /\ s \in SegmentTypes
      /\ GoodProcess(r)
      /\ f # NoSegment
  BY SessionAssumption DEF SessionInv, ProcessInv, SegmentInv
<1>2. /\ ReaderOfPair(f, r, s) /\ WriterOfPair(f, r, w, shm)
      /\ SegmentOfPair(r, w, s) /\ ChunksOfPair(r, w, s, file)
  BY DEF PairState
<1>3. Mine(f) = s /\ r.segment = f /\ r.first /\ r.stream = <<>> /\ r.status = 0
  BY <1>2 DEF ReaderOfPair, Mine
<1> SUFFICES /\ ReaderOfPair(f, process'[f], segment'[f]) /\ WriterOfPair(f, process'[f], w, shm')
             /\ SegmentOfPair(process'[f], w, segment'[f])
             /\ ChunksOfPair(process'[f], w, segment'[f], file')
  BY DEF PairState
<1> USE DEF At, Goto, Locks, BeforeReading, AfterReading, Setup, InCopy, Cleanup, Ended
\* Only the program counter changes.
<1>4. ASSUME NEW pc \in PCs, Goto(f, pc)
      PROVE  /\ process'[f].pc = pc /\ process'[f].first /\ process'[f].segment = f
             /\ process'[f].stream = <<>> /\ process'[f].status = 0
             /\ process'[f].role = r.role /\ process'[f].queue = r.queue
             /\ process'[f].next = r.next
  BY <1>1, <1>3, <1>4 DEF ProcessTypes
<1>5. CASE ConstructsProcInfo(f)
  <2>1. /\ r.pc = "procInfo" /\ Goto(f, "queue") /\ shm' = shm /\ file' = file
        /\ segment' = [segment EXCEPT ![f].procInfo = TRUE]
    BY <1>5 DEF ConstructsProcInfo
  <2>2. /\ segment'[f].procInfo
        /\ segment'[f].queue = s.queue /\ segment'[f].lost = s.lost /\ segment'[f].dst = s.dst
        /\ segment'[f].started = s.started /\ segment'[f].count = s.count
        /\ segment'[f].isOpen = s.isOpen /\ segment'[f].readFinished = s.readFinished
        /\ segment'[f].filled = s.filled
    BY <1>1, <2>1 DEF SegmentTypes
  <2>3. QED
    BY <1>2, <1>4, <2>1, <2>2 DEF PCs, ReaderOfPair, WriterOfPair, SegmentOfPair, ChunksOfPair
<1>6. CASE GetsQueue(f)
  <2>1. /\ r.pc = "queue" /\ shm' = shm /\ file' = file
        /\ segment' = [segment EXCEPT ![f].queue = TRUE]
        /\ process' = [process EXCEPT ![f].pc = "fill", ![f].queue = TRUE]
    BY <1>3, <1>6 DEF GetsQueue
  <2>2. /\ process'[f].pc = "fill" /\ process'[f].queue
        /\ process'[f].segment = r.segment /\ process'[f].first = r.first
        /\ process'[f].dst = r.dst /\ process'[f].role = r.role /\ process'[f].next = r.next
        /\ process'[f].stream = r.stream /\ process'[f].status = r.status
    BY <1>1, <2>1 DEF ProcessTypes
  <2>3. /\ segment'[f].queue
        /\ segment'[f].procInfo = s.procInfo /\ segment'[f].lost = s.lost
        /\ segment'[f].dst = s.dst /\ segment'[f].started = s.started
        /\ segment'[f].count = s.count /\ segment'[f].isOpen = s.isOpen
        /\ segment'[f].readFinished = s.readFinished /\ segment'[f].filled = s.filled
    BY <1>1, <2>1 DEF SegmentTypes
  <2>4. ReaderOfPair(f, process'[f], segment'[f])
    BY <1>2, <2>1, <2>2, <2>3 DEF PCs, ReaderOfPair
  <2>5. WriterOfPair(f, process'[f], w, shm')
    BY <1>2, <2>1, <2>2, <2>3 DEF PCs, WriterOfPair
  <2>6. SegmentOfPair(process'[f], w, segment'[f])
    BY <1>2, <2>1, <2>2, <2>3 DEF PCs, SegmentOfPair, WriterOfPair
  <2>7. ChunksOfPair(process'[f], w, segment'[f], file')
    BY <1>2, <2>1, <2>2, <2>3 DEF PCs, ChunksOfPair
  <2>8. QED
    BY <2>4, <2>5, <2>6, <2>7
<1>7. CASE FillsProcInfo(f)
  <2>1. /\ r.pc = "fill" /\ Goto(f, "choose") /\ shm' = shm /\ file' = file
        /\ segment' = [segment EXCEPT ![f].dst = TRUE, ![f].started = FALSE]
    BY <1>7 DEF FillsProcInfo
  <2>2. /\ segment'[f].dst /\ ~segment'[f].started
        /\ segment'[f].procInfo = s.procInfo /\ segment'[f].queue = s.queue
        /\ segment'[f].lost = s.lost /\ segment'[f].count = s.count
        /\ segment'[f].isOpen = s.isOpen /\ segment'[f].readFinished = s.readFinished
        /\ segment'[f].filled = s.filled
    BY <1>1, <2>1 DEF SegmentTypes
  <2>3. ReaderOfPair(f, process'[f], segment'[f])
    BY <1>2, <1>4, <2>1, <2>2 DEF PCs, ReaderOfPair
  <2>4. WriterOfPair(f, process'[f], w, shm')
    BY <1>2, <1>4, <2>1, <2>2 DEF PCs, WriterOfPair
  <2>5. SegmentOfPair(process'[f], w, segment'[f])
    BY <1>2, <1>4, <2>1, <2>2 DEF PCs, SegmentOfPair, WriterOfPair
  <2>6. ChunksOfPair(process'[f], w, segment'[f], file')
    BY <1>2, <1>4, <2>1, <2>2 DEF PCs, ChunksOfPair
  <2>7. QED
    BY <2>3, <2>4, <2>5, <2>6
<1>8. CASE ChoosesReader(f)
  <2>1. /\ r.pc = "choose" /\ UNCHANGED <<shm, segment, file>>
        /\ process' = [process EXCEPT ![f].pc = "register", ![f].role = "Reader"]
    <3>1. CASE f \in WithoutSource
      BY <1>1, <1>4, <1>8, <3>1 DEF ChoosesReader, LacksSource, PCs
    <3>2. CASE f \notin WithoutSource
      BY <1>8, <3>2 DEF ChoosesReader
    <3>3. QED
      BY <3>1, <3>2
  <2>2. /\ process'[f].pc = "register" /\ process'[f].role = "Reader"
        /\ process'[f].segment = r.segment /\ process'[f].first = r.first
        /\ process'[f].queue = r.queue /\ process'[f].dst = r.dst /\ process'[f].next = r.next
        /\ process'[f].stream = r.stream /\ process'[f].status = r.status
    BY <1>1, <2>1 DEF ProcessTypes
  <2>3. QED
    BY <1>2, <2>1, <2>2 DEF PCs, ReaderOfPair, WriterOfPair, SegmentOfPair, ChunksOfPair
<1>9. CASE ChoosesWriter(f)
  BY <1>2, <1>3, <1>9 DEF ChoosesWriter, ShouldRead, SegmentOfPair, WriterOfPair
<1>10. CASE Registers(f)
  <2>1. r.pc = "register" /\ r.role = "Reader" /\ s.count["Reader"] = 0
    BY <1>2, <1>10 DEF Registers, ReaderOfPair, SegmentOfPair
  <2>2. /\ Goto(f, "openQueue") /\ shm' = shm /\ file' = file
        /\ segment' = [segment EXCEPT ![f].count["Reader"] = @ + 1]
    BY <1>3, <1>10, <2>1 DEF Registers
  <2>3. /\ segment'[f].count["Reader"] = 1 /\ segment'[f].count["Writer"] = s.count["Writer"]
        /\ segment'[f].procInfo = s.procInfo /\ segment'[f].queue = s.queue
        /\ segment'[f].lost = s.lost /\ segment'[f].dst = s.dst
        /\ segment'[f].started = s.started /\ segment'[f].isOpen = s.isOpen
        /\ segment'[f].readFinished = s.readFinished /\ segment'[f].filled = s.filled
    BY <1>1, <2>1, <2>2 DEF SegmentTypes, Roles
  <2>4. QED
    BY <1>2, <1>4, <2>1, <2>2, <2>3 DEF PCs, ReaderOfPair, WriterOfPair, SegmentOfPair, ChunksOfPair
<1>11. CASE OpensQueue(f)
  <2>1. /\ r.pc = "openQueue" /\ Goto(f, "read") /\ shm' = shm /\ file' = file
        /\ segment' = [segment EXCEPT ![f].isOpen = TRUE]
    <3>1. CASE process' = [process EXCEPT ![f].pc = "leave", ![f].status = 1] /\ f \in LosesSource
      BY <1>1, <3>1 DEF LacksSource, ProcessTypes
    <3>2. CASE Goto(f, "read")
      BY <1>3, <1>11, <3>2 DEF OpensQueue
    <3>3. QED
      BY <1>11, <3>1, <3>2 DEF OpensQueue
  <2>2. /\ segment'[f].isOpen
        /\ segment'[f].procInfo = s.procInfo /\ segment'[f].queue = s.queue
        /\ segment'[f].lost = s.lost /\ segment'[f].dst = s.dst /\ segment'[f].count = s.count
        /\ segment'[f].started = s.started /\ segment'[f].readFinished = s.readFinished
        /\ segment'[f].filled = s.filled
    BY <1>1, <2>1 DEF SegmentTypes
  <2>3. QED
    BY <1>2, <1>4, <2>1, <2>2 DEF PCs, ReaderOfPair, WriterOfPair, SegmentOfPair, ChunksOfPair
<1>12. CASE Reads(f)
  <2> DEFINE c == r.next
  <2>1. /\ r.pc = "read" /\ shm' = shm /\ file' = file
        /\ segment' = [segment EXCEPT ![f].filled = Append(@, c),
                                      ![f].readFinished = @ \/ c = Chunks]
        /\ process' = [process EXCEPT ![f].next = @ + 1,
                                      ![f].pc = IF c = Chunks THEN "close" ELSE @]
    BY <1>3, <1>12 DEF Reads
  <2>2. /\ segment'[f].filled = Append(s.filled, c)
        /\ (segment'[f].readFinished <=> s.readFinished \/ c = Chunks)
        /\ segment'[f].procInfo = s.procInfo /\ segment'[f].queue = s.queue
        /\ segment'[f].lost = s.lost /\ segment'[f].dst = s.dst /\ segment'[f].count = s.count
        /\ segment'[f].started = s.started /\ segment'[f].isOpen = s.isOpen
    BY <1>1, <2>1 DEF SegmentTypes
  <2>3. /\ process'[f].next = c + 1
        /\ process'[f].pc = IF c = Chunks THEN "close" ELSE "read"
        /\ process'[f].segment = r.segment /\ process'[f].first = r.first
        /\ process'[f].queue = r.queue /\ process'[f].dst = r.dst /\ process'[f].role = r.role
        /\ process'[f].stream = r.stream /\ process'[f].status = r.status
    BY <1>1, <2>1 DEF ProcessTypes
  <2>4. c \in 1..Chunks /\ Chunks \in Nat
    BY <1>1, <2>1, SessionAssumption DEF ProcessTypes, GoodProcess
  <2>5. /\ ReaderOfPair(f, process'[f], segment'[f])
        /\ WriterOfPair(f, process'[f], w, shm')
        /\ SegmentOfPair(process'[f], w, segment'[f])
    <3>1. /\ ~s.readFinished /\ s.isOpen /\ s.count = segment'[f].count
          /\ w.pc \in WriterPath \ (Cleanup \cup {"exited"})
      BY <1>2, <2>1, <2>2 DEF SegmentOfPair, ChunksOfPair, WriterOfPair
    <3>2. /\ process'[f].pc \in {"read", "close"}
          /\ process'[f].pc = "close" <=> c = Chunks
          /\ process'[f].pc = "close" => process'[f].next = Chunks + 1
          /\ segment'[f].readFinished <=> c = Chunks
      BY <2>2, <2>3, <3>1
    <3>3. ReaderOfPair(f, process'[f], segment'[f])
      BY <1>2, <2>1, <2>2, <2>3, <3>2 DEF ReaderOfPair
    <3>4. WriterOfPair(f, process'[f], w, shm')
      BY <1>2, <2>1, <3>2 DEF WriterOfPair
    <3>5. SegmentOfPair(process'[f], w, segment'[f])
      BY <1>2, <2>1, <2>2, <3>1, <3>2 DEF SegmentOfPair
    <3>6. QED
      BY <3>3, <3>4, <3>5
  <2>6. ChunksOfPair(process'[f], w, segment'[f], file')
    <3>1. /\ w.pc \notin Cleanup \cup {"exited"}
          /\ Len(file) = w.position
          /\ Consecutive(file, 0) /\ Consecutive(w.stream, w.position)
          /\ Consecutive(s.filled, w.position + Len(w.stream))
          /\ w.position + Len(w.stream) + Len(s.filled) + 1 = c
          /\ w.pc # "write" => file = <<>> /\ w.stream = <<>>
      BY <1>2, <2>1 DEF ChunksOfPair, SegmentOfPair, WriterOfPair
    <3>2. /\ s.filled \in Seq(1..Chunks) /\ Len(s.filled) \in Nat
          /\ w.position \in Nat /\ Len(w.stream) \in Nat /\ c \in Nat
      BY <1>1, <2>4, LenProperties DEF ProcessTypes, SegmentTypes
    <3> HIDE DEF c
    <3>3. /\ Len(segment'[f].filled) = Len(s.filled) + 1
          /\ Consecutive(segment'[f].filled, w.position + Len(w.stream))
      BY <2>2, <2>4, <3>1, <3>2, NextAdded
    <3>4. w.position + Len(w.stream) + Len(segment'[f].filled) + 1 = process'[f].next
      <4> DEFINE a == w.position
                 b == Len(w.stream)
                 n == Len(s.filled)
      <4>1. /\ a + b + n + 1 = c /\ a \in Nat /\ b \in Nat /\ n \in Nat
            /\ Len(segment'[f].filled) = n + 1 /\ process'[f].next = c + 1
        BY <2>3, <3>1, <3>2, <3>3
      <4> HIDE DEF a, b, n
      <4>2. a + b + Len(segment'[f].filled) + 1 = process'[f].next
        BY <4>1
      <4>3. QED
        BY <4>2 DEF a, b
    <3>5. QED
      BY <2>1, <3>1, <3>3, <3>4 DEF ChunksOfPair
  <2>7. QED
    BY <2>5, <2>6
<1>13. CASE ClosesQueue(f)
  <2>1. /\ r.pc = "close" /\ Goto(f, "await") /\ shm' = shm /\ file' = file
        /\ segment' = [segment EXCEPT ![f].isOpen = FALSE]
    BY <1>3, <1>13 DEF ClosesQueue
  <2>2. /\ ~segment'[f].isOpen
        /\ segment'[f].procInfo = s.procInfo /\ segment'[f].queue = s.queue
        /\ segment'[f].lost = s.lost /\ segment'[f].dst = s.dst /\ segment'[f].count = s.count
        /\ segment'[f].started = s.started /\ segment'[f].readFinished = s.readFinished
        /\ segment'[f].filled = s.filled
    BY <1>1, <2>1 DEF SegmentTypes
  <2>3. QED
    BY <1>2, <1>4, <2>1, <2>2 DEF PCs, ReaderOfPair, WriterOfPair, SegmentOfPair, ChunksOfPair
<1>14. CASE AwaitsWriter(f) \/ ChecksWriters(f) \/ ChecksReaders(f) \/ RemovesSegment(f)
  <2>1. /\ segment' = segment /\ file' = file
        /\ \E pc \in {"leave", "checkReaders", "remove", "flush"} :
              /\ Goto(f, pc)
              /\ r.pc = "await" <=> pc = "leave"
        /\ r.pc \in {"await", "check", "checkReaders", "remove"}
        /\ r.pc = "await" => s.started
        /\ r.pc # "remove" => shm' = shm
    BY <1>3, <1>14 DEF AwaitsWriter, ChecksWriters, ChecksReaders, RemovesSegment
  <2>2. r.pc = "remove" => s.started
    BY <1>2 DEF SegmentOfPair
  <2>3. QED
    BY <1>2, <1>4, <2>1, <2>2 DEF PCs, ReaderOfPair, WriterOfPair, SegmentOfPair, ChunksOfPair
<1>15. CASE Leaves(f)
  <2> DEFINE counts == [x \in Roles |-> IF x = r.role THEN s.count[x] - 1 ELSE s.count[x]]
  <2>1. /\ r.pc = "leave" /\ Goto(f, "check") /\ shm' = shm /\ file' = file
        /\ segment' = [segment EXCEPT ![f].count = counts]
    BY <1>1, <1>3, <1>15 DEF Leaves, SegmentTypes
  <2>2. r.role = "Reader"
    BY <1>2, <2>1 DEF ReaderOfPair
  <2>3. counts["Reader"] = s.count["Reader"] - 1 /\ counts["Writer"] = s.count["Writer"]
    BY <2>2 DEF Roles
  <2> HIDE DEF counts
  <2>4. /\ segment'[f].count = counts
        /\ segment'[f].procInfo = s.procInfo /\ segment'[f].queue = s.queue
        /\ segment'[f].lost = s.lost /\ segment'[f].dst = s.dst
        /\ segment'[f].started = s.started /\ segment'[f].isOpen = s.isOpen
        /\ segment'[f].readFinished = s.readFinished /\ segment'[f].filled = s.filled
    BY <1>1, <2>1 DEF SegmentTypes
  <2>5. QED
    BY <1>2, <1>4, <2>1, <2>3, <2>4 DEF PCs, ReaderOfPair, WriterOfPair, SegmentOfPair, ChunksOfPair
<1>16. CASE ClosesFile(f)
  <2>1. /\ r.pc = "flush" /\ UNCHANGED <<shm, segment, file>>
        /\ process' = [process EXCEPT ![f].stream = <<>>, ![f].pc = "exited"]
    BY <1>3, <1>16 DEF ClosesFile
  <2>2. /\ process'[f].pc = "exited"
        /\ process'[f].segment = r.segment /\ process'[f].first = r.first
        /\ process'[f].queue = r.queue /\ process'[f].dst = r.dst /\ process'[f].role = r.role
        /\ process'[f].next = r.next /\ process'[f].status = r.status
        /\ process'[f].stream = <<>>
    BY <1>1, <2>1 DEF ProcessTypes
  <2>3. QED
    BY <1>2, <2>1, <2>2 DEF PCs, ReaderOfPair, WriterOfPair, SegmentOfPair, ChunksOfPair
<1>17. CASE Dies(f) \/ TimesOut(f)
  BY <1>1, <1>17 DEF Dies, TimesOut, ProcessTypes
<1>18. CASE \/ CreatesSegment(f) \/ FindsNameTaken(f) \/ OpensSegment(f) \/ UsesNullQueue(f)
            \/ CreatesFile(f) \/ SignalsStart(f) \/ Writes(f)
            \/ PassesWait(f) \/ TakesNothing(f) \/ StopsWriting(f)
  BY <1>2, <1>18 DEF CreatesSegment, FindsNameTaken, OpensSegment, UsesNullQueue, CreatesFile,
     SignalsStart, Writes, PassesWait, TakesNothing, StopsWriting, ReaderOfPair
<1>19. QED
  BY <1>5, <1>6, <1>7, <1>8, <1>9, <1>10, <1>11, <1>12, <1>13, <1>14, <1>15, <1>16, <1>17, <1>18
     DEF Moves, SetsUp, Copies, CleansUp

\* The second process, g, takes a step after it was launched.
LEMMA WriterStep ==
  ASSUME SessionInv, NEW f \in Processes, NEW g \in Processes, f # g,
         PairState(f, process[f], process[g], segment[f], shm, file),
         process[g].pc # "none", Moves(g), ~At(g, "dead")', ~LacksSource(g)'
  PROVE  PairState(f, process[f], process'[g], segment'[f], shm', file')
<1> DEFINE r == process[f]
           w == process[g]
           s == segment[f]
<1>1. /\ process \in [Processes -> ProcessTypes] /\ w \in ProcessTypes /\ r \in ProcessTypes
      /\ segment \in [Processes -> SegmentTypes] /\ s \in SegmentTypes
      /\ f # NoSegment /\ file \in FileTypes
  BY SessionAssumption DEF SessionInv, ProcessInv, SegmentInv, FileTypes
<1>2. /\ ReaderOfPair(f, r, s) /\ WriterOfPair(f, r, w, shm)
      /\ SegmentOfPair(r, w, s) /\ ChunksOfPair(r, w, s, file)
  BY DEF PairState
<1>3. /\ ~w.first /\ w.status = 0
      /\ w.pc \in {"none", "open"} => shm = f
      /\ w.pc \notin {"none", "open"} => Mine(g) = s /\ w.segment = f
      /\ w.pc \notin {"none", "open", "queue"} => w.queue
  BY <1>2 DEF WriterOfPair, Mine
<1> SUFFICES /\ ReaderOfPair(f, r, segment'[f]) /\ WriterOfPair(f, r, process'[g], shm')
             /\ SegmentOfPair(r, process'[g], segment'[f])
             /\ ChunksOfPair(r, process'[g], segment'[f], file')
  BY DEF PairState
<1> USE DEF At, Goto, Locks, AfterReading, Setup, InCopy, Cleanup, Ended
\* Only the program counter changes.
<1>4. ASSUME NEW pc \in PCs, Goto(g, pc)
      PROVE  /\ process'[g].pc = pc /\ process'[g].first = w.first /\ process'[g].segment = w.segment
             /\ process'[g].stream = w.stream /\ process'[g].status = w.status
             /\ process'[g].role = w.role /\ process'[g].queue = w.queue
             /\ process'[g].dst = w.dst /\ process'[g].position = w.position
  BY <1>1, <1>4 DEF ProcessTypes
<1>5. CASE OpensSegment(g)
  <2>1. w.pc = "open" /\ s.procInfo /\ shm = f
    BY <1>2, <1>3, <1>5 DEF OpensSegment, ReaderOfPair, WriterOfPair
  <2>2. /\ UNCHANGED <<shm, segment, file>>
        /\ process' = [process EXCEPT ![g].pc = "queue", ![g].segment = f]
    BY <1>1, <1>5, <2>1 DEF OpensSegment
  <2>3. /\ process'[g].pc = "queue" /\ process'[g].segment = f
        /\ process'[g].first = w.first /\ process'[g].status = w.status
        /\ process'[g].stream = w.stream /\ process'[g].position = w.position
    BY <1>1, <2>2 DEF ProcessTypes
  <2>4. ReaderOfPair(f, r, segment'[f])
    BY <1>2, <2>1, <2>2, <2>3 DEF ReaderOfPair
  <2>5. WriterOfPair(f, r, process'[g], shm')
    BY <1>2, <2>1, <2>2, <2>3 DEF WriterOfPair, WriterPath
  <2>6. SegmentOfPair(r, process'[g], segment'[f])
    BY <1>2, <2>1, <2>2, <2>3 DEF SegmentOfPair
  <2>7. ChunksOfPair(r, process'[g], segment'[f], file')
    BY <1>2, <2>1, <2>2, <2>3 DEF ChunksOfPair
  <2>8. QED
    BY <2>4, <2>5, <2>6, <2>7
<1>6. CASE GetsQueue(g)
  <2>1. w.pc = "queue" /\ s.queue
    BY <1>2, <1>6 DEF GetsQueue, ReaderOfPair, WriterOfPair
  <2>2. /\ UNCHANGED <<shm, segment, file>>
        /\ process' = [process EXCEPT ![g].pc = "choose", ![g].queue = s.queue]
    BY <1>3, <1>6, <2>1 DEF GetsQueue
  <2>3. /\ process'[g].pc = "choose" /\ process'[g].queue = s.queue
        /\ process'[g].segment = w.segment
        /\ process'[g].first = w.first /\ process'[g].status = w.status
        /\ process'[g].stream = w.stream /\ process'[g].position = w.position
    BY <1>1, <2>2 DEF ProcessTypes
  <2>4. ReaderOfPair(f, r, segment'[f])
    BY <1>2, <2>1, <2>2, <2>3 DEF ReaderOfPair
  <2>5. WriterOfPair(f, r, process'[g], shm')
    BY <1>2, <2>1, <2>2, <2>3 DEF WriterOfPair, WriterPath
  <2>6. SegmentOfPair(r, process'[g], segment'[f])
    BY <1>2, <2>1, <2>2, <2>3 DEF SegmentOfPair
  <2>7. ChunksOfPair(r, process'[g], segment'[f], file')
    BY <1>2, <2>1, <2>2, <2>3 DEF ChunksOfPair
  <2>8. QED
    BY <2>4, <2>5, <2>6, <2>7
<1>7. CASE ChoosesReader(g)
  \* The reader is counted, since it cannot leave before this process has started.
  <2>1. w.pc = "choose" /\ s.count["Reader"] <= s.count["Writer"]
    BY <1>3, <1>7 DEF ChoosesReader, ShouldRead
  <2>2. ~s.started /\ r.pc \in InCopy
    BY <1>2, <2>1 DEF SegmentOfPair, WriterOfPair
  <2>3. QED
    BY <1>2, <2>1, <2>2 DEF SegmentOfPair
<1>8. CASE ChoosesWriter(g)
  <2>1. w.pc = "choose" /\ s.dst
    BY <1>2, <1>8 DEF ChoosesWriter, ReaderOfPair, WriterOfPair
  <2>2. /\ UNCHANGED <<shm, segment, file>>
        /\ process' = [process EXCEPT ![g].pc = "register", ![g].role = "Writer", ![g].dst = s.dst]
    BY <1>3, <1>8, <2>1 DEF ChoosesWriter
  <2>3. /\ process'[g].pc = "register" /\ process'[g].role = "Writer" /\ process'[g].dst = s.dst
        /\ process'[g].segment = w.segment /\ process'[g].queue = w.queue
        /\ process'[g].first = w.first /\ process'[g].status = w.status
        /\ process'[g].stream = w.stream /\ process'[g].position = w.position
    BY <1>1, <2>2 DEF ProcessTypes
  <2>4. ReaderOfPair(f, r, segment'[f])
    BY <1>2, <2>1, <2>2, <2>3 DEF ReaderOfPair
  <2>5. WriterOfPair(f, r, process'[g], shm')
    BY <1>2, <2>1, <2>2, <2>3 DEF WriterOfPair, WriterPath
  <2>6. SegmentOfPair(r, process'[g], segment'[f])
    BY <1>2, <2>1, <2>2, <2>3 DEF SegmentOfPair
  <2>7. ChunksOfPair(r, process'[g], segment'[f], file')
    BY <1>2, <2>1, <2>2, <2>3 DEF ChunksOfPair
  <2>8. QED
    BY <2>4, <2>5, <2>6, <2>7
<1>9. CASE Registers(g)
  <2>1. w.pc = "register" /\ w.role = "Writer" /\ s.count["Writer"] = 0
    BY <1>2, <1>9 DEF Registers, WriterOfPair, SegmentOfPair
  <2>2. /\ Goto(g, "create") /\ shm' = shm /\ file' = file
        /\ segment' = [segment EXCEPT ![f].count["Writer"] = @ + 1]
    BY <1>3, <1>9, <2>1 DEF Registers
  <2>3. /\ segment'[f].count["Writer"] = 1 /\ segment'[f].count["Reader"] = s.count["Reader"]
        /\ segment'[f].procInfo = s.procInfo /\ segment'[f].queue = s.queue
        /\ segment'[f].lost = s.lost /\ segment'[f].dst = s.dst
        /\ segment'[f].started = s.started /\ segment'[f].isOpen = s.isOpen
        /\ segment'[f].readFinished = s.readFinished /\ segment'[f].filled = s.filled
    BY <1>1, <2>1, <2>2 DEF SegmentTypes, Roles
  <2>4. ReaderOfPair(f, r, segment'[f])
    BY <1>2, <1>4, <2>1, <2>2, <2>3 DEF ReaderOfPair
  <2>5. WriterOfPair(f, r, process'[g], shm')
    BY <1>2, <1>4, <2>1, <2>2, <2>3 DEF PCs, WriterOfPair, WriterPath
  <2>6. SegmentOfPair(r, process'[g], segment'[f])
    BY <1>2, <1>4, <2>1, <2>2, <2>3 DEF PCs, SegmentOfPair
  <2>7. ChunksOfPair(r, process'[g], segment'[f], file')
    BY <1>2, <1>4, <2>1, <2>2, <2>3 DEF PCs, ChunksOfPair
  <2>8. QED
    BY <2>4, <2>5, <2>6, <2>7
<1>10. CASE CreatesFile(g)
  <2>1. w.pc = "create" /\ w.dst /\ file = <<>>
    BY <1>2, <1>10 DEF CreatesFile, WriterOfPair, ChunksOfPair
  <2>2. Goto(g, "signal") /\ UNCHANGED <<shm, segment>> /\ file' = <<>>
    BY <1>10, <2>1 DEF CreatesFile
  <2>3. ReaderOfPair(f, r, segment'[f])
    BY <1>2, <1>4, <2>1, <2>2 DEF ReaderOfPair
  <2>4. WriterOfPair(f, r, process'[g], shm')
    BY <1>2, <1>4, <2>1, <2>2 DEF PCs, WriterOfPair, WriterPath
  <2>5. SegmentOfPair(r, process'[g], segment'[f])
    BY <1>2, <1>4, <2>1, <2>2 DEF PCs, SegmentOfPair
  <2>6. ChunksOfPair(r, process'[g], segment'[f], file')
    BY <1>2, <1>4, <2>1, <2>2 DEF PCs, ChunksOfPair
  <2>7. QED
    BY <2>3, <2>4, <2>5, <2>6
<1>11. CASE SignalsStart(g)
  <2>1. /\ w.pc = "signal" /\ Goto(g, "write") /\ shm' = shm /\ file' = file
        /\ segment' = [segment EXCEPT ![f].started = TRUE]
    BY <1>3, <1>11 DEF SignalsStart
  <2>2. /\ segment'[f].started
        /\ segment'[f].procInfo = s.procInfo /\ segment'[f].queue = s.queue
        /\ segment'[f].lost = s.lost /\ segment'[f].dst = s.dst
        /\ segment'[f].count = s.count /\ segment'[f].isOpen = s.isOpen
        /\ segment'[f].readFinished = s.readFinished /\ segment'[f].filled = s.filled
    BY <1>1, <2>1 DEF SegmentTypes
  <2>3. ReaderOfPair(f, r, segment'[f])
    BY <1>2, <1>4, <2>1, <2>2 DEF ReaderOfPair
  <2>4. WriterOfPair(f, r, process'[g], shm')
    BY <1>2, <1>4, <2>1, <2>2 DEF PCs, WriterOfPair, WriterPath
  <2>5. SegmentOfPair(r, process'[g], segment'[f])
    BY <1>2, <1>4, <2>1, <2>2 DEF PCs, SegmentOfPair
  <2>6. ChunksOfPair(r, process'[g], segment'[f], file')
    BY <1>2, <1>4, <2>1, <2>2 DEF PCs, ChunksOfPair
  <2>7. QED
    BY <2>3, <2>4, <2>5, <2>6
<1>12. CASE Writes(g)
  <2> DEFINE q == s.filled
             k == w.position + Len(w.stream)
             stream == Append(w.stream, Head(q))
  <2>1. /\ w.pc = "write" /\ q # <<>> /\ shm' = shm
        /\ segment' = [segment EXCEPT ![f].filled = Tail(@)]
        /\ \/ /\ process' = [process EXCEPT ![g].stream = stream]
              /\ file' = file
           \/ /\ process' = [process EXCEPT ![g].stream = <<>>, ![g].position = @ + Len(stream)]
              /\ file' = Overwrite(file, w.position, stream)
    BY <1>3, <1>12 DEF Writes
  <2>2. /\ segment'[f].filled = Tail(q)
        /\ segment'[f].procInfo = s.procInfo /\ segment'[f].queue = s.queue
        /\ segment'[f].lost = s.lost /\ segment'[f].dst = s.dst
        /\ segment'[f].count = s.count /\ segment'[f].isOpen = s.isOpen
        /\ segment'[f].readFinished = s.readFinished /\ segment'[f].started = s.started
    BY <1>1, <2>1 DEF SegmentTypes
  <2>3. /\ process'[g].pc = "write" /\ process'[g].segment = w.segment
        /\ process'[g].first = w.first /\ process'[g].status = w.status
        /\ process'[g].role = w.role /\ process'[g].queue = w.queue /\ process'[g].dst = w.dst
        /\ \/ /\ process'[g].stream = stream /\ process'[g].position = w.position
              /\ file' = file
           \/ /\ process'[g].stream = <<>> /\ process'[g].position = w.position + Len(stream)
              /\ file' = Overwrite(file, w.position, stream)
    BY <1>1, <2>1 DEF ProcessTypes
  <2>4. /\ Len(file) = w.position
        /\ Consecutive(file, 0) /\ Consecutive(w.stream, w.position) /\ Consecutive(q, k)
        /\ k + Len(q) + 1 = r.next
    BY <1>2, <2>1 DEF ChunksOfPair
  <2>5. /\ w.stream \in Seq(1..Chunks) /\ w.position \in Nat /\ q \in Seq(1..Chunks)
        /\ Len(w.stream) \in Nat /\ Len(q) \in Nat /\ k \in Nat
    <3>1. w.stream \in Seq(1..Chunks) /\ w.position \in Nat /\ q \in Seq(1..Chunks)
      BY <1>1 DEF ProcessTypes, SegmentTypes
    <3> HIDE DEF w, q
    <3>2. Len(w.stream) \in Nat /\ Len(q) \in Nat
      BY <3>1, LenProperties
    <3>3. QED
      BY <3>1, <3>2
  <2>6. /\ Head(q) \in 1..Chunks /\ Head(q) = k + 1
        /\ Len(Tail(q)) = Len(q) - 1 /\ Consecutive(Tail(q), k + 1)
    BY <2>1, <2>4, <2>5, FirstTaken
  <2>7. /\ stream \in Seq(1..Chunks) /\ Len(stream) = Len(w.stream) + 1
        /\ Consecutive(stream, w.position)
    BY <2>4, <2>5, <2>6, NextAdded
  <2> HIDE DEF q, stream
  <2>8. ReaderOfPair(f, r, segment'[f]) /\ WriterOfPair(f, r, process'[g], shm')
    BY <1>2, <2>1, <2>2, <2>3 DEF ReaderOfPair, WriterOfPair
  <2>9. SegmentOfPair(r, process'[g], segment'[f])
    BY <1>2, <2>1, <2>2, <2>3 DEF SegmentOfPair
  <2>10. ChunksOfPair(r, process'[g], segment'[f], file')
    <3>1. /\ w.position + Len(stream) = k + 1 /\ w.position + Len(stream) + 0 = k + 1
          /\ k + 1 + Len(Tail(q)) + 1 = r.next /\ Len(<<>>) = 0
      <4> DEFINE a == w.position
                 b == Len(w.stream)
                 n == Len(q)
                 m == Len(Tail(q))
                 l == Len(stream)
      <4>1. /\ a \in Nat /\ b \in Nat /\ n \in Nat
            /\ k = a + b /\ l = b + 1 /\ m = n - 1 /\ k + n + 1 = r.next
        BY <2>4, <2>5, <2>6, <2>7
      <4> HIDE DEF a, b, n, m, l, k
      <4>2. a + l = k + 1 /\ a + l + 0 = k + 1 /\ k + 1 + m + 1 = r.next
        BY <4>1
      <4>3. Len(<<>>) = 0
        OBVIOUS
      <4>4. QED
        BY <4>2, <4>3 DEF a, l, m
    <3>2. Consecutive(<<>>, w.position + Len(stream))
      BY DEF Consecutive
    <3>3. CASE process'[g].stream = stream /\ process'[g].position = w.position /\ file' = file
      BY <2>2, <2>3, <2>4, <2>6, <2>7, <3>1, <3>3 DEF ChunksOfPair
    <3>4. CASE /\ process'[g].stream = <<>> /\ process'[g].position = w.position + Len(stream)
               /\ file' = Overwrite(file, w.position, stream)
      <4>1. Len(file') = w.position + Len(stream) /\ Consecutive(file', 0)
        BY <1>1, <2>4, <2>7, <3>4, RunWritten
      <4>2. QED
        BY <2>2, <2>3, <2>6, <3>1, <3>2, <3>4, <4>1 DEF ChunksOfPair
    <3>5. QED
      BY <2>3, <3>3, <3>4
  <2>11. QED
    BY <2>8, <2>9, <2>10
<1>13. CASE StopsWriting(g)
  <2>1. /\ w.pc = "write" /\ Goto(g, "leave") /\ UNCHANGED <<shm, segment, file>>
        /\ s.readFinished /\ s.filled = <<>>
    BY <1>3, <1>13 DEF StopsWriting
  <2>2. QED
    BY <1>2, <1>4, <2>1 DEF PCs, ReaderOfPair, WriterOfPair, WriterPath, SegmentOfPair, ChunksOfPair
<1>20. CASE PassesWait(g)
  \* The queue was opened before this process came, so it is closed for good.
  <2>1. /\ w.pc = "write" /\ Goto(g, "take") /\ UNCHANGED <<shm, segment, file>>
        /\ ~s.isOpen
    BY <1>3, <1>20 DEF PassesWait
  <2>2. r.pc \in AfterReading \ {"close"}
    BY <1>2, <2>1 DEF WriterOfPair, SegmentOfPair
  <2>3. QED
    BY <1>2, <1>4, <2>1, <2>2 DEF PCs, ReaderOfPair, WriterOfPair, WriterPath, SegmentOfPair, ChunksOfPair
<1>21. CASE TakesNothing(g)
  <2>1. w.pc = "take" /\ ~s.isOpen
    BY <1>2, <1>21 DEF TakesNothing, WriterOfPair, SegmentOfPair
  <2>2. Goto(g, "write") /\ UNCHANGED <<shm, segment, file>>
    BY <1>3, <1>21, <2>1 DEF TakesNothing
  <2>3. QED
    BY <1>2, <1>4, <2>1, <2>2 DEF PCs, ReaderOfPair, WriterOfPair, WriterPath, SegmentOfPair, ChunksOfPair
<1>14. CASE ChecksWriters(g) \/ ChecksReaders(g) \/ RemovesSegment(g)
  <2>1. /\ segment' = segment /\ file' = file
        /\ \E pc \in {"checkReaders", "remove", "flush"} : Goto(g, pc)
        /\ w.pc \in {"check", "checkReaders", "remove"}
    BY <1>3, <1>14 DEF ChecksWriters, ChecksReaders, RemovesSegment
  <2>2. QED
    BY <1>2, <1>4, <2>1 DEF PCs, ReaderOfPair, WriterOfPair, WriterPath, SegmentOfPair, ChunksOfPair
<1>15. CASE Leaves(g)
  <2> DEFINE counts == [x \in Roles |-> IF x = w.role THEN s.count[x] - 1 ELSE s.count[x]]
  <2>1. /\ w.pc = "leave" /\ Goto(g, "check") /\ shm' = shm /\ file' = file
        /\ segment' = [segment EXCEPT ![f].count = counts]
    BY <1>1, <1>3, <1>15 DEF Leaves, SegmentTypes
  <2>2. w.role = "Writer"
    BY <1>2, <2>1 DEF WriterOfPair
  <2>3. counts["Writer"] = s.count["Writer"] - 1 /\ counts["Reader"] = s.count["Reader"]
    BY <2>2 DEF Roles
  <2> HIDE DEF counts
  <2>4. /\ segment'[f].count = counts
        /\ segment'[f].procInfo = s.procInfo /\ segment'[f].queue = s.queue
        /\ segment'[f].lost = s.lost /\ segment'[f].dst = s.dst
        /\ segment'[f].started = s.started /\ segment'[f].isOpen = s.isOpen
        /\ segment'[f].readFinished = s.readFinished /\ segment'[f].filled = s.filled
    BY <1>1, <2>1 DEF SegmentTypes
  <2>5. ReaderOfPair(f, r, segment'[f])
    BY <1>2, <1>4, <2>1, <2>3, <2>4 DEF ReaderOfPair
  <2>6. WriterOfPair(f, r, process'[g], shm')
    BY <1>2, <1>4, <2>1, <2>3, <2>4 DEF PCs, WriterOfPair, WriterPath
  <2>7. SegmentOfPair(r, process'[g], segment'[f])
    BY <1>2, <1>4, <2>1, <2>3, <2>4 DEF PCs, SegmentOfPair
  <2>8. ChunksOfPair(r, process'[g], segment'[f], file')
    BY <1>2, <1>4, <2>1, <2>3, <2>4 DEF PCs, ChunksOfPair
  <2>9. QED
    BY <2>5, <2>6, <2>7, <2>8
<1>16. CASE ClosesFile(g)
  <2>1. /\ w.pc = "flush" /\ UNCHANGED <<shm, segment>>
        /\ process' = [process EXCEPT ![g].stream = <<>>, ![g].pc = "exited"]
        /\ file' = IF w.stream = <<>> THEN file ELSE Overwrite(file, w.position, w.stream)
    BY <1>3, <1>16 DEF ClosesFile
  <2>2. /\ process'[g].pc = "exited" /\ process'[g].segment = w.segment
        /\ process'[g].first = w.first /\ process'[g].status = w.status
        /\ process'[g].role = w.role /\ process'[g].queue = w.queue /\ process'[g].dst = w.dst
    BY <1>1, <2>1 DEF ProcessTypes
  <2>3. /\ Len(file) = w.position
        /\ Consecutive(file, 0) /\ Consecutive(w.stream, w.position)
        /\ w.position + Len(w.stream) + Len(s.filled) + 1 = r.next
        /\ s.filled = <<>> /\ r.pc \in AfterReading
    BY <1>2, <2>1 DEF ChunksOfPair
  <2>4. r.next = Chunks + 1
    BY <1>2, <2>3 DEF ReaderOfPair
  <2>5. /\ w.stream \in Seq(1..Chunks) /\ w.position \in Nat /\ Len(w.stream) \in Nat
        /\ Chunks \in Nat
    BY <1>1, LenProperties, SessionAssumption DEF ProcessTypes
  <2>6. w.position + Len(w.stream) = Chunks
    <3>1. Len(s.filled) = 0
      BY <2>3
    <3>2. QED
      <4> DEFINE a == w.position
                 b == Len(w.stream)
      <4>1. a + b + 0 + 1 = Chunks + 1 /\ a \in Nat /\ b \in Nat /\ Chunks \in Nat
        BY <2>3, <2>4, <2>5, <3>1
      <4> HIDE DEF a, b
      <4>2. a + b = Chunks
        BY <4>1
      <4>3. QED
        BY <4>2 DEF a, b
  <2>7. file' = Source
    <3>1. file' \in FileTypes /\ Len(file') = Chunks /\ Consecutive(file', 0)
      <4>1. CASE w.stream = <<>>
        BY <1>1, <2>1, <2>3, <2>5, <2>6, <4>1
      <4>2. CASE w.stream # <<>>
        BY <1>1, <2>1, <2>3, <2>5, <2>6, <4>2, RunWritten
      <4>3. QED
        BY <4>1, <4>2
    <3>2. QED
      BY <3>1, RunIsSource
  <2>8. QED
    BY <1>2, <2>1, <2>2, <2>3, <2>7 DEF PCs, ReaderOfPair, WriterOfPair, WriterPath, SegmentOfPair, ChunksOfPair
<1>17. CASE Dies(g) \/ TimesOut(g)
  BY <1>1, <1>17 DEF Dies, TimesOut, ProcessTypes
<1>18. CASE \/ CreatesSegment(g) \/ FindsNameTaken(g) \/ ConstructsProcInfo(g)
            \/ FillsProcInfo(g) \/ UsesNullQueue(g) \/ OpensQueue(g) \/ Reads(g)
            \/ ClosesQueue(g) \/ AwaitsWriter(g)
  BY <1>2, <1>18 DEF CreatesSegment, FindsNameTaken, ConstructsProcInfo, FillsProcInfo,
     UsesNullQueue, OpensQueue, Reads, ClosesQueue, AwaitsWriter, WriterOfPair, WriterPath
<1>19. QED
  BY <1>5, <1>6, <1>7, <1>8, <1>9, <1>10, <1>11, <1>12, <1>13, <1>14, <1>15, <1>16, <1>17, <1>18,
     <1>20, <1>21
     DEF Moves, SetsUp, Copies, CleansUp

\* The first process comes: it creates the segment.
LEMMA FirstComes ==
  ASSUME SessionInit, NEW f \in Processes, Moves(f)
  PROVE  Lonely(f)'
<1> USE DEF At, Setup, InCopy, Cleanup, Ended
<1>1. /\ process = [p \in Processes |-> NewProcess] /\ shm = NoSegment
      /\ segment = [p \in Processes |-> EmptySegment] /\ file = <<>>
      /\ process[f].pc = "none" /\ NewProcess.pc = "none"
  BY DEF SessionInit, NewProcess
<1>2. CreatesSegment(f)
  <2>1. ~Copies(f)
    BY <1>1 DEF Copies, UsesNullQueue, OpensQueue, Reads, ClosesQueue, AwaitsWriter, CreatesFile,
       SignalsStart, Writes, PassesWait, TakesNothing, StopsWriting
  <2>2. ~CleansUp(f) /\ ~TimesOut(f) /\ ~Dies(f)
    BY <1>1 DEF CleansUp, Leaves, ChecksWriters, ChecksReaders, RemovesSegment, ClosesFile,
       TimesOut, Watches, Dies
  <2>3. SetsUp(f)
    BY <2>1, <2>2 DEF Moves
  <2>4. QED
    BY <1>1, <2>3 DEF SetsUp, FindsNameTaken, OpensSegment, ConstructsProcInfo, GetsQueue,
       FillsProcInfo, ChoosesReader, ChoosesWriter, Registers
<1>3. /\ shm' = f /\ file' = <<>> /\ segment'[f] = EmptySegment
      /\ process' = [process EXCEPT ![f].pc = "procInfo", ![f].calm = Calm,
                                    ![f].first = TRUE, ![f].segment = f]
  BY <1>1, <1>2 DEF CreatesSegment
<1>4. \A q \in Processes \ {f} : process'[q] = NewProcess
  BY <1>1, <1>3
<1>5. /\ process'[f].pc = "procInfo" /\ process'[f].first /\ process'[f].segment = f
      /\ process'[f].stream = <<>> /\ process'[f].status = 0
      /\ process'[f].role = "Invalid" /\ process'[f].next = 1
  BY <1>1, <1>3 DEF NewProcess
<1>6. ReaderOfPair(f, process'[f], segment'[f])
  BY <1>3, <1>5 DEF ReaderOfPair, BeforeReading, AfterReading
<1>7. WriterOfPair(f, process'[f], NewProcess, shm')
  BY <1>3 DEF WriterOfPair, WriterPath, NewProcess
<1>8. SegmentOfPair(process'[f], NewProcess, segment'[f])
  BY <1>3, <1>5 DEF SegmentOfPair, AfterReading, EmptySegment, NewProcess, Roles
<1>9. ChunksOfPair(process'[f], NewProcess, segment'[f], file')
  <2>1. Len(<<>>) = 0 /\ \A k : Consecutive(<<>>, k)
    BY DEF Consecutive
  <2>2. NewProcess.stream = <<>> /\ NewProcess.position = 0 /\ EmptySegment.filled = <<>>
    BY DEF NewProcess, EmptySegment
  <2>3. QED
    BY <1>1, <1>3, <1>5, <2>1, <2>2 DEF ChunksOfPair
<1>10. QED
  BY <1>4, <1>6, <1>7, <1>8, <1>9 DEF Lonely, PairState

\* The second process comes while the first is in copy(), with its queue open:
\* it finds the name.
LEMMA SecondComes ==
  ASSUME SessionInv, NEW f \in Processes, NEW g \in Processes, f # g, Lonely(f),
         Moves(g), process'[g].calm
  PROVE  Couple(f, g)'
<1> USE DEF At, Setup, InCopy, Cleanup, Ended
<1>1. /\ process \in [Processes -> ProcessTypes] /\ f # NoSegment
      /\ process[g] = NewProcess /\ NewProcess.pc = "none"
      /\ PairState(f, process[f], NewProcess, segment[f], shm, file)
  BY SessionAssumption DEF SessionInv, ProcessInv, Lonely, NewProcess
<1>2. shm = f
  BY <1>1 DEF PairState, WriterOfPair
<1>3. FindsNameTaken(g)
  <2>1. ~Copies(g)
    BY <1>1 DEF Copies, UsesNullQueue, OpensQueue, Reads, ClosesQueue, AwaitsWriter, CreatesFile,
       SignalsStart, Writes, PassesWait, TakesNothing, StopsWriting
  <2>2. ~CleansUp(g) /\ ~TimesOut(g) /\ ~Dies(g)
    BY <1>1 DEF CleansUp, Leaves, ChecksWriters, ChecksReaders, RemovesSegment, ClosesFile,
       TimesOut, Watches, Dies
  <2>3. SetsUp(g)
    BY <2>1, <2>2 DEF Moves
  <2>4. QED
    BY <1>1, <1>2, <2>3 DEF SetsUp, CreatesSegment, OpensSegment, ConstructsProcInfo, GetsQueue,
       FillsProcInfo, ChoosesReader, ChoosesWriter, Registers
<1>4. /\ UNCHANGED <<shm, segment, file>>
      /\ process' = [process EXCEPT ![g].pc = "open", ![g].calm = Calm]
  BY <1>3 DEF FindsNameTaken
<1>5. /\ process'[f] = process[f]
      /\ process'[g].pc = "open" /\ process'[g].calm = Calm
      /\ process'[g].first = NewProcess.first /\ process'[g].status = NewProcess.status
      /\ process'[g].stream = NewProcess.stream /\ process'[g].position = NewProcess.position
      /\ process'[g].segment = NewProcess.segment
  BY <1>1, <1>4 DEF ProcessTypes
<1>6. process[f].pc \in {"none"} \cup (InCopy \ {"openQueue"}) \cup Ended
  BY <1>5 DEF Calm
<1>7. /\ ReaderOfPair(f, process[f], segment[f])
      /\ WriterOfPair(f, process[f], NewProcess, shm)
      /\ SegmentOfPair(process[f], NewProcess, segment[f])
      /\ ChunksOfPair(process[f], NewProcess, segment[f], file)
  BY <1>1 DEF PairState
<1>8. process[f].pc \in {"read"} \cup (AfterReading \ ({"exited"} \cup Cleanup))
  <2>1. process[f].pc \notin {"exited"} \cup Cleanup
    BY <1>1, <1>7 DEF SegmentOfPair
  <2>2. QED
    BY <1>6, <1>7, <2>1 DEF ReaderOfPair, BeforeReading, AfterReading
<1>9. WriterOfPair(f, process[f], process'[g], shm)
  BY <1>2, <1>5, <1>7, <1>8 DEF WriterOfPair, WriterPath, NewProcess
<1>10. SegmentOfPair(process[f], process'[g], segment[f])
  BY <1>1, <1>5, <1>7 DEF SegmentOfPair
<1>11. ChunksOfPair(process[f], process'[g], segment[f], file)
  BY <1>1, <1>5, <1>7 DEF ChunksOfPair
<1>12. NameOfPair(f, process[f], process'[g], shm)
  BY <1>2, <1>5, <1>8 DEF NameOfPair
<1>13. QED
  BY <1>4, <1>5, <1>7, <1>9, <1>10, <1>11, <1>12 DEF Couple, PairState

\* Neither looks at the counters before it has counted itself out, and the name
\* goes only after both have.
LEMMA NameOfPairStep ==
  ASSUME SessionInv, NEW f \in Processes, NEW g \in Processes, f # g, Couple(f, g),
         NEW p \in {f, g}, Moves(p), ~At(p, "dead")'
  PROVE  NameOfPair(f, process'[f], process'[g], shm')
<1> DEFINE r == process[f]
           w == process[g]
<1>1. /\ process \in [Processes -> ProcessTypes] /\ process[p] \in ProcessTypes
      /\ \A q \in Processes : q # p => process'[q] = process[q]
      /\ f # NoSegment
  BY MovesFacts, SessionAssumption DEF SessionInv, ProcessInv
<1>2. /\ r.pc \in BeforeReading \cup {"read"} \cup AfterReading
      /\ w.pc \in WriterPath \ {"none"} /\ r.pc \in {"read"} \cup AfterReading
      /\ NameOfPair(f, r, w, shm)
      /\ SegmentOfPair(r, w, segment[f])
      /\ r.segment = f
      /\ w.pc \in Cleanup => w.segment = f
  BY DEF Couple, PairState, ReaderOfPair, WriterOfPair, Cleanup
<1> USE DEF CountedOff, Setup, InCopy, Cleanup, Ended, At, Goto, AfterReading, WriterPath
<1>3. CASE RemovesSegment(p)
  <2>1. process[p].pc = "remove" /\ process'[p].pc = "flush"
    BY <1>1, <1>3 DEF RemovesSegment, ProcessTypes
  <2>2. QED
    BY <1>1, <1>2, <2>1 DEF NameOfPair
<1>4. CASE ChecksWriters(p)
  <2>1. /\ process[p].pc = "check" /\ shm' = shm
        /\ process'[p].pc \in {"checkReaders", "flush"}
        /\ p = f /\ process'[p].pc = "checkReaders" => segment[f].count["Writer"] = 0
    BY <1>1, <1>2, <1>4 DEF ChecksWriters, ProcessTypes, Mine
  <2>2. p = f /\ process'[p].pc = "checkReaders" => w.pc \in CountedOff
    BY <1>2, <2>1 DEF SegmentOfPair
  <2>3. QED
    BY <1>1, <1>2, <2>1, <2>2 DEF NameOfPair
<1>5. CASE ChecksReaders(p)
  <2>1. /\ process[p].pc = "checkReaders" /\ shm' = shm
        /\ process'[p].pc \in {"remove", "flush"}
        /\ p = g /\ process'[p].pc = "remove" => segment[f].count["Reader"] = 0
    BY <1>1, <1>2, <1>5 DEF ChecksReaders, ProcessTypes, Mine
  <2>2. p = g /\ process'[p].pc = "remove" => r.pc \in CountedOff
    BY <1>2, <2>1 DEF SegmentOfPair
  <2>3. QED
    BY <1>1, <1>2, <2>1, <2>2 DEF NameOfPair
<1>6. CASE SetsUp(p) \/ Copies(p) \/ Leaves(p) \/ ClosesFile(p)
  <2>1. /\ shm' = shm
        /\ process'[p].pc \notin {"checkReaders", "remove"}
        /\ process[p].pc \in CountedOff => process'[p].pc \in CountedOff \cup {"failed"}
    <3>1. CASE SetsUp(p)
      BY <1>1, <1>2, <3>1 DEF SetsUp, CreatesSegment, FindsNameTaken, OpensSegment,
         ConstructsProcInfo, GetsQueue, FillsProcInfo, ChoosesReader, ChoosesWriter, Registers,
         ProcessTypes
    <3>2. CASE Copies(p)
      <4>1. CASE UsesNullQueue(p) \/ OpensQueue(p)
        BY <1>1, <4>1 DEF UsesNullQueue, OpensQueue, ProcessTypes
      <4>2. CASE Reads(p) \/ ClosesQueue(p) \/ AwaitsWriter(p)
        BY <1>1, <4>2 DEF Reads, ClosesQueue, AwaitsWriter, ProcessTypes
      <4>3. CASE CreatesFile(p) \/ SignalsStart(p)
        BY <1>1, <4>3 DEF CreatesFile, SignalsStart, ProcessTypes
      <4>4. CASE Writes(p)
        BY <1>1, <4>4 DEF Writes, ProcessTypes
      <4>5. CASE PassesWait(p) \/ TakesNothing(p) \/ StopsWriting(p)
        BY <1>1, <4>5 DEF PassesWait, TakesNothing, StopsWriting, ProcessTypes
      <4>6. QED
        BY <3>2, <4>1, <4>2, <4>3, <4>4, <4>5 DEF Copies
    <3>3. CASE Leaves(p) \/ ClosesFile(p)
      BY <1>1, <3>3 DEF Leaves, ClosesFile, ProcessTypes
    <3>4. QED
      BY <1>6, <3>1, <3>2, <3>3
  <2>2. process'[p].pc # "failed"
        \/ process[p].pc \notin CountedOff
    <3>1. r.status = 0 /\ w.status = 0
      BY DEF Couple, PairState, ReaderOfPair, WriterOfPair
    <3>2. CASE process[p].pc = "flush"
      BY <1>1, <1>6, <3>1, <3>2 DEF ClosesFile, Leaves, SetsUp, Copies, CreatesSegment,
         FindsNameTaken, OpensSegment, ConstructsProcInfo, GetsQueue, FillsProcInfo,
         ChoosesReader, ChoosesWriter, Registers, UsesNullQueue, OpensQueue, Reads, ClosesQueue,
         AwaitsWriter, CreatesFile, SignalsStart, Writes, PassesWait, TakesNothing,
         StopsWriting, ProcessTypes
    <3>3. CASE process[p].pc # "flush"
      BY <1>1, <1>6, <3>3 DEF ClosesFile, Leaves, SetsUp, Copies, CreatesSegment,
         FindsNameTaken, OpensSegment, ConstructsProcInfo, GetsQueue, FillsProcInfo,
         ChoosesReader, ChoosesWriter, Registers, UsesNullQueue, OpensQueue, Reads, ClosesQueue,
         AwaitsWriter, CreatesFile, SignalsStart, Writes, PassesWait, TakesNothing,
         StopsWriting, ProcessTypes
    <3>4. QED
      BY <3>2, <3>3
  <2>3. QED
    BY <1>1, <1>2, <2>1, <2>2 DEF NameOfPair
<1>7. CASE TimesOut(p) \/ Dies(p)
  BY <1>1, <1>7 DEF TimesOut, Dies, ProcessTypes
<1>8. QED
  BY <1>3, <1>4, <1>5, <1>6, <1>7 DEF Moves, CleansUp

\* One of the two takes a step.
LEMMA CoupleStep ==
  ASSUME SessionInv, NEW f \in Processes, NEW g \in Processes, f # g, Couple(f, g),
         NEW p \in {f, g}, Moves(p), ~At(p, "dead")', ~LacksSource(p)'
  PROVE  Couple(f, g)'
<1>1. /\ \A q \in Processes : q # p => process'[q] = process[q]
      /\ process'[p].pc # "none"
  BY MovesFacts
<1>2. /\ PairState(f, process[f], process[g], segment[f], shm, file) /\ process[g].pc # "none"
      /\ process[g] \in ProcessTypes
  BY DEF Couple, SessionInv, ProcessInv
<1>3. NameOfPair(f, process'[f], process'[g], shm')
  BY NameOfPairStep
<1>4. CASE p = f
  <2>1. PairState(f, process'[f], process[g], segment'[f], shm', file')
    BY <1>2, <1>4, ReaderStep
  <2>2. QED
    BY <1>1, <1>2, <1>3, <1>4, <2>1 DEF Couple
<1>5. CASE p = g
  <2>1. PairState(f, process[f], process'[g], segment'[f], shm', file')
    BY <1>2, <1>5, WriterStep
  <2>2. QED
    BY <1>1, <1>3, <1>5, <2>1 DEF Couple
<1>6. QED
  BY <1>4, <1>5

\* What the pair's state says of a process does not depend on its observer.
LEMMA PairOfSame ==
  ASSUME NEW f, NEW r, NEW w, NEW r1, NEW w1, NEW s, NEW name, NEW copy,
         SameButAlone(r, r1), SameButAlone(w, w1), PairState(f, r, w, s, name, copy)
  PROVE  PairState(f, r1, w1, s, name, copy)
<1>1. ReaderOfPair(f, r1, s)
  BY DEF PairState, ReaderOfPair, SameButAlone
<1>2. WriterOfPair(f, r1, w1, name)
  BY DEF PairState, WriterOfPair, SameButAlone
<1>3. SegmentOfPair(r1, w1, s)
  BY DEF PairState, SegmentOfPair, SameButAlone
<1>4. ChunksOfPair(r1, w1, s, copy)
  BY DEF PairState, ChunksOfPair, SameButAlone
<1>5. QED
  BY <1>1, <1>2, <1>3, <1>4 DEF PairState

LEMMA PairStep == SessionInv /\ PairInv /\ [SessionNext]_sessionVars => PairInv'
<1> SUFFICES ASSUME SessionInv, PairInv, [SessionNext]_sessionVars
             PROVE  PairInv'
  OBVIOUS
<1>1. CASE UNCHANGED sessionVars
  <2>1. /\ UNCHANGED <<shm, segment, process, file>>
        /\ Launched' = Launched
        /\ \A q \in Processes : Fine(q)' = Fine(q)
    BY <1>1 DEF sessionVars, Launched, At, Fine, LacksSource
  <2>2. SessionInit => SessionInit'
    BY <2>1 DEF SessionInit
  <2>3. \A f \in Processes : Lonely(f) => Lonely(f)'
    BY <2>1 DEF Lonely
  <2>4. \A f, g \in Processes : Couple(f, g) => Couple(f, g)'
    BY <2>1 DEF Couple
  <2>5. QED
    BY <2>1, <2>2, <2>3, <2>4 DEF PairInv
<1>2. ASSUME NEW p \in Processes, Moves(p)
      PROVE  PairInv'
  <2>1. /\ \A q \in Processes : q # p => process'[q] = process[q]
        /\ process'[p].pc # "none"
        /\ process[p].pc \notin Ended
        /\ process[p].pc # "none" => process'[p].calm = process[p].calm
    BY <1>2, MovesFacts
  <2>2. Launched' = Launched \cup {p}
    BY <2>1 DEF Launched, At
  <2>3. \A q \in Launched : Fine(q)' => Fine(q)
    BY <1>2, <2>1, MovesFacts DEF Fine, LacksSource, Launched, At, Ended
  <2>4. ASSUME NEW f \in Processes, Launched' = {f}, Fine(f)'
        PROVE  Lonely(f)'
    <3>1. p = f
      BY <2>2, <2>4
    <3>2. CASE Launched = {}
      BY <1>2, <3>1, <3>2, FirstComes DEF PairInv
    <3>3. CASE Launched = {f}
      <4>1. Lonely(f)
        BY <2>3, <2>4, <3>3 DEF PairInv
      <4>2. NewProcess \in ProcessTypes
        BY SessionAssumption DEF NewProcess, ProcessTypes
      <4>3. PairState(f, process'[f], NewProcess, segment'[f], shm', file')
        BY <1>2, <2>4, <3>1, <4>1, <4>2, ReaderStep DEF Lonely, Fine
      <4>4. QED
        BY <2>1, <3>1, <4>1, <4>3 DEF Lonely
    <3>4. QED
      BY <2>2, <2>4, <3>2, <3>3
  <2>5. ASSUME NEW f \in Processes, NEW g \in Processes, f # g, Launched' = {f, g},
               Fine(f)', Fine(g)'
        PROVE  Couple(f, g)' \/ Couple(g, f)'
    <3>1. p \in {f, g} /\ ~At(p, "dead")' /\ ~LacksSource(p)'
      BY <2>2, <2>5 DEF Fine
    <3>2. CASE Launched = {f, g}
      <4>1. Couple(f, g) \/ Couple(g, f)
        BY <2>3, <2>5, <3>2 DEF PairInv
      <4>2. QED
        BY <1>2, <2>5, <3>1, <4>1, CoupleStep
    <3>3. CASE Launched = {f} /\ p = g
      <4>1. Lonely(f) /\ Fine(f)
        BY <2>3, <2>5, <3>3 DEF PairInv
      <4>2. QED
        BY <1>2, <2>5, <3>3, <4>1, SecondComes DEF Fine
    <3>4. CASE Launched = {g} /\ p = f
      <4>1. Lonely(g) /\ Fine(g)
        BY <2>3, <2>5, <3>4 DEF PairInv
      <4>2. QED
        BY <1>2, <2>5, <3>4, <4>1, SecondComes DEF Fine
    <3>5. QED
      BY <2>2, <2>5, <3>1, <3>2, <3>3, <3>4
  <2>6. QED
    BY <2>2, <2>4, <2>5 DEF PairInv
<1>3. ASSUME NEW p \in Processes, SeesNobody(p)
      PROVE  PairInv'
  <2>1. /\ UNCHANGED <<shm, segment, file>>
        /\ \A q \in Processes : process[q].pc = "none" => process'[q] = process[q]
        /\ p \in Launched
    BY <1>3, DecisionIsPrivate DEF SessionInv, SeesNobody, Watches, Launched, At
  <2>2. \A q \in Processes : SameButAlone(process[q], process'[q])
    BY <1>3, DecisionIsPrivate DEF SessionInv
  <2>3. Launched' = Launched
    BY <2>2 DEF SameButAlone, Launched, At
  <2>4. \A q \in Processes : Fine(q)' => Fine(q)
    BY <2>2 DEF SameButAlone, Fine, LacksSource, At
  <2>5. ASSUME NEW f \in Processes, Launched' = {f}, Fine(f)'
        PROVE  Lonely(f)'
    <3>1. Lonely(f)
      BY <2>3, <2>4, <2>5 DEF PairInv
    <3>2. SameButAlone(NewProcess, NewProcess)
      BY DEF SameButAlone
    <3>3. PairState(f, process'[f], NewProcess, segment[f], shm, file)
      BY <2>2, <3>1, <3>2, PairOfSame DEF Lonely
    <3>4. NewProcess.pc = "none"
      BY DEF NewProcess
    <3>5. \A q \in Processes \ {f} : process'[q] = NewProcess
      BY <2>1, <3>1, <3>4 DEF Lonely
    <3>6. QED
      BY <2>1, <3>3, <3>5 DEF Lonely
  <2>6. ASSUME NEW f \in Processes, NEW g \in Processes, f # g, Launched' = {f, g},
               Fine(f)', Fine(g)'
        PROVE  Couple(f, g)' \/ Couple(g, f)'
    <3>1. Couple(f, g) \/ Couple(g, f)
      BY <2>3, <2>4, <2>6 DEF PairInv
    <3>2. ASSUME NEW r \in Processes, NEW w \in Processes, Couple(r, w)
          PROVE  Couple(r, w)'
      <4>1. PairState(r, process'[r], process'[w], segment[r], shm, file)
        BY <2>2, <3>2, PairOfSame DEF Couple
      <4>2. NameOfPair(r, process'[r], process'[w], shm)
        BY <2>2, <3>2 DEF Couple, NameOfPair, SameButAlone
      <4>3. QED
        BY <2>1, <2>2, <3>2, <4>1, <4>2 DEF Couple, SameButAlone
    <3>3. QED
      BY <3>1, <3>2
  <2>7. QED
    BY <2>1, <2>3, <2>5, <2>6 DEF PairInv
<1>4. QED
  BY <1>1, <1>2, <1>3, SessionSteps

LEMMA PairInvariant == SessionSpec => []PairInv
<1>1. SessionInit => PairInv
  BY DEF SessionInit, NewProcess, PairInv, Launched, At
<1>2. SessionInv /\ PairInv /\ [SessionNext]_sessionVars => PairInv'
  BY PairStep
<1>3. QED
  BY <1>1, <1>2, SessionInvariant, PTL DEF SessionSpec

\* Two processes of which the second is launched when the first has opened its
\* queue, and that are neither killed nor given up and have their source, always
\* become reader and writer and copy the whole file, for any source (the empty
\* one is one chunk), any capacity of the queue and any interleaving; a third
\* process that nobody has launched yet plays no part.
THEOREM PairWorks == SessionSpec => []PairCopies
<1>1. PairInv => PairCopies
  BY PairHasCopied
<1>2. QED
  BY <1>1, PairInvariant, PTL

\* The segment of such a pair has its name until both have counted themselves
\* out, although each tests the two counters one after the other and unlocked.
THEOREM PairsNameStays == SessionSpec => []PairKeepsName
<1>1. PairInv /\ SessionInv => PairKeepsName
  BY PairHasName
<1>2. QED
  BY <1>1, PairInvariant, SessionInvariant, PTL

=============================================================================
