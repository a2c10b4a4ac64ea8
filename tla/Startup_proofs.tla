---------------------------- MODULE Startup_proofs ----------------------------
(***************************************************************************)
(* What a process that starts leaves behind, whatever its options are and  *)
(* whenever the source vanishes.                                           *)
(***************************************************************************)
EXTENDS Startup, TLAPS

\* From here on the type is one that has a tool.
ToolChosen == {"create", "size", "setjmp", "openSource", "createFile", "copying"}

\* What the process knows at each point.  The properties are not inductive
\* without it: the destination is safe because createFile comes after the
\* source is open.
ReachesInOrder ==
  /\ pc \in ToolChosen => options.type # "other"
  /\ pc = "size" => options.type = "ipc"
  /\ pc = "createFile" => options.type # "ipc" /\ "sourceStream" \in holds

StartInv ==
  /\ StartTypeOK
  /\ ReachesInOrder
  /\ DestinationIsSafe

\* What a process of a type may hold, one file at a time.
LEMMA HoldableFacts ==
  ASSUME NEW type \in Types
  PROVE  /\ "sourceStream" \in Holdable(type)
         /\ type = "mmap" => "sourceHandle" \in Holdable(type)
         /\ type \in {"mmap", "vbuf"} => "destination" \in Holdable(type)
BY DEF Holdable, Types

LEMMA OptionsHaveType ==
  ASSUME options \in Options
  PROVE  options.type \in Types
BY DEF Options

LEMMA StartInvInit == StartInit => StartInv
BY DEF StartInit, StartInv, StartTypeOK, ReachesInOrder, DestinationIsSafe, Pcs, ToolChosen

\* A step that only moves on.
LEMMA GotoStep ==
  ASSUME StartInv, NEW next \in Pcs \ {"createFile", "failed"}, Goto(next),
         pc # "aborted",
         next \in ToolChosen => options.type # "other",
         next # "size"
  PROVE  StartInv'
BY DEF Goto, StartInv, StartTypeOK, ReachesInOrder, DestinationIsSafe, Pcs, ToolChosen

\* The handler of a failure after setjmp.
LEMMA FailsStep ==
  ASSUME StartInv, Fails, pc # "aborted", UNCHANGED <<options, sourceExists>>
  PROVE  StartInv'
BY DEF Fails, StartInv, StartTypeOK, ReachesInOrder, DestinationIsSafe, Pcs, ToolChosen

LEMMA StartInvStep == StartInv /\ [StartNext]_startVars => StartInv'
<1> SUFFICES ASSUME StartInv, [StartNext]_startVars
             PROVE  StartInv'
  OBVIOUS
<1> USE DEF StartInv
<1>0. options.type \in Types
  BY OptionsHaveType DEF StartTypeOK
<1>1. CASE ParsesOptions
  BY <1>1, GotoStep DEF ParsesOptions, Pcs, ToolChosen
<1>2. CASE GetsToolType
  BY <1>2, GotoStep DEF GetsToolType, Pcs, ToolChosen
<1>3. CASE CreatesLocalTool
  BY <1>0, <1>3, HoldableFacts
     DEF CreatesLocalTool, StartTypeOK, ReachesInOrder, DestinationIsSafe, Pcs, ToolChosen
<1>4. CASE CreatesSegment
  BY <1>4 DEF CreatesSegment, Goto, StartTypeOK, ReachesInOrder, DestinationIsSafe, Pcs, ToolChosen
<1>5. CASE CreatesReader
  BY <1>5, GotoStep DEF CreatesReader, ReachesInOrder, Pcs, ToolChosen
<1>6. CASE InstallsHandlers
  BY <1>6, GotoStep DEF InstallsHandlers, ReachesInOrder, Pcs, ToolChosen
<1>7. CASE OpensSource
  <2>1. CASE Fails
    BY <1>7, <2>1, FailsStep DEF OpensSource
  <2>2. CASE /\ pc' = IF options.type = "ipc" THEN "copying" ELSE "createFile"
             /\ holds' = holds \cup {"sourceStream"}
    BY <1>0, <1>7, <2>2, HoldableFacts
       DEF OpensSource, StartTypeOK, ReachesInOrder, DestinationIsSafe, Pcs, ToolChosen
  <2> QED
    BY <1>7, <2>1, <2>2 DEF OpensSource
<1>8. CASE CreatesFile
  <2>1. CASE Fails
    BY <1>8, <2>1, FailsStep DEF CreatesFile
  <2>2. CASE pc' = "copying" /\ holds' = holds \cup {"destination"}
    <3>1. options.type \in {"mmap", "vbuf"}
      BY <1>0, <1>8 DEF CreatesFile, ReachesInOrder, ToolChosen, Types
    <3> QED
      BY <1>0, <1>8, <2>2, <3>1, HoldableFacts
         DEF CreatesFile, StartTypeOK, ReachesInOrder, DestinationIsSafe, Pcs, ToolChosen
  <2> QED
    BY <1>8, <2>1, <2>2 DEF CreatesFile
<1>9. CASE SourceVanishes
  BY <1>9 DEF SourceVanishes, StartTypeOK, ReachesInOrder, DestinationIsSafe
<1>10. CASE Started \/ UNCHANGED startVars
  BY <1>10 DEF Started, startVars, StartTypeOK, ReachesInOrder, DestinationIsSafe
<1> QED
  BY <1>1, <1>2, <1>3, <1>4, <1>5, <1>6, <1>7, <1>8, <1>9, <1>10 DEF StartNext

LEMMA StartInvariant == StartSpec => []StartInv
BY StartInvInit, StartInvStep, PTL DEF StartSpec

\* What a process holds is what its type of tool opens or creates, whichever
\* options it has: the ipc tool's start never holds the destination.
THEOREM StartTypeCorrect == StartSpec => []StartTypeOK
<1>1. StartInv => StartTypeOK
  BY DEF StartInv
<1> QED
  BY <1>1, StartInvariant, PTL

\* Whenever the source vanishes, the destination is emptied only by a process
\* that has the source open.
THEOREM StartKeepsDestination == StartSpec => []DestinationIsSafe
<1>1. StartInv => DestinationIsSafe
  BY DEF StartInv
<1> QED
  BY <1>1, StartInvariant, PTL

================================================================================
