-------------------------------- MODULE Startup --------------------------------
(***************************************************************************)
(* What one process does before it copies: the options                     *)
(* (src/common/OptionsParser.hpp), the choice of the tool and its          *)
(* construction (createTool, src/common/PseudoToolFactory.hpp), main()'s   *)
(* setjmp, and the opening of the two files at the start of copy().  An    *)
(* exception before setjmp aborts the process and unwinds nothing; a later *)
(* one is caught by the handler, which lets main() destroy the tool.       *)
(* The source may vanish at any time.                                      *)
(*                                                                         *)
(* Of the ipc tool this is the first process of a segment.  What it leaves *)
(* in shared memory when it fails, the segment, the counters and the lock, *)
(* is in IPCSession, with the other processes.                             *)
(***************************************************************************)

VARIABLES
  options,            \* which options the command line has
  sourceExists,       \* the source can be opened
  pc,                 \* where the process stands
  holds               \* what it has opened or created

startVars == <<options, sourceExists, pc, holds>>

Types == {"vbuf", "mmap", "ipc", "other"}

\* type is "vbuf" and shobj the empty name if they are not given.
Options == [help : BOOLEAN, src : BOOLEAN, dst : BOOLEAN, dstWritable : BOOLEAN,
            sourceEmpty : BOOLEAN, type : Types, shobj : BOOLEAN]

\* "aborted": by an exception before setjmp.  "failed": main() returns 1.
Pcs == {"parse", "type", "create", "size", "setjmp", "openSource",
        "createFile", "copying", "aborted", "failed"}

\* What a process with a given type may hold: the ipc reader leaves the
\* destination to the writer.
Holdable(type) ==
  {"sourceStream"} \cup
    CASE type = "mmap" -> {"sourceHandle", "destination"}
      [] type = "vbuf" -> {"destination"}
      [] OTHER         -> {}

StartInit ==
  /\ options \in Options
  /\ sourceExists \in BOOLEAN
  /\ ~options.src => ~sourceExists
  /\ ~options.dst => ~options.dstWritable
  /\ pc = "parse"
  /\ holds = {}

Goto(next) == pc' = next /\ UNCHANGED <<options, sourceExists, holds>>

-----------------------------------------------------------------------------

\* The condition of line 38.  Its last part, a type without a shobj, is never
\* true: an option with a default value always counts.
TooFewArguments ==
  options.help \/ ((~options.src \/ ~options.dst) /\ options.type # "ipc")

ParsesOptions ==
  /\ pc = "parse"
  /\ Goto(IF TooFewArguments THEN "aborted" ELSE "type")

GetsToolType ==
  /\ pc = "type"
  /\ Goto(IF options.type = "other" THEN "aborted" ELSE "create")

\* vbuf's reader asks for the size of the source, mmap's opens it; the writers
\* of both do nothing yet.
CreatesLocalTool ==
  /\ pc = "create"
  /\ options.type # "ipc"
  /\ pc' = IF sourceExists THEN "setjmp" ELSE "aborted"
  /\ holds' = IF sourceExists /\ options.type = "mmap" THEN {"sourceHandle"} ELSE {}
  /\ UNCHANGED <<options, sourceExists>>

\* A segment without a name can be neither created nor opened.
CreatesSegment ==
  /\ pc = "create"
  /\ options.type = "ipc"
  /\ Goto(IF options.shobj THEN "size" ELSE "aborted")

\* The reader is constructed, and asks for the size of the source.
CreatesReader ==
  /\ pc = "size"
  /\ Goto(IF sourceExists THEN "setjmp" ELSE "aborted")

InstallsHandlers ==
  /\ pc = "setjmp"
  /\ Goto("openSource")

\* The handler jumps back into main(), which destroys the tool.
Fails == pc' = "failed" /\ UNCHANGED holds

\* Mutant: copy() creates the destination first.
CreatesFileFirst ==
  /\ pc = "openSource"
  /\ \/ options.type # "ipc" /\ options.dstWritable
        /\ pc' = "copying" /\ holds' = holds \cup {"destination"}
     \/ ~(options.type # "ipc" /\ options.dstWritable) /\ Fails
  /\ UNCHANGED <<options, sourceExists>>

\* Mutant: the ipc reader goes on to create the destination, as vbuf does.
OpensSourceThenCreates ==
  /\ pc = "openSource"
  /\ LET opens == IF options.type = "mmap" THEN ~options.sourceEmpty ELSE sourceExists
     IN \/ opens /\ pc' = "createFile" /\ holds' = holds \cup {"sourceStream"}
        \/ ~opens /\ Fails
  /\ UNCHANGED <<options, sourceExists>>

\* fopen of vbuf and ipc looks for the source once more; mmap has it open, and
\* cannot map an empty one.
OpensSource ==
  /\ pc = "openSource"
  /\ LET opens == IF options.type = "mmap" THEN ~options.sourceEmpty ELSE sourceExists
     IN \/ /\ opens
           /\ pc' = IF options.type = "ipc" THEN "copying" ELSE "createFile"
           /\ holds' = holds \cup {"sourceStream"}
        \/ ~opens /\ Fails
  /\ UNCHANGED <<options, sourceExists>>

CreatesFile ==
  /\ pc = "createFile"
  /\ \/ /\ options.dstWritable
        /\ pc' = "copying"
        /\ holds' = holds \cup {"destination"}
     \/ ~options.dstWritable /\ Fails
  /\ UNCHANGED <<options, sourceExists>>

SourceVanishes ==
  /\ sourceExists
  /\ sourceExists' = FALSE
  /\ UNCHANGED <<options, pc, holds>>

Started == pc \in {"copying", "aborted", "failed"} /\ UNCHANGED startVars

StartNext ==
  \/ ParsesOptions
  \/ GetsToolType
  \/ CreatesLocalTool
  \/ CreatesSegment
  \/ CreatesReader
  \/ InstallsHandlers
  \/ OpensSource
  \/ CreatesFile
  \/ SourceVanishes
  \/ Started

StartSpec == StartInit /\ [][StartNext]_startVars

-----------------------------------------------------------------------------
(* Properties *)

\* Type invariant of the start.
StartTypeOK ==
  /\ options \in Options
  /\ sourceExists \in BOOLEAN
  /\ pc \in Pcs
  /\ holds \subseteq Holdable(options.type)

\* A source that is missing, that cannot be mapped or that vanishes while the
\* tool is set up never costs the destination its contents: the destination
\* is emptied only by a process that has the source open
\* (BufferedParallelCopyTool.hpp:35-38, ParallelCopyTool.hpp:34-35).
DestinationIsSafe == "destination" \in holds => "sourceStream" \in holds

=============================================================================
