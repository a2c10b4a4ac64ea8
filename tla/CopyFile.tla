------------------------------- MODULE CopyFile -------------------------------
(***************************************************************************)
(* What a copy tool promises (src/common/ICopyTool.hpp, copy(); the tests  *)
(* under test/copyTool compare source and destination byte for byte): the  *)
(* destination only ever grows along the source, the run ends well only    *)
(* with the whole source in the destination, and nothing is written after  *)
(* the run has ended.  Byte i of the source is represented by the number   *)
(* i, so the first n bytes of the source are Source(n).                    *)
(***************************************************************************)
EXTENDS Naturals, Sequences

CONSTANT FileSizes      \* the sizes a source file may have: natural numbers

VARIABLES
  size,                 \* size of the source
  file,                 \* contents of the destination file
  status                \* "copying", "done" (exit code 0) or "failed"

copyVars == <<size, file, status>>

Source(n) == [i \in 1..n |-> i]

CopyInit ==
  /\ size \in FileSizes
  /\ file = <<>>
  /\ status = "copying"

Extend ==
  /\ status = "copying"
  /\ \E n \in Len(file) + 1 .. size : file' = Source(n)
  /\ UNCHANGED <<size, status>>

Finish ==
  /\ status = "copying"
  /\ file = Source(size)
  /\ status' = "done"
  /\ UNCHANGED <<size, file>>

Fail ==
  /\ status = "copying"
  /\ status' = "failed"
  /\ UNCHANGED <<size, file>>

CopyNext == Extend \/ Finish \/ Fail

CopySpec == CopyInit /\ [][CopyNext]_copyVars

=============================================================================
