------------------------------- MODULE FillFile --------------------------------
(***************************************************************************)
(* What a copy tool promises that gives the destination its final length   *)
(* before it writes anything into it (MMapFileWriter::create, ftruncate,   *)
(* and no O_TRUNC): as CopyFile, but the destination does not grow along   *)
(* the source, it is filled along it.  Hole is a byte that has not been    *)
(* written: zero, or what an older file of that name had there.            *)
(***************************************************************************)
EXTENDS CopyFile

Hole == 0

\* The destination with its first n bytes written.
Filled(n) == [i \in 1..size |-> IF i <= n THEN i ELSE Hole]

Create ==
  /\ status = "copying"
  /\ file = <<>>
  /\ file' = Filled(0)
  /\ UNCHANGED <<size, status>>

Fill ==
  /\ status = "copying"
  /\ \E n \in 0..size : file = Filled(n) /\ \E m \in n + 1 .. size : file' = Filled(m)
  /\ UNCHANGED <<size, status>>

FillNext == Create \/ Fill \/ Finish \/ Fail

FillSpec == CopyInit /\ [][FillNext]_copyVars

=============================================================================
