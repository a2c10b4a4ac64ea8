------------------------------ MODULE MCIPCSession ------------------------------
(* Instances of IPCSession for TLC.  Processes are interchangeable where all   *)
(* of them are launched with the same options.                                 *)
EXTENDS IPCSession, TLC

MCSymmetry == Permutations(Processes)

=============================================================================
