-------------------------- MODULE MCParallelCopyTool ---------------------------
(***************************************************************************)
(* ParallelCopyTool for TLC: chunks of up to two bytes, files from empty   *)
(* to seven bytes (four chunks, the last one full or partial).             *)
(***************************************************************************)
EXTENDS ParallelCopyTool

MCFileSizes == 0..7
MCChunks == [start : 0..7, size : 0..defaultBufferSize]

=============================================================================
