----------------------- MODULE MCInterruptedParallelCopy -----------------------
(* InterruptedParallelCopy for TLC, on the instance of MCParallelCopyTool. *)
EXTENDS InterruptedParallelCopy, MCParallelCopyTool

=============================================================================
