-------------------------- MODULE MCFixedBufferQueue --------------------------
(***************************************************************************)
(* FixedBufferQueue for TLC: threads are interchangeable model values.     *)
(***************************************************************************)
EXTENDS FixedBufferQueue

\* Threads are only compared for equality, so they may be permuted.
ThreadSymmetry == Permutations(Threads)

=============================================================================
