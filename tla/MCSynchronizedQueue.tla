-------------------------- MODULE MCSynchronizedQueue --------------------------
(***************************************************************************)
(* SynchronizedQueue for TLC: four interchangeable threads, one kind of    *)
(* chunk, and at most MaxQueue chunks in the queue.                        *)
(***************************************************************************)
EXTENDS SynchronizedQueue, TLC

CONSTANT MaxQueue     \* bound on the length of the queue

ThreadSymmetry == Permutations(Threads)

MCSyncNext == SyncNext /\ Len(queue') <= MaxQueue

MCSyncSpec == SyncInit /\ [][MCSyncNext]_syncVars

=============================================================================
