--------------------------- MODULE SynchronizedQueue ---------------------------
(***************************************************************************)
(* src/queue/SynchronizedQueue.hpp: the unbounded FIFO of the mmap tool.   *)
(* Every operation runs under the mutex qm from its first to its last      *)
(* access, so each is one step; only push does something after it has      *)
(* unlocked, cv.notify_one().  The module describes the queue under its    *)
(* most general client: any thread calls any operation at any time.        *)
(***************************************************************************)
EXTENDS Naturals, Sequences, FiniteSets

CONSTANTS
  Threads,            \* the threads that use the queue
  Chunks,             \* what may be pushed
  NoChunk             \* std::nullopt

ASSUME ChunkAssumption == NoChunk \notin Chunks

\* A process has finitely many threads.
ASSUME ThreadsAssumption == IsFiniteSet(Threads)

VARIABLES
  queue,              \* the inner std::queue; front() is its first element
  isQueueOpen,
  sleeping,           \* the threads asleep in cv.wait
  popped,             \* what the last pop of a thread returned
  call                \* where a thread stands in a call of the queue

syncVars == <<queue, isQueueOpen, sleeping, popped, call>>

\* "pop": inside pop, asleep or about to take the mutex again.  "notify":
\* push has unlocked and not called notify_one yet.
SyncInit ==
  /\ queue = <<>>
  /\ isQueueOpen = FALSE
  /\ sleeping = {}
  /\ popped = [t \in Threads |-> NoChunk]
  /\ call = [t \in Threads |-> "idle"]

\* Mutant: push notifies only when the queue was empty.
PushNotifiesIfEmpty(t, chunk) ==
  /\ call[t] = "idle"
  /\ queue' = Append(queue, chunk)
  /\ call' = [call EXCEPT ![t] = IF queue = <<>> THEN "notify" ELSE "idle"]
  /\ UNCHANGED <<isQueueOpen, sleeping, popped>>

\* The critical section of push.
Push(t, chunk) ==
  /\ call[t] = "idle"
  /\ queue' = Append(queue, chunk)
  /\ call' = [call EXCEPT ![t] = "notify"]
  /\ UNCHANGED <<isQueueOpen, sleeping, popped>>

NotifyOne(t) ==
  /\ call[t] = "notify"
  /\ \/ sleeping = {} /\ UNCHANGED sleeping
     \/ \E u \in sleeping : sleeping' = sleeping \ {u}
  /\ call' = [call EXCEPT ![t] = "idle"]
  /\ UNCHANGED <<queue, isQueueOpen, popped>>

\* pop(), up to the wait if there is nothing to return yet.
Pop(t) ==
  /\ call[t] \in {"idle", "pop"}
  /\ t \notin sleeping
  /\ \/ /\ queue # <<>>
        /\ popped' = [popped EXCEPT ![t] = Head(queue)]
        /\ queue' = Tail(queue)
        /\ call' = [call EXCEPT ![t] = "idle"]
        /\ UNCHANGED sleeping
     \/ /\ queue = <<>> /\ ~isQueueOpen
        /\ popped' = [popped EXCEPT ![t] = NoChunk]
        /\ call' = [call EXCEPT ![t] = "idle"]
        /\ UNCHANGED <<queue, sleeping>>
     \/ /\ queue = <<>> /\ isQueueOpen
        /\ sleeping' = sleeping \cup {t}
        /\ call' = [call EXCEPT ![t] = "pop"]
        /\ UNCHANGED <<queue, popped>>
  /\ UNCHANGED isQueueOpen

\* Mutant: an empty queue is the end, open or not.
SyncIsEmptyOpenOrNot == queue = <<>>

\* isEmpty(): what its caller tests.
SyncIsEmpty == queue = <<>> /\ ~isQueueOpen

\* close() and open() take the mutex and notify nobody.
SetQueueOpen(t, flag) ==
  /\ call[t] = "idle"
  /\ isQueueOpen' = flag
  /\ UNCHANGED <<queue, sleeping, popped, call>>

SyncClose(t) == SetQueueOpen(t, FALSE)
SyncOpen(t) == SetQueueOpen(t, TRUE)

WakeSpuriously(t) ==
  /\ t \in sleeping
  /\ sleeping' = sleeping \ {t}
  /\ UNCHANGED <<queue, isQueueOpen, popped, call>>

SyncNext ==
  \E t \in Threads :
    \/ \E chunk \in Chunks : Push(t, chunk)
    \/ NotifyOne(t)
    \/ Pop(t)
    \/ SyncClose(t)
    \/ SyncOpen(t)
    \/ WakeSpuriously(t)

SyncSpec == SyncInit /\ [][SyncNext]_syncVars

-----------------------------------------------------------------------------
(* Properties *)

\* Type invariant of the queue.
SyncTypeOK ==
  /\ queue \in Seq(Chunks)
  /\ isQueueOpen \in BOOLEAN
  /\ sleeping \in SUBSET Threads
  /\ popped \in [Threads -> Chunks \cup {NoChunk}]
  /\ call \in [Threads -> {"idle", "pop", "notify"}]

Notifying == {t \in Threads : call[t] = "notify"}
Woken == {t \in Threads : call[t] = "pop" /\ t \notin sleeping}

\* notify_one, called outside the mutex, never leaves a chunk behind with its
\* consumers asleep: while somebody sleeps, every chunk in the queue has a
\* notification on its way or a thread that is up to fetch it.  The class allows
\* any number of consumers; the mmap tool has one (ParallelCopyTool.hpp:37).
EveryChunkHasAWaker ==
  sleeping # {} => Len(queue) <= Cardinality(Notifying) + Cardinality(Woken)

=============================================================================
