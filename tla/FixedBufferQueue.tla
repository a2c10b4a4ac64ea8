--------------------------- MODULE FixedBufferQueue ---------------------------
(***************************************************************************)
(* src/queue/BufferedQueue.hpp, class FixedBufferQueue: a fixed pool of    *)
(* buffers that circulates between readBuffers (free, to read a file into) *)
(* and writeBuffers (filled, to write a file from).                        *)
(*                                                                         *)
(* The module describes the queue under its most general client: any       *)
(* number of threads, each holding at most one buffer at a time (as        *)
(* BufferedReader::read and BufferedFileWriter::write do), may call any    *)
(* operation in any order.  The copy tools restrict that client; a tool    *)
(* that implements QueueSpec inherits every property proved of it.         *)
(*                                                                         *)
(* Granularity.  A critical section that touches only what queueMutex      *)
(* protects is one step.  isOpen is an atomic that close() and open()      *)
(* write WITHOUT queueMutex, so getFreeBuffer and getFilledBuffer, which   *)
(* load it twice, take two steps with the mutex held in between: the       *)
(* predicate of cv.wait, then the second test and the take.                *)
(***************************************************************************)
EXTENDS Naturals, Sequences, SequencesExt

CONSTANTS
  Threads,            \* the threads (or processes) that use the queue
  NoThread,           \* queueMutex is free
  BUFFERS_IN_QUEUE    \* how many buffers the constructor puts in readBuffers

ASSUME QueueAssumption ==
  /\ NoThread \notin Threads
  /\ BUFFERS_IN_QUEUE \in Nat \ {0}

VARIABLES
  readBuffers,        \* deque of free buffers; back() is its last element
  writeBuffers,       \* deque of filled buffers; front() is its first element
  queueMutex,         \* the thread that owns the mutex, or NoThread
  waiting,            \* the threads asleep in cv.wait
  isOpen,             \* the atomic flag that close() and open() set
  isReadFinished_,    \* set by finishRead()
  bufferType,         \* Buffer::bufferType of every buffer
  held,               \* the buffer a thread got and has not returned yet
  qpc                 \* where a thread stands in a call of the queue

queueVars == <<readBuffers, writeBuffers, queueMutex, waiting, isOpen,
               isReadFinished_, bufferType, held, qpc>>

Buffers == 1..BUFFERS_IN_QUEUE
NoBuffer == 0

(***************************************************************************)
(* "getFree" and "getFilled": inside cv.wait (asleep if in waiting, else   *)
(* about to take the mutex and test the predicate again).  "takeFree" and  *)
(* "takeFilled": the predicate was true and the mutex is held.  "notify":  *)
(* returnBuffer has pushed and unlocked, and not called notify_all yet.    *)
(* "undefined": back() or front() of an empty deque was evaluated; the     *)
(* language says nothing of that thread from here on.                      *)
(***************************************************************************)
CallStates == {"idle", "getFree", "takeFree", "getFilled", "takeFilled",
               "notify", "undefined"}

-----------------------------------------------------------------------------

\* Mutant: the loop of the IPC constructor runs once too often.
OneBufferTooMany == [i \in 1..BUFFERS_IN_QUEUE + 1 |-> i]

\* The constructors put every buffer in readBuffers, in order, as READ.
InitialBuffers == [i \in 1..BUFFERS_IN_QUEUE |-> i]

QueueInit ==
  /\ readBuffers = InitialBuffers
  /\ writeBuffers = <<>>
  /\ queueMutex = NoThread
  /\ waiting = {}
  /\ isOpen = FALSE
  /\ isReadFinished_ = FALSE
  /\ bufferType = [b \in Buffers |-> "READ"]
  /\ held = [t \in Threads |-> NoBuffer]
  /\ qpc = [t \in Threads |-> "idle"]

\* Mutant: no predicate, so that cv.wait does not wait.
CanAlwaysGet == TRUE

\* The predicates of the two cv.wait calls.
CanGetFree == readBuffers # <<>> \/ ~isOpen
CanGetFilled == writeBuffers # <<>> \/ ~isOpen

\* Mutant: an empty queue is the end, open or not.
IsEmptyOpenOrNot == writeBuffers = <<>>

\* isEmpty(): what its caller tests with the mutex held.
IsEmpty == writeBuffers = <<>> /\ ~isOpen

-----------------------------------------------------------------------------
(***************************************************************************)
(* cv.wait(lm, ready): take the mutex, then go on with it held if the      *)
(* predicate is true, else release it and fall asleep in one step.  A      *)
(* thread that wakes up comes back here.                                   *)
(***************************************************************************)
WaitUntil(t, ready, asleep, awake) ==
  /\ qpc[t] \in {"idle", asleep}
  /\ held[t] = NoBuffer
  /\ t \notin waiting
  /\ queueMutex = NoThread
  /\ \/ /\ ready
        /\ queueMutex' = t
        /\ qpc' = [qpc EXCEPT ![t] = awake]
        /\ UNCHANGED waiting
     \/ /\ ~ready
        /\ waiting' = waiting \cup {t}
        /\ qpc' = [qpc EXCEPT ![t] = asleep]
        /\ UNCHANGED queueMutex
  /\ UNCHANGED <<readBuffers, writeBuffers, isOpen, isReadFinished_,
                 bufferType, held>>

WaitFree(t) == WaitUntil(t, CanGetFree, "getFree", "takeFree")
WaitFilled(t) == WaitUntil(t, CanGetFilled, "getFilled", "takeFilled")

\* The end of a get call that gives no buffer: std::nullopt if the queue is
\* closed; if open() came in after the predicate, the test of line 96 (120)
\* fails and the element of an empty deque is read.
GiveNothing(t) ==
  /\ qpc' = [qpc EXCEPT ![t] = IF isOpen THEN "undefined" ELSE "idle"]
  /\ UNCHANGED <<readBuffers, writeBuffers, bufferType, held>>

\* Mutant: a buffer is taken out of its deque and nothing is returned.
GiveAway(t, b, type) ==
  /\ bufferType' = [bufferType EXCEPT ![b] = type]
  /\ qpc' = [qpc EXCEPT ![t] = "idle"]
  /\ UNCHANGED held

\* The end of a get call that hands buffer b to t, typed for its use.
Give(t, b, type) ==
  /\ held' = [held EXCEPT ![t] = b]
  /\ bufferType' = [bufferType EXCEPT ![b] = type]
  /\ qpc' = [qpc EXCEPT ![t] = "idle"]

TakeFree(t) ==
  /\ qpc[t] = "takeFree"
  /\ queueMutex' = NoThread
  /\ \/ /\ readBuffers = <<>>
        /\ GiveNothing(t)
     \/ /\ readBuffers # <<>>
        /\ readBuffers' = Front(readBuffers)
        /\ Give(t, Last(readBuffers), "READ")
        /\ UNCHANGED writeBuffers
  /\ UNCHANGED <<waiting, isOpen, isReadFinished_>>

TakeFilled(t) ==
  /\ qpc[t] = "takeFilled"
  /\ queueMutex' = NoThread
  /\ \/ /\ writeBuffers = <<>>
        /\ GiveNothing(t)
     \/ /\ writeBuffers # <<>>
        /\ writeBuffers' = Tail(writeBuffers)
        /\ Give(t, Head(writeBuffers), "WRITE")
        /\ UNCHANGED readBuffers
  /\ UNCHANGED <<waiting, isOpen, isReadFinished_>>

\* The critical section of returnBuffer: the buffer moves to the other deque.
ReturnBuffer(t) ==
  /\ qpc[t] = "idle"
  /\ held[t] # NoBuffer
  /\ queueMutex = NoThread
  /\ \/ /\ bufferType[held[t]] = "READ"
        /\ writeBuffers' = Append(writeBuffers, held[t])
        /\ bufferType' = [bufferType EXCEPT ![held[t]] = "WRITE"]
        /\ UNCHANGED readBuffers
     \/ /\ bufferType[held[t]] = "WRITE"
        /\ readBuffers' = Append(readBuffers, held[t])
        /\ bufferType' = [bufferType EXCEPT ![held[t]] = "READ"]
        /\ UNCHANGED writeBuffers
  /\ held' = [held EXCEPT ![t] = NoBuffer]
  /\ qpc' = [qpc EXCEPT ![t] = "notify"]
  /\ UNCHANGED <<queueMutex, waiting, isOpen, isReadFinished_>>

\* Mutant: cv.notify_one().
NotifyOne(t) ==
  /\ qpc[t] = "notify"
  /\ \/ waiting = {} /\ UNCHANGED waiting
     \/ \E u \in waiting : waiting' = waiting \ {u}
  /\ qpc' = [qpc EXCEPT ![t] = "idle"]
  /\ UNCHANGED <<readBuffers, writeBuffers, queueMutex, isOpen,
                 isReadFinished_, bufferType, held>>

\* Mutant: no notification.
NotifyNobody(t) ==
  /\ qpc[t] = "notify"
  /\ qpc' = [qpc EXCEPT ![t] = "idle"]
  /\ UNCHANGED <<readBuffers, writeBuffers, queueMutex, waiting, isOpen,
                 isReadFinished_, bufferType, held>>

\* cv.notify_all(), after returnBuffer has released the mutex.
NotifyAll(t) ==
  /\ qpc[t] = "notify"
  /\ waiting' = {}
  /\ qpc' = [qpc EXCEPT ![t] = "idle"]
  /\ UNCHANGED <<readBuffers, writeBuffers, queueMutex, isOpen,
                 isReadFinished_, bufferType, held>>

\* close() and open() store the flag: no mutex, no notification.
SetOpen(t, flag) ==
  /\ qpc[t] = "idle"
  /\ isOpen' = flag
  /\ UNCHANGED <<readBuffers, writeBuffers, queueMutex, waiting,
                 isReadFinished_, bufferType, held, qpc>>

Close(t) == SetOpen(t, FALSE)
Open(t) == SetOpen(t, TRUE)

FinishRead(t) ==
  /\ qpc[t] = "idle"
  /\ queueMutex = NoThread
  /\ isReadFinished_' = TRUE
  /\ UNCHANGED <<readBuffers, writeBuffers, queueMutex, waiting, isOpen,
                 bufferType, held, qpc>>

\* A condition variable may wake a sleeper that nobody notified.
SpuriousWakeup(t) ==
  /\ t \in waiting
  /\ waiting' = waiting \ {t}
  /\ UNCHANGED <<readBuffers, writeBuffers, queueMutex, isOpen,
                 isReadFinished_, bufferType, held, qpc>>

QueueNext ==
  \E t \in Threads :
    \/ WaitFree(t)
    \/ TakeFree(t)
    \/ WaitFilled(t)
    \/ TakeFilled(t)
    \/ ReturnBuffer(t)
    \/ NotifyAll(t)
    \/ Close(t)
    \/ Open(t)
    \/ FinishRead(t)
    \/ SpuriousWakeup(t)

QueueSpec == QueueInit /\ [][QueueNext]_queueVars

-----------------------------------------------------------------------------
(* Properties *)

\* Type invariant of the queue's state.
QueueTypeOK ==
  /\ readBuffers \in Seq(Buffers)
  /\ writeBuffers \in Seq(Buffers)
  /\ queueMutex \in Threads \cup {NoThread}
  /\ waiting \in SUBSET Threads
  /\ isOpen \in BOOLEAN
  /\ isReadFinished_ \in BOOLEAN
  /\ bufferType \in [Buffers -> {"READ", "WRITE"}]
  /\ held \in [Threads -> Buffers \cup {NoBuffer}]
  /\ qpc \in [Threads -> CallStates]

\* No buffer occurs twice in the deques and the threads' hands together.
NoBufferTwice ==
  /\ \A i, j \in DOMAIN readBuffers : readBuffers[i] = readBuffers[j] => i = j
  /\ \A i, j \in DOMAIN writeBuffers : writeBuffers[i] = writeBuffers[j] => i = j
  /\ \A i \in DOMAIN readBuffers, j \in DOMAIN writeBuffers :
       readBuffers[i] # writeBuffers[j]
  /\ \A t \in Threads : held[t] # NoBuffer =>
       /\ \A i \in DOMAIN readBuffers : readBuffers[i] # held[t]
       /\ \A i \in DOMAIN writeBuffers : writeBuffers[i] # held[t]
       /\ \A u \in Threads : held[u] = held[t] => u = t

\* Every buffer of the pool is somewhere.
NoBufferLost ==
  \A b \in Buffers :
    \/ \E i \in DOMAIN readBuffers : readBuffers[i] = b
    \/ \E i \in DOMAIN writeBuffers : writeBuffers[i] = b
    \/ \E t \in Threads : held[t] = b

\* The pool is conserved: whatever the threads do, every buffer is in exactly
\* one of readBuffers, writeBuffers and one thread's hands, so no two threads
\* ever read and write the same 4096 bytes (getFreeBuffer, getFilledBuffer
\* and returnBuffer move buffers, lines 101-102, 125-126 and 165).
BuffersConserved == NoBufferTwice /\ NoBufferLost

\* returnBuffer notifies after it has unlocked (line 168).  No wakeup is lost
\* by that: if a thread sleeps although a buffer it can take is there, then
\* some thread has yet to call notify_all.
NoLostReturn ==
  \A t \in waiting :
    \/ qpc[t] = "getFree" /\ readBuffers # <<>>
    \/ qpc[t] = "getFilled" /\ writeBuffers # <<>>
    => \E u \in Threads : qpc[u] = "notify"

\* What the comment on isEmpty() says of it (BufferedQueue.hpp:133): true if
\* there is a buffer available, to read into or to write from.
IsEmptyAsDocumented == IsEmpty <=> (readBuffers # <<>> \/ writeBuffers # <<>>)

=============================================================================
