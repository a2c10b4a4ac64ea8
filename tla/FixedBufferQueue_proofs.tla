------------------------ MODULE FixedBufferQueue_proofs ------------------------
(***************************************************************************)
(* What holds of FixedBufferQueue for any number of threads and buffers.   *)
(***************************************************************************)
EXTENDS FixedBufferQueue, SequenceTheorems, TLAPS

\* What pop_back, pop_front and push_back leave of a deque.
LEMMA FrontFacts ==
  ASSUME NEW S, NEW s \in Seq(S), s # <<>>
  PROVE  /\ Front(s) \in Seq(S)
         /\ DOMAIN Front(s) = 1..Len(s) - 1
         /\ \A i \in 1..Len(s) - 1 : Front(s)[i] = s[i]
         /\ Last(s) = s[Len(s)]
         /\ Last(s) \in S
         /\ Len(s) \in DOMAIN s
         /\ DOMAIN s = 1..Len(s)
         /\ Len(s) \in Nat \ {0}
BY DEF Front, Last

LEMMA TailFacts ==
  ASSUME NEW S, NEW s \in Seq(S), s # <<>>
  PROVE  /\ Tail(s) \in Seq(S)
         /\ DOMAIN Tail(s) = 1..Len(s) - 1
         /\ \A i \in 1..Len(s) - 1 : Tail(s)[i] = s[i + 1]
         /\ Head(s) = s[1]
         /\ Head(s) \in S
         /\ DOMAIN s = 1..Len(s)
         /\ Len(s) \in Nat \ {0}
OBVIOUS

LEMMA AppendFacts ==
  ASSUME NEW S, NEW s \in Seq(S), NEW x \in S
  PROVE  /\ Append(s, x) \in Seq(S)
         /\ Append(s, x) # <<>>
         /\ DOMAIN Append(s, x) = 1..Len(s) + 1
         /\ \A i \in 1..Len(s) : Append(s, x)[i] = s[i]
         /\ Append(s, x)[Len(s) + 1] = x
         /\ DOMAIN s = 1..Len(s)
         /\ Len(s) \in Nat
OBVIOUS

-----------------------------------------------------------------------------
(* Type correctness *)

LEMMA QueueTypeInit == QueueInit => QueueTypeOK
<1> SUFFICES ASSUME QueueInit
             PROVE  QueueTypeOK
  OBVIOUS
<1>1. readBuffers \in [1..BUFFERS_IN_QUEUE -> Buffers] /\ BUFFERS_IN_QUEUE \in Nat
  BY QueueAssumption DEF QueueInit, InitialBuffers, Buffers
<1>2. readBuffers \in Seq(Buffers)
  BY <1>1, SeqDef
<1>3. writeBuffers \in Seq(Buffers)
  BY DEF QueueInit
<1>4. /\ bufferType \in [Buffers -> {"READ", "WRITE"}]
      /\ held \in [Threads -> Buffers \cup {NoBuffer}]
      /\ qpc \in [Threads -> CallStates]
  BY DEF QueueInit, CallStates
<1>5. QED
  BY <1>2, <1>3, <1>4 DEF QueueInit, QueueTypeOK

LEMMA QueueTypeStep == QueueTypeOK /\ [QueueNext]_queueVars => QueueTypeOK'
<1> SUFFICES ASSUME QueueTypeOK, [QueueNext]_queueVars
             PROVE  QueueTypeOK'
  OBVIOUS
<1> USE DEF QueueTypeOK, CallStates
<1>1. CASE UNCHANGED queueVars
  BY <1>1 DEF queueVars
<1>2. ASSUME NEW t \in Threads, WaitFree(t) \/ WaitFilled(t)
      PROVE  QueueTypeOK'
  BY <1>2 DEF WaitFree, WaitFilled, WaitUntil
<1>3. ASSUME NEW t \in Threads, TakeFree(t)
      PROVE  QueueTypeOK'
  <2>1. CASE readBuffers = <<>>
    BY <1>3, <2>1 DEF TakeFree, GiveNothing
  <2>2. CASE readBuffers # <<>>
    <3>1. Front(readBuffers) \in Seq(Buffers) /\ Last(readBuffers) \in Buffers
      BY <2>2, FrontFacts
    <3>2. QED
      BY <1>3, <2>2, <3>1 DEF TakeFree, Give
  <2>3. QED
    BY <2>1, <2>2
<1>4. ASSUME NEW t \in Threads, TakeFilled(t)
      PROVE  QueueTypeOK'
  <2>1. CASE writeBuffers = <<>>
    BY <1>4, <2>1 DEF TakeFilled, GiveNothing
  <2>2. CASE writeBuffers # <<>>
    <3>1. Tail(writeBuffers) \in Seq(Buffers) /\ Head(writeBuffers) \in Buffers
      BY <2>2, TailFacts
    <3>2. QED
      BY <1>4, <2>2, <3>1 DEF TakeFilled, Give
  <2>3. QED
    BY <2>1, <2>2
<1>5. ASSUME NEW t \in Threads, ReturnBuffer(t)
      PROVE  QueueTypeOK'
  <2>1. held[t] \in Buffers
    BY <1>5 DEF ReturnBuffer, NoBuffer
  <2>2. QED
    <3>1. /\ Append(readBuffers, held[t]) \in Seq(Buffers)
          /\ Append(writeBuffers, held[t]) \in Seq(Buffers)
      BY <2>1
    <3>2. QED
      BY <1>5, <2>1, <3>1 DEF ReturnBuffer
<1>6. ASSUME NEW t \in Threads, NotifyAll(t)
      PROVE  QueueTypeOK'
  BY <1>6 DEF NotifyAll
<1>7. ASSUME NEW t \in Threads, Close(t) \/ Open(t)
      PROVE  QueueTypeOK'
  BY <1>7 DEF Close, Open, SetOpen
<1>8. ASSUME NEW t \in Threads, FinishRead(t) \/ SpuriousWakeup(t)
      PROVE  QueueTypeOK'
  BY <1>8 DEF FinishRead, SpuriousWakeup
<1>9. QED
  BY <1>1, <1>2, <1>3, <1>4, <1>5, <1>6, <1>7, <1>8 DEF QueueNext

\* The queue's variables keep their types, whatever its clients do.
THEOREM QueueTypeCorrect == QueueSpec => []QueueTypeOK
BY QueueTypeInit, QueueTypeStep, PTL DEF QueueSpec

-----------------------------------------------------------------------------
(* Conservation of the pool *)

\* A thread inside a call holds no buffer, so what a get call hands out cannot
\* overwrite one.
CallsHoldNothing == \A t \in Threads : qpc[t] # "idle" => held[t] = NoBuffer

\* The inductive invariant.
ConservationInv == QueueTypeOK /\ CallsHoldNothing /\ BuffersConserved

LEMMA CallsHoldNothingStep ==
  QueueTypeOK /\ CallsHoldNothing /\ [QueueNext]_queueVars => CallsHoldNothing'
<1> SUFFICES ASSUME QueueTypeOK, CallsHoldNothing, [QueueNext]_queueVars
             PROVE  CallsHoldNothing'
  OBVIOUS
<1> USE DEF QueueTypeOK, CallsHoldNothing
<1>1. CASE UNCHANGED queueVars
  BY <1>1 DEF queueVars
<1>2. ASSUME NEW t \in Threads, WaitFree(t) \/ WaitFilled(t)
      PROVE  CallsHoldNothing'
  BY <1>2 DEF WaitFree, WaitFilled, WaitUntil
<1>3. ASSUME NEW t \in Threads, TakeFree(t) \/ TakeFilled(t)
      PROVE  CallsHoldNothing'
  BY <1>3 DEF TakeFree, TakeFilled, GiveNothing, Give
<1>4. ASSUME NEW t \in Threads, ReturnBuffer(t) \/ NotifyAll(t)
      PROVE  CallsHoldNothing'
  BY <1>4 DEF ReturnBuffer, NotifyAll
<1>5. ASSUME NEW t \in Threads, Close(t) \/ Open(t) \/ FinishRead(t) \/ SpuriousWakeup(t)
      PROVE  CallsHoldNothing'
  BY <1>5 DEF Close, Open, SetOpen, FinishRead, SpuriousWakeup
<1>6. QED
  BY <1>1, <1>2, <1>3, <1>4, <1>5 DEF QueueNext

LEMMA ConservationInit == QueueInit => ConservationInv
<1> SUFFICES ASSUME QueueInit
             PROVE  ConservationInv
  OBVIOUS
<1>1. QueueTypeOK
  BY QueueTypeInit
<1>2. CallsHoldNothing
  BY DEF QueueInit, CallsHoldNothing
<1>3. DOMAIN readBuffers = Buffers /\ \A i \in Buffers : readBuffers[i] = i
  BY DEF QueueInit, InitialBuffers, Buffers
<1>4. DOMAIN writeBuffers = {}
  BY DEF QueueInit
<1>5. \A t \in Threads : held[t] = NoBuffer
  BY DEF QueueInit
<1>6. BuffersConserved
  BY <1>3, <1>4, <1>5 DEF BuffersConserved, NoBufferTwice, NoBufferLost
<1>7. QED
  BY <1>1, <1>2, <1>6 DEF ConservationInv

\* A get call moves the last free or the first filled buffer to its thread.
LEMMA TakeConserves ==
  ASSUME ConservationInv, NEW t \in Threads, TakeFree(t) \/ TakeFilled(t)
  PROVE  BuffersConserved'
<1> USE DEF ConservationInv
<1>1. CASE UNCHANGED <<readBuffers, writeBuffers, held>>
  BY <1>1 DEF BuffersConserved, NoBufferTwice, NoBufferLost
<1>2. held[t] = NoBuffer /\ held \in [Threads -> Buffers \cup {NoBuffer}]
  BY DEF TakeFree, TakeFilled, CallsHoldNothing, QueueTypeOK
<1>3. CASE TakeFree(t) /\ readBuffers # <<>>
  <2> DEFINE last == Len(readBuffers)
  <2>1. /\ DOMAIN readBuffers = 1..last
        /\ last \in Nat \ {0}
        /\ readBuffers' = Front(readBuffers)
        /\ DOMAIN readBuffers' = 1..last - 1
        /\ \A i \in 1..last - 1 : readBuffers'[i] = readBuffers[i]
        /\ Last(readBuffers) = readBuffers[last]
    BY <1>3, FrontFacts DEF TakeFree, QueueTypeOK
  <2>2. writeBuffers' = writeBuffers /\ held' = [held EXCEPT ![t] = readBuffers[last]]
    BY <1>3, <2>1 DEF TakeFree, Give
  <2> HIDE DEF last
  <2>3. NoBufferTwice'
    BY <1>2, <2>1, <2>2 DEF BuffersConserved, NoBufferTwice
  <2>4. NoBufferLost'
    <3> SUFFICES ASSUME NEW b \in Buffers
                 PROVE  \/ \E i \in DOMAIN readBuffers' : readBuffers'[i] = b
                        \/ \E i \in DOMAIN writeBuffers' : writeBuffers'[i] = b
                        \/ \E u \in Threads : held'[u] = b
      BY <2>1 DEF NoBufferLost, Buffers
    <3>1. CASE \E i \in DOMAIN readBuffers : readBuffers[i] = b
      BY <1>2, <2>1, <2>2, <3>1
    <3>2. CASE \E u \in Threads : held[u] = b
      BY <1>2, <2>2, <3>2 DEF Buffers, NoBuffer
    <3>3. CASE \E i \in DOMAIN writeBuffers : writeBuffers[i] = b
      BY <2>2, <3>3
    <3>4. QED
      BY <3>1, <3>2, <3>3 DEF BuffersConserved, NoBufferLost
  <2>5. QED
    BY <2>3, <2>4 DEF BuffersConserved
<1>4. CASE TakeFilled(t) /\ writeBuffers # <<>>
  <2> DEFINE last == Len(writeBuffers)
  <2>1. /\ DOMAIN writeBuffers = 1..last
        /\ last \in Nat \ {0}
        /\ writeBuffers' = Tail(writeBuffers)
        /\ DOMAIN writeBuffers' = 1..last - 1
        /\ \A i \in 1..last - 1 : writeBuffers'[i] = writeBuffers[i + 1]
        /\ Head(writeBuffers) = writeBuffers[1]
    BY <1>4, TailFacts DEF TakeFilled, QueueTypeOK
  <2>2. readBuffers' = readBuffers /\ held' = [held EXCEPT ![t] = writeBuffers[1]]
    BY <1>4, <2>1 DEF TakeFilled, Give
  <2> HIDE DEF last
  <2>3. NoBufferTwice'
    BY <1>2, <2>1, <2>2 DEF BuffersConserved, NoBufferTwice
  <2>4. NoBufferLost'
    <3> SUFFICES ASSUME NEW b \in Buffers
                 PROVE  \/ \E i \in DOMAIN readBuffers' : readBuffers'[i] = b
                        \/ \E i \in DOMAIN writeBuffers' : writeBuffers'[i] = b
                        \/ \E u \in Threads : held'[u] = b
      BY <2>1 DEF NoBufferLost, Buffers
    <3>1. CASE \E i \in DOMAIN writeBuffers : writeBuffers[i] = b
      <4>1. PICK i \in 1..last : writeBuffers[i] = b
        BY <2>1, <3>1
      <4>2. CASE i = 1
        BY <1>2, <2>2, <4>1, <4>2
      <4>3. CASE i # 1
        <5>1. i - 1 \in 1..last - 1 /\ (i - 1) + 1 = i
          BY <2>1, <4>3
        <5>2. QED
          BY <2>1, <4>1, <5>1
      <4>4. QED
        BY <4>2, <4>3
    <3>2. CASE \E u \in Threads : held[u] = b
      BY <1>2, <2>2, <3>2 DEF Buffers, NoBuffer
    <3>3. CASE \E i \in DOMAIN readBuffers : readBuffers[i] = b
      BY <2>2, <3>3
    <3>4. QED
      BY <3>1, <3>2, <3>3 DEF BuffersConserved, NoBufferLost
  <2>5. QED
    BY <2>3, <2>4 DEF BuffersConserved
<1>5. QED
  BY <1>1, <1>3, <1>4 DEF TakeFree, TakeFilled, GiveNothing

\* Returning a buffer appends it to one deque and takes it from the thread.
LEMMA ReturnConserves ==
  ASSUME ConservationInv, NEW t \in Threads, ReturnBuffer(t)
  PROVE  BuffersConserved'
<1> USE DEF ConservationInv
<1>1. held \in [Threads -> Buffers \cup {NoBuffer}] /\ held[t] \in Buffers
  BY DEF ReturnBuffer, QueueTypeOK
<1>2. held' = [held EXCEPT ![t] = NoBuffer]
  BY DEF ReturnBuffer
<1>3. CASE writeBuffers' = Append(writeBuffers, held[t]) /\ readBuffers' = readBuffers
  <2> DEFINE last == Len(writeBuffers)
  <2>1. /\ DOMAIN writeBuffers = 1..last
        /\ last \in Nat
        /\ DOMAIN writeBuffers' = 1..last + 1
        /\ \A i \in 1..last : writeBuffers'[i] = writeBuffers[i]
        /\ writeBuffers'[last + 1] = held[t]
    BY <1>1, <1>3, AppendFacts DEF QueueTypeOK
  <2> HIDE DEF last
  <2>2. NoBufferTwice'
    BY <1>1, <1>2, <1>3, <2>1 DEF BuffersConserved, NoBufferTwice, Buffers, NoBuffer
  <2>3. NoBufferLost'
    BY <1>1, <1>2, <1>3, <2>1 DEF BuffersConserved, NoBufferLost, Buffers, NoBuffer
  <2>4. QED
    BY <2>2, <2>3 DEF BuffersConserved
<1>4. CASE readBuffers' = Append(readBuffers, held[t]) /\ writeBuffers' = writeBuffers
  <2> DEFINE last == Len(readBuffers)
  <2>1. /\ DOMAIN readBuffers = 1..last
        /\ last \in Nat
        /\ DOMAIN readBuffers' = 1..last + 1
        /\ \A i \in 1..last : readBuffers'[i] = readBuffers[i]
        /\ readBuffers'[last + 1] = held[t]
    BY <1>1, <1>4, AppendFacts DEF QueueTypeOK
  <2> HIDE DEF last
  <2>2. NoBufferTwice'
    BY <1>1, <1>2, <1>4, <2>1 DEF BuffersConserved, NoBufferTwice, Buffers, NoBuffer
  <2>3. NoBufferLost'
    BY <1>1, <1>2, <1>4, <2>1 DEF BuffersConserved, NoBufferLost, Buffers, NoBuffer
  <2>4. QED
    BY <2>2, <2>3 DEF BuffersConserved
<1>5. QED
  BY <1>3, <1>4 DEF ReturnBuffer

LEMMA ConservationStep == ConservationInv /\ [QueueNext]_queueVars => ConservationInv'
<1> SUFFICES ASSUME ConservationInv, [QueueNext]_queueVars
             PROVE  ConservationInv'
  OBVIOUS
<1>1. QueueTypeOK'
  BY QueueTypeStep DEF ConservationInv
<1>2. CallsHoldNothing'
  BY CallsHoldNothingStep DEF ConservationInv
<1>3. BuffersConserved'
  <2>1. CASE UNCHANGED <<readBuffers, writeBuffers, held>>
    BY <2>1 DEF ConservationInv, BuffersConserved, NoBufferTwice, NoBufferLost
  <2>2. ASSUME NEW t \in Threads, TakeFree(t) \/ TakeFilled(t)
        PROVE  BuffersConserved'
    BY <2>2, TakeConserves
  <2>3. ASSUME NEW t \in Threads, ReturnBuffer(t)
        PROVE  BuffersConserved'
    BY <2>3, ReturnConserves
  <2>4. QED
    BY <2>1, <2>2, <2>3 DEF QueueNext, queueVars, WaitFree, WaitFilled, WaitUntil,
       NotifyAll, Close, Open, SetOpen, FinishRead, SpuriousWakeup
<1>4. QED
  BY <1>1, <1>2, <1>3 DEF ConservationInv

\* A get call that finds a buffer hands over one of the pool.
LEMMA TakeGives ==
  ASSUME QueueTypeOK, NEW t \in Threads
  PROVE  /\ TakeFree(t) /\ readBuffers # <<>> =>
              held'[t] \in Buffers /\ bufferType'[held'[t]] = "READ"
         /\ TakeFilled(t) /\ writeBuffers # <<>> =>
              held'[t] \in Buffers /\ bufferType'[held'[t]] = "WRITE"
<1> USE DEF QueueTypeOK
<1>1. ASSUME TakeFree(t), readBuffers # <<>>
      PROVE  held'[t] \in Buffers /\ bufferType'[held'[t]] = "READ"
  <2>1. Last(readBuffers) \in Buffers
    BY <1>1, FrontFacts
  <2>2. QED
    BY <1>1, <2>1 DEF TakeFree, Give
<1>2. ASSUME TakeFilled(t), writeBuffers # <<>>
      PROVE  held'[t] \in Buffers /\ bufferType'[held'[t]] = "WRITE"
  <2>1. Head(writeBuffers) \in Buffers
    BY <1>2, TailFacts
  <2>2. QED
    BY <1>2, <2>1 DEF TakeFilled, Give
<1>3. QED
  BY <1>1, <1>2

\* What a thread has in its hands does not change while others take and return.
LEMMA BufferKept ==
  ASSUME ConservationInv, NEW t \in Threads, NEW u \in Threads, u # t, held[u] \in Buffers,
         TakeFree(t) \/ TakeFilled(t) \/ ReturnBuffer(t)
  PROVE  held'[u] = held[u] /\ bufferType'[held[u]] = bufferType[held[u]]
<1> USE DEF ConservationInv, QueueTypeOK
<1>1. held[u] # NoBuffer
  BY DEF Buffers, NoBuffer
<1>2. CASE ReturnBuffer(t)
  <2>1. held[t] # held[u]
    BY <1>1 DEF BuffersConserved, NoBufferTwice
  <2>2. QED
    BY <1>2, <2>1 DEF ReturnBuffer
<1>3. CASE TakeFree(t)
  <2>1. CASE readBuffers = <<>>
    BY <1>3, <2>1 DEF TakeFree, GiveNothing
  <2>2. CASE readBuffers # <<>>
    <3>1. Last(readBuffers) # held[u]
      BY <1>1, <2>2, FrontFacts DEF BuffersConserved, NoBufferTwice
    <3>2. QED
      BY <1>3, <2>2, <3>1 DEF TakeFree, Give
  <2>3. QED
    BY <2>1, <2>2
<1>4. CASE TakeFilled(t)
  <2>1. CASE writeBuffers = <<>>
    BY <1>4, <2>1 DEF TakeFilled, GiveNothing
  <2>2. CASE writeBuffers # <<>>
    <3>1. Head(writeBuffers) # held[u]
      BY <1>1, <2>2, TailFacts DEF BuffersConserved, NoBufferTwice
    <3>2. QED
      BY <1>4, <2>2, <3>1 DEF TakeFilled, Give
  <2>3. QED
    BY <2>1, <2>2
<1>5. QED
  BY <1>2, <1>3, <1>4

\* Whatever number of threads circulates whatever number of buffers, no two
\* of them ever have the same buffer, and none is lost.
THEOREM PoolConserved == QueueSpec => []BuffersConserved
<1>1. ConservationInv => BuffersConserved
  BY DEF ConservationInv
<1>2. QED
  BY <1>1, ConservationInit, ConservationStep, PTL DEF QueueSpec

-----------------------------------------------------------------------------
(* No return goes unnoticed *)

\* A sleeper is inside one of the two cv.wait calls, so it has no call of
\* notify_all to make.
SleepersWait == \A t \in waiting : qpc[t] \in {"getFree", "getFilled"}

\* The inductive invariant.
WakeupInv == QueueTypeOK /\ SleepersWait /\ NoLostReturn

LEMMA WakeupInit == QueueInit => WakeupInv
BY QueueTypeInit DEF QueueInit, WakeupInv, SleepersWait, NoLostReturn

LEMMA WakeupStep == WakeupInv /\ [QueueNext]_queueVars => WakeupInv'
<1> SUFFICES ASSUME WakeupInv, [QueueNext]_queueVars
             PROVE  WakeupInv'
  OBVIOUS
<1>1. QueueTypeOK'
  BY QueueTypeStep DEF WakeupInv
<1> SUFFICES SleepersWait' /\ NoLostReturn'
  BY <1>1 DEF WakeupInv
<1> USE DEF WakeupInv, SleepersWait, NoLostReturn
<1>2. CASE UNCHANGED queueVars
  BY <1>2 DEF queueVars
<1>3. qpc \in [Threads -> CallStates] /\ waiting \in SUBSET Threads
  BY DEF QueueTypeOK
\* A thread falls asleep only if its predicate is false, buffers included.
<1>4. ASSUME NEW t \in Threads, WaitFree(t) \/ WaitFilled(t)
      PROVE  SleepersWait' /\ NoLostReturn'
  <2>1. qpc[t] # "notify" /\ t \notin waiting
    BY <1>4 DEF WaitFree, WaitFilled, WaitUntil
  <2>2. CASE WaitFree(t)
    BY <1>3, <2>1, <2>2 DEF WaitFree, WaitUntil, CanGetFree
  <2>3. CASE WaitFilled(t)
    BY <1>3, <2>1, <2>3 DEF WaitFilled, WaitUntil, CanGetFilled
  <2>4. QED
    BY <1>4, <2>2, <2>3
\* A take leaves fewer buffers and as many threads about to notify.
<1>5. ASSUME NEW t \in Threads, TakeFree(t)
      PROVE  SleepersWait' /\ NoLostReturn'
  <2>1. readBuffers = <<>> => readBuffers' = <<>>
    BY <1>5 DEF TakeFree, GiveNothing
  <2>2. /\ \A u \in Threads \ {t} : qpc'[u] = qpc[u]
        /\ qpc[t] = "takeFree" /\ qpc'[t] # "notify"
        /\ waiting' = waiting /\ writeBuffers' = writeBuffers
    BY <1>3, <1>5 DEF TakeFree, GiveNothing, Give
  <2>3. QED
    BY <1>3, <2>1, <2>2
<1>6. ASSUME NEW t \in Threads, TakeFilled(t)
      PROVE  SleepersWait' /\ NoLostReturn'
  <2>1. writeBuffers = <<>> => writeBuffers' = <<>>
    BY <1>6 DEF TakeFilled, GiveNothing
  <2>2. /\ \A u \in Threads \ {t} : qpc'[u] = qpc[u]
        /\ qpc[t] = "takeFilled" /\ qpc'[t] # "notify"
        /\ waiting' = waiting /\ readBuffers' = readBuffers
    BY <1>3, <1>6 DEF TakeFilled, GiveNothing, Give
  <2>3. QED
    BY <1>3, <2>1, <2>2
\* A return makes its thread one that has yet to notify.
<1>7. ASSUME NEW t \in Threads, ReturnBuffer(t)
      PROVE  SleepersWait' /\ NoLostReturn'
  BY <1>3, <1>7 DEF ReturnBuffer
<1>8. ASSUME NEW t \in Threads, NotifyAll(t)
      PROVE  SleepersWait' /\ NoLostReturn'
  BY <1>8 DEF NotifyAll
<1>9. ASSUME NEW t \in Threads, Close(t) \/ Open(t) \/ FinishRead(t) \/ SpuriousWakeup(t)
      PROVE  SleepersWait' /\ NoLostReturn'
  BY <1>9 DEF Close, Open, SetOpen, FinishRead, SpuriousWakeup
<1>10. QED
  BY <1>2, <1>4, <1>5, <1>6, <1>7, <1>8, <1>9 DEF QueueNext

\* However many threads wait for whatever, notify_all outside the mutex never
\* leaves one asleep next to the buffer it waits for.
THEOREM NoReturnIsLost == QueueSpec => []NoLostReturn
<1>1. WakeupInv => NoLostReturn
  BY DEF WakeupInv
<1>2. QED
  BY <1>1, WakeupInit, WakeupStep, PTL DEF QueueSpec

-----------------------------------------------------------------------------
(* The mutex is never left locked *)

\* A thread has the mutex between two steps exactly if it is about to take a
\* buffer: nobody else takes one at the same time, and whoever waits for the
\* mutex waits for a thread that has nothing to wait for.
TakersAreOwners ==
  \A t \in Threads : queueMutex = t <=> qpc[t] \in {"takeFree", "takeFilled"}

MutexInv == QueueTypeOK /\ TakersAreOwners

LEMMA MutexInit == QueueInit => MutexInv
BY QueueTypeInit, QueueAssumption DEF QueueInit, MutexInv, TakersAreOwners

LEMMA MutexStep == MutexInv /\ [QueueNext]_queueVars => MutexInv'
<1> SUFFICES ASSUME MutexInv, [QueueNext]_queueVars
             PROVE  TakersAreOwners'
  BY QueueTypeStep DEF MutexInv
<1> USE DEF MutexInv, TakersAreOwners
<1>1. NoThread \notin Threads /\ qpc \in [Threads -> CallStates]
  BY QueueAssumption DEF QueueTypeOK
<1>2. CASE UNCHANGED queueVars
  BY <1>2 DEF queueVars
<1>3. ASSUME NEW t \in Threads, WaitFree(t) \/ WaitFilled(t)
      PROVE  TakersAreOwners'
  BY <1>1, <1>3 DEF WaitFree, WaitFilled, WaitUntil
<1>4. ASSUME NEW t \in Threads, TakeFree(t) \/ TakeFilled(t)
      PROVE  TakersAreOwners'
  <2>1. qpc[t] \in {"takeFree", "takeFilled"} /\ queueMutex = t /\ queueMutex' = NoThread
    BY <1>4 DEF TakeFree, TakeFilled
  <2>2. qpc' = [qpc EXCEPT ![t] = "idle"] \/ qpc' = [qpc EXCEPT ![t] = "undefined"]
    BY <1>4 DEF TakeFree, TakeFilled, Give, GiveNothing
  <2>3. QED
    BY <1>1, <2>1, <2>2
<1>5. ASSUME NEW t \in Threads, ReturnBuffer(t) \/ NotifyAll(t)
      PROVE  TakersAreOwners'
  BY <1>1, <1>5 DEF ReturnBuffer, NotifyAll
<1>6. ASSUME NEW t \in Threads, Close(t) \/ Open(t) \/ FinishRead(t) \/ SpuriousWakeup(t)
      PROVE  TakersAreOwners'
  BY <1>6 DEF Close, Open, SetOpen, FinishRead, SpuriousWakeup
<1>7. QED
  BY <1>2, <1>3, <1>4, <1>5, <1>6 DEF QueueNext

LEMMA MutexInvariant == QueueSpec => []MutexInv
BY MutexInit, MutexStep, PTL DEF QueueSpec

=============================================================================
