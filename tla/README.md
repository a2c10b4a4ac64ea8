# Verification of ki

`ki` copies one file with two threads (`--type=mmap`, `--type=vbuf`) or with two
processes (`--type=ipc`). This directory holds TLA+ specifications of the program,
the TLC configurations that model-check them on small instances, and theorems about
them that TLAPS proves for every value of the constants. `PROJECT.json` maps each
definition to the source lines it stands for and lists runs, hazards and theorems.

Source paths in the modules' comments are relative to the repository's `src/`.

## 1. The system

    main() --> ToolFactory --> one ICopyTool --> copy()
                                |
      vbuf  BPCopyTool        BufferedReader --- FixedBufferQueue --- BufferedFileWriter
      mmap  ParallelCopyTool  MMapFileReader --- SynchronizedQueue -- MMapFileWriter
      ipc   IPCCopyTool       BufferedReader --- FixedBufferQueue in shared memory --- BufferedFileWriter
                              (process 1, + SiblingProcessObserver)   (process 2, + observer)

In the first two tools the main thread reads and `writingThread` writes; in the
third each role is a process of its own.

| component | state | operations | interacts with |
|---|---|---|---|
| `FixedBufferQueue` (queue/BufferedQueue.hpp) | deques `readBuffers`, `writeBuffers` of a fixed pool, `queueMutex`, one `cv`, atomic `isOpen`, flag `isReadFinished_` | `getFreeBuffer`, `getFilledBuffer`, `returnBuffer`, `isEmpty`, `open`, `close`, `finishRead` | called by reader, writer and tool |
| `BPCopyTool` + `BufferedReader` + `BufferedFileWriter` | `currentOffset`, `readFinished`, stream position, the buffers' bytes, the destination stream | `copy`, `writingFunction`, `read`, `write`, `finishWrite`, destructors | the queue; `main` |
| `SynchronizedQueue` (queue/SynchronizedQueue.hpp) | unbounded FIFO, `qm`, `cv`, `isQueueOpen` | `push`, `pop`, `isEmpty`, `open`, `close` | called by the mmap tool |
| `ParallelCopyTool` + `MMapFileReader` + `MMapFileWriter` | `currentOffset` of both sides, `readFinished`, the mapping | `copy`, `writingFunction`, `read`, `write`, `finishWrite` | the queue; `main` |
| `ProcessTerminator`, `main` | the jump buffer | handler for SIGINT and `std::terminate`: `longjmp` into `main`, which destroys the tool and returns 1 | every tool |
| `IPCTool` | role, `FixedBufferQueue` in the segment, `IPCProcInfo` | `copy` as reader or as writer, `timeout`, destructor | segment, observer |
| `SiblingProcessObserver` | a polling thread and a timer | `observe`, timeout callback | `IPCProcInfo`, `IPCCopyTool::timeout` |
| `SharedMemoryManager`, `IPCProcInfo` | the segment, process counters and their lock | create or open, find, remove | every process of a session |
| `ToolFactory` | - | chooses the tool and, for ipc, the role | `IPCProcInfo` |
| `OptionsParser`, `StopWatch`, interfaces | options; a clock | parsing, printing | `main` |

What is hard about it: two threads share one condition variable for two opposite
predicates; `returnBuffer` and `push` notify after they have unlocked; `isOpen` is
stored without the mutex and loaded twice by the get calls; `close` notifies nobody;
the reader announces its end before its last chunk is in the queue; free buffers are
reused last-in first-out while filled ones are written first-in first-out; the
reader's offset, the stdio position and `bytesUsed` advance separately; a signal
leaves `copy()` anywhere without unwinding; and, for ipc, role choice, counters,
timeouts and the life of the segment are spread over processes that may die.
`PROJECT.json`, "hazards", has each at its line with the properties that watch it.

What makes it correct:

* queues: no buffer is lost or shared, nobody sleeps next to what it waits for, no
  element of an empty deque is read;
* copy tools: the destination only ever grows along the source, or, for mmap, has its
  final length and is filled along it, exit status 0 means the whole source is there, a
  copy ends;
* ipc: the counters count exactly the processes that copy, two processes that come one
  after the other become reader and writer, a process that is left alone is ended, the
  segment goes with its last process;
* the start: no failure costs the destination its contents.

## 2. Modules

| module | models | correspondence |
|---|---|---|
| `FixedBufferQueue` | the pool under its most general client: any threads, any order of calls, each thread with at most one buffer in its hands | one variable per member; `waiting` is `cv`, `qpc` where a thread stands inside a call; one action per critical section |
| `CopyFile` | what a tool promises: `Extend` the file along the source, `Finish` with all of it, or `Fail` | the meaning of `ICopyTool::copy` and of `main`'s exit status |
| `FillFile` | the same for a destination that gets its length first: `Create` it, `Fill` it from the front, `Finish` or `Fail` | `MMapFileWriter::create` and `write` |
| `BPCopyTool` | the vbuf tool over `FixedBufferQueue`, from `copy()` to the end of the process | `rpc` and `wpc` are the threads' program counters; each action is a stretch of the code between two accesses to shared state |
| `InterruptedCopy` | `BPCopyTool` plus the jump of `ProcessTerminator` out of `copy()` | `Interrupt`; `aborted` is the second return of `setjmp` |
| `SynchronizedQueue` | the unbounded queue under its most general client | as for the pool; every operation is one critical section, so one action |
| `ParallelCopyTool` | the mmap tool over `SynchronizedQueue` | as `BPCopyTool`; `fileLength` is what `ftruncate` has made of the destination, `dst` what has been copied into it |
| `InterruptedParallelCopy` | the same jump out of the mmap tool | as `InterruptedCopy`; `qmLost` is `qm` left taken |
| `ChangingSource` | `BPCopyTool` with a source that grows or shrinks during the copy, and failed reads | `FillsWith` replaces `ReadFills`, the only step that reads the file |
| `Startup` | one process from its options to the copy: `OptionsParser`, `createTool`, `setjmp`, the opening of the files | `pc` is where the main thread stands, `holds` what it has opened or created |
| `SiblingProcessObserver` | the polling threads of the ipc tool | `stopwatch` counts poll intervals; `Poll` is one round of `observeSiblings` |
| `IPCCopy` | the ipc tool: a reader and a writer process over `BPCopyTool`'s read and write steps, with observers, timeouts, kills and SIGINT | `rpc` and `wpc` are now processes; `processCount`, `isWritingStarted`, `procInfoMutex` are `ProcInfo`; `fate` says who was cut short and how |
| `IPCSession` | any number of processes with one name of a segment, from `main` to exit | `shm` is what the name stands for, `segment` what is in each segment (`ProcInfo` and the queue), `process` one record per process |
| `FixedBufferQueue_proofs`, `BPCopyTool_proofs`, `InterruptedCopy_proofs`, `ChangingSource_proofs`, `ParallelCopyTool_proofs`, `Startup_proofs`, `IPCCopy_proofs`, `IPCSession_proofs` | theorems about the module they are named after and their proofs; `ParallelCopyTool_proofs` is also about `SynchronizedQueue` and `InterruptedParallelCopy` | - |
| `MC...` | values for TLC: symmetry, bounds, sets of sizes | - |

A queue module never knows its tool. `BPCopyTool` and `ParallelCopyTool` extend their
queue and use its actions as conjuncts, so a step of a tool *is* a step of the queue
(theorem `ToolImplementsQueue`) and what is proved of the queue holds of the tool.
The abstract `CopyFile`, or `FillFile`, is an `INSTANCE ... WITH` in each tool, and the
tools' runs have `CopySpec`, or `FillSpec`, as a property.

Choices that matter for faithfulness:

* **Granularity.** A critical section whose data only the mutex protects is one step.
  `getFreeBuffer` and `getFilledBuffer` are two (`WaitUntil`, then `TakeFree` or
  `TakeFilled`), with the mutex held in between, since `isOpen` may change between the
  predicate and the second load. `returnBuffer` and `push` are two, because
  they notify after they unlock. A load of `readFinished` and the call of `isEmpty`
  in a loop condition are two.
* **Condition variables.** A sleeper is in `waiting` (`sleeping`); notification takes
  it out, and it then competes for the mutex and tests its predicate again. Spurious
  wakeups may happen at any time and are never owed.
* **Undefined behaviour.** `front()` or `back()` of an empty deque sends the thread to
  `"undefined"`, where it has no further step; `CallsSucceed` says that this is never
  reached by the tool. The general client of the queue does reach it, because
  it may call `open` between the two loads.
* **Bytes.** Byte *i* of the source is the number *i*. A buffer is where stdio's fill
  began, how far it went and what `bytesUsed` says, so a wrong offset, an old buffer or
  a wrong length changes what is written. `setvbuf` makes stdio fill the buffer from
  its current position on the first `fgetc`; that one byte is consumed, hence the
  `fseek` by `BUFFER_SIZE - 1`.
* **Destination.** `dst` is what `fwrite` has accepted, `flushed` what is in the file;
  stdio may write out early at any `fwrite` and writes out everything at `fclose`. With
  `DiskMayFill` both may take less than they are given. The mmap tool's destination is
  different: `create()` gives it the length of the source (`ftruncate`, and no `O_TRUNC`)
  before the first chunk, so its refinement is of `FillFile`: behind what has been copied
  there is `Hole`, zeros or the bytes of an older file. A run that is cut short therefore
  leaves a file of full length, and only the exit status tells.
* **Observers.** Time is counted in poll intervals, and a poll may be late by any amount.
  `timeout()` runs in the observer's thread and ends in `std::terminate`, whose handler
  jumps into the main thread's stack. The language gives that no meaning; the model
  lets the process end with its counter decremented or not, its bytes flushed or
  not, and with or without the lock its main thread had.
* **Kills and SIGINT of ipc processes.** A section under a lock is one step, so a fault
  inside it is a fault before it that takes the lock along (`MayTakeLocks`), also while
  `cv.wait` evaluates its predicate. Neither lock is robust: it stays taken for everybody.
  A SIGINT may also come while `timer = nullptr` waits for the observer's thread. The
  pointer is null by then, so nobody waits for that thread any more (`abandoned`): it
  polls on, or gives up, until the process has unmapped the segment or exited, perhaps
  with `ProcInfo`'s lock in its hands (`LosesObserver`).
* **`IPCSession` is coarser than `IPCCopy`.** A chunk is read or written in one step and
  nobody sleeps, since its subject is who creates, finds, counts and removes what. A
  process remembers whether it was launched when all others were in `copy()`, with the
  queue open if they read, or gone (`calm`); the creation of a segment and the placing
  of its name are one step (boost sees to that), the construction of `ProcInfo` and of the queue two more.
  The observer's decision (`SeesNobody`) and its `timeout()` (`TimesOut`) are two steps
  here as well: `timeout()` does not look at the counter again, so a sibling may have
  come in between. The two loads of `isOpen` in `getFilledBuffer` are two steps where
  they may differ, that is, where there is no chunk (`PassesWait`, `TakesNothing`): a
  writer that was there before the reader's `open()` may read the front of an empty deque,
  which is the pc `"undefined"`. `PairCopies` and `PairKeepsName` are about the writer that
  comes later, for which the code has what it takes; what befalls the earlier one is
  shown by `IPCEarlyWriter.cfg`. A source may vanish before the reader's `copy()` opens it
  (`LosesSource`), which leaves the queue open behind a reader that has gone.
* **`Stopped` and `HeldUp`.** They list by hand what can hold a thread up (the condition
  variable, the mutexes, the join, the reader's wait for a writer), because `ENABLED`
  cannot be reasoned about in a proof. That the lists are complete is what the temporal
  properties `ExitsOrSleepsOnClosedQueue` and `EndsOrSleeps` show on the instances: a
  thread that is held up anywhere else would be one more way not to end.
* **The mmap tool's empty file.** `mmap` refuses length 0, `open()` throws, nobody
  catches: the run fails with status 1 (the repository has a test of that exception).

## 3. Runs

| run | asks | instance | result |
|---|---|---|---|
| `queue` | do three threads that call anything in any order lose or share a buffer, or sleep next to one? | 3 interchangeable threads, 2 buffers | holds |
| `bp_copy` | does vbuf copy byte for byte, can the two threads, the condition variable, the mutex and the join stop each other, does it end or stop in the one known state? | 3 buffers of 3 bytes; sizes 0-4, 6, 8, 9, 11-13 | holds |
| `bp_lost_wakeup` | does every copy end, as the comment on `close()` says? | 2 buffers of 2 bytes, sizes 0-5 | violated |
| `bp_interrupted` | what is left of the promises when the copy is cut short anywhere, and how much of what was read is lost? | same | holds |
| `bp_interrupt_hang` | do interrupted runs end with all destructors called? | same | violated |
| `bp_bad_source` | what is written when the source grows, shrinks or cannot be read? | 2 buffers of 2 bytes, sizes 0, 1, 4, 5, any number of changes | holds |
| `sync_queue` | does `notify_one` outside the mutex ever strand a chunk? | 4 interchangeable threads, at most 3 chunks | holds |
| `mmap_copy` | as `bp_copy` and `bp_interrupted` for mmap, whose destination has its length from the start | chunks of 2 bytes, sizes 0-7 | holds |
| `startup` | can a failed start harm the destination? | every combination of options and files | holds |
| `ipc_copy` | as `bp_copy` for two processes that may be killed, interrupted or given up at any step; what can hold both up, who can wait for ever? | 1 buffer of 2 bytes, sizes 0 and 5, one poll interval until a timeout; each process may suffer a SIGINT and then a kill | holds |
| `ipc_session` | do roles, counters and the life of the segment stay right? | 3 processes, one of them killable, one without a source and one that may lose it; 2 chunks, 2 buffers | holds |
| `ipc_third` | is a third process harmless, as the comment in `createTool` says? | 3 processes, launched calmly, 1 chunk | violated |

**Bounds.** All bounds are the constants of the configurations. The code's 4096-byte
buffers become 2 or 3 bytes: the code tells apart only "a whole buffer fits", "a part
does" and "nothing is left", and the sizes include the empty file, files shorter than a
buffer, exact multiples and one byte either side. With up to five chunks and three
(or two) buffers, buffers are reused, the reader blocks on an empty pool and the writer
on an empty queue. Three threads are the fewest for which a single notification can
reach the wrong kind of waiter while a third runs. `MaxQueue` bounds the
queue the code leaves unbounded. In `ipc_copy` one buffer is enough for both processes to
block and for three chunks to share it; the empty file is the one the reader
finishes before any writer comes. In `ipc_session` both chunks fit into the queue for
the same reason, and three processes are the fewest for a role to be contested while
the other is filled. The proofs below remove the bounds from every
safety property altogether.

**Fairness.** Weak fairness of each thread's steps: the operating system runs a thread
that can run. Weak fairness suffices for the mutex as well: while one thread wants it,
the other can take it only as often as it still finds buffers or chunks, which
is finitely often, so the mutex is eventually free for good or the copy has moved on.
The ipc writer is the exception: while a closed queue gives it nothing and reading is
not finished it goes round its loop, taking and freeing `queueMutex` for ever. Its
observer, which needs that mutex to end it, is therefore given strong fairness: a
thread that finds a mutex free again and again gets it in the end. Nothing is assumed of
spurious wakeups, signals, kills, the coming of a writer or which sleeper `notify_one`
picks.

**Deadlock** is checked in `queue`, `bp_copy`, `bp_bad_source`, `sync_queue` and
`startup`. It is not in the runs whose faults may take a lock along (`bp_interrupted`,
`mmap_copy`, `ipc_copy`, `ipc_session`): there the process really stops, and
`InterruptedRunBlocks`, `AbortedRunBlocks`, `EndsOrSleeps` and `InterruptIsNoticed` say
in which states. `EndsUnlessAborted` keeps uninterrupted runs of the mmap tool from
stopping anywhere else.

### What the runs show

* `close()` neither notifies nor, in `FixedBufferQueue`, takes the mutex. A writer that
  went to sleep between the last chunk and `close()` is never woken, and the destructor
  joins it for ever (`bp_lost_wakeup`). In the vbuf tool the last bytes then sit in
  stdio's buffer. `ExitsOrSleepsOnClosedQueue` and `EndsUnlessAborted` show that
  this is the *only* way a copy fails to end, and `EndsOrSleeps` that it is so for ipc:
  the observer does not help, since `timeout()` does nothing once reading is finished.
  `StopsOnlyOnClosedQueue` and `HeldUpOnlyAsKnown` say the same of single states, and
  those two are proved for any number of buffers and any file.
* After SIGINT in the middle of a copy nobody closes the queue, so the destructor that
  the jump is meant to reach joins a writer that never leaves its loop
  (`bp_interrupt_hang`, `InterruptedWriterNeverDone`).
* The ipc tool is better off: a process stopped by SIGINT counts itself out, and the
  other one is ended by its observer (`InterruptIsNoticed`), unless the jump took a lock
  along. A process that dies and stays counted is not noticed by anybody
  (`DeadButCounted` is the exception in `ReaderEnds` and `EndsOrSleeps`).
* Two processes of which the second comes when the first has opened its queue copy the
  file, however late it comes and however the unlocked tests of the two counters fall
  together (`PairCopies`, `PairKeepsName`).
* Where a run of vbuf that is cut short ends with its writer asleep, one chunk of what was
  read is missing at most: the one in the main thread's hands, or the last one in the
  queue if its notification was lost (`AbortLosesOneChunk`). If the jump took the mutex
  along, the writer writes nothing more, however much is in the queue.
* Whatever happens to either process, the destination is a prefix of the source, and a
  writer that exits with 0 has written all of it (`IPCImplementsCopyFile`). A third
  process undoes that: if it comes while the reader is still counted and the first writer
  no longer is, it becomes a writer and empties the finished file (`ipc_third`).
* A source that grows is copied as it was at first; one that shrinks or cannot be read
  gives a destination of the right size with other bytes in it, never with bytes from
  further ahead (`bp_bad_source`).

### Further configurations

They are kept for a change of the code at the line they name. Each checks one
statement of a comment and is violated; run `tlc -config <file> <module>`.

| file | module | statement, and what the code does |
|---|---|---|
| `MmapLostWakeup.cfg` | `MCParallelCopyTool` | `CopyEnds`: as `bp_lost_wakeup`, for the mmap tool |
| `BPDiskFull.cfg` | `BPCopyTool` | `ExitMeansComplete`: the results of `fwrite` and `fclose` are ignored (BufferedFileWriter.hpp:31) |
| `ReadError.cfg` | `ChangingSource` | `WritesOnlyRead`: the result of `fgetc` is ignored, old bytes of the buffer are written (BufferedFileReader.hpp:69) |
| `QueueIsEmptyDoc.cfg` | `MCFixedBufferQueue` | `IsEmptyAsDocumented`: `isEmpty()` is "no filled buffer and closed" (BufferedQueue.hpp:137) |
| `IPCLostWakeup.cfg` | `IPCCopy` | `WriterEnds`: the writer sleeps on although its reader has left and nobody was cut short (IPCTool.hpp:188) |
| `IPCEarlyWriter.cfg` | `IPCCopy` | `GetReturns`: a writer that comes before the reader's `open()` may read the front of an empty deque (BufferedQueue.hpp:120) |
| `IPCReaderKilled.cfg` | `MCIPCCopy` | `KilledReaderStopsWriter`: a killed reader stays counted (SiblingProcessObserver.cpp:36) |
| `IPCTimeoutRace.cfg` | `IPCCopy` | `TerminatesOnlyAlone`: the counter is not read again before the reader is ended (IPCTool.hpp:188) |
| `IPCResources.cfg` | `MCIPCSession` | `ResourcesAreReady`: the name exists before what is to be found in the segment (SharedMemoryManager.cpp:27) |
| `IPCRoles.cfg` | `MCIPCSession` | `FirstIsReader`: the creator of the segment may become the writer (PseudoToolFactory.hpp:90) |
| `IPCRemoval.cfg` | `MCIPCSession` | `RemovedOnlyUnused`: the segment is removed under a process that has opened and not yet registered (SharedMemoryManager.cpp:58) |
| `IPCKilled.cfg` | `MCIPCSession` | `NoSegmentLeft`: after a kill the segment stays (SharedMemoryManager.cpp:58) |
| `IPCNoSource.cfg` | `MCIPCSession` | `LockIsReleased`: an exception under the lock, before the handlers are installed, leaves it taken (PseudoToolFactory.hpp:93) |

## 4. Theorems

TLAPS checks them for every value of the constants. The assumptions are the named ones of
the modules, which TLC evaluates in the runs:

* `QueueAssumption`, `ToolAssumption`: at least one buffer, at least one byte in a buffer,
  two distinct threads, sizes that are natural numbers, in the mmap tool chunks that lie
  in the file; `ChunkAssumption`: no chunk is the value that stands for none;
* `ThreadsAssumption` and `SessionAssumption`: finitely many threads or processes, and a
  source of at least one chunk. That includes the empty source: the reader's loop
  (IPCTool.hpp:111) runs once in any case, and `read()` then passes on one buffer with no
  bytes in it (BufferedFileReader.hpp:47-84), so an empty file is one chunk, as a file
  that fits into one buffer is;
* `TroublesAssumption`, `IPCAssumption`, `ObserverAssumption`: what can befall a source or
  a process is among what the module describes, and a timeout takes time.

Two hypotheses are written out where a theorem needs them. `~DiskMayFill`: with a full disk
the claim is false, since the results of `fwrite` and `fclose` are ignored
(`BPDiskFull.cfg`). `~EarlyWriter`: with a writer that comes before `open()` it is false as
well (`IPCEarlyWriter.cfg`).

| theorem | states | argument |
|---|---|---|
| **a process that starts** | | |
| `StartTypeCorrect` | `StartSpec => []StartTypeOK` | with it: which tool types reach which step (`ReachesInOrder`) |
| `StartKeepsDestination` | `StartSpec => []DestinationIsSafe` | the destination is created in one step only, which is reached with the source open; it stays open until the process ends |
| **the pool** | | |
| `QueueTypeCorrect` | `QueueSpec => []QueueTypeOK` | inductive together with "a thread in `getFree` or `getFilled` has no buffer" |
| `PoolConserved` | `QueueSpec => []BuffersConserved` | needs that a thread asks with empty hands and that the mutex is held from predicate to take; each action moves one buffer between two places |
| `NoReturnIsLost` | `QueueSpec => []NoLostReturn` | needs that a thread that sleeps is in a get call; a return leaves its thread in `"notify"` until everybody is awake |
| **the vbuf tool** | | |
| `ToolImplementsQueue` | `Spec => QueueSpec` of the tool | every action of the tool has one action of the queue as a conjunct, or none of its variables |
| `AllCallsSucceed` | `Spec => []CallsSucceed` | control invariant: the queue is open from `CopyStarts` to `CopyCloses` and the writer exists only then, so no `open` comes between two loads, and the reader never sees a closed queue |
| `NoMutualSleep` | `Spec => []NeverBothAsleep` | from the pool's conservation: if both sleep, neither holds a buffer nor owes a notification, so both deques are empty and the pool has vanished |
| `ToolTypeCorrect` | `Spec => []TypeOK` | the reader's offset and the stream position agree at the head of each loop |
| `WrittenInOrder` | `~DiskMayFill /\ Spec => []DstIsPrefix` | the pipe invariant: destination, the writer's buffer, `writeBuffers` from front to back, the reader's buffer and the rest of the source are adjoining intervals |
| `ToolImplementsCopyFile` | `~DiskMayFill /\ Spec => Abstract!CopySpec` | the above, and: a writer that has left its loop saw `readFinished` and an empty closed queue, and the chain then ends at `fileSize` |
| `NoOtherDeadlock` | `~DiskMayFill /\ Spec => []StopsOnlyOnClosedQueue` | who has the mutex is in a get call that can go on (`MutexInv`), so the mutex stops nobody for good; a reader that sleeps leaves its writer awake or about to be notified; the main thread joins after `close()`, and a writer that then sleeps saw an empty queue, which by the chain of chunks means that all is written |
| **vbuf, cut short** | | |
| `InterruptedTypeCorrect`, `InterruptedPoolConserved` | the types, and `[]BuffersConserved` of a run cut short | the steps before the jump are the tool's, the jump itself moves no buffer, and after it the writer and the main thread's destructor go on as clients of the queue |
| `AtMostOneChunkIsLost` | `~DiskMayFill /\ InterruptedSpec => []AbortLosesOneChunk` | a writer that has gone to sleep saw no filled buffer; at most one has been returned since without its notification, and it is the last, or else the main thread had one in its hands: the chain of chunks from `dst` to `currentOffset` has one link |
| `WriterNeverReleased` | `[]InterruptedWriterNeverDone` | where there is a writer the queue is open at the jump, nobody closes it any more, and `isEmpty()` stays false; no assumption on the disk |
| `InterruptedToolImplementsCopyFile` | `~DiskMayFill /\ InterruptedSpec => ` refinement | the reader's end of the pipe is cut off: what is behind the writer's next chunk no longer adjoins a reader, so the chain ends in `PipeOut`, and status 0 is out of reach |
| **vbuf, changing source** | | |
| `SizeOfTheStart`, `NeverRunsAhead`, `GrowthIsHarmless` | `~DiskMayFill /\ ChangingSpec => ` `[]SizeIsTaken`, `[]NeverAhead`, `[]GrowingSourceIsCopied` | each chunk has a place in the destination that is neither stored nor where its bytes are from, so the invariant says that there is a `pos` of such places: the chunks on their way adjoin there from the end of `dst` to `currentOffset`, their bytes come from their place or from before it, and from it exactly as long as the source only grew |
| **the unbounded queue** | | |
| `SyncTypeCorrect` | `SyncSpec => []SyncTypeOK` | inductive |
| `EveryPushWakes` | `SyncSpec => []EveryChunkHasAWaker` | on cardinalities: while anybody sleeps there are as many pending notifications and woken threads as chunks; a push adds one of each, a notification becomes a woken thread if there is a sleeper, a pop uses up both; needs that who sleeps is in `pop`, and finitely many threads |
| **the mmap tool, cut short or not** | | |
| `ToolIsAQueueClient` | `Spec => SyncSpec`, `AbortedSpec => SyncSpec` | action by action |
| `ToolTypeCorrect`, `MappingIsEnough` | `[]TypeOK`, `[]NeverWritesTooMuch` | the chain of chunks in the queue adjoins the offsets of both sides |
| `WriterLeavesNothing` | `[]WriterStaysToTheEnd` | `readFinished` is set only when the last chunk has been announced, and the writer leaves only with an empty closed queue |
| `NoOtherParallelDeadlock` | `Spec => []StopsOnlyOnClosedQueue`, defined in the proofs' module for the mmap tool | every chunk has a waker, so a writer that sleeps for good has an empty queue; the main thread joins only after `close()` and owes no notification then |
| `ParallelToolImplementsFillFile` | both specifications refine `FillFile` | the same chain, cut at the reader's end after a jump; and no chunk before `create()` |
| **a pair of ipc processes** | | |
| `IPCTypeCorrect` | `IPCSpec => []IPCTypeOK` | the types need the order of the offsets, as in vbuf; a timer that runs was started with the counter at zero |
| `CountsStayTrue` | `IPCSpec => []CountsAreTrue` | a process is counted from its registration to its section in the destructor, whichever way it comes there; only one that was killed or terminated may differ |
| `WriterIsThere` | `IPCSpec => []ReaderLeavesAWriter` | `isWritingStarted` is set by the writer alone and never taken back |
| `IPCCallsSucceed` | `~EarlyWriter /\ IPCSpec => []CallsSucceed` | the pool's conservation under every fault, and: once the queue is open the reader alone closes it, after its last call |
| `IPCToolImplementsCopyFile` | `~DiskMayFill /\ IPCSpec => IPCImplementsCopyFile` | the pipe is whole as long as both processes are there; without a reader it is only its writer's half (`PipeOut`), and a writer that is gone leaves a prefix; status 0 needs `isReadFinished`, hence a reader that had read all |
| `IPCNoMutualSleep` | `IPCSpec => []NeverBothAsleep` | as `NoMutualSleep`, from the pool's conservation under every fault |
| `IPCHeldUpOnlyAsKnown` | `~EarlyWriter /\ IPCSpec => []HeldUpOnlyAsKnown` | who runs has no lock it does not give back; a writer that has come has told the reader so; one that sleeps with nothing in `writeBuffers` waits for a reader that is awake, or that has closed the queue |
| **any number of ipc processes** | | |
| `SessionTypeCorrect` | `SessionSpec => []SessionTypeOK` | with it: where a process stands determines whether it has a segment, a role and a chunk left to read, so no counter falls below zero |
| `CountersStayTrue` | `SessionSpec => []CountersAreTrue` | a counter is 0 or 1; at 0 nobody is counted, at 1 one process is or has died; `Registers` looks again at the counter it increments |
| `NothingLeaks` | `SessionSpec => []NoSegmentLeaks` | the segment with the name has somebody who has not come past the check of the counters, or was cut short; one who sees a counter above zero sees another such process |
| `PairWorks` | `SessionSpec => []PairCopies` | where each of the two can be relative to the other: the writer registers while the reader is counted, the reader leaves only after the writer has started, and file, stream and queue hold consecutive chunks up to the reader's next; once a writer is past its registration the queue has been opened, so where `isOpen` is false at the first load it is at the second |
| `PairsNameStays` | `SessionSpec => []PairKeepsName` | who has come to `remove` has seen the other's counter at zero, and that other was counted until it had counted itself out |

The invariants the properties follow from are stronger than the properties: that
`dst` is a prefix says nothing of the chunks on their way, so the induction needs the
chain of all of them; that both never sleep needs the whole pool; that a pair ends well
needs where each one stands at every step.

**Only model-checked.** Liveness under fairness is beyond this prover:
`ExitsOrSleepsOnClosedQueue`, `InterruptedRunBlocks`, `EndsUnlessAborted`,
`AbortedRunBlocks`, `ReaderEnds`, `EndsOrSleeps` and `InterruptIsNoticed`. Every other
property of the runs is a theorem.

## 5. Not modelled

* The time printing of `StopWatch`, interfaces without state, tests and build files.
  Of `OptionsParser` only what it decides: boost::program_options is a library.
* A signal delivered to another thread than the main one: its `longjmp` would leave one
  thread's stack for another's. (The one such jump that is modelled is that of
  `timeout()`, because the code takes it by design.)
* A signal while `main` destroys the tool after `copy()` has returned, which would destroy
  it a second time, and a second signal.
* What may be left in shared memory is the subject of `IPCSession` alone: `Startup` is one
  process.
* What a killed process leaves inside a condition variable in shared memory: a waiter
  that died may absorb a notification in some implementations. The model wakes all.
* A mapped source that is truncated: the process dies of SIGBUS.
* The size of the segment and failed allocations in it.

## 6. Plan

Done: 1 `FixedBufferQueue`, 2 `CopyFile` and `BPCopyTool`, 3 their proofs,
4 `InterruptedCopy`, 5 `SynchronizedQueue`, 6 `ParallelCopyTool`, 7 `IPCCopy` with
`SiblingProcessObserver`, 8 `IPCSession`, 9 `InterruptedParallelCopy`, `ChangingSource`
and `Startup`.

10 the proofs about `SynchronizedQueue` and `ParallelCopyTool`, 11 `InterruptedCopy` and
`ChangingSource`, 12 `IPCCopy`, 13 `IPCSession`, 14 `Startup`, and that nothing holds both
sides of a copy up but what is known (`NoOtherDeadlock`, `NoOtherParallelDeadlock`,
`IPCHeldUpOnlyAsKnown`), 15 `FillFile` for the mmap tool, what a cut-short run loses
(`AtMostOneChunkIsLost`), the two loads of `isOpen` and the name of the segment in
`IPCSession`, and the abandoned observer in `IPCCopy`.

Not done, and why:

* *That a run of `IPCCopy` is, chunk by chunk, one of `IPCSession` with two processes.*
  The attempt showed one difference between the two modules that was a mistake: the
  observer of `IPCSession` used to end a process in the step in which it looked at the
  counter. It is now two steps, as in `IPCCopy` and in the code. What remains
  is a matter of subject: `IPCCopy` has SIGINT and kills inside a section, which
  `IPCSession` leaves out, it starts in the middle of a session and takes the removal of
  the segment as one step, its stream writes out any part at any time, and its file has
  a size where `IPCSession` has the constant `Chunks`. A mapping would hold only
  between a cut-down `IPCCopy` and a widened `IPCSession`, and say little of either.
* *Action properties of `IPCCopy` and `IPCSession`.* What a step may never do to a counter,
  to the queue or to the destination follows from the invariants and refinements that
  are proved: `IPCToolImplementsCopyFile` is already a statement about steps.
