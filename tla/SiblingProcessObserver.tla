------------------------ MODULE SiblingProcessObserver ------------------------
(***************************************************************************)
(* src/IPC/SiblingProcessObserver.cpp: a thread next to each process of    *)
(* the ipc tool that looks once in pollInterval whether a process of the   *)
(* other role is counted, and calls back when it has seen none for         *)
(* waitingTime.  Time is counted in poll intervals; a poll may be late by  *)
(* any amount, so the time between two polls is one or more.               *)
(*                                                                         *)
(* The module is the observer alone: siblings(o) is what o reads under the *)
(* lock of ProcInfo, which the tool that uses the module supplies.         *)
(***************************************************************************)
EXTENDS Integers

CONSTANTS
  Observers,          \* the processes that have an observer
  waitingTime         \* how long the sibling may be away, in poll intervals

ASSUME ObserverAssumption == waitingTime \in Nat \ {0}

VARIABLES
  observer,           \* life of every observer's thread
  stopwatch           \* what it has measured, or Off (stopwatchStarted = false)

observerVars == <<observer, stopwatch>>

Off == -1

\* "timeout": the thread is about to call stopwatchCallback.
ObserverStates == {"none", "polling", "timeout", "ended"}

ObserverInit ==
  /\ observer = [o \in Observers |-> "none"]
  /\ stopwatch = [o \in Observers |-> Off]

StartObserver(o) ==
  /\ observer[o] = "none"
  /\ observer' = [observer EXCEPT ![o] = "polling"]
  /\ UNCHANGED stopwatch

SawSibling(o) ==
  /\ stopwatch' = [stopwatch EXCEPT ![o] = Off]
  /\ UNCHANGED observer

SawNobody(o) ==
  \/ /\ stopwatch[o] = Off
     /\ stopwatch' = [stopwatch EXCEPT ![o] = 0]
     /\ UNCHANGED observer
  \/ /\ stopwatch[o] # Off
     /\ \E time \in stopwatch[o] + 1 .. waitingTime :
          /\ stopwatch' = [stopwatch EXCEPT ![o] = time]
          /\ observer' = IF time >= waitingTime
                         THEN [observer EXCEPT ![o] = "timeout"] ELSE observer

\* One round of observeSiblings' loop.
Poll(o, siblings) ==
  /\ observer[o] = "polling"
  /\ \/ siblings > 0 /\ SawSibling(o)
     \/ siblings = 0 /\ SawNobody(o)

\* The callback has returned, and with it the thread.
ObserverReturns(o) ==
  /\ observer[o] = "timeout"
  /\ observer' = [observer EXCEPT ![o] = "ended"]
  /\ UNCHANGED stopwatch

\* ~SiblingProcessObserver: request_stop, then join.  A thread that is inside
\* the callback must come back from it first.
StopObserver(o) ==
  /\ observer[o] # "timeout"
  /\ observer' = [observer EXCEPT ![o] = "ended"]
  /\ UNCHANGED stopwatch

-----------------------------------------------------------------------------
(* Properties *)

\* Type invariant of the observers.
ObserverTypeOK ==
  /\ observer \in [Observers -> ObserverStates]
  /\ stopwatch \in [Observers -> {Off} \cup 0..waitingTime]

=============================================================================
