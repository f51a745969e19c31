-------------------------------- MODULE Mutex --------------------------------
(***************************************************************************)
(* The promise-chain mutex of src/utils/concurrency.ts.  It has no queue   *)
(* and no owner: acquire() reads `tail`, replaces it by a promise of its   *)
(* own, and waits for the one it read.  A ticket stands for one acquire()  *)
(* call, numbered in the order of the calls, and for the promise it put    *)
(* into `tail`; promise 0 is the resolved promise `tail` starts with.      *)
(***************************************************************************)
EXTENDS Naturals, Sequences

CONSTANT MaxTickets   \* bound on the number of acquire() calls

ASSUME MaxTicketsAssumption == MaxTickets \in Nat

VARIABLES calls,      \* number of acquire() calls made
          tail,       \* this.tail
          previous,   \* previous[k]: the promise call k waits for
          resolved    \* the promises that are resolved

mutexVars == <<calls, tail, previous, resolved>>

Ticket == 1 .. MaxTickets

Init ==
  /\ calls = 0
  /\ tail = 0
  /\ previous = [k \in Ticket |-> 0]
  /\ resolved = {0}

\* (mutant: the new promise does not become the tail)
AcquireKeepsTail ==
  /\ calls < MaxTickets
  /\ calls' = calls + 1
  /\ previous' = [previous EXCEPT ![calls + 1] = tail]
  /\ UNCHANGED <<tail, resolved>>

\* acquire() up to its `await previous`.
Acquire ==
  /\ calls < MaxTickets
  /\ calls' = calls + 1
  /\ previous' = [previous EXCEPT ![calls + 1] = tail]
  /\ tail' = calls + 1
  /\ UNCHANGED resolved

\* Call k has come back from acquire() and has not called release yet.
Owns(k) == k \in 1 .. calls /\ previous[k] \in resolved /\ k \notin resolved

\* The release closure of call k.
Release(k) ==
  /\ Owns(k)
  /\ resolved' = resolved \cup {k}
  /\ UNCHANGED <<calls, tail, previous>>

Next == Acquire \/ \E k \in Ticket : Release(k)

\* runExclusive() releases in a finally block; the holder of a bare acquire()
\* "MUST invoke [release] exactly once".
Fairness == \A k \in Ticket : WF_mutexVars(Release(k))

Spec == Init /\ [][Next]_mutexVars /\ Fairness

-----------------------------------------------------------------------------
\* Types of the variables.
TypeOK ==
  /\ calls \in 0 .. MaxTickets
  /\ tail \in 0 .. MaxTickets
  /\ previous \in [Ticket -> 0 .. MaxTickets]
  /\ resolved \subseteq 0 .. MaxTickets

\* At most one acquire() call owns the mutex, although no variable names the
\* owner: it follows from the way the promises are chained.
MutualExclusion == \A j, k \in Ticket : Owns(j) /\ Owns(k) => j = k

\* The owner, if any, is the oldest call that has not released.
FirstOpen == CHOOSE k \in 1 .. calls + 1 : k \notin resolved /\ 0 .. k - 1 \subseteq resolved
Owners == {k \in Ticket : Owns(k)}
Waiters == [i \in 1 .. (IF FirstOpen < calls THEN calls - FirstOpen ELSE 0) |-> FirstOpen + i]

\* The mutex is a FIFO resource with one unit: calls are served in the order
\* in which they were made, one at a time, and each of them is served.
Resource == INSTANCE FifoResource WITH
  Client <- Ticket, Capacity <- 1, holders <- Owners, waiting <- Waiters
ImplementsFifoResource == Resource!Spec
=============================================================================
