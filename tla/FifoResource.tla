---------------------------- MODULE FifoResource ----------------------------
(***************************************************************************)
(* What src/utils/concurrency.ts promises its callers, without saying how: *)
(* a resource of Capacity units, at most Capacity clients holding one each, *)
(* the others served in the order in which they asked, and a freed unit    *)
(* handed to the first of them in the same step.  Semaphore implements it  *)
(* for any Capacity, Mutex for Capacity = 1; Gateway uses both.            *)
(***************************************************************************)
EXTENDS Naturals, Sequences, FiniteSets

CONSTANTS Client,    \* whoever may ask for a unit
          Capacity   \* how many clients may hold a unit at once

VARIABLES holders,   \* the clients that own a unit
          waiting    \* the clients that asked and were not served, in order

resourceVars == <<holders, waiting>>

Waits(c) == \E i \in DOMAIN waiting : waiting[i] = c

Init ==
  /\ holders = {}
  /\ waiting = <<>>

Acquire(c) ==
  /\ c \notin holders
  /\ ~Waits(c)
  /\ \/ /\ Cardinality(holders) < Capacity
        /\ waiting = <<>>
        /\ holders' = holders \cup {c}
        /\ UNCHANGED waiting
     \/ /\ Cardinality(holders) >= Capacity
        /\ waiting' = Append(waiting, c)
        /\ UNCHANGED holders

Release(c) ==
  /\ c \in holders
  /\ \/ /\ waiting = <<>>
        /\ holders' = holders \ {c}
        /\ UNCHANGED waiting
     \/ /\ waiting # <<>>
        /\ holders' = (holders \ {c}) \cup {Head(waiting)}
        /\ waiting' = Tail(waiting)

Next == \E c \in Client : Acquire(c) \/ Release(c)

\* Every holder gives its unit back: the duty the release closures put on
\* the callers ("the caller MUST invoke exactly once").
Spec == Init /\ [][Next]_resourceVars /\ \A c \in Client : WF_resourceVars(Release(c))
=============================================================================
