---------------------------- MODULE HeldToolGate ----------------------------
(***************************************************************************)
(* src/cursor/heldToolGate.ts: the gate of one held run.  The Cursor SDK   *)
(* calls execute() for every tool the model wants; execute() parks its     *)
(* call here and stays pending.  The pump of the held run waits for a      *)
(* batch of parked calls, hands it to the HTTP client and later gives the  *)
(* results back.                                                           *)
(*                                                                         *)
(* waitForBatch() is a coroutine; `waiter` is where it stands:             *)
(*   "none"      no waitForBatch() call is active;                         *)
(*   "blocked"   awaiting waitForSignal() with no call in the batch;       *)
(*   "signalled" notify() resolved that promise, the code has not resumed; *)
(*   "settling"  awaiting delay(settleMs);                                 *)
(*   "returned"  the promise is resolved with `batch`.                     *)
(* A batch is a set: the order of its calls is the order of arrival, which *)
(* no client depends on.  The contents of arguments and results are left   *)
(* out: `answer` records which kind of result execute() returned.          *)
(***************************************************************************)
EXTENDS Naturals, FiniteSets

CONSTANT Call   \* the tool-call ids of the run

VARIABLES
  parked,         \* this.parked: calls whose execute() is pending
  pendingBatch,   \* this.pendingBatch: parked calls no batch has returned yet
  closed,         \* this.closed
  waiter,         \* where waitForBatch() stands
  previousCount,  \* its local previousCount
  batch,          \* what it returned
  answer          \* per call: what execute() has returned to the SDK

gateVars == <<parked, pendingBatch, closed, waiter, previousCount, batch, answer>>

Answer == {"uncalled", "pending", "result", "abandoned"}

Init ==
  /\ parked = {}
  /\ pendingBatch = {}
  /\ closed = FALSE
  /\ waiter = "none"
  /\ previousCount = 0
  /\ batch = {}
  /\ answer = [c \in Call |-> "uncalled"]

\* (mutant: the waiters are dropped without being resolved)
NotifiedNobody == waiter

\* notify(): resolve the promise of a blocked waitForBatch(), if there is one.
Notified == IF waiter = "blocked" THEN "signalled" ELSE waiter

\* The execute() callback of call c: park(), or the immediate abandoned
\* result of a closed gate.
Park(c) ==
  /\ answer[c] = "uncalled"
  /\ \/ /\ closed
        /\ answer' = [answer EXCEPT ![c] = "abandoned"]
        /\ UNCHANGED <<parked, pendingBatch, waiter>>
     \/ /\ ~closed
        /\ answer' = [answer EXCEPT ![c] = "pending"]
        /\ parked' = parked \cup {c}
        /\ pendingBatch' = pendingBatch \cup {c}
        /\ waiter' = Notified
  /\ UNCHANGED <<closed, previousCount, batch>>

\* The head of waitForBatch(), entered by a call and again after each signal:
\* return nothing from a closed gate, wait while the batch is empty, or start
\* to settle.
EnterWait ==
  \/ /\ pendingBatch = {} /\ closed
     /\ waiter' = "returned"
     /\ batch' = {}
     /\ UNCHANGED previousCount
  \/ /\ pendingBatch = {} /\ ~closed
     /\ waiter' = "blocked"
     /\ UNCHANGED <<batch, previousCount>>
  \/ /\ pendingBatch # {}
     /\ waiter' = "settling"
     /\ previousCount' = Cardinality(pendingBatch)
     /\ UNCHANGED batch

\* A signalled waitForBatch() goes on at the head of its first loop.
Resume ==
  /\ waiter = "signalled"
  /\ EnterWait
  /\ UNCHANGED <<parked, pendingBatch, closed, answer>>

\* (mutant: the batch that is returned is not cleared)
SettleTickKeepsBatch ==
  /\ waiter = "settling"
  /\ \/ /\ closed \/ Cardinality(pendingBatch) = previousCount
        /\ waiter' = "returned"
        /\ batch' = pendingBatch
        /\ UNCHANGED previousCount
     \/ /\ ~closed /\ Cardinality(pendingBatch) # previousCount
        /\ previousCount' = Cardinality(pendingBatch)
        /\ UNCHANGED <<waiter, batch>>
  /\ UNCHANGED <<parked, pendingBatch, closed, answer>>

\* delay(settleMs) has passed: return the batch when the gate is closed or no
\* call arrived meanwhile, else settle again.
SettleTick ==
  /\ waiter = "settling"
  /\ \/ /\ closed \/ Cardinality(pendingBatch) = previousCount
        /\ waiter' = "returned"
        /\ batch' = pendingBatch
        /\ pendingBatch' = {}
        /\ UNCHANGED previousCount
     \/ /\ ~closed /\ Cardinality(pendingBatch) # previousCount
        /\ previousCount' = Cardinality(pendingBatch)
        /\ UNCHANGED <<waiter, batch, pendingBatch>>
  /\ UNCHANGED <<parked, closed, answer>>

\* provideResults(): the parked calls among S get their results, ids that are
\* not parked are ignored.
Deliver(S) ==
  /\ parked' = parked \ S
  /\ answer' = [c \in Call |-> IF c \in S \cap parked THEN "result" ELSE answer[c]]

\* close(): idempotent; every parked call is abandoned and the waiter woken.
Close ==
  \/ closed /\ UNCHANGED gateVars
  \/ /\ ~closed
     /\ closed' = TRUE
     /\ parked' = {}
     /\ answer' = [c \in Call |-> IF c \in parked THEN "abandoned" ELSE answer[c]]
     /\ waiter' = Notified
     /\ UNCHANGED <<pendingBatch, previousCount, batch>>

-----------------------------------------------------------------------------
(* What holds of the gate alone; HeldRun checks it under the pump. *)

\* Types of the variables.
TypeOK ==
  /\ parked \subseteq Call
  /\ pendingBatch \subseteq Call
  /\ closed \in BOOLEAN
  /\ waiter \in {"none", "blocked", "signalled", "settling", "returned"}
  /\ previousCount \in 0 .. Cardinality(Call)
  /\ batch \subseteq Call
  /\ answer \in [Call -> Answer]

\* A waitForBatch() that sleeps has nothing to deliver and an open gate: no
\* park() and no close() falls between its test and its registration.
NoLostWakeup == waiter = "blocked" => pendingBatch = {} /\ ~closed

\* Whose execute() is pending is in parked, where a result or close() reaches
\* it; a closed gate keeps none, so a run that is torn down can unwind.
PendingIsParked ==
  /\ parked = {c \in Call : answer[c] = "pending"}
  /\ closed => parked = {}

=============================================================================
