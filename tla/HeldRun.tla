------------------------------- MODULE HeldRun -------------------------------
(***************************************************************************)
(* One held run of src/cursor/heldRunManager.ts: HeldRunState and the      *)
(* methods of HeldRunManager that work on it, with its gate (HeldToolGate),*)
(* the Cursor run behind it and the HTTP client in front of it.            *)
(*                                                                         *)
(* `phase` is where the request that works on the run stands:              *)
(*   "sending" start() awaits agent.send() (or its turn to call it);       *)
(*   "racing"  pump() awaits the race of the next stream item against the  *)
(*             next batch of tool calls;                                   *)
(*   "waiting" pump() awaits run.wait();                                   *)
(*   "held"    no request: the run waits for the client's tool results;    *)
(*   "over"    the last request has been answered, or a run that was held  *)
(*             has been torn down.                                         *)
(* A stream message is its number.  An async generator answers its next()  *)
(* calls in the order of the calls: the k-th next() receives item k, so a  *)
(* next() promise is the number of its call.                               *)
(***************************************************************************)
EXTENDS Naturals, Sequences, FiniteSets, SequencesExt

CONSTANTS
  Call,          \* tool-call ids the model may use during the run
  MaxMessages,   \* bound on the stream messages of the run
  EarlyAbort     \* may the client's disconnect be noticed before agent.send()
                 \* has returned, while no run exists yet?

ASSUME HeldRunAssumption == MaxMessages \in Nat /\ EarlyAbort \in BOOLEAN

VARIABLES
  parked, pendingBatch, closed, waiter, previousCount, batch, answer,
                 \* the gate
  surfaced,      \* the tool calls returned to the client so far
  phase,
  run,           \* the Cursor run: "none", "running", "cancelling" or how it ended
  emitted,       \* number of messages the run has put into its stream
  streamEnded,   \* the stream will produce no further message
  issued,        \* number of iterator.next() calls
  pendingNext,   \* state.pendingNext: the number of a next() call, 0 if undefined
  held,          \* the run is in this.held
  byToolCallId,  \* the ids this.byToolCallId maps to this run
  toolTimer,     \* the tool-result timer is armed
  segmentTimedOut,
  signal,        \* the abort signal of the current request: "live" or "aborted"
  armed,         \* state.onAbort will run when that signal aborts
  settled,       \* state.settled
  releases,      \* number of calls of state.onRelease
  owned,         \* the session mutex and the slot have not been released
  text,          \* messages accumulated in the current segment
  responses      \* the answers to the HTTP requests: [status, text, calls]

Gate == INSTANCE HeldToolGate

gateVars == <<parked, pendingBatch, closed, waiter, previousCount, batch, answer>>
runVars == <<run, emitted, streamEnded>>
pumpVars == <<issued, pendingNext, text>>
registryVars == <<held, byToolCallId, toolTimer>>
abortVars == <<signal, armed>>
releaseVars == <<settled, releases, owned>>
replyVars == <<surfaced, responses>>

vars == <<gateVars, runVars, pumpVars, registryVars, abortVars, releaseVars,
          replyVars, phase, segmentTimedOut>>

Ended == {"finished", "error", "cancelled"}

Init ==
  /\ Gate!Init
  /\ surfaced = {}
  /\ phase = "sending"
  /\ run = "none" /\ emitted = 0 /\ streamEnded = FALSE
  /\ issued = 0 /\ pendingNext = 0 /\ text = <<>>
  /\ held = FALSE /\ byToolCallId = {} /\ toolTimer = FALSE
  /\ segmentTimedOut = FALSE
  /\ signal = "live" /\ armed = FALSE
  /\ settled = FALSE /\ releases = 0 /\ owned = TRUE
  /\ responses = <<>>

-----------------------------------------------------------------------------
(* Pieces of the manager's methods. *)

\* safeRelease(): the caller's onRelease, which releases mutex and slot once.
SafeRelease ==
  /\ releases' = releases + 1
  /\ owned' = FALSE

\* (mutant: the caller's onRelease is forgotten)
TeardownKeepsResources ==
  \/ settled /\ UNCHANGED <<gateVars, run, armed, releaseVars>>
  \/ /\ ~settled
     /\ settled' = TRUE
     /\ armed' = FALSE
     /\ Gate!Close
     /\ run' = IF run = "running" THEN "cancelling" ELSE run
     /\ UNCHANGED <<releases, owned>>

\* teardown(): once per run, close the gate, ask the SDK to cancel the run
\* without waiting for it, and release.
Teardown ==
  \/ settled /\ UNCHANGED <<gateVars, run, armed, releaseVars>>
  \/ /\ ~settled
     /\ settled' = TRUE
     /\ armed' = FALSE
     /\ Gate!Close
     /\ run' = IF run = "running" THEN "cancelling" ELSE run
     /\ SafeRelease

\* (mutant: forget() is not called)
DiscardKeepsRegistry ==
  /\ UNCHANGED <<held, byToolCallId>>
  /\ toolTimer' = IF ~settled THEN FALSE ELSE toolTimer
  /\ Teardown

\* forget() then teardown(), as every abnormal path calls them: out of both
\* registries, and the tool-result timer disarmed by whichever finds it.
Discard ==
  /\ held' = FALSE
  /\ byToolCallId' = IF held THEN {} ELSE byToolCallId
  /\ toolTimer' = IF held \/ ~settled THEN FALSE ELSE toolTimer
  /\ Teardown

\* (mutant: no test of state.settled)
SettleAgain ==
  /\ settled' = TRUE
  /\ toolTimer' = FALSE
  /\ armed' = FALSE
  /\ SafeRelease

\* settle(): the clean end of a run.
Settle ==
  \/ settled /\ UNCHANGED <<toolTimer, armed, releaseVars>>
  \/ /\ ~settled
     /\ settled' = TRUE
     /\ toolTimer' = FALSE
     /\ armed' = FALSE
     /\ SafeRelease

\* (mutant: iterator.next() is called again although a call is outstanding)
NextPromiseReissued == pendingNext' = issued + 1 /\ issued' = issued + 1

\* The head of the race loop: the next() promise that is still outstanding,
\* or else a fresh one.
NextPromise ==
  IF pendingNext = 0
    THEN pendingNext' = issued + 1 /\ issued' = issued + 1
    ELSE UNCHANGED <<pendingNext, issued>>

\* (mutant: the accumulators of the last segment are kept)
EnterPumpKeepsText ==
  /\ phase' = "racing"
  /\ segmentTimedOut' = FALSE
  /\ UNCHANGED text
  /\ NextPromise
  /\ Gate!EnterWait

\* The head of pump(): a new segment timer, a new waitForBatch(), empty
\* accumulators (start() and provideResultsAndContinue() make new ones).
EnterPump ==
  /\ phase' = "racing"
  /\ segmentTimedOut' = FALSE
  /\ text' = <<>>
  /\ NextPromise
  /\ Gate!EnterWait

Respond(status, calls) ==
  /\ responses' = Append(responses, [status |-> status, text |-> text, calls |-> calls])
  /\ surfaced' = surfaced \cup calls

\* (mutant: no test of segmentTimedOut)
AfterLoopIgnoresTimeout(toolBatch) ==
  \/ /\ signal = "aborted"
     /\ Respond("cancelled", {})
     /\ phase' = "over"
     /\ UNCHANGED <<gateVars, run, registryVars, armed, releaseVars>>
  \/ /\ signal = "live" /\ toolBatch # {}
     /\ Respond("tool_calls", toolBatch)
     /\ phase' = "held"
     /\ held' = TRUE
     /\ byToolCallId' = byToolCallId \cup toolBatch
     /\ toolTimer' = TRUE
     /\ UNCHANGED <<gateVars, run, armed, releaseVars>>
  \/ /\ signal = "live" /\ toolBatch = {}
     /\ phase' = "waiting"
     /\ UNCHANGED <<gateVars, run, registryVars, armed, releaseVars, replyVars>>

\* What pump() does once the race loop ended with toolBatch.
AfterLoop(toolBatch) ==
  \/ /\ segmentTimedOut                       \* throw; catch: forget, teardown
     /\ Respond("timeout", {})
     /\ phase' = "over"
     /\ Discard
  \/ /\ ~segmentTimedOut /\ signal = "aborted"
     /\ Respond("cancelled", {})
     /\ phase' = "over"
     /\ UNCHANGED <<gateVars, run, registryVars, armed, releaseVars>>
  \/ /\ ~segmentTimedOut /\ signal = "live" /\ toolBatch # {}
     /\ Respond("tool_calls", toolBatch)
     /\ phase' = "held"
     /\ held' = TRUE
     /\ byToolCallId' = byToolCallId \cup toolBatch
     /\ toolTimer' = TRUE
     /\ UNCHANGED <<gateVars, run, armed, releaseVars>>
  \/ /\ ~segmentTimedOut /\ signal = "live" /\ toolBatch = {}
     /\ phase' = "waiting"
     /\ UNCHANGED <<gateVars, run, registryVars, armed, releaseVars, replyVars>>

-----------------------------------------------------------------------------
(* The request that starts the run. *)

\* agent.send() resolves: armAbort() and the first pump.  A listener that is
\* added to a signal which has aborted already never runs.
SendOk ==
  /\ phase = "sending"
  /\ run' = "running"
  /\ armed' = (signal = "live")
  /\ EnterPump
  /\ UNCHANGED <<parked, pendingBatch, closed, answer, emitted, streamEnded,
                 registryVars, signal, releaseVars, replyVars>>

\* agent.send() rejects: executeGatewayTurn releases in its catch block.
SendFails ==
  /\ phase = "sending"
  /\ phase' = "over"
  /\ owned' = FALSE
  /\ Respond("error", {})
  /\ UNCHANGED <<gateVars, runVars, pumpVars, registryVars, abortVars, settled,
                 releases, segmentTimedOut>>

(* The pump. *)

\* The race is won by a stream message; the loop goes on with a fresh next().
ConsumeMessage ==
  /\ phase = "racing"
  /\ pendingNext <= emitted
  /\ text' = Append(text, pendingNext)
  /\ pendingNext' = issued + 1
  /\ issued' = issued + 1
  /\ UNCHANGED <<gateVars, runVars, registryVars, abortVars, releaseVars,
                 replyVars, phase, segmentTimedOut>>

\* The race is won by the end of the stream.
StreamDone ==
  /\ phase = "racing"
  /\ pendingNext > emitted /\ streamEnded
  /\ pendingNext' = 0
  /\ AfterLoop({})
  /\ UNCHANGED <<emitted, streamEnded, issued, text, signal, segmentTimedOut>>

\* The outstanding next() rejects: the catch block forgets, tears down and
\* throws, whatever the timer and the signal say.
StreamFails ==
  /\ phase = "racing"
  /\ pendingNext > emitted /\ streamEnded
  /\ Respond("error", {})
  /\ phase' = "over"
  /\ Discard
  /\ UNCHANGED <<emitted, streamEnded, pumpVars, signal, segmentTimedOut>>

\* The race is won by the batch: the next() promise stays outstanding.
BatchReady ==
  /\ phase = "racing"
  /\ waiter = "returned"
  /\ AfterLoop(batch)
  /\ UNCHANGED <<emitted, streamEnded, pumpVars, signal, segmentTimedOut>>

\* run.wait() is over (a rejection counts as no result): settle, then the
\* final answer, or an error when the result says so.
RunWaitDone ==
  /\ phase = "waiting"
  /\ run \in Ended
  /\ Settle
  /\ \E rejected \in BOOLEAN :
       Respond(IF run = "error" /\ ~rejected THEN "error" ELSE "final", {})
  /\ phase' = "over"
  /\ UNCHANGED <<gateVars, runVars, pumpVars, held, byToolCallId, signal,
                 segmentTimedOut>>

\* (mutant: the timer sets its flag and leaves the run alone)
SegmentTimeoutKeepsRun ==
  /\ phase \in {"racing", "waiting"}
  /\ ~segmentTimedOut
  /\ segmentTimedOut' = TRUE
  /\ UNCHANGED <<gateVars, runVars, pumpVars, registryVars, abortVars, releaseVars,
                 replyVars, phase>>

\* REQUEST_TIMEOUT_MS has passed since the pump started.
SegmentTimeout ==
  /\ phase \in {"racing", "waiting"}
  /\ ~segmentTimedOut
  /\ segmentTimedOut' = TRUE
  /\ Discard
  /\ UNCHANGED <<emitted, streamEnded, pumpVars, signal, replyVars, phase>>

\* The coroutine of waitForBatch().
GateResumes ==
  /\ Gate!Resume
  /\ UNCHANGED <<runVars, pumpVars, registryVars, abortVars, releaseVars,
                 replyVars, phase, segmentTimedOut>>

GateSettles ==
  /\ Gate!SettleTick
  /\ UNCHANGED <<runVars, pumpVars, registryVars, abortVars, releaseVars,
                 replyVars, phase, segmentTimedOut>>

-----------------------------------------------------------------------------
(* The client, the timer of a held run, the process. *)

\* The connection of the current request closes before it was answered.
ClientAborts ==
  /\ phase \in {"racing", "waiting"} \/ (phase = "sending" /\ EarlyAbort)
  /\ signal = "live"
  /\ signal' = "aborted"
  /\ \/ armed /\ Discard
     \/ ~armed /\ UNCHANGED <<gateVars, run, registryVars, armed, releaseVars>>
  /\ UNCHANGED <<emitted, streamEnded, pumpVars, replyVars, phase, segmentTimedOut>>

\* A request brings results for some of the calls it was shown:
\* provideResultsAndContinue().
Continue(S) ==
  /\ phase = "held" /\ held
  /\ S # {} /\ S \subseteq byToolCallId
  /\ held' = FALSE /\ byToolCallId' = {} /\ toolTimer' = FALSE
  /\ signal' = "live" /\ armed' = TRUE
  /\ Gate!Deliver(S)
  /\ EnterPump
  /\ UNCHANGED <<pendingBatch, closed, runVars, releaseVars, replyVars>>

\* TOOL_RESULT_TIMEOUT_MS has passed since the run was held, or the server
\* shuts down: a held run is torn down with no request in progress.
HeldRunExpires ==
  /\ phase = "held"
  /\ toolTimer
  /\ phase' = "over"
  /\ Discard
  /\ UNCHANGED <<emitted, streamEnded, pumpVars, signal, replyVars, segmentTimedOut>>

Shutdown ==
  /\ phase = "held"
  /\ held
  /\ phase' = "over"
  /\ Discard
  /\ UNCHANGED <<emitted, streamEnded, pumpVars, signal, replyVars, segmentTimedOut>>

-----------------------------------------------------------------------------
(* The Cursor run. *)

Emit ==
  /\ run \in {"running", "cancelling"} /\ ~streamEnded
  /\ emitted < MaxMessages
  /\ emitted' = emitted + 1
  /\ UNCHANGED <<gateVars, run, streamEnded, pumpVars, registryVars, abortVars,
                 releaseVars, replyVars, phase, segmentTimedOut>>

\* The SDK calls execute() of a tool; parallel calls come in any order, also
\* while the client works on earlier ones.
ModelCalls(c) ==
  /\ run \in {"running", "cancelling"} /\ ~streamEnded
  /\ Gate!Park(c)
  /\ UNCHANGED <<runVars, pumpVars, registryVars, abortVars, releaseVars,
                 replyVars, phase, segmentTimedOut>>

\* The stream ends: the model is done, which needs all of its calls answered,
\* or the run has failed or has been cancelled.
StreamEnds ==
  /\ run \in {"running", "cancelling"} /\ ~streamEnded
  /\ streamEnded' = TRUE
  /\ UNCHANGED <<gateVars, run, emitted, pumpVars, registryVars, abortVars,
                 releaseVars, replyVars, phase, segmentTimedOut>>

RunEnds ==
  /\ streamEnded
  /\ \/ run = "running" /\ run' = "error"
     \/ run = "running" /\ (\A c \in Call : answer[c] # "pending") /\ run' = "finished"
     \/ run = "cancelling" /\ run' = "cancelled"
  /\ UNCHANGED <<gateVars, emitted, streamEnded, pumpVars, registryVars, abortVars,
                 releaseVars, replyVars, phase, segmentTimedOut>>

Next ==
  \/ SendOk \/ SendFails
  \/ ConsumeMessage \/ StreamDone \/ StreamFails \/ BatchReady
  \/ RunWaitDone \/ SegmentTimeout
  \/ GateResumes \/ GateSettles
  \/ ClientAborts \/ HeldRunExpires \/ Shutdown
  \/ \E S \in SUBSET byToolCallId : Continue(S)
  \/ Emit \/ StreamEnds \/ RunEnds
  \/ \E c \in Call : ModelCalls(c)

\* Timers fire and microtasks run.  Of the SDK only this is assumed: send()
\* settles, and a cancelled run ends.  It may stay silent for ever otherwise,
\* and the client may never come back or never disconnect.
Fairness ==
  /\ WF_vars(SendOk \/ SendFails)
  /\ WF_vars(ConsumeMessage) /\ WF_vars(StreamDone) /\ WF_vars(BatchReady)
  /\ WF_vars(RunWaitDone)
  /\ WF_vars(SegmentTimeout) /\ WF_vars(HeldRunExpires)
  /\ WF_vars(GateResumes) /\ WF_vars(GateSettles)
  /\ WF_vars(run = "cancelling" /\ (StreamEnds \/ RunEnds))

Spec == Init /\ [][Next]_vars /\ Fairness

-----------------------------------------------------------------------------
(* Properties. *)

Open == phase \in {"sending", "racing", "waiting"}

Status == {"tool_calls", "final", "cancelled", "timeout", "error"}

\* Types of the variables.
TypeOK ==
  /\ Gate!TypeOK /\ surfaced \subseteq Call
  /\ phase \in {"sending", "racing", "waiting", "held", "over"}
  /\ run \in {"none", "running", "cancelling"} \cup Ended
  /\ emitted \in 0 .. MaxMessages /\ streamEnded \in BOOLEAN
  /\ issued \in 0 .. MaxMessages + 2 /\ pendingNext \in 0 .. issued
  /\ held \in BOOLEAN /\ byToolCallId \subseteq Call /\ toolTimer \in BOOLEAN
  /\ segmentTimedOut \in BOOLEAN
  /\ signal \in {"live", "aborted"} /\ armed \in BOOLEAN
  /\ settled \in BOOLEAN /\ releases \in Nat /\ owned \in BOOLEAN
  /\ text \in Seq(1 .. MaxMessages)
  /\ \A i \in DOMAIN responses : responses[i].status \in Status

\* What the client has been told so far, in parts: the text of each answer, and
\* that of the segment in progress.
Parts ==
  1 .. IF phase \in {"racing", "waiting"} THEN Len(responses) + 1 ELSE Len(responses)
Part(i) == IF i <= Len(responses) THEN responses[i].text ELSE text
Told == UNION {Range(Part(i)) : i \in Parts}

InStreamOrder ==
  \A i, j \in Parts : \A k \in DOMAIN Part(i), l \in DOMAIN Part(j) :
    i < j \/ (i = j /\ k < l) => Part(i)[k] < Part(j)[l]

\* One run spans several HTTP requests without losing, repeating or reordering
\* a message of its stream: each is part of exactly one answer, although the
\* next() call that will receive it may have been made by an earlier request.
DeliveredInOrder == InStreamOrder /\ \A m \in Told : 1 .. m \subseteq Told

\* A final answer comes after the last message: no message is still in the
\* stream, or waits in a next() promise nobody looks at, when the loop ends.
FinalIsComplete ==
  (\E i \in DOMAIN responses : responses[i].status = "final")
    => Told = 1 .. emitted /\ streamEnded

\* The registries and the timer agree with the life of the run: exactly while
\* it is held it can be found, by calls that still wait for their results, and
\* is guarded by the tool-result timer.
RegistryAgrees ==
  /\ held <=> phase = "held"
  /\ toolTimer <=> held
  /\ byToolCallId # {} <=> held
  /\ byToolCallId \subseteq parked

\* While the run works or waits for its client it owns slot and mutex, and it
\* does not give them up before it has ended or has been told to.
OwnedWhileAlive ==
  /\ phase = "held" => owned /\ ~settled
  /\ run = "running" => owned

\* state.onRelease is called once, by the clean end or by the teardown, however
\* timers, disconnects and answers race, and never when no run was started.
ReleasedOnce ==
  /\ releases <= 1
  /\ releases = 1 <=> settled
  /\ phase = "over" => ~owned

\* The gate loses no call: waitForBatch() never sleeps over a parked call, an
\* execute() that is pending can still be answered, its call has been shown to
\* the client or will be with the next batch, and the execute() callbacks of a
\* torn-down run have all been abandoned, so that it can unwind.
GateSound ==
  /\ Gate!NoLostWakeup
  /\ Gate!PendingIsParked
  /\ parked \subseteq surfaced \cup pendingBatch \cup batch
  /\ settled /\ closed => run # "running"

\* The client is asked for each call once, although calls arrive while a batch
\* settles, while the client works on an earlier one and while the run unwinds.
CallsSurfacedOnce ==
  \A i, j \in DOMAIN responses :
    responses[i].calls \cap responses[j].calls # {} => i = j

\* Whatever the model and the client do, an execute() callback does not hang
\* for ever in a live run: it gets a result, it is abandoned, or the run ends.
PendingCallResolved ==
  \A c \in Call : answer[c] = "pending" ~> (answer[c] # "pending" \/ run \in Ended)

\* The tool loop as the rest of the gateway sees it: every request is answered,
\* resources are kept across the whole loop and are given back once.
Stage == CASE Open -> "working" [] phase = "held" -> "asking" [] OTHER -> "over"
Loop == INSTANCE ToolLoop WITH stage <- Stage
ImplementsToolLoop == Loop!Spec

\* heldRunManager.ts says of onRelease: "Called exactly once when the run
\* reaches a terminal state (final segment or teardown)".
ReleasedAtTheEnd == phase = "over" /\ run # "none" => releases = 1

\* heldRunManager.ts says of findAgentByToolCallId: "Resolves the agent id of
\* the held run that owns toolCallId": each call the client was shown and has
\* not answered leads to the held run.
OwnedCallIsFound == held => surfaced \cap parked \subseteq byToolCallId
=============================================================================
