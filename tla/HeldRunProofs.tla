---------------------------- MODULE HeldRunProofs ----------------------------
(***************************************************************************)
(* Proofs about HeldRun, for any finite set of tool calls and any number   *)
(* of stream messages, under the assumption that a disconnect is noticed   *)
(* only once agent.send() has returned (~EarlyAbort; the run               *)
(* held_run_early_abort shows what happens without it).                    *)
(*                                                                         *)
(* No property is inductive alone.  What ties them together is that the    *)
(* three ends of a run leave a trace: a settled run is cancelled, timed    *)
(* out or over (Endings), only a run that is not settled can be held       *)
(* (Ownership), only a settled run has a closed gate, and in an open gate  *)
(* a batch that was returned is still parked (GateInv), so that what the   *)
(* registry maps is always parked.                                         *)
(*                                                                         *)
(* A second invariant, Delivery, stands on the first and says what the     *)
(* client has been told: it is at the end of the module.                   *)
(***************************************************************************)
EXTENDS HeldRun, FiniteSetTheorems, TLAPS

Assumptions == IsFiniteSet(Call) /\ ~EarlyAbort

Response == [status : Status, text : Seq(1 .. MaxMessages), calls : SUBSET Call]

Types == TypeOK /\ responses \in Seq(Response)

\* The next() promise that is kept is the last one, and runs at most one
\* message ahead of the stream.
Promises ==
  /\ pendingNext \in {0, issued}
  /\ issued <= emitted + 1
  /\ phase \in {"racing", "held"} => pendingNext # 0
  /\ phase = "sending" => issued = 0

Registry == RegistryAgrees /\ byToolCallId \subseteq surfaced

\* Mutex and slot are kept until the run is settled or was never started.
Ownership ==
  /\ releases = IF settled THEN 1 ELSE 0
  /\ owned <=> phase # "over" /\ ~settled
  /\ settled => run # "running"
  /\ phase \in {"sending", "held"} => ~settled
  /\ phase = "sending" => run = "none"
  /\ phase \in {"racing", "waiting", "held"} => run # "none"
  /\ phase = "over" /\ ~settled => run = "none"

\* Who settled a run under its pump: the timer or the listener.
Endings ==
  /\ signal = "aborted" => settled
  /\ segmentTimedOut => settled
  /\ phase \in {"racing", "waiting"} /\ ~settled => armed
  /\ phase = "racing" /\ settled => segmentTimedOut \/ signal = "aborted"

GateInv ==
  /\ Gate!NoLostWakeup
  /\ Gate!PendingIsParked
  /\ closed => settled
  /\ closed \/ pendingBatch \subseteq parked
  /\ phase = "sending" => waiter = "none"
  /\ phase = "held" => waiter = "returned"
  /\ phase = "racing" /\ waiter = "returned" => settled \/ batch \subseteq parked

\* Where the parked calls are: shown to the client, in the batch that will be
\* shown, or in the next one; and in one of them only.
Surfacing ==
  /\ \A c \in surfaced \cup pendingBatch \cup batch : answer[c] # "uncalled"
  /\ pendingBatch \cap (surfaced \cup batch) = {}
  /\ parked \subseteq surfaced \cup pendingBatch \cup batch
  /\ waiter # "returned" \/ phase = "held" => parked \subseteq surfaced \cup pendingBatch
  /\ phase = "racing" /\ waiter = "returned" => batch \cap surfaced = {}
  /\ \A i \in DOMAIN responses : responses[i].calls \subseteq surfaced
  /\ CallsSurfacedOnce

IInv ==
  /\ Types /\ Promises /\ Registry /\ Ownership /\ Endings /\ GateInv /\ Surfacing

-----------------------------------------------------------------------------
(* The helpers. *)

\* The instance of FiniteSets inside the instance of HeldToolGate is the same.
LEMMA SameCardinality == \A S : Gate!Cardinality(S) = Cardinality(S)
  BY Zenon DEF Gate!Cardinality, Cardinality

LEMMA CountOfCalls ==
  ASSUME IsFiniteSet(Call), NEW S \in SUBSET Call
  PROVE  Gate!Cardinality(S) \in 0 .. Gate!Cardinality(Call)
<1>1. /\ Cardinality(S) \in Nat /\ Cardinality(Call) \in Nat
      /\ Cardinality(S) <= Cardinality(Call)
  BY FS_Subset, FS_CardinalityType
<1> QED
  BY <1>1, SameCardinality

LEMMA InitIInv ==
  ASSUME Assumptions
  PROVE  Init => IInv
<1> SUFFICES ASSUME Init
             PROVE  IInv
  OBVIOUS
<1>1. Gate!TypeOK
  <2>1. Gate!Cardinality({}) = 0 /\ Gate!Cardinality({}) \in 0 .. Gate!Cardinality(Call)
    BY CountOfCalls, SameCardinality, FS_EmptySet DEF Assumptions
  <2> QED
    BY <2>1 DEF Init, Gate!Init, Gate!TypeOK, Gate!Answer
<1>2. Types
  <2>1. responses = <<>> /\ responses \in Seq(Response)
    BY DEF Init
  <2>2. \A i \in DOMAIN responses : responses[i].status \in Status
    BY <2>1
  <2>3. text \in Seq(1 .. MaxMessages)
    BY DEF Init
  <2>4. /\ held \in BOOLEAN /\ toolTimer \in BOOLEAN /\ segmentTimedOut \in BOOLEAN
        /\ armed \in BOOLEAN /\ settled \in BOOLEAN /\ owned \in BOOLEAN
        /\ streamEnded \in BOOLEAN
    BY DEF Init
  <2>5. TypeOK
    BY <1>1, <2>2, <2>3, <2>4, HeldRunAssumption DEF Init, TypeOK
  <2> QED
    BY <2>1, <2>5 DEF Types
<1>3. Promises /\ Registry /\ Ownership /\ Endings
  BY HeldRunAssumption
     DEF Init, Gate!Init, Promises, Registry, RegistryAgrees, Ownership, Endings
<1>4. GateInv
  BY DEF Init, Gate!Init, GateInv, Gate!NoLostWakeup, Gate!PendingIsParked
<1>5. Surfacing
  BY DEF Init, Gate!Init, Surfacing, CallsSurfacedOnce
<1> QED
  BY <1>2, <1>3, <1>4, <1>5 DEF IInv

\* An answer to the client keeps the types, and keeps the calls of the answers
\* apart when its own calls were not shown before.
LEMMA RespondEffect ==
  ASSUME Types, NEW status \in Status, NEW calls \in SUBSET Call,
         Respond(status, calls)
  PROVE  /\ responses' \in Seq(Response)
         /\ \A i \in DOMAIN responses' : responses'[i].status \in Status
         /\ surfaced' = surfaced \cup calls
         /\ surfaced' \subseteq Call
         /\ Surfacing /\ calls \cap surfaced = {} =>
              /\ \A i \in DOMAIN responses' : responses'[i].calls \subseteq surfaced'
              /\ CallsSurfacedOnce'
<1> DEFINE r == [status |-> status, text |-> text, calls |-> calls]
<1>1. /\ responses' = Append(responses, r) /\ r \in Response
      /\ responses \in Seq(Response) /\ surfaced' = surfaced \cup calls
      /\ surfaced \subseteq Call
  BY DEF Types, TypeOK, Respond, Response
<1>2. r.calls = calls /\ r.status = status
  OBVIOUS
<1> HIDE DEF r
<1>3. /\ responses' \in Seq(Response)
      /\ Len(responses) \in Nat
      /\ DOMAIN responses = 1 .. Len(responses)
      /\ DOMAIN responses' = 1 .. Len(responses) + 1
      /\ \A i \in 1 .. Len(responses) : responses'[i] = responses[i]
      /\ responses'[Len(responses) + 1] = r
  BY <1>1
<1>4. \A i \in DOMAIN responses' : responses'[i].status \in Status
  BY <1>2, <1>3 DEF Types, TypeOK
<1>5. ASSUME Surfacing, calls \cap surfaced = {}
      PROVE  /\ \A i \in DOMAIN responses' : responses'[i].calls \subseteq surfaced'
             /\ CallsSurfacedOnce'
  <2>1. \A i \in 1 .. Len(responses) : responses'[i].calls \subseteq surfaced
    BY <1>3, <1>5 DEF Surfacing
  <2>2. ASSUME NEW i \in DOMAIN responses', NEW j \in DOMAIN responses',
               responses'[i].calls \cap responses'[j].calls # {}
        PROVE  i = j
    <3>1. CASE i \in 1 .. Len(responses) /\ j \in 1 .. Len(responses)
      BY <1>3, <1>5, <2>2, <3>1 DEF Surfacing, CallsSurfacedOnce
    <3>2. CASE i \in 1 .. Len(responses) /\ j = Len(responses) + 1
      BY <1>2, <1>3, <1>5, <2>1, <2>2, <3>2
    <3>3. CASE i = Len(responses) + 1 /\ j \in 1 .. Len(responses)
      BY <1>2, <1>3, <1>5, <2>1, <2>2, <3>3
    <3> QED
      BY <1>3, <3>1, <3>2, <3>3
  <2> QED
    BY <1>1, <1>2, <1>3, <2>1, <2>2 DEF CallsSurfacedOnce
<1> QED
  BY <1>1, <1>3, <1>4, <1>5

LEMMA RespondNothing ==
  ASSUME IInv, NEW status \in Status, Respond(status, {})
  PROVE  /\ responses' \in Seq(Response)
         /\ \A i \in DOMAIN responses' : responses'[i].status \in Status
         /\ surfaced' = surfaced
         /\ \A i \in DOMAIN responses' : responses'[i].calls \subseteq surfaced'
         /\ CallsSurfacedOnce'
<1>1. Types /\ Surfacing
  BY DEF IInv
<1>2. {} \in SUBSET Call /\ {} \cap surfaced = {} /\ surfaced \cup {} = surfaced
  OBVIOUS
<1> QED
  BY <1>1, <1>2, RespondEffect

\* What closing does to the calls and to the coroutine.
GateCloses ==
  /\ UNCHANGED <<pendingBatch, previousCount, batch>>
  /\ closed' \in BOOLEAN /\ (closed => closed')
  /\ parked' \subseteq parked /\ (closed' => parked' = {})
  /\ closed' \/ UNCHANGED parked
  /\ answer' \in [Call -> Gate!Answer]
  /\ parked' = {c \in Call : answer'[c] = "pending"}
  /\ \A c \in Call : answer[c] # "uncalled" => answer'[c] # "uncalled"
  /\ waiter' \in {"none", "blocked", "signalled", "settling", "returned"}
  /\ waiter' = "blocked" => waiter = "blocked" /\ closed' = closed
  /\ waiter' = "returned" <=> waiter = "returned"

\* forget() and teardown() leave a settled run that no registry knows, whether
\* they tear it down or find that somebody else did.
LEMMA DiscardEffect ==
  ASSUME IInv, Discard
  PROVE  /\ held' = FALSE /\ byToolCallId' = {} /\ toolTimer' = FALSE
         /\ settled' = TRUE /\ releases' = 1 /\ owned' = FALSE
         /\ run' = IF run = "running" THEN "cancelling" ELSE run
         /\ GateCloses
         /\ armed' \in BOOLEAN
<1>1. CASE settled
  <2>1. UNCHANGED <<gateVars, run, armed, releaseVars>>
    BY <1>1 DEF Discard, Teardown
  <2>2. held' = FALSE /\ byToolCallId' = {} /\ toolTimer' = FALSE
    BY <1>1 DEF Discard, IInv, Registry, RegistryAgrees, Types, TypeOK
  <2>3. settled' = TRUE /\ releases' = 1 /\ owned' = FALSE /\ armed' \in BOOLEAN
    BY <1>1, <2>1 DEF releaseVars, IInv, Ownership, Types, TypeOK
  <2>4. run' = run /\ run # "running"
    BY <1>1, <2>1 DEF IInv, Ownership
  <2>5. GateCloses
    BY <2>1 DEF GateCloses, gateVars, IInv, Types, TypeOK, GateInv, Gate!TypeOK,
                Gate!PendingIsParked
  <2> QED
    BY <2>2, <2>3, <2>4, <2>5
<1>2. CASE ~settled
  <2>1. /\ settled' = TRUE /\ armed' = FALSE /\ Gate!Close
        /\ run' = IF run = "running" THEN "cancelling" ELSE run
        /\ SafeRelease
    BY <1>2 DEF Discard, Teardown
  <2>2. held' = FALSE /\ byToolCallId' = {} /\ toolTimer' = FALSE
    BY <1>2 DEF Discard, IInv, Registry, RegistryAgrees, Types, TypeOK
  <2>3. settled' = TRUE /\ releases' = 1 /\ owned' = FALSE /\ armed' \in BOOLEAN
    <3>1. releases = 0
      BY <1>2 DEF IInv, Ownership
    <3>2. releases' = 1 /\ owned' = FALSE
      BY <2>1, <3>1 DEF SafeRelease
    <3> QED
      BY <2>1, <3>2
  <2>4. /\ ~closed
        /\ closed' = TRUE
        /\ parked' = {}
        /\ answer' = [c \in Call |-> IF c \in parked THEN "abandoned" ELSE answer[c]]
        /\ waiter' = Gate!Notified
        /\ UNCHANGED <<pendingBatch, previousCount, batch>>
    BY <1>2, <2>1 DEF Gate!Close, IInv, GateInv
  <2>5. GateCloses
    BY <2>4 DEF GateCloses, Gate!Notified, IInv, Types, TypeOK, GateInv, Gate!TypeOK,
                Gate!PendingIsParked, Gate!Answer
  <2> QED
    BY <2>1, <2>2, <2>3, <2>5
<1> QED
  BY <1>1, <1>2

\* The head of waitForBatch(), for the coroutine and for a new call of it.
LEMMA EnterWaitEffect ==
  ASSUME Assumptions, IInv, Gate!EnterWait
  PROVE  /\ waiter' \in {"blocked", "settling", "returned"}
         /\ previousCount' \in 0 .. Gate!Cardinality(Call)
         /\ batch' \subseteq Call
         /\ waiter' = "blocked" => pendingBatch = {} /\ ~closed
         /\ batch' \in {batch, {}}
         /\ waiter' = "returned" => batch' = {} /\ pendingBatch = {} /\ parked = {}
<1>1. /\ pendingBatch \subseteq Call /\ batch \subseteq Call
      /\ previousCount \in 0 .. Gate!Cardinality(Call)
      /\ closed => parked = {}
  BY DEF IInv, Types, TypeOK, Gate!TypeOK, GateInv, Gate!PendingIsParked
<1>2. Gate!Cardinality(pendingBatch) \in 0 .. Gate!Cardinality(Call)
  BY <1>1, CountOfCalls DEF Assumptions
<1>3. closed \in BOOLEAN
  BY DEF IInv, Types, TypeOK, Gate!TypeOK
<1>4. CASE pendingBatch = {} /\ closed
  BY <1>1, <1>4 DEF Gate!EnterWait
<1>5. CASE pendingBatch = {} /\ ~closed
  BY <1>1, <1>5 DEF Gate!EnterWait
<1>6. CASE pendingBatch # {}
  BY <1>1, <1>2, <1>6 DEF Gate!EnterWait
<1> QED
  BY <1>3, <1>4, <1>5, <1>6

\* The timer and the listener leave the phase to the pump they interrupt; the
\* end of a held run ends it.
LEMMA DiscardIInv ==
  ASSUME Assumptions, IInv, Discard,
         UNCHANGED <<emitted, streamEnded, pumpVars, replyVars>>,
         segmentTimedOut' \in BOOLEAN, signal' \in {"live", "aborted"},
         \/ phase \in {"racing", "waiting"} /\ phase' = phase
              /\ (segmentTimedOut' \/ signal' = "aborted")
         \/ phase = "held" /\ phase' = "over"
  PROVE  IInv'
<1>1. run # "none"
  BY DEF IInv, Ownership
<1>2. Types'
  <2>1. Gate!TypeOK'
    BY DiscardEffect DEF GateCloses, IInv, Types, TypeOK, Gate!TypeOK
  <2>2. /\ run' \in {"none", "running", "cancelling"} \cup Ended
        /\ phase' \in {"sending", "racing", "waiting", "held", "over"}
    BY DiscardEffect DEF IInv, Types, TypeOK
  <2>3. /\ held' \in BOOLEAN /\ byToolCallId' \subseteq Call /\ toolTimer' \in BOOLEAN
        /\ armed' \in BOOLEAN
        /\ settled' \in BOOLEAN /\ releases' \in Nat /\ owned' \in BOOLEAN
    BY DiscardEffect
  <2> QED
    BY <2>1, <2>2, <2>3 DEF IInv, Types, TypeOK, pumpVars, replyVars
<1>3. Promises'
  BY DEF IInv, Promises, pumpVars
<1>4. Registry' /\ Ownership' /\ Endings'
  BY <1>1, DiscardEffect DEF IInv, Registry, RegistryAgrees, Ownership, Endings, replyVars
<1>5. GateInv'
  BY DiscardEffect
     DEF GateCloses, IInv, GateInv, Gate!NoLostWakeup, Gate!PendingIsParked
<1>6. Surfacing'
  BY DiscardEffect
     DEF GateCloses, IInv, Types, TypeOK, Gate!TypeOK, Surfacing, CallsSurfacedOnce,
         replyVars
<1> QED
  BY <1>2, <1>3, <1>4, <1>5, <1>6 DEF IInv

\* After the race loop a settled run is over; any other is held or waits.
LEMMA AfterLoopEffect ==
  ASSUME IInv, phase = "racing", NEW toolBatch \in SUBSET Call, AfterLoop(toolBatch)
  PROVE  \/ /\ settled
            /\ phase' = "over"
            /\ \E status \in Status : Respond(status, {})
            /\ UNCHANGED <<gateVars, run, registryVars, armed, releaseVars>>
         \/ /\ ~settled /\ toolBatch # {}
            /\ phase' = "held"
            /\ Respond("tool_calls", toolBatch)
            /\ held' = TRUE /\ byToolCallId' = toolBatch /\ toolTimer' = TRUE
            /\ UNCHANGED <<gateVars, run, armed, releaseVars>>
         \/ /\ ~settled
            /\ phase' = "waiting"
            /\ UNCHANGED <<gateVars, run, registryVars, armed, releaseVars, replyVars>>
<1>1. held = FALSE /\ toolTimer = FALSE /\ byToolCallId = {}
  BY DEF IInv, Registry, RegistryAgrees, Types, TypeOK
<1>2. settled <=> segmentTimedOut \/ signal = "aborted"
  BY DEF IInv, Endings
<1>3. signal \in {"live", "aborted"}
  BY DEF IInv, Types, TypeOK
<1>4. CASE segmentTimedOut
  <2>1. UNCHANGED <<gateVars, run, armed, releaseVars>>
    BY <1>2, <1>4 DEF AfterLoop, Discard, Teardown
  <2>2. UNCHANGED registryVars
    BY <1>1, <1>2, <1>4 DEF AfterLoop, Discard, registryVars
  <2>3. phase' = "over" /\ Respond("timeout", {})
    BY <1>4 DEF AfterLoop
  <2> QED
    BY <1>2, <1>4, <2>1, <2>2, <2>3 DEF Status
<1>5. CASE ~segmentTimedOut /\ signal = "aborted"
  BY <1>2, <1>5 DEF AfterLoop, Status
<1>6. CASE ~segmentTimedOut /\ signal = "live" /\ toolBatch # {}
  BY <1>1, <1>2, <1>6 DEF AfterLoop
<1>7. CASE ~segmentTimedOut /\ signal = "live" /\ toolBatch = {}
  BY <1>1, <1>2, <1>7 DEF AfterLoop
<1> QED
  BY <1>3, <1>4, <1>5, <1>6, <1>7

-----------------------------------------------------------------------------
(* One lemma per action. *)

LEMMA SendOkIInv ==
  ASSUME Assumptions, IInv, SendOk
  PROVE  IInv'
<1>1. /\ phase = "sending" /\ phase' = "racing" /\ run' = "running"
      /\ armed' = (signal = "live") /\ segmentTimedOut' = FALSE
      /\ text' = <<>> /\ NextPromise /\ Gate!EnterWait
      /\ UNCHANGED <<parked, pendingBatch, closed, answer, emitted, streamEnded,
                     held, byToolCallId, toolTimer, signal, settled, releases, owned,
                     surfaced, responses>>
  BY DEF SendOk, EnterPump, registryVars, releaseVars, replyVars
<1>2. ~settled /\ signal = "live" /\ armed' = TRUE /\ waiter = "none" /\ ~closed
  BY <1>1 DEF IInv, Ownership, Endings, GateInv, Types, TypeOK
<1>3. pendingNext' = 1 /\ issued' = 1
  BY <1>1 DEF NextPromise, IInv, Promises, Types, TypeOK
<1>4. Types'
  <2>1. Gate!TypeOK'
    BY <1>1, EnterWaitEffect DEF IInv, Types, TypeOK, Gate!TypeOK
  <2>2. text' \in Seq(1 .. MaxMessages)
    BY <1>1
  <2>3. issued' \in 0 .. MaxMessages + 2 /\ pendingNext' \in 0 .. issued'
    BY <1>3, HeldRunAssumption
  <2> QED
    BY <1>1, <1>2, <2>1, <2>2, <2>3 DEF IInv, Types, TypeOK
<1>5. Promises'
  BY <1>1, <1>3 DEF IInv, Types, TypeOK, Promises
<1>6. Registry' /\ Ownership' /\ Endings'
  BY <1>1, <1>2 DEF IInv, Registry, RegistryAgrees, Ownership, Endings
<1>7. GateInv'
  BY <1>1, <1>2, EnterWaitEffect
     DEF IInv, GateInv, Gate!NoLostWakeup, Gate!PendingIsParked
<1>8. Surfacing'
  BY <1>1, <1>2, EnterWaitEffect DEF IInv, Surfacing, CallsSurfacedOnce
<1> QED
  BY <1>4, <1>5, <1>6, <1>7, <1>8 DEF IInv

LEMMA SendFailsIInv ==
  ASSUME Assumptions, IInv, SendFails
  PROVE  IInv'
<1>1. /\ phase = "sending" /\ phase' = "over" /\ owned' = FALSE
      /\ Respond("error", {})
      /\ UNCHANGED <<gateVars, runVars, pumpVars, registryVars, abortVars, settled,
                     releases, segmentTimedOut>>
  BY DEF SendFails
<1>2. /\ responses' \in Seq(Response)
      /\ \A i \in DOMAIN responses' : responses'[i].status \in Status
      /\ surfaced' = surfaced
      /\ \A i \in DOMAIN responses' : responses'[i].calls \subseteq surfaced'
      /\ CallsSurfacedOnce'
  <2>1. "error" \in Status
    BY DEF Status
  <2> QED
    BY <1>1, <2>1, RespondNothing
<1>3. Types'
  <2>1. owned' \in BOOLEAN /\ surfaced' \subseteq Call
    BY <1>1, <1>2 DEF IInv, Types, TypeOK
  <2>2. Gate!TypeOK'
    BY <1>1 DEF IInv, Types, TypeOK, Gate!TypeOK, gateVars
  <2>3. phase' \in {"sending", "racing", "waiting", "held", "over"}
    BY <1>1
  <2> QED
    BY <1>1, <1>2, <2>1, <2>2, <2>3
       DEF IInv, Types, TypeOK, runVars, pumpVars, registryVars, abortVars
<1>4. Promises' /\ Registry'
  BY <1>1, <1>2 DEF IInv, Promises, Registry, RegistryAgrees, gateVars, runVars,
                    pumpVars, registryVars
<1>5. Ownership' /\ Endings'
  BY <1>1 DEF IInv, Ownership, Endings, runVars, abortVars
<1>6. GateInv' /\ Surfacing'
  BY <1>1, <1>2 DEF IInv, GateInv, Gate!NoLostWakeup, Gate!PendingIsParked, Surfacing,
                    gateVars
<1> QED
  BY <1>3, <1>4, <1>5, <1>6 DEF IInv

LEMMA ConsumeMessageIInv ==
  ASSUME Assumptions, IInv, ConsumeMessage
  PROVE  IInv'
<1>1. /\ phase = "racing" /\ pendingNext <= emitted
      /\ text' = Append(text, pendingNext)
      /\ pendingNext' = issued + 1 /\ issued' = issued + 1
      /\ UNCHANGED <<gateVars, runVars, registryVars, abortVars, releaseVars,
                     replyVars, phase, segmentTimedOut>>
  BY DEF ConsumeMessage
<1>2. /\ pendingNext = issued /\ issued \in Nat /\ emitted \in 0 .. MaxMessages
      /\ pendingNext \in 1 .. MaxMessages
  BY <1>1, HeldRunAssumption DEF IInv, Promises, Types, TypeOK
<1>3. Types'
  <2>1. text' \in Seq(1 .. MaxMessages)
    BY <1>1, <1>2 DEF IInv, Types, TypeOK
  <2>2. pendingNext' \in 0 .. issued' /\ issued' \in 0 .. MaxMessages + 2
    BY <1>1, <1>2, HeldRunAssumption
  <2> QED
    BY <1>1, <2>1, <2>2
       DEF IInv, Types, TypeOK, Gate!TypeOK, gateVars, runVars, registryVars, abortVars,
           releaseVars, replyVars
<1>4. Promises'
  BY <1>1, <1>2 DEF IInv, Promises, runVars
<1>5. Registry' /\ Ownership' /\ Endings'
  BY <1>1 DEF IInv, Registry, RegistryAgrees, Ownership, Endings, gateVars, runVars,
              registryVars, abortVars, releaseVars, replyVars
<1>6. GateInv' /\ Surfacing'
  BY <1>1 DEF IInv, GateInv, Gate!NoLostWakeup, Gate!PendingIsParked, Surfacing,
              CallsSurfacedOnce, gateVars, releaseVars, replyVars
<1> QED
  BY <1>3, <1>4, <1>5, <1>6 DEF IInv

LEMMA StreamDoneIInv ==
  ASSUME Assumptions, IInv, StreamDone
  PROVE  IInv'
<1>1. /\ phase = "racing" /\ pendingNext' = 0 /\ AfterLoop({})
      /\ UNCHANGED <<emitted, streamEnded, issued, text, signal, segmentTimedOut>>
  BY DEF StreamDone
<1>2. \/ /\ settled
         /\ phase' = "over"
         /\ \E status \in Status : Respond(status, {})
         /\ UNCHANGED <<gateVars, run, registryVars, armed, releaseVars>>
      \/ /\ ~settled
         /\ phase' = "waiting"
         /\ UNCHANGED <<gateVars, run, registryVars, armed, releaseVars, replyVars>>
  <2>1. {} \in SUBSET Call
    OBVIOUS
  <2> QED
    BY <1>1, <2>1, AfterLoopEffect
<1>3. /\ responses' \in Seq(Response)
      /\ \A i \in DOMAIN responses' : responses'[i].status \in Status
      /\ surfaced' = surfaced
      /\ \A i \in DOMAIN responses' : responses'[i].calls \subseteq surfaced'
      /\ CallsSurfacedOnce'
  <2>1. CASE \E status \in Status : Respond(status, {})
    BY <2>1, RespondNothing
  <2>2. CASE UNCHANGED replyVars
    BY <2>2 DEF replyVars, IInv, Types, TypeOK, Surfacing, CallsSurfacedOnce
  <2> QED
    BY <1>2, <2>1, <2>2
<1>4. /\ phase' \in {"over", "waiting"} /\ (phase' = "over" <=> settled)
      /\ UNCHANGED <<gateVars, run, registryVars, armed, releaseVars>>
  BY <1>2
<1>5. Types'
  BY <1>1, <1>3, <1>4
     DEF IInv, Types, TypeOK, Gate!TypeOK, gateVars, registryVars, releaseVars
<1>6. Promises'
  BY <1>1, <1>4 DEF IInv, Promises
<1>7. Registry' /\ Ownership' /\ Endings'
  BY <1>1, <1>3, <1>4 DEF IInv, Registry, RegistryAgrees, Ownership, Endings, gateVars,
                          registryVars, releaseVars
<1>8. GateInv' /\ Surfacing'
  BY <1>1, <1>3, <1>4 DEF IInv, GateInv, Gate!NoLostWakeup, Gate!PendingIsParked,
                          Surfacing, gateVars, releaseVars
<1> QED
  BY <1>5, <1>6, <1>7, <1>8 DEF IInv

LEMMA BatchReadyIInv ==
  ASSUME Assumptions, IInv, BatchReady
  PROVE  IInv'
<1>1. /\ phase = "racing" /\ waiter = "returned" /\ AfterLoop(batch)
      /\ UNCHANGED <<emitted, streamEnded, pumpVars, signal, segmentTimedOut>>
  BY DEF BatchReady
<1>2. /\ batch \in SUBSET Call /\ batch \cap surfaced = {}
      /\ held = FALSE /\ byToolCallId = {}
      /\ settled \/ batch \subseteq parked
  BY <1>1 DEF IInv, Types, TypeOK, Gate!TypeOK, Registry, RegistryAgrees, GateInv, Surfacing
<1>3. CASE /\ phase' \in {"over", "waiting"} /\ (phase' = "over" <=> settled)
           /\ UNCHANGED <<gateVars, run, registryVars, armed, releaseVars>>
           /\ (UNCHANGED replyVars \/ \E status \in Status : Respond(status, {}))
  <2>1. /\ responses' \in Seq(Response)
        /\ \A i \in DOMAIN responses' : responses'[i].status \in Status
        /\ surfaced' = surfaced
        /\ \A i \in DOMAIN responses' : responses'[i].calls \subseteq surfaced'
        /\ CallsSurfacedOnce'
    <3>1. CASE \E status \in Status : Respond(status, {})
      BY <3>1, RespondNothing
    <3>2. CASE UNCHANGED replyVars
      BY <3>2 DEF replyVars, IInv, Types, TypeOK, Surfacing, CallsSurfacedOnce
    <3> QED
      BY <1>3, <3>1, <3>2
  <2>2. Types'
    BY <1>1, <1>3, <2>1
       DEF IInv, Types, TypeOK, Gate!TypeOK, gateVars, pumpVars, registryVars, releaseVars
  <2>3. Promises'
    BY <1>1, <1>3 DEF IInv, Promises, pumpVars
  <2>4. Registry' /\ Ownership' /\ Endings'
    BY <1>1, <1>3, <2>1 DEF IInv, Registry, RegistryAgrees, Ownership, Endings, gateVars,
                            registryVars, releaseVars
  <2>5. GateInv' /\ Surfacing'
    BY <1>1, <1>3, <2>1 DEF IInv, GateInv, Gate!NoLostWakeup, Gate!PendingIsParked,
                            Surfacing, gateVars, releaseVars
  <2> QED
    BY <2>2, <2>3, <2>4, <2>5 DEF IInv
<1>4. CASE /\ ~settled /\ batch # {}
           /\ phase' = "held"
           /\ Respond("tool_calls", batch)
           /\ held' = TRUE /\ byToolCallId' = batch /\ toolTimer' = TRUE
           /\ UNCHANGED <<gateVars, run, armed, releaseVars>>
  <2>1. /\ responses' \in Seq(Response)
        /\ \A i \in DOMAIN responses' : responses'[i].status \in Status
        /\ surfaced' = surfaced \cup batch
        /\ surfaced' \subseteq Call
        /\ \A i \in DOMAIN responses' : responses'[i].calls \subseteq surfaced'
        /\ CallsSurfacedOnce'
    <3>1. Types /\ Surfacing /\ "tool_calls" \in Status
      BY DEF IInv, Status
    <3> QED
      BY <1>2, <1>4, <3>1, RespondEffect
  <2>2. Types'
    BY <1>1, <1>2, <1>4, <2>1
       DEF IInv, Types, TypeOK, Gate!TypeOK, gateVars, pumpVars, releaseVars
  <2>3. Promises'
    BY <1>1, <1>4 DEF IInv, Promises, pumpVars
  <2>4. Registry' /\ Ownership' /\ Endings'
    BY <1>1, <1>2, <1>4, <2>1 DEF IInv, Registry, RegistryAgrees, Ownership, Endings,
                                  gateVars, releaseVars
  <2>5. GateInv' /\ Surfacing'
    BY <1>1, <1>4, <2>1 DEF IInv, GateInv, Gate!NoLostWakeup, Gate!PendingIsParked,
                            Surfacing, gateVars, releaseVars
  <2> QED
    BY <2>2, <2>3, <2>4, <2>5 DEF IInv
<1> QED
  BY <1>1, <1>2, <1>3, <1>4, AfterLoopEffect

LEMMA RunWaitDoneIInv ==
  ASSUME Assumptions, IInv, RunWaitDone
  PROVE  IInv'
<1>1. /\ phase = "waiting" /\ run \in Ended /\ Settle
      /\ \E status \in Status : Respond(status, {})
      /\ phase' = "over"
      /\ UNCHANGED <<gateVars, runVars, pumpVars, held, byToolCallId, signal,
                     segmentTimedOut>>
  BY DEF RunWaitDone, Status
<1>2. /\ responses' \in Seq(Response)
      /\ \A i \in DOMAIN responses' : responses'[i].status \in Status
      /\ surfaced' = surfaced
      /\ \A i \in DOMAIN responses' : responses'[i].calls \subseteq surfaced'
      /\ CallsSurfacedOnce'
  BY <1>1, RespondNothing
<1>3. held = FALSE /\ toolTimer = FALSE
  BY <1>1 DEF IInv, Registry, RegistryAgrees, Types, TypeOK
<1>4. settled' /\ releases' = 1 /\ owned' = FALSE /\ toolTimer' = FALSE /\ armed' \in BOOLEAN
  <2>1. CASE settled
    BY <1>1, <1>3, <2>1 DEF Settle, releaseVars, IInv, Ownership, Types, TypeOK
  <2>2. CASE ~settled
    <3>1. releases = 0
      BY <2>2 DEF IInv, Ownership
    <3>2. /\ settled' = TRUE /\ toolTimer' = FALSE /\ armed' = FALSE
          /\ releases' = releases + 1 /\ owned' = FALSE
      BY <1>1, <2>2 DEF Settle, SafeRelease
    <3>3. releases' = 1
      BY <3>1, <3>2
    <3> QED
      BY <3>2, <3>3
  <2> QED
    BY <2>1, <2>2
<1>5. settled' = TRUE
  BY <1>1, <1>4 DEF Settle, releaseVars, IInv, Types, TypeOK
<1>6. Types'
  BY <1>1, <1>2, <1>4, <1>5
     DEF IInv, Types, TypeOK, Gate!TypeOK, gateVars, runVars, pumpVars
<1>7. Promises'
  BY <1>1 DEF IInv, Promises, runVars, pumpVars
<1>8. Registry' /\ Ownership' /\ Endings'
  BY <1>1, <1>2, <1>3, <1>4 DEF IInv, Registry, RegistryAgrees, Ownership, Endings, Ended,
                                gateVars, runVars
<1>9. GateInv' /\ Surfacing'
  BY <1>1, <1>2, <1>4 DEF IInv, GateInv, Gate!NoLostWakeup, Gate!PendingIsParked,
                          Surfacing, gateVars
<1> QED
  BY <1>6, <1>7, <1>8, <1>9 DEF IInv

LEMMA SegmentTimeoutIInv ==
  ASSUME Assumptions, IInv, SegmentTimeout
  PROVE  IInv'
<1>1. /\ phase \in {"racing", "waiting"} /\ segmentTimedOut' = TRUE
      /\ UNCHANGED <<emitted, streamEnded, pumpVars, signal, replyVars, phase>>
      /\ Discard
  BY DEF SegmentTimeout
<1>2. signal' \in {"live", "aborted"} /\ segmentTimedOut' \in BOOLEAN
  BY <1>1 DEF IInv, Types, TypeOK
<1> QED
  BY <1>1, <1>2, DiscardIInv

LEMMA ClientAbortsIInv ==
  ASSUME Assumptions, IInv, ClientAborts
  PROVE  IInv'
<1>1. /\ phase \in {"racing", "waiting"} /\ signal' = "aborted"
      /\ UNCHANGED <<emitted, streamEnded, pumpVars, replyVars, phase, segmentTimedOut>>
  BY DEF ClientAborts, Assumptions
<1>2. CASE armed /\ Discard
  BY <1>1, <1>2, DiscardIInv DEF IInv, Types, TypeOK
<1>3. CASE ~armed /\ UNCHANGED <<gateVars, run, registryVars, armed, releaseVars>>
  <2>1. settled
    BY <1>1, <1>3 DEF IInv, Endings
  <2>2. Types'
    BY <1>1, <1>3 DEF IInv, Types, TypeOK, Gate!TypeOK, gateVars, pumpVars, registryVars,
                      releaseVars, replyVars
  <2>3. Promises' /\ Registry' /\ Ownership' /\ Endings'
    BY <1>1, <1>3, <2>1 DEF IInv, Promises, Registry, RegistryAgrees, Ownership, Endings,
                            gateVars, pumpVars, registryVars, releaseVars, replyVars
  <2>4. GateInv' /\ Surfacing'
    BY <1>1, <1>3 DEF IInv, GateInv, Gate!NoLostWakeup, Gate!PendingIsParked, Surfacing,
                      CallsSurfacedOnce, gateVars, releaseVars, replyVars
  <2> QED
    BY <2>2, <2>3, <2>4 DEF IInv
<1> QED
  BY <1>2, <1>3 DEF ClientAborts

LEMMA HeldRunEndsIInv ==
  ASSUME Assumptions, IInv, HeldRunExpires \/ Shutdown
  PROVE  IInv'
<1>1. /\ phase = "held" /\ phase' = "over"
      /\ UNCHANGED <<emitted, streamEnded, pumpVars, signal, replyVars, segmentTimedOut>>
      /\ Discard
  BY DEF HeldRunExpires, Shutdown
<1> QED
  BY <1>1, DiscardIInv DEF IInv, Types, TypeOK

\* The catch block ends the request and the run, if the timer or the listener
\* has not ended it before.
LEMMA StreamFailsIInv ==
  ASSUME Assumptions, IInv, StreamFails
  PROVE  IInv'
<1>1. /\ phase = "racing" /\ phase' = "over" /\ Respond("error", {}) /\ Discard
      /\ UNCHANGED <<emitted, streamEnded, pumpVars, signal, segmentTimedOut>>
  BY DEF StreamFails
<1>2. /\ responses' \in Seq(Response)
      /\ \A i \in DOMAIN responses' : responses'[i].status \in Status
      /\ surfaced' = surfaced
      /\ \A i \in DOMAIN responses' : responses'[i].calls \subseteq surfaced'
      /\ CallsSurfacedOnce'
  <2>1. "error" \in Status
    BY DEF Status
  <2> QED
    BY <1>1, <2>1, RespondNothing
<1>3. run # "none"
  BY <1>1 DEF IInv, Ownership
<1>4. Types'
  <2>1. Gate!TypeOK'
    BY <1>1, DiscardEffect DEF GateCloses, IInv, Types, TypeOK, Gate!TypeOK
  <2>2. /\ run' \in {"none", "running", "cancelling"} \cup Ended
        /\ phase' \in {"sending", "racing", "waiting", "held", "over"}
        /\ surfaced' \subseteq Call
    BY <1>1, <1>2, DiscardEffect DEF IInv, Types, TypeOK
  <2>3. /\ held' \in BOOLEAN /\ byToolCallId' \subseteq Call /\ toolTimer' \in BOOLEAN
        /\ armed' \in BOOLEAN
        /\ settled' \in BOOLEAN /\ releases' \in Nat /\ owned' \in BOOLEAN
    BY <1>1, DiscardEffect
  <2> QED
    BY <1>1, <1>2, <2>1, <2>2, <2>3 DEF IInv, Types, TypeOK, pumpVars
<1>5. Promises'
  BY <1>1 DEF IInv, Promises, pumpVars
<1>6. Registry' /\ Ownership' /\ Endings'
  BY <1>1, <1>2, <1>3, DiscardEffect
     DEF IInv, Registry, RegistryAgrees, Ownership, Endings
<1>7. GateInv'
  BY <1>1, DiscardEffect
     DEF GateCloses, IInv, GateInv, Gate!NoLostWakeup, Gate!PendingIsParked
<1>8. Surfacing'
  BY <1>1, <1>2, DiscardEffect
     DEF GateCloses, IInv, Types, TypeOK, Gate!TypeOK, Surfacing
<1> QED
  BY <1>4, <1>5, <1>6, <1>7, <1>8 DEF IInv

LEMMA GateResumesIInv ==
  ASSUME Assumptions, IInv, GateResumes
  PROVE  IInv'
<1>1. /\ waiter = "signalled" /\ Gate!EnterWait
      /\ UNCHANGED <<parked, pendingBatch, closed, answer>>
      /\ UNCHANGED <<runVars, pumpVars, registryVars, abortVars, releaseVars, replyVars,
                     phase, segmentTimedOut>>
  BY DEF GateResumes, Gate!Resume
<1>2. Types'
  <2>1. Gate!TypeOK'
    BY <1>1, EnterWaitEffect DEF IInv, Types, TypeOK, Gate!TypeOK
  <2> QED
    BY <1>1, <2>1 DEF IInv, Types, TypeOK, runVars, pumpVars, registryVars, abortVars,
                      releaseVars, replyVars
<1>3. Promises' /\ Registry' /\ Ownership' /\ Endings'
  BY <1>1 DEF IInv, Promises, Registry, RegistryAgrees, Ownership, Endings, runVars,
              pumpVars, registryVars, abortVars, releaseVars, replyVars
<1>4. GateInv'
  BY <1>1, EnterWaitEffect
     DEF IInv, GateInv, Gate!NoLostWakeup, Gate!PendingIsParked, releaseVars
<1>5. Surfacing'
  BY <1>1, EnterWaitEffect DEF IInv, GateInv, Surfacing, CallsSurfacedOnce, replyVars
<1> QED
  BY <1>2, <1>3, <1>4, <1>5 DEF IInv

LEMMA GateSettlesIInv ==
  ASSUME Assumptions, IInv, GateSettles
  PROVE  IInv'
<1>1. /\ waiter = "settling"
      /\ UNCHANGED <<parked, closed, answer>>
      /\ UNCHANGED <<runVars, pumpVars, registryVars, abortVars, releaseVars, replyVars,
                     phase, segmentTimedOut>>
      /\ \/ /\ waiter' = "returned" /\ batch' = pendingBatch /\ pendingBatch' = {}
            /\ UNCHANGED previousCount
         \/ /\ previousCount' = Gate!Cardinality(pendingBatch)
            /\ UNCHANGED <<waiter, batch, pendingBatch>>
  BY DEF GateSettles, Gate!SettleTick
<1>2. Types'
  <2>1. Gate!Cardinality(pendingBatch) \in 0 .. Gate!Cardinality(Call)
    BY CountOfCalls DEF Assumptions, IInv, Types, TypeOK, Gate!TypeOK
  <2>2. Gate!TypeOK'
    BY <1>1, <2>1 DEF IInv, Types, TypeOK, Gate!TypeOK
  <2> QED
    BY <1>1, <2>2 DEF IInv, Types, TypeOK, runVars, pumpVars, registryVars, abortVars,
                      releaseVars, replyVars
<1>3. Promises' /\ Registry' /\ Ownership' /\ Endings'
  BY <1>1 DEF IInv, Promises, Registry, RegistryAgrees, Ownership, Endings, runVars,
              pumpVars, registryVars, abortVars, releaseVars, replyVars
<1>4. GateInv'
  BY <1>1 DEF IInv, GateInv, Gate!NoLostWakeup, Gate!PendingIsParked, releaseVars
<1>5. Surfacing'
  BY <1>1 DEF IInv, GateInv, Surfacing, CallsSurfacedOnce, replyVars
<1> QED
  BY <1>2, <1>3, <1>4, <1>5 DEF IInv

LEMMA ModelCallsIInv ==
  ASSUME Assumptions, IInv, NEW c \in Call, ModelCalls(c)
  PROVE  IInv'
<1>1. /\ run \in {"running", "cancelling"}
      /\ answer[c] = "uncalled"
      /\ UNCHANGED <<closed, previousCount, batch>>
      /\ UNCHANGED <<runVars, pumpVars, registryVars, abortVars, releaseVars, replyVars,
                     phase, segmentTimedOut>>
  BY DEF ModelCalls, Gate!Park
<1>2. c \notin surfaced \cup pendingBatch \cup batch /\ c \notin parked
  BY <1>1 DEF IInv, Surfacing, GateInv, Gate!PendingIsParked
<1>3. CASE /\ closed
           /\ answer' = [answer EXCEPT ![c] = "abandoned"]
           /\ UNCHANGED <<parked, pendingBatch, waiter>>
  <2>1. Gate!TypeOK'
    BY <1>1, <1>3 DEF IInv, Types, TypeOK, Gate!TypeOK, Gate!Answer
  <2>2. GateInv'
    BY <1>1, <1>3 DEF IInv, Types, TypeOK, Gate!TypeOK, GateInv, Gate!NoLostWakeup,
                      Gate!PendingIsParked, releaseVars
  <2>3. Surfacing'
    BY <1>1, <1>3 DEF IInv, Types, TypeOK, Gate!TypeOK, Surfacing, CallsSurfacedOnce,
                      replyVars
  <2> QED
    BY <1>1, <1>3, <2>1, <2>2, <2>3
       DEF IInv, Types, TypeOK, Promises, Registry, RegistryAgrees, Ownership, Endings,
           runVars, pumpVars, registryVars, abortVars, releaseVars, replyVars
<1>4. CASE /\ ~closed
           /\ answer' = [answer EXCEPT ![c] = "pending"]
           /\ parked' = parked \cup {c}
           /\ pendingBatch' = pendingBatch \cup {c}
           /\ waiter' = Gate!Notified
  <2>1. Gate!TypeOK'
    BY <1>1, <1>4 DEF IInv, Types, TypeOK, Gate!TypeOK, Gate!Answer, Gate!Notified
  <2>2. GateInv'
    BY <1>1, <1>2, <1>4
       DEF IInv, Types, TypeOK, Gate!TypeOK, GateInv, Gate!NoLostWakeup,
           Gate!PendingIsParked, Gate!Notified, Ownership, releaseVars
  <2>3. Surfacing'
    BY <1>1, <1>2, <1>4
       DEF IInv, Types, TypeOK, Gate!TypeOK, Surfacing, CallsSurfacedOnce, Gate!Notified,
           replyVars
  <2> QED
    BY <1>1, <1>4, <2>1, <2>2, <2>3
       DEF IInv, Types, TypeOK, Promises, Registry, RegistryAgrees, Ownership, Endings,
           runVars, pumpVars, registryVars, abortVars, releaseVars, replyVars
<1> QED
  BY <1>3, <1>4 DEF ModelCalls, Gate!Park

LEMMA ContinueIInv ==
  ASSUME Assumptions, IInv, NEW S \in SUBSET byToolCallId, Continue(S)
  PROVE  IInv'
<1>1. /\ phase = "held" /\ phase' = "racing" /\ segmentTimedOut' = FALSE
      /\ held' = FALSE /\ byToolCallId' = {} /\ toolTimer' = FALSE
      /\ signal' = "live" /\ armed' = TRUE
      /\ text' = <<>> /\ NextPromise /\ Gate!EnterWait
      /\ parked' = parked \ S
      /\ answer' = [c \in Call |-> IF c \in S \cap parked THEN "result" ELSE answer[c]]
      /\ UNCHANGED <<pendingBatch, closed, runVars, releaseVars, replyVars>>
  BY DEF Continue, EnterPump, Gate!Deliver
<1>2. ~settled /\ ~closed /\ waiter = "returned" /\ S \cap pendingBatch = {}
  BY <1>1 DEF IInv, Ownership, GateInv, Registry, Surfacing
<1>3. UNCHANGED <<pendingNext, issued>> /\ pendingNext # 0
  BY <1>1 DEF NextPromise, IInv, Promises
<1>4. Types'
  <2>1. Gate!TypeOK'
    BY <1>1, EnterWaitEffect DEF IInv, Types, TypeOK, Gate!TypeOK, Gate!Answer
  <2>2. text' \in Seq(1 .. MaxMessages)
    BY <1>1
  <2> QED
    BY <1>1, <1>3, <2>1, <2>2
       DEF IInv, Types, TypeOK, runVars, releaseVars, replyVars
<1>5. Promises' /\ Registry' /\ Ownership' /\ Endings'
  BY <1>1, <1>2, <1>3 DEF IInv, Promises, Registry, RegistryAgrees, Ownership, Endings,
                          runVars, releaseVars, replyVars
<1>6. GateInv'
  BY <1>1, <1>2, EnterWaitEffect
     DEF IInv, Types, TypeOK, Gate!TypeOK, GateInv, Gate!NoLostWakeup,
         Gate!PendingIsParked, releaseVars
<1>7. Surfacing'
  BY <1>1, <1>2, EnterWaitEffect
     DEF IInv, Types, TypeOK, Gate!TypeOK, GateInv, Gate!PendingIsParked, Surfacing,
         CallsSurfacedOnce, replyVars
<1> QED
  BY <1>4, <1>5, <1>6, <1>7 DEF IInv

LEMMA CursorRunIInv ==
  ASSUME Assumptions, IInv, Emit \/ StreamEnds \/ RunEnds
  PROVE  IInv'
<1>1. /\ run \in {"running", "cancelling"}
      /\ run' \in {run} \cup Ended
      /\ emitted' \in {emitted, emitted + 1} /\ emitted' \in 0 .. MaxMessages
      /\ streamEnded' \in BOOLEAN
      /\ UNCHANGED <<gateVars, pumpVars, registryVars, abortVars, releaseVars, replyVars,
                     phase, segmentTimedOut>>
  <2>1. emitted \in 0 .. MaxMessages /\ streamEnded \in BOOLEAN
    BY DEF IInv, Types, TypeOK
  <2>2. CASE Emit
    BY <2>1, <2>2, HeldRunAssumption DEF Emit
  <2>3. CASE StreamEnds
    BY <2>1, <2>3 DEF StreamEnds
  <2>4. CASE RunEnds
    BY <2>1, <2>4 DEF RunEnds, Ended
  <2> QED
    BY <2>2, <2>3, <2>4
<1>2. Types'
  BY <1>1 DEF IInv, Types, TypeOK, Gate!TypeOK, gateVars, pumpVars, registryVars,
              abortVars, releaseVars, replyVars
<1>3. Promises'
  <2>1. issued \in Nat /\ emitted \in Nat /\ issued <= emitted + 1
    BY HeldRunAssumption DEF IInv, Types, TypeOK, Promises
  <2>2. issued <= emitted' + 1
    <3>1. CASE emitted' = emitted
      BY <2>1, <3>1
    <3>2. CASE emitted' = emitted + 1
      BY <2>1, <3>2
    <3> QED
      BY <1>1, <3>1, <3>2
  <2>3. pendingNext' = pendingNext /\ issued' = issued /\ phase' = phase
    BY <1>1 DEF pumpVars
  <2> QED
    BY <2>2, <2>3 DEF IInv, Promises
<1>4. Registry' /\ Ownership' /\ Endings'
  BY <1>1 DEF IInv, Registry, RegistryAgrees, Ownership, Endings, Ended, gateVars,
              registryVars, abortVars, releaseVars, replyVars
<1>5. GateInv' /\ Surfacing'
  BY <1>1 DEF IInv, GateInv, Gate!NoLostWakeup, Gate!PendingIsParked, Surfacing,
              CallsSurfacedOnce, gateVars, releaseVars, replyVars
<1> QED
  BY <1>2, <1>3, <1>4, <1>5 DEF IInv

LEMMA StutterIInv ==
  ASSUME IInv, UNCHANGED vars
  PROVE  IInv'
<1>1. Types'
  BY DEF IInv, Types, TypeOK, Gate!TypeOK, vars, gateVars, runVars, pumpVars,
         registryVars, abortVars, releaseVars, replyVars
<1>2. Promises' /\ Registry' /\ Ownership' /\ Endings'
  BY DEF IInv, Promises, Registry, RegistryAgrees, Ownership, Endings, vars, gateVars,
         runVars, pumpVars, registryVars, abortVars, releaseVars, replyVars
<1>3. GateInv' /\ Surfacing'
  BY DEF IInv, GateInv, Gate!NoLostWakeup, Gate!PendingIsParked, Surfacing,
         CallsSurfacedOnce, vars, gateVars, releaseVars, replyVars
<1> QED
  BY <1>1, <1>2, <1>3 DEF IInv

-----------------------------------------------------------------------------

LEMMA NextIInv ==
  ASSUME Assumptions
  PROVE  IInv /\ [Next]_vars => IInv'
<1> SUFFICES ASSUME IInv, [Next]_vars
             PROVE  IInv'
  OBVIOUS
<1>1. CASE SendOk \/ SendFails
  BY <1>1, SendOkIInv, SendFailsIInv
<1>2. CASE \/ ConsumeMessage \/ StreamDone \/ StreamFails \/ BatchReady
           \/ RunWaitDone \/ SegmentTimeout
  BY <1>2, ConsumeMessageIInv, StreamDoneIInv, StreamFailsIInv, BatchReadyIInv,
     RunWaitDoneIInv, SegmentTimeoutIInv
<1>3. CASE GateResumes \/ GateSettles
  BY <1>3, GateResumesIInv, GateSettlesIInv
<1>4. CASE ClientAborts \/ HeldRunExpires \/ Shutdown
  BY <1>4, ClientAbortsIInv, HeldRunEndsIInv
<1>5. ASSUME NEW S \in SUBSET byToolCallId, Continue(S)
      PROVE  IInv'
  BY <1>5, ContinueIInv
<1>6. CASE Emit \/ StreamEnds \/ RunEnds
  BY <1>6, CursorRunIInv
<1>7. ASSUME NEW c \in Call, ModelCalls(c)
      PROVE  IInv'
  BY <1>7, ModelCallsIInv
<1>8. CASE UNCHANGED vars
  BY <1>8, StutterIInv
<1> QED
  BY <1>1, <1>2, <1>3, <1>4, <1>5, <1>6, <1>7, <1>8 DEF Next

\* IInv holds of every reachable state.
THEOREM Invariance ==
  ASSUME Assumptions
  PROVE  Spec => []IInv
<1>1. Init => IInv
  BY InitIInv
<1>2. IInv /\ [Next]_vars => IInv'
  BY NextIInv
<1> QED
  BY <1>1, <1>2, PTL DEF Spec

\* Every variable of HeldRun stays in its type.
THEOREM TypeCorrect ==
  ASSUME Assumptions
  PROVE  Spec => []TypeOK
<1>1. IInv => TypeOK
  BY DEF IInv, Types
<1> QED
  BY <1>1, Invariance, PTL

\* The registry, the timer and the parked calls agree with the run's life.
THEOREM RegistryIsExact ==
  ASSUME Assumptions
  PROVE  Spec => []RegistryAgrees
<1>1. IInv => RegistryAgrees
  BY DEF IInv, Registry
<1> QED
  BY <1>1, Invariance, PTL

\* Mutex and slot are kept as long as the run lives or is held.
THEOREM OwnedUntilSettled ==
  ASSUME Assumptions
  PROVE  Spec => []OwnedWhileAlive
<1>1. IInv => OwnedWhileAlive
  BY DEF IInv, Ownership, OwnedWhileAlive
<1> QED
  BY <1>1, Invariance, PTL

\* Whatever ends a run, they are released once.
THEOREM ResourcesAreReleasedOnce ==
  ASSUME Assumptions
  PROVE  Spec => []ReleasedOnce
<1>1. IInv => ReleasedOnce
  BY DEF IInv, Ownership, ReleasedOnce
<1> QED
  BY <1>1, Invariance, PTL

\* The gate never sleeps over a call, never forgets one and abandons what it
\* holds when the run is torn down.
THEOREM GateLosesNoCall ==
  ASSUME Assumptions
  PROVE  Spec => []GateSound
<1>1. IInv => GateSound
  BY DEF IInv, GateInv, Surfacing, Ownership, GateSound
<1> QED
  BY <1>1, Invariance, PTL

\* No tool call is shown to the client twice.
THEOREM CallsAreSurfacedOnce ==
  ASSUME Assumptions
  PROVE  Spec => []CallsSurfacedOnce
<1>1. IInv => CallsSurfacedOnce
  BY DEF IInv, Surfacing
<1> QED
  BY <1>1, Invariance, PTL

-----------------------------------------------------------------------------
(* Every step of the run is a step of the tool loop. *)

\* How a step moves the request and what it may do to `settled`.
PhaseStep ==
  \/ Open /\ Open' /\ (settled => settled')
  \/ Open /\ phase' = "held" /\ settled' = settled
  \/ Open /\ phase' = "over"
  \/ phase = "held" /\ phase' = "racing" /\ settled' = settled
  \/ phase = "held" /\ phase' \in {"held", "over"}
  \/ phase = "over" /\ phase' = "over"

LEMMA StepsMovePhase ==
  ASSUME Assumptions, IInv, [Next]_vars
  PROVE  PhaseStep
<1>0. phase \in {"sending", "racing", "waiting", "held", "over"}
  BY DEF IInv, Types, TypeOK
<1>1. CASE SendOk \/ SendFails
  BY <1>1 DEF SendOk, SendFails, EnterPump, releaseVars, PhaseStep, Open
<1>2. CASE StreamDone \/ BatchReady
  <2>1. phase = "racing" /\ \E toolBatch : AfterLoop(toolBatch)
    BY <1>2 DEF StreamDone, BatchReady
  <2>2. phase' = "over" \/ (phase' \in {"held", "waiting"} /\ settled' = settled)
    BY <2>1 DEF AfterLoop, releaseVars
  <2> QED
    BY <2>1, <2>2 DEF PhaseStep, Open
<1>3. CASE RunWaitDone \/ StreamFails
  BY <1>3 DEF RunWaitDone, StreamFails, PhaseStep, Open
<1>4. CASE SegmentTimeout \/ ClientAborts
  <2>1. Open /\ phase' = phase
    BY <1>4 DEF SegmentTimeout, ClientAborts, Assumptions, Open
  <2>2. settled => settled'
    BY <1>4 DEF SegmentTimeout, ClientAborts, Discard, Teardown, releaseVars
  <2> QED
    BY <2>1, <2>2 DEF PhaseStep, Open
<1>5. CASE HeldRunExpires \/ Shutdown
  BY <1>5 DEF HeldRunExpires, Shutdown, PhaseStep
<1>6. ASSUME NEW S \in SUBSET byToolCallId, Continue(S)
      PROVE  PhaseStep
  BY <1>6 DEF Continue, EnterPump, releaseVars, PhaseStep
<1>7. CASE UNCHANGED <<phase, releaseVars>>
  BY <1>0, <1>7 DEF releaseVars, PhaseStep, Open
<1>8. CASE ConsumeMessage \/ GateResumes \/ GateSettles
  BY <1>7, <1>8 DEF ConsumeMessage, GateResumes, GateSettles
<1>9. CASE Emit \/ StreamEnds \/ RunEnds \/ \E c \in Call : ModelCalls(c)
  BY <1>7, <1>9 DEF Emit, StreamEnds, RunEnds, ModelCalls
<1>10. CASE UNCHANGED vars
  BY <1>7, <1>10 DEF vars
<1> QED
  BY <1>1, <1>2, <1>3, <1>4, <1>5, <1>6, <1>8, <1>9, <1>10 DEF Next

LEMMA StepSimulates ==
  ASSUME Assumptions, IInv, IInv', [Next]_vars
  PROVE  [Loop!Next]_(Loop!loopVars)
<1>1. /\ owned = (phase # "over" /\ ~settled)
      /\ owned' = (phase' # "over" /\ ~settled')
      /\ phase = "held" => ~settled
      /\ phase' = "held" => ~settled'
  BY DEF IInv, Ownership, Types, TypeOK
<1>2. /\ Open => Stage = "working" /\ phase # "over"
      /\ phase = "held" => Stage = "asking"
      /\ phase = "over" => Stage = "over"
  BY DEF Stage, Open
<1>3. /\ Open' => Stage' = "working" /\ phase' # "over"
      /\ phase' = "held" => Stage' = "asking"
      /\ phase' = "over" => Stage' = "over"
  BY DEF Stage, Open
<1>4. CASE Open /\ Open' /\ (settled => settled')
  <2>1. CASE settled' = settled
    BY <1>1, <1>2, <1>3, <1>4, <2>1 DEF Loop!loopVars
  <2>2. CASE ~settled /\ settled'
    <3>1. Stage = "working" /\ Stage' = Stage /\ owned /\ owned' = FALSE
      BY <1>1, <1>2, <1>3, <1>4, <2>2
    <3> QED
      BY <3>1 DEF Loop!Next, Loop!GiveUp
  <2> QED
    BY <1>4, <2>1, <2>2 DEF IInv, Types, TypeOK
<1>5. CASE Open /\ phase' = "held" /\ settled' = settled
  <2>1. /\ Stage = "working" /\ Stage' = "asking" /\ owned' = TRUE
        /\ owned
    BY <1>1, <1>2, <1>3, <1>5
  <2> QED
    BY <2>1 DEF Loop!Next, Loop!Ask, IInv, Types, TypeOK
<1>6. CASE Open /\ phase' = "over"
  BY <1>1, <1>2, <1>3, <1>6 DEF Loop!Next, Loop!Finish
<1>7. CASE phase = "held" /\ phase' = "racing" /\ settled' = settled
  <2>1. Stage = "asking" /\ Stage' = "working" /\ owned /\ owned' = owned
    BY <1>1, <1>2, <1>3, <1>7 DEF Open
  <2> QED
    BY <2>1 DEF Loop!Next, Loop!Resume
<1>8. CASE phase = "held" /\ phase' = "over"
  <2>1. Stage = "asking" /\ Stage' = "over" /\ owned /\ owned' = FALSE
    BY <1>1, <1>2, <1>3, <1>8
  <2> QED
    BY <2>1 DEF Loop!Next, Loop!Expire
<1>9. CASE phase = phase' /\ phase \in {"held", "over"}
  BY <1>1, <1>2, <1>3, <1>9 DEF Loop!loopVars
<1> QED
  BY StepsMovePhase, <1>4, <1>5, <1>6, <1>7, <1>8, <1>9 DEF PhaseStep

\* Safety part of ImplementsToolLoop: however timers, disconnects and answers
\* race, one held run behaves as one tool loop that owns its slot and mutex
\* until it is over or given up.
THEOREM HeldRunIsToolLoop ==
  ASSUME Assumptions
  PROVE  Spec => Loop!Init /\ [][Loop!Next]_(Loop!loopVars)
<1>1. Init => Loop!Init
  BY DEF Init, Loop!Init, Stage, Open
<1>2. IInv /\ IInv' /\ [Next]_vars => [Loop!Next]_(Loop!loopVars)
  BY StepSimulates
<1> QED
  BY <1>1, <1>2, Invariance, PTL DEF Spec

-----------------------------------------------------------------------------
(***************************************************************************)
(* What the client is told.  The messages told so far are those before the *)
(* next() call that is outstanding (Tale), whichever request made it; a    *)
(* run that is asked for its result has drained its stream (Ending),       *)
(* because a batch that ends the race is never empty in a live run         *)
(* (Batches).                                                              *)
(***************************************************************************)
InProgress == phase \in {"racing", "waiting"}

Tale ==
  /\ InStreamOrder
  /\ Told = 1 .. (IF issued = 0 THEN 0 ELSE issued - 1)
  /\ phase = "sending" => text = <<>>

Final == \E i \in DOMAIN responses : responses[i].status = "final"

Ending ==
  /\ Final => phase = "over"
  /\ Final \/ phase = "waiting" => streamEnded /\ issued = emitted + 1

Batches ==
  /\ waiter = "settling" => pendingBatch # {}
  /\ phase = "racing" /\ waiter = "returned" => batch # {} \/ settled

Delivery == Tale /\ Ending /\ Batches

LEMMA PartTypes ==
  ASSUME IInv
  PROVE  /\ Len(responses) \in Nat /\ DOMAIN responses = 1 .. Len(responses)
         /\ \A i \in Parts : Part(i) \in Seq(1 .. MaxMessages)
<1>1. responses \in Seq(Response) /\ text \in Seq(1 .. MaxMessages)
  BY DEF IInv, Types, TypeOK
<1>2. Len(responses) \in Nat /\ DOMAIN responses = 1 .. Len(responses)
  BY <1>1
<1>3. \A i \in 1 .. Len(responses) : responses[i].text \in Seq(1 .. MaxMessages)
  <2>1. \A i \in 1 .. Len(responses) : responses[i] \in Response
    BY <1>1
  <2>2. \A r \in Response : r.text \in Seq(1 .. MaxMessages)
    BY DEF Response
  <2> QED
    BY <2>1, <2>2
<1>4. ASSUME NEW i \in Parts PROVE Part(i) \in Seq(1 .. MaxMessages)
  <2>1. CASE i <= Len(responses)
    <3>1. i \in 1 .. Len(responses)
      BY <1>2, <2>1 DEF Parts
    <3> QED
      BY <1>3, <2>1, <3>1 DEF Part
  <2>2. CASE ~(i <= Len(responses))
    BY <1>1, <2>2 DEF Part
  <2> QED
    BY <2>1, <2>2
<1> QED
  BY <1>2, <1>4

\* Whoever adds parts without text tells nothing.
LEMMA ToldKept ==
  ASSUME InStreamOrder, Parts \subseteq Parts',
         \A i \in Parts : Part(i)' = Part(i),
         \A i \in Parts' \ Parts : Part(i)' = <<>>
  PROVE  Told' = Told /\ InStreamOrder'
<1>1. Range(<<>>) = {} /\ DOMAIN <<>> = {}
  BY DEF Range
<1>2. Told' = Told
  BY <1>1 DEF Told
<1>3. InStreamOrder'
  BY <1>1 DEF InStreamOrder
<1> QED
  BY <1>2, <1>3

\* A step that says nothing.
LEMMA QuietTale ==
  ASSUME InStreamOrder, UNCHANGED <<responses, text>>, InProgress' = InProgress
  PROVE  Told' = Told /\ InStreamOrder' /\ Final' = Final
<1>1. Parts' = Parts /\ \A i \in Parts : Part(i)' = Part(i)
  BY DEF Parts, Part, InProgress
<1> QED
  BY <1>1, ToldKept DEF Final

\* A new segment.
LEMMA FreshTale ==
  ASSUME IInv, InStreamOrder, ~InProgress, InProgress', UNCHANGED responses, text' = <<>>
  PROVE  Told' = Told /\ InStreamOrder' /\ Final' = Final
<1>1. Len(responses) \in Nat
  BY PartTypes
<1>2. Parts = 1 .. Len(responses) /\ Parts' = 1 .. Len(responses) + 1
  BY DEF Parts, InProgress
<1>3. /\ \A i \in Parts : Part(i)' = Part(i)
      /\ \A i \in Parts' \ Parts : Part(i)' = <<>>
  BY <1>1, <1>2 DEF Part
<1> QED
  BY <1>1, <1>2, <1>3, ToldKept DEF Final

\* An answer: the segment becomes the text of the answer.
LEMMA ReplyTale ==
  ASSUME IInv, InStreamOrder, NEW status, NEW calls, Respond(status, calls),
         UNCHANGED text, ~InProgress', InProgress \/ text = <<>>
  PROVE  Told' = Told /\ InStreamOrder' /\ (Final' => Final \/ status = "final")
<1> DEFINE r == [status |-> status, text |-> text, calls |-> calls]
<1>1. /\ responses' = Append(responses, r) /\ r.text = text /\ r.status = status
      /\ Len(responses) \in Nat /\ DOMAIN responses = 1 .. Len(responses)
      /\ responses \in Seq(Response)
  BY PartTypes DEF Respond, IInv, Types
<1> HIDE DEF r
<1>2. /\ Len(responses') = Len(responses) + 1
      /\ DOMAIN responses' = 1 .. Len(responses) + 1
      /\ responses'[Len(responses) + 1] = r
      /\ \A i \in 1 .. Len(responses) : responses'[i] = responses[i]
  BY <1>1
<1>3. Parts \in {1 .. Len(responses), 1 .. Len(responses) + 1} /\ Parts' = 1 .. Len(responses) + 1
  BY <1>2 DEF Parts, InProgress
<1>4. Parts = 1 .. Len(responses) => text = <<>>
  <2>1. CASE InProgress
    <3>1. Len(responses) + 1 \in Parts /\ Len(responses) + 1 \notin 1 .. Len(responses)
      BY <1>1, <2>1 DEF Parts, InProgress
    <3> QED
      BY <3>1
  <2> QED
    BY <2>1
<1>5. ASSUME NEW i \in Parts' PROVE Part(i)' = Part(i)
  BY <1>1, <1>2, <1>3, <1>5 DEF Part
<1>6. ASSUME NEW i \in Parts' \ Parts PROVE Part(i)' = <<>>
  <2>1. i = Len(responses) + 1 /\ Parts = 1 .. Len(responses)
    BY <1>1, <1>3, <1>6
  <2> QED
    BY <1>1, <1>2, <1>4, <2>1 DEF Part
<1>7. Parts \subseteq Parts'
  BY <1>1, <1>3
<1>8. Told' = Told /\ InStreamOrder'
  BY <1>5, <1>6, <1>7, ToldKept
<1>9. Final' => Final \/ status = "final"
  BY <1>1, <1>2 DEF Final
<1> QED
  BY <1>8, <1>9

\* The message that was waited for comes next.
LEMMA ConsumeTale ==
  ASSUME Assumptions, IInv, Tale, ConsumeMessage
  PROVE  Tale' /\ Final' = Final
<1>1. /\ phase = "racing" /\ phase' = "racing" /\ UNCHANGED responses
      /\ text' = Append(text, pendingNext) /\ issued' = issued + 1
  BY DEF ConsumeMessage, replyVars
<1>2. pendingNext = issued /\ issued \in Nat \ {0} /\ text \in Seq(1 .. MaxMessages)
  BY <1>1 DEF IInv, Promises, Types, TypeOK
<1>3. /\ Len(responses) \in Nat
      /\ \A i \in Parts : Part(i) \in Seq(1 .. MaxMessages)
  BY PartTypes
<1>4. PICK last : last = Len(responses) + 1
  OBVIOUS
<1>5. Parts = 1 .. last /\ Parts' = Parts /\ last \in Parts
  BY <1>1, <1>3, <1>4 DEF Parts
<1>6. /\ Part(last) = text /\ Part(last)' = text'
      /\ \A i \in Parts \ {last} : Part(i)' = Part(i)
  BY <1>1, <1>3, <1>4, <1>5 DEF Part
<1>7. /\ Len(text) \in Nat /\ DOMAIN text = 1 .. Len(text)
      /\ DOMAIN text' = 1 .. Len(text) + 1
      /\ text'[Len(text) + 1] = issued
      /\ \A k \in 1 .. Len(text) : text'[k] = text[k]
  BY <1>1, <1>2
<1>8. Range(text') = Range(text) \cup {issued}
  <2>1. Range(text) = {text[k] : k \in 1 .. Len(text)}
    BY <1>7 DEF Range
  <2>2. Range(text') = {text'[k] : k \in 1 .. Len(text) + 1}
    BY <1>7 DEF Range
  <2>3. 1 .. Len(text) + 1 = (1 .. Len(text)) \cup {Len(text) + 1}
    BY <1>7
  <2> QED
    BY <1>7, <2>1, <2>2, <2>3
<1>9. Told' = Told \cup {issued}
  BY <1>5, <1>6, <1>8 DEF Told
<1>10. Told = 1 .. issued - 1
  BY <1>2 DEF Tale
<1>11. Told' = 1 .. issued' - 1
  BY <1>1, <1>2, <1>9, <1>10
<1>12. \A i \in Parts : \A k \in DOMAIN Part(i) : Part(i)[k] < issued
  <2>1. \A i \in Parts : \A k \in DOMAIN Part(i) : Part(i)[k] \in Told
    BY DEF Told, Range
  <2> QED
    BY <1>2, <1>10, <2>1
<1>13. InStreamOrder'
  <2> SUFFICES ASSUME NEW i \in Parts, NEW j \in Parts,
                      NEW k \in DOMAIN Part(i)', NEW l \in DOMAIN Part(j)',
                      i < j \/ (i = j /\ k < l)
               PROVE  Part(i)'[k] < Part(j)'[l]
    BY <1>5 DEF InStreamOrder
  <2>1. i \in Int /\ j \in Int /\ i <= last /\ j <= last
    BY <1>3, <1>4, <1>5
  <2>2. CASE j = last /\ l = Len(text) + 1
    <3>1. Part(j)'[l] = issued
      BY <1>6, <1>7, <2>2
    <3>2. k \in DOMAIN Part(i) /\ Part(i)'[k] = Part(i)[k]
      <4>1. CASE i = last
        <5>1. k \in 1 .. Len(text) + 1 /\ k < Len(text) + 1
          BY <1>6, <1>7, <2>1, <2>2, <4>1
        <5>2. k \in 1 .. Len(text)
          BY <1>7, <5>1
        <5> QED
          BY <1>6, <1>7, <4>1, <5>2
      <4>2. CASE i # last
        BY <1>6, <4>2
      <4> QED
        BY <4>1, <4>2
    <3> QED
      BY <1>12, <3>1, <3>2
  <2>3. CASE ~(j = last /\ l = Len(text) + 1)
    <3>1. l \in DOMAIN Part(j) /\ Part(j)'[l] = Part(j)[l]
      <4>1. CASE j = last
        BY <1>6, <1>7, <2>3, <4>1
      <4>2. CASE j # last
        BY <1>6, <4>2
      <4> QED
        BY <4>1, <4>2
    <3>2. k \in DOMAIN Part(i) /\ Part(i)'[k] = Part(i)[k]
      <4>1. CASE i = last
        <5>1. j = last /\ k < l /\ l \in 1 .. Len(text) /\ k \in 1 .. Len(text) + 1
          BY <1>6, <1>7, <2>1, <3>1, <4>1
        <5>2. k \in 1 .. Len(text)
          BY <1>7, <5>1
        <5> QED
          BY <1>6, <1>7, <4>1, <5>2
      <4>2. CASE i # last
        BY <1>6, <4>2
      <4> QED
        BY <4>1, <4>2
    <3> QED
      BY <3>1, <3>2 DEF Tale, InStreamOrder
  <2> QED
    BY <2>2, <2>3
<1>14. Final' = Final
  BY <1>1 DEF Final
<1> QED
  BY <1>1, <1>2, <1>11, <1>13, <1>14 DEF Tale

\* What a pump that leaves its loop says: it answers, though not with a final
\* answer, or goes on to wait for the result of the run.
LEMMA AfterLoopReply ==
  ASSUME IInv, phase = "racing", NEW toolBatch \in SUBSET Call, AfterLoop(toolBatch)
  PROVE  \/ /\ phase' = "waiting" /\ toolBatch = {}
            /\ ~segmentTimedOut /\ signal = "live"
            /\ UNCHANGED replyVars
         \/ /\ phase' \in {"over", "held"}
            /\ \E status \in Status \ {"final"}, calls \in SUBSET Call : Respond(status, calls)
<1>1. "timeout" \in Status \ {"final"} /\ "cancelled" \in Status \ {"final"}
      /\ "tool_calls" \in Status \ {"final"}
  BY DEF Status
<1>2. CASE segmentTimedOut
  <2>1. phase' = "over" /\ Respond("timeout", {})
    BY <1>2 DEF AfterLoop
  <2> QED
    BY <1>1, <2>1
<1>3. CASE ~segmentTimedOut /\ signal = "aborted"
  <2>1. phase' = "over" /\ Respond("cancelled", {})
    BY <1>3 DEF AfterLoop
  <2> QED
    BY <1>1, <2>1
<1>4. CASE ~segmentTimedOut /\ signal # "aborted" /\ toolBatch # {}
  <2>1. phase' = "held" /\ Respond("tool_calls", toolBatch)
    BY <1>4 DEF AfterLoop
  <2> QED
    BY <1>1, <2>1
<1>5. CASE ~segmentTimedOut /\ signal # "aborted" /\ toolBatch = {}
  BY <1>5 DEF AfterLoop
<1> QED
  BY <1>2, <1>3, <1>4, <1>5

\* forget() and teardown() may wake the coroutine and take no batch.
LEMMA DiscardGate ==
  ASSUME IInv, Discard
  PROVE  /\ waiter' \in {waiter, "signalled"} /\ settled'
         /\ UNCHANGED <<batch, pendingBatch>>
<1>1. settled' /\ UNCHANGED <<batch, pendingBatch>>
  BY DiscardEffect DEF GateCloses
<1>2. waiter' \in {waiter, "signalled"}
  BY DEF Discard, Teardown, Gate!Close, Gate!Notified, gateVars, Gate!gateVars
<1> QED
  BY <1>1, <1>2

LEMMA BatchesKept ==
  ASSUME Batches, waiter' \in {waiter, "signalled"}, batch' = batch,
         pendingBatch \subseteq pendingBatch', settled => settled',
         phase' = "racing" => phase = "racing"
  PROVE  Batches'
BY DEF Batches

-----------------------------------------------------------------------------
(* One lemma per action. *)

\* A step that answers nobody, closes no stream and keeps the numbers.
LEMMA QuietDelivery ==
  ASSUME IInv, Delivery, UNCHANGED <<responses, text, issued>>,
         InProgress' = InProgress, phase' # "sending" \/ phase = "sending",
         phase = "over" => phase' = "over",
         phase' = "waiting" => phase = "waiting",
         Final \/ phase = "waiting" => emitted' = emitted /\ streamEnded' = streamEnded
  PROVE  (Tale /\ Ending)'
<1>1. Told' = Told /\ InStreamOrder' /\ Final' = Final
  BY QuietTale DEF Delivery, Tale
<1>2. Tale'
  BY <1>1 DEF Delivery, Tale
<1>3. Ending'
  BY <1>1 DEF Delivery, Ending
<1> QED
  BY <1>2, <1>3

LEMMA SendOkDelivery ==
  ASSUME Assumptions, IInv, Delivery, SendOk
  PROVE  Delivery'
<1>1. /\ phase = "sending" /\ phase' = "racing" /\ text' = <<>> /\ NextPromise
      /\ Gate!EnterWait
      /\ UNCHANGED <<responses, pendingBatch, closed>>
  BY DEF SendOk, EnterPump, replyVars
<1>2. issued = 0 /\ issued' = 1
  BY <1>1 DEF NextPromise, IInv, Promises, Types, TypeOK
<1>3. Told' = Told /\ InStreamOrder' /\ Final' = Final
  BY <1>1, FreshTale DEF InProgress, Delivery, Tale
<1>4. Tale'
  BY <1>1, <1>2, <1>3 DEF Delivery, Tale
<1>5. Ending'
  BY <1>1, <1>3 DEF Delivery, Ending
<1>6. Batches'
  <2>1. ~closed
    BY <1>1 DEF IInv, GateInv, Ownership
  <2> QED
    BY <1>1, <2>1 DEF Gate!EnterWait, Batches
<1> QED
  BY <1>4, <1>5, <1>6 DEF Delivery

LEMMA SendFailsDelivery ==
  ASSUME Assumptions, IInv, Delivery, SendFails
  PROVE  Delivery'
<1>1. /\ phase = "sending" /\ phase' = "over" /\ Respond("error", {})
      /\ UNCHANGED <<gateVars, text, issued, settled>>
  BY DEF SendFails, pumpVars
<1>2. text = <<>> /\ ~Final
  BY <1>1 DEF Delivery, Tale, Ending
<1>3. Told' = Told /\ InStreamOrder' /\ ~Final'
  BY <1>1, <1>2, ReplyTale DEF InProgress, Delivery, Tale
<1>4. Tale' /\ Ending'
  BY <1>1, <1>3 DEF Delivery, Tale, Ending
<1>5. Batches'
  BY <1>1, BatchesKept DEF Delivery, gateVars
<1> QED
  BY <1>4, <1>5 DEF Delivery

LEMMA ConsumeDelivery ==
  ASSUME Assumptions, IInv, Delivery, ConsumeMessage
  PROVE  Delivery'
<1>1. /\ phase = "racing" /\ phase' = "racing"
      /\ UNCHANGED <<gateVars, settled>>
  BY DEF ConsumeMessage, releaseVars
<1>2. Tale' /\ Final' = Final
  BY ConsumeTale DEF Delivery
<1>3. Ending'
  BY <1>1, <1>2 DEF Delivery, Ending
<1>4. Batches'
  BY <1>1, BatchesKept DEF Delivery, gateVars
<1> QED
  BY <1>2, <1>3, <1>4 DEF Delivery

\* The end of the loop: the stream is drained when it goes on to run.wait().
LEMMA AfterLoopDelivery ==
  ASSUME Assumptions, IInv, Delivery, phase = "racing",
         NEW toolBatch \in SUBSET Call, AfterLoop(toolBatch),
         UNCHANGED <<text, issued, emitted, streamEnded>>,
         toolBatch = {} => settled \/ (streamEnded /\ issued = emitted + 1)
  PROVE  Tale' /\ Ending'
<1>1. ~Final /\ InProgress
  BY DEF Delivery, Ending, InProgress
<1>2. CASE phase' = "waiting" /\ toolBatch = {} /\ ~segmentTimedOut /\ signal = "live"
           /\ UNCHANGED replyVars
  <2>1. UNCHANGED responses /\ InProgress' = InProgress
    BY <1>1, <1>2 DEF InProgress, replyVars
  <2>2. Told' = Told /\ InStreamOrder' /\ ~Final'
    BY <1>1, <2>1, QuietTale DEF Delivery, Tale
  <2>3. streamEnded /\ issued = emitted + 1
    BY <1>2 DEF IInv, Endings
  <2>4. Ending'
    BY <1>2, <2>2, <2>3 DEF Ending
  <2>5. Tale'
    BY <1>2, <2>2 DEF Delivery, Tale
  <2> QED
    BY <2>4, <2>5
<1>3. CASE /\ phase' \in {"over", "held"}
           /\ \E status \in Status \ {"final"}, calls \in SUBSET Call : Respond(status, calls)
  <2>1. PICK status \in Status \ {"final"}, calls \in SUBSET Call : Respond(status, calls)
    BY <1>3
  <2>2. Told' = Told /\ InStreamOrder' /\ ~Final'
    BY <1>1, <1>3, <2>1, ReplyTale DEF InProgress, Delivery, Tale
  <2> QED
    BY <1>3, <2>2 DEF Delivery, Tale, Ending
<1> QED
  BY <1>2, <1>3, AfterLoopReply

LEMMA StreamDoneDelivery ==
  ASSUME Assumptions, IInv, Delivery, StreamDone
  PROVE  Delivery'
<1>1. /\ phase = "racing" /\ AfterLoop({}) /\ pendingNext > emitted /\ streamEnded
      /\ UNCHANGED <<text, issued, emitted, streamEnded>>
  BY DEF StreamDone
<1>2. issued = emitted + 1
  BY <1>1 DEF IInv, Promises, Types, TypeOK
<1>3. Tale' /\ Ending'
  BY <1>1, <1>2, AfterLoopDelivery
<1>4. UNCHANGED gateVars /\ (settled => settled') /\ phase' # "racing"
  BY <1>1, AfterLoopEffect DEF releaseVars
<1>5. Batches'
  BY <1>4 DEF Delivery, Batches, gateVars
<1> QED
  BY <1>3, <1>5 DEF Delivery

LEMMA StreamFailsDelivery ==
  ASSUME Assumptions, IInv, Delivery, StreamFails
  PROVE  Delivery'
<1>1. /\ phase = "racing" /\ phase' = "over" /\ Respond("error", {}) /\ Discard
      /\ UNCHANGED <<text, issued>>
  BY DEF StreamFails, pumpVars
<1>2. ~Final
  BY <1>1 DEF Delivery, Ending
<1>3. Told' = Told /\ InStreamOrder' /\ ~Final'
  BY <1>1, <1>2, ReplyTale DEF InProgress, Delivery, Tale
<1>4. Tale' /\ Ending'
  BY <1>1, <1>3 DEF Delivery, Tale, Ending
<1>5. Batches'
  BY <1>1, DiscardGate, BatchesKept DEF Delivery
<1> QED
  BY <1>4, <1>5 DEF Delivery

\* A batch is empty only when a settled run has its coroutine woken.
LEMMA BatchReadyDelivery ==
  ASSUME Assumptions, IInv, Delivery, BatchReady
  PROVE  Delivery'
<1>1. /\ phase = "racing" /\ waiter = "returned" /\ AfterLoop(batch)
      /\ UNCHANGED <<text, issued, emitted, streamEnded>>
  BY DEF BatchReady, pumpVars
<1>2. batch \in SUBSET Call /\ (batch = {} => settled)
  BY <1>1 DEF Delivery, Batches, IInv, Types, TypeOK, Gate!TypeOK
<1>3. Tale' /\ Ending'
  BY <1>1, <1>2, AfterLoopDelivery
<1>4. UNCHANGED gateVars /\ phase' # "racing"
  BY <1>1, <1>2, AfterLoopEffect
<1>5. Batches'
  BY <1>4 DEF Delivery, Batches, gateVars
<1> QED
  BY <1>3, <1>5 DEF Delivery

LEMMA RunWaitDoneDelivery ==
  ASSUME Assumptions, IInv, Delivery, RunWaitDone
  PROVE  Delivery'
<1>1. /\ phase = "waiting" /\ phase' = "over"
      /\ UNCHANGED <<gateVars, text, issued, emitted, streamEnded>>
  BY DEF RunWaitDone, pumpVars, runVars
<1>2. PICK rejected \in BOOLEAN :
        Respond(IF run = "error" /\ ~rejected THEN "error" ELSE "final", {})
  BY DEF RunWaitDone
<1>3. PICK status : status = IF run = "error" /\ ~rejected THEN "error" ELSE "final"
  OBVIOUS
<1>4. Respond(status, {})
  BY <1>2, <1>3
<1>5. Told' = Told /\ InStreamOrder'
  BY <1>1, <1>4, ReplyTale DEF InProgress, Delivery, Tale
<1>6. Tale' /\ Ending'
  BY <1>1, <1>5 DEF Delivery, Tale, Ending
<1>7. Batches'
  BY <1>1 DEF Delivery, Batches, gateVars
<1> QED
  BY <1>6, <1>7 DEF Delivery

\* A run that is torn down under its pump, or while it is held.
LEMMA DiscardDelivery ==
  ASSUME Assumptions, IInv, Delivery, Discard,
         UNCHANGED <<emitted, streamEnded, pumpVars, replyVars>>,
         \/ phase \in {"racing", "waiting"} /\ phase' = phase
         \/ phase = "held" /\ phase' = "over"
  PROVE  Delivery'
<1>1. UNCHANGED <<responses, text, issued, emitted, streamEnded>>
  BY DEF pumpVars, replyVars
<1>2. Tale' /\ Ending'
  BY <1>1, QuietDelivery DEF InProgress
<1>3. Batches'
  BY DiscardGate, BatchesKept DEF Delivery
<1> QED
  BY <1>2, <1>3 DEF Delivery

LEMMA InterruptionDelivery ==
  ASSUME Assumptions, IInv, Delivery,
         SegmentTimeout \/ ClientAborts \/ HeldRunExpires \/ Shutdown
  PROVE  Delivery'
<1>1. CASE SegmentTimeout
  BY <1>1, DiscardDelivery DEF SegmentTimeout
<1>2. CASE ClientAborts
  <2>1. phase \in {"racing", "waiting"} /\ phase' = phase
    BY <1>2 DEF ClientAborts, Assumptions
  <2>2. CASE armed
    BY <1>2, <2>1, <2>2, DiscardDelivery DEF ClientAborts
  <2>3. CASE ~armed
    <3>1. UNCHANGED <<responses, text, issued, emitted, streamEnded, gateVars, settled>>
      BY <1>2, <2>3 DEF ClientAborts, pumpVars, replyVars, releaseVars
    <3>2. Tale' /\ Ending'
      BY <2>1, <3>1, QuietDelivery DEF InProgress
    <3>3. Batches'
      BY <2>1, <3>1, BatchesKept DEF Delivery, gateVars
    <3> QED
      BY <3>2, <3>3 DEF Delivery
  <2> QED
    BY <2>2, <2>3
<1>3. CASE HeldRunExpires
  BY <1>3, DiscardDelivery DEF HeldRunExpires
<1>4. CASE Shutdown
  BY <1>4, DiscardDelivery DEF Shutdown
<1> QED
  BY <1>1, <1>2, <1>3, <1>4

\* waitForBatch() returns an empty batch from a closed gate only.
LEMMA GateDelivery ==
  ASSUME Assumptions, IInv, Delivery, GateResumes \/ GateSettles
  PROVE  Delivery'
<1>1. UNCHANGED <<responses, text, issued, emitted, streamEnded, phase, settled>>
  BY DEF GateResumes, GateSettles, pumpVars, runVars, replyVars, releaseVars
<1>2. Tale' /\ Ending'
  BY <1>1, QuietDelivery DEF InProgress
<1>3. Batches'
  <2>1. closed => settled
    BY DEF IInv, GateInv
  <2>2. CASE GateResumes
    BY <1>1, <2>1, <2>2 DEF GateResumes, Gate!Resume, Gate!EnterWait, Delivery, Batches
  <2>3. CASE GateSettles
    BY <1>1, <2>1, <2>3 DEF GateSettles, Gate!SettleTick, Delivery, Batches
  <2> QED
    BY <2>2, <2>3
<1> QED
  BY <1>2, <1>3 DEF Delivery

\* The next request goes on with the next() call of the last one.
LEMMA ContinueDelivery ==
  ASSUME Assumptions, IInv, Delivery, NEW S \in SUBSET byToolCallId, Continue(S)
  PROVE  Delivery'
<1>1. /\ phase = "held" /\ phase' = "racing" /\ text' = <<>> /\ NextPromise
      /\ Gate!EnterWait
      /\ UNCHANGED <<responses, settled, pendingBatch, closed>>
  BY DEF Continue, EnterPump, replyVars, releaseVars
<1>2. issued' = issued
  BY <1>1 DEF NextPromise, IInv, Promises
<1>3. Told' = Told /\ InStreamOrder' /\ Final' = Final
  BY <1>1, FreshTale DEF InProgress, Delivery, Tale
<1>4. Tale' /\ Ending'
  BY <1>1, <1>2, <1>3 DEF Delivery, Tale, Ending
<1>5. Batches'
  <2>1. closed => settled
    BY DEF IInv, GateInv
  <2> QED
    BY <1>1, <2>1 DEF Gate!EnterWait, Delivery, Batches
<1> QED
  BY <1>4, <1>5 DEF Delivery

LEMMA CursorRunDelivery ==
  ASSUME Assumptions, IInv, Delivery, Emit \/ StreamEnds \/ RunEnds
  PROVE  Delivery'
<1>1. UNCHANGED <<responses, text, issued, phase, settled, gateVars>>
  BY DEF Emit, StreamEnds, RunEnds, pumpVars, replyVars, releaseVars
<1>2. streamEnded => UNCHANGED <<emitted, streamEnded>>
  BY DEF Emit, StreamEnds, RunEnds
<1>3. Tale' /\ Ending'
  <2>1. Final \/ phase = "waiting" => streamEnded
    BY DEF Delivery, Ending
  <2> QED
    BY <1>1, <1>2, <2>1, QuietDelivery DEF InProgress
<1>4. Batches'
  BY <1>1, BatchesKept DEF Delivery, gateVars
<1> QED
  BY <1>3, <1>4 DEF Delivery

LEMMA ModelCallsDelivery ==
  ASSUME Assumptions, IInv, Delivery, NEW c \in Call, ModelCalls(c)
  PROVE  Delivery'
<1>1. /\ UNCHANGED <<responses, text, issued, emitted, streamEnded, phase, settled, batch>>
      /\ waiter' \in {waiter, "signalled"} /\ pendingBatch \subseteq pendingBatch'
  BY DEF ModelCalls, Gate!Park, Gate!Notified, pumpVars, runVars, replyVars, releaseVars
<1>2. Tale' /\ Ending'
  BY <1>1, QuietDelivery DEF InProgress
<1>3. Batches'
  BY <1>1, BatchesKept DEF Delivery
<1> QED
  BY <1>2, <1>3 DEF Delivery

LEMMA StutterDelivery ==
  ASSUME IInv, Delivery, UNCHANGED vars
  PROVE  Delivery'
<1>1. UNCHANGED <<responses, text, issued, emitted, streamEnded, phase, settled, gateVars>>
  BY DEF vars, pumpVars, runVars, replyVars, releaseVars
<1>2. Tale' /\ Ending'
  BY <1>1, QuietDelivery DEF InProgress
<1>3. Batches'
  BY <1>1, BatchesKept DEF Delivery, gateVars
<1> QED
  BY <1>2, <1>3 DEF Delivery

LEMMA NextDelivery ==
  ASSUME Assumptions
  PROVE  IInv /\ Delivery /\ [Next]_vars => Delivery'
<1> SUFFICES ASSUME IInv, Delivery, [Next]_vars
             PROVE  Delivery'
  OBVIOUS
<1>1. CASE SendOk \/ SendFails
  BY <1>1, SendOkDelivery, SendFailsDelivery
<1>2. CASE ConsumeMessage \/ StreamDone \/ StreamFails \/ BatchReady \/ RunWaitDone
  BY <1>2, ConsumeDelivery, StreamDoneDelivery, StreamFailsDelivery, BatchReadyDelivery,
     RunWaitDoneDelivery
<1>3. CASE SegmentTimeout \/ ClientAborts \/ HeldRunExpires \/ Shutdown
  BY <1>3, InterruptionDelivery
<1>4. CASE GateResumes \/ GateSettles
  BY <1>4, GateDelivery
<1>5. CASE \E S \in SUBSET byToolCallId : Continue(S)
  BY <1>5, ContinueDelivery
<1>6. CASE Emit \/ StreamEnds \/ RunEnds
  BY <1>6, CursorRunDelivery
<1>7. CASE \E c \in Call : ModelCalls(c)
  BY <1>7, ModelCallsDelivery
<1>8. CASE UNCHANGED vars
  BY <1>8, StutterDelivery
<1> QED
  BY <1>1, <1>2, <1>3, <1>4, <1>5, <1>6, <1>7, <1>8 DEF Next

LEMMA InitDelivery == Init => Delivery
<1> SUFFICES ASSUME Init
             PROVE  Delivery
  OBVIOUS
<1>1. /\ phase = "sending" /\ issued = 0 /\ text = <<>> /\ responses = <<>>
      /\ waiter = "none"
  BY DEF Init, Gate!Init
<1>2. Parts = {} /\ ~Final
  BY <1>1 DEF Parts, Final
<1>3. Told = {} /\ InStreamOrder
  BY <1>2 DEF Told, InStreamOrder
<1>4. 1 .. 0 = {}
  OBVIOUS
<1>5. Tale /\ Ending /\ Batches
  BY <1>1, <1>2, <1>3, <1>4 DEF Tale, Ending, Batches
<1> QED
  BY <1>5 DEF Delivery

LEMMA DeliveryInvariance ==
  ASSUME Assumptions
  PROVE  Spec => [](IInv /\ Delivery)
<1>1. IInv /\ Delivery /\ [Next]_vars => Delivery'
  BY NextDelivery
<1> QED
  BY <1>1, InitDelivery, Invariance, PTL DEF Spec

\* The requests that work on one run tell the client every message of its
\* stream once and in order, whoever called next() for it.
THEOREM MessagesAreDeliveredInOrder ==
  ASSUME Assumptions
  PROVE  Spec => []DeliveredInOrder
<1>1. IInv /\ Delivery => DeliveredInOrder
  <2> SUFFICES ASSUME IInv, Delivery, NEW m \in Told
               PROVE  1 .. m \subseteq Told
    BY DEF DeliveredInOrder, Delivery, Tale
  <2>1. issued \in Nat
    BY DEF IInv, Types, TypeOK
  <2>2. PICK last \in Nat : Told = 1 .. last
    BY <2>1 DEF Delivery, Tale
  <2> QED
    BY <2>2
<1> QED
  BY <1>1, DeliveryInvariance, PTL

\* A final answer closes the telling: every message has been delivered, and no
\* further one can come.
THEOREM FinalAnswerIsComplete ==
  ASSUME Assumptions
  PROVE  Spec => []FinalIsComplete
<1>1. IInv /\ Delivery => FinalIsComplete
  <2> SUFFICES ASSUME IInv, Delivery, Final
               PROVE  Told = 1 .. emitted /\ streamEnded
    BY DEF FinalIsComplete, Final
  <2>1. issued \in Nat /\ emitted \in Nat
    BY DEF IInv, Types, TypeOK
  <2> QED
    BY <2>1 DEF Delivery, Tale, Ending
<1> QED
  BY <1>1, DeliveryInvariance, PTL
=============================================================================
