------------------------------- MODULE Gateway -------------------------------
(***************************************************************************)
(* The requests of a running gateway and what they share: the concurrency  *)
(* slots (Semaphore), one mutex per session, the registries of the held    *)
(* runs and the Cursor agents.  It composes src/gateway/orchestrator.ts,   *)
(* src/cursor/heldRunManager.ts and the route of chat completions.         *)
(*                                                                         *)
(* A request walks through prepareGatewayTurn(), executeGatewayTurn() and  *)
(* the route's handler; `pc` is the await it stands at:                    *)
(*   "idle"      not received yet;                                         *)
(*   "catalog"   modelCatalog.resolveModelSelection();                     *)
(*   "matched"   recognised as the continuation of a held run (no macrotask *)
(*               passes before it calls provideResultsAndContinue());      *)
(*   "queued"    semaphore.acquire();                                      *)
(*   "resolving" sessionManager.resolve();                                 *)
(*   "locking"   handle.mutex.acquire();                                   *)
(*   "sending"   agent.send();                                             *)
(*   "pumping"   the race loop of HeldRunManager.pump();                   *)
(*   "waiting"   run.wait() in pump();                                     *)
(*   "plain"     the stream of runTurn(), for a request that is not held;  *)
(*   "finishing" run.wait() in runTurn();                                  *)
(*   "done"      answered.                                                 *)
(* A run has the name of the request that started it.  A session has one   *)
(* agent and one mutex, so the session stands for all three.  The batch of *)
(* tool calls a run asks for in its n-th segment is <<run, n>>: HeldRun has *)
(* the calls of a batch, the stream and the gate in detail.                *)
(***************************************************************************)
EXTENDS Naturals, Sequences, FiniteSets

CONSTANTS
  Request,           \* the HTTP requests
  Session,           \* the sessions they belong to
  NoRequest,         \* stands for undefined
  Max,               \* MAX_CONCURRENT_RUNS
  MaxSegments,       \* bound on the batches of tool calls of one run
  EarlyAbort,        \* may a disconnect be noticed before agent.send() returned?
  TranslationThrows  \* may translating the messages or tools throw?

ASSUME GatewayAssumption ==
  /\ NoRequest \notin Request
  /\ Max \in Nat \ {0}
  /\ MaxSegments \in Nat
  /\ EarlyAbort \in BOOLEAN /\ TranslationThrows \in BOOLEAN

VARIABLES
  pc,          \* where each request stands
  session,     \* the session it names
  hold,        \* the requests that bring function tools (hold mode)
  asks,        \* the batch whose results it brings, or NoRequest
  works,       \* the run it is pumping, or NoRequest
  aborted,     \* the requests whose abort signal has fired
  timedOut,    \* the requests whose segment (or request) timer has fired
  outcome,     \* what each request was answered
  available, slotQueue, slotOwners,   \* the semaphore
  lock,        \* per session: who called mutex.acquire() and has not released
  held,        \* HeldRunManager.held: per agent, the run that is held
  index,       \* the keys of byToolCallId; the value is the agent of the run
  toolTimer,   \* the runs whose tool-result timer is armed
  sdk,         \* the Cursor run: "none", "running", "cancelling", "ended"
  settled,     \* the runs that were settled or torn down
  armed,       \* per run: the request whose signal its abort listener is on
  segment      \* per run: number of batches it has asked for

requestVars == <<session, hold, asks>>
slotVars == <<available, slotQueue, slotOwners>>
registryVars == <<held, index, toolTimer>>
runVars == <<sdk, settled, armed>>

vars == <<pc, requestVars, works, aborted, timedOut, outcome, slotVars, lock,
          registryVars, runVars, segment>>

Slots == INSTANCE Semaphore WITH
  Client <- Request, queue <- slotQueue, holders <- slotOwners

Batch == Request \X (1 .. MaxSegments)

Init ==
  /\ pc = [r \in Request |-> "idle"]
  /\ session \in [Request -> Session]
  /\ hold \in SUBSET Request
  /\ asks = [r \in Request |-> NoRequest]
  /\ works = [r \in Request |-> NoRequest]
  /\ aborted = {} /\ timedOut = {}
  /\ outcome = [r \in Request |-> "none"]
  /\ Slots!Init
  /\ lock = [s \in Session |-> <<>>]
  /\ held = [s \in Session |-> NoRequest]
  /\ index = {} /\ toolTimer = {}
  /\ sdk = [r \in Request |-> "none"]
  /\ settled = {}
  /\ armed = [r \in Request |-> NoRequest]
  /\ segment = [r \in Request |-> 0]

-----------------------------------------------------------------------------
(* Pieces of the handlers. *)

\* The mutex is a FIFO resource with one unit (Mutex): the first one owns it.
OwnsLock(r) == lock[session[r]] # <<>> /\ Head(lock[session[r]]) = r

\* (mutant: the release closure is not wrapped)
ReleaseSlotAgain(r) == Slots!Release(r)

\* releaseSemaphore(): only its first call after the acquire counts.
ReleaseSlot(r) ==
  \/ r \in slotOwners /\ Slots!Release(r)
  \/ r \notin slotOwners /\ UNCHANGED slotVars

\* (mutant: the slot is not released together with the mutex)
ReleaseMutexAlone(q) ==
  /\ lock' = IF OwnsLock(q) THEN [lock EXCEPT ![session[q]] = Tail(@)] ELSE lock
  /\ UNCHANGED slotVars

\* (mutant: the mutex is not released)
ReleaseMutexForgotten(q) == UNCHANGED lock /\ ReleaseSlot(q)

\* releaseMutex(): only its first call counts; mutex and slot go together.
ReleaseMutex(q) ==
  \/ /\ OwnsLock(q)
     /\ lock' = [lock EXCEPT ![session[q]] = Tail(@)]
     /\ ReleaseSlot(q)
  \/ ~OwnsLock(q) /\ UNCHANGED <<lock, slotVars>>

\* (mutant: byToolCallId is not cleaned)
ForgetKeepsIndex(s) ==
  /\ held' = [held EXCEPT ![s] = NoRequest]
  /\ UNCHANGED index

\* forget(): both registries drop whatever run the agent of session s holds.
Forget(s) ==
  /\ held' = [held EXCEPT ![s] = NoRequest]
  /\ index' = IF held[s] = NoRequest THEN index ELSE {b \in index : session[b[1]] # s}

\* teardown(): once per run; run.cancel() is not awaited.
Teardown(q) ==
  \/ q \in settled /\ UNCHANGED <<runVars, lock, slotVars>>
  \/ /\ q \notin settled
     /\ settled' = settled \cup {q}
     /\ armed' = [armed EXCEPT ![q] = NoRequest]
     /\ sdk' = [sdk EXCEPT ![q] = IF @ = "running" THEN "cancelling" ELSE @]
     /\ ReleaseMutex(q)

\* forget() and teardown() of run q, as every abnormal path calls them.
Discard(q) ==
  /\ Forget(session[q])
  /\ toolTimer' = toolTimer \ ({held[session[q]]} \cup (IF q \in settled THEN {} ELSE {q}))
  /\ Teardown(q)

Answer(r, what) ==
  /\ pc' = [pc EXCEPT ![r] = "done"]
  /\ outcome' = [outcome EXCEPT ![r] = what]

Goto(r, label) == pc' = [pc EXCEPT ![r] = label]

\* A request that pumps, or awaits the end of, a run.
Pumping(r) == pc[r] \in {"pumping", "waiting"}

\* Timers, sockets and the SDK are served between macrotasks, never between
\* detectHeldContinuation() and provideResultsAndContinue().
Macrotask == \A r \in Request : pc[r] # "matched"

-----------------------------------------------------------------------------
(* prepareGatewayTurn(). *)

\* A request comes in, alone or with the results of a batch its client was
\* asked for in the same session: the latest one, or an old one once more.
Receive(r) ==
  /\ pc[r] = "idle"
  /\ Goto(r, "catalog")
  /\ \E b \in {NoRequest} \cup {<<q, n>> : q \in Request, n \in 1 .. MaxSegments} :
       /\ b # NoRequest => session[b[1]] = session[r] /\ b[2] <= segment[b[1]]
       /\ asks' = [asks EXCEPT ![r] = b]
  /\ UNCHANGED <<session, hold, works, aborted, timedOut, outcome, slotVars, lock,
                 registryVars, runVars, segment>>

\* The model cannot be resolved: nothing has been taken yet.
CatalogFails(r) ==
  /\ pc[r] = "catalog"
  /\ Answer(r, "error")
  /\ UNCHANGED <<requestVars, works, aborted, timedOut, slotVars, lock,
                 registryVars, runVars, segment>>

\* detectHeldContinuation(): the batch is in the index and its agent holds a
\* run.
IsContinuation(r) == asks[r] \in index /\ held[session[asks[r][1]]] # NoRequest

Match(r) ==
  /\ pc[r] = "catalog"
  /\ IsContinuation(r)
  /\ Goto(r, "matched")
  /\ UNCHANGED <<requestVars, works, aborted, timedOut, outcome, slotVars, lock,
                 registryVars, runVars, segment>>

AcquireSlot(r) ==
  /\ pc[r] = "catalog"
  /\ ~IsContinuation(r)
  /\ \/ Slots!AcquireNow(r) /\ Goto(r, "resolving")
     \/ Slots!AcquireLater(r) /\ Goto(r, "queued")
  /\ UNCHANGED <<requestVars, works, aborted, timedOut, outcome, lock,
                 registryVars, runVars, segment>>

SlotGranted(r) ==
  /\ pc[r] = "queued"
  /\ r \in slotOwners
  /\ Goto(r, "resolving")
  /\ UNCHANGED <<requestVars, works, aborted, timedOut, outcome, slotVars, lock,
                 registryVars, runVars, segment>>

\* sessionManager.resolve() rejects: the slot is released before the throw.
\* Or prepareTurn(), buildCustomTools() or the prompt estimate throws after
\* that: no try block of prepareGatewayTurn() or of the route surrounds them.
PrepareFails(r) ==
  /\ pc[r] = "resolving"
  /\ Answer(r, "error")
  /\ \/ ReleaseSlot(r)
     \/ TranslationThrows /\ UNCHANGED slotVars
  /\ UNCHANGED <<requestVars, works, aborted, timedOut, lock,
                 registryVars, runVars, segment>>

\* The session is resolved, the turn is prepared, the route listens for the
\* disconnect and executeGatewayTurn() joins the mutex.
Prepared(r) ==
  /\ pc[r] = "resolving"
  /\ lock' = [lock EXCEPT ![session[r]] = Append(@, r)]
  /\ Goto(r, "locking")
  /\ UNCHANGED <<requestVars, works, aborted, timedOut, outcome, slotVars,
                 registryVars, runVars, segment>>

-----------------------------------------------------------------------------
(* executeGatewayTurn(): a new run. *)

\* The mutex is granted and agent.send() is called at once.
StartSend(r) ==
  /\ pc[r] = "locking"
  /\ OwnsLock(r)
  /\ Goto(r, "sending")
  /\ UNCHANGED <<requestVars, works, aborted, timedOut, outcome, slotVars, lock,
                 registryVars, runVars, segment>>

\* The agent still has a run that is not over.
Busy(s) == \E q \in Request : session[q] = s /\ sdk[q] \in {"running", "cancelling"}

\* agent.send() resolves; the SDK rejects a send on a busy agent
\* (AgentBusyError).  The abort listener is added: too late, if the signal has
\* aborted already.
SendOk(r) ==
  /\ pc[r] = "sending"
  /\ ~Busy(session[r])
  /\ sdk' = [sdk EXCEPT ![r] = "running"]
  /\ armed' = [armed EXCEPT ![r] = IF r \in aborted THEN NoRequest ELSE r]
  /\ works' = [works EXCEPT ![r] = r]
  /\ Goto(r, IF r \in hold THEN "pumping" ELSE "plain")
  /\ UNCHANGED <<requestVars, aborted, timedOut, outcome, slotVars, lock,
                 registryVars, settled, segment>>

\* agent.send() rejects: releaseMutex() in hold mode, runExclusive() and then
\* the route in plain mode, give back mutex and slot.
SendFails(r) ==
  /\ pc[r] = "sending"
  /\ Answer(r, "error")
  /\ ReleaseMutex(r)
  /\ UNCHANGED <<requestVars, works, aborted, timedOut, registryVars, runVars, segment>>

(* executeGatewayTurn(): the continuation of a held run. *)

\* (mutant: the run stays registered while it is pumped)
ProvideKeepsRegistry(r) ==
  LET q == held[session[r]]
  IN /\ pc[r] = "matched"
     /\ q # NoRequest
     /\ Goto(r, "pumping")
     /\ works' = [works EXCEPT ![r] = q]
     /\ armed' = [armed EXCEPT ![q] = r]
     /\ toolTimer' = toolTimer \ {q}
     /\ UNCHANGED <<requestVars, aborted, timedOut, outcome, slotVars, lock, held,
                    index, sdk, settled, segment>>

\* provideResultsAndContinue(): the run leaves the registries, listens to this
\* request's signal and is pumped again; if another request was faster, 400,
\* and abandon() finds nothing.
Provide(r) ==
  LET s == session[r]
      q == held[s]
  IN /\ pc[r] = "matched"
     /\ \/ /\ q = NoRequest
           /\ Answer(r, "error")
           /\ UNCHANGED <<works, registryVars, armed>>
        \/ /\ q # NoRequest
           /\ Goto(r, "pumping")
           /\ works' = [works EXCEPT ![r] = q]
           /\ armed' = [armed EXCEPT ![q] = r]
           /\ Forget(s)
           /\ toolTimer' = toolTimer \ {q}
           /\ UNCHANGED outcome
     /\ UNCHANGED <<requestVars, aborted, timedOut, slotVars, lock, sdk, settled, segment>>

(* pump(). *)

\* A pump of another, torn-down run of the same agent has not returned yet.
\* It returns before the batch of a later run can settle: its gate is closed, so
\* it waits at most for a delay(settleMs) that started earlier, and its run is
\* over, since the SDK took the later send.
Unwinding(r) ==
  \E r2 \in Request \ {r} :
    Pumping(r2) /\ session[r2] = session[r] /\ works[r2] \in settled

\* (mutant: the route releases the slot of a run that stays open)
PumpAsksReleasesSlot(r) ==
  LET q == works[r]
  IN /\ pc[r] = "pumping"
     /\ q \notin settled /\ r \notin aborted /\ r \notin timedOut
     /\ sdk[q] = "running" /\ segment[q] < MaxSegments
     /\ segment' = [segment EXCEPT ![q] = @ + 1]
     /\ held' = [held EXCEPT ![session[q]] = q]
     /\ index' = index \cup {<<q, segment[q] + 1>>}
     /\ toolTimer' = toolTimer \cup {q}
     /\ Answer(r, "tool_calls")
     /\ ReleaseSlot(q)
     /\ UNCHANGED <<requestVars, works, aborted, timedOut, lock, runVars>>

\* (mutant: no test of segmentTimedOut and of the abort signal)
PumpAsksAnyway(r) ==
  LET q == works[r]
  IN /\ pc[r] = "pumping"
     /\ segment[q] < MaxSegments
     /\ segment' = [segment EXCEPT ![q] = @ + 1]
     /\ held' = [held EXCEPT ![session[q]] = q]
     /\ index' = index \cup {<<q, segment[q] + 1>>}
     /\ toolTimer' = toolTimer \cup {q}
     /\ Answer(r, "tool_calls")
     /\ UNCHANGED <<requestVars, works, aborted, timedOut, slotVars, lock, runVars>>

\* A batch of tool calls has parked and settled: the run is registered and the
\* client asked for the results.
PumpAsks(r) ==
  LET q == works[r]
      s == session[q]
  IN /\ pc[r] = "pumping"
     /\ q \notin settled /\ r \notin aborted /\ r \notin timedOut
     /\ sdk[q] = "running"
     /\ segment[q] < MaxSegments
     /\ ~Unwinding(r)
     /\ segment' = [segment EXCEPT ![q] = @ + 1]
     /\ held' = [held EXCEPT ![s] = q]
     /\ index' = index \cup {<<q, segment[q] + 1>>}
     /\ toolTimer' = toolTimer \cup {q}
     /\ Answer(r, "tool_calls")
     /\ UNCHANGED <<requestVars, works, aborted, timedOut, slotVars, lock, runVars>>

\* The stream ends with nothing parked.
PumpDrains(r) ==
  /\ pc[r] = "pumping"
  /\ r \notin aborted /\ r \notin timedOut
  /\ sdk[works[r]] \in {"running", "ended"}
  /\ Goto(r, "waiting")
  /\ UNCHANGED <<requestVars, works, aborted, timedOut, outcome, slotVars, lock,
                 registryVars, runVars, segment>>

\* The race loop ends after the client went away: no teardown here, "teardown
\* already ran via the abort listener".  The route of the request that started
\* the run releases its slot.
PumpCancelled(r) ==
  /\ pc[r] = "pumping"
  /\ r \in aborted /\ r \notin timedOut
  /\ Answer(r, "cancelled")
  /\ \/ works[r] = r /\ ReleaseSlot(r)
     \/ works[r] # r /\ UNCHANGED slotVars
  /\ UNCHANGED <<requestVars, works, aborted, timedOut, lock, registryVars, runVars, segment>>

\* The race loop ends after the segment timer fired: throw, and the catch block
\* discards once more.
PumpTimedOut(r) ==
  /\ pc[r] = "pumping"
  /\ r \in timedOut
  /\ Answer(r, "error")
  /\ Discard(works[r])
  /\ UNCHANGED <<requestVars, works, aborted, timedOut, segment>>

\* iterator.next() rejects: the catch block discards and throws.
PumpFails(r) ==
  /\ pc[r] = "pumping"
  /\ Answer(r, "error")
  /\ Discard(works[r])
  /\ UNCHANGED <<requestVars, works, aborted, timedOut, segment>>

\* run.wait() is over: settle(), and the final answer.
WaitDone(r) ==
  LET q == works[r]
  IN /\ pc[r] = "waiting"
     /\ sdk[q] = "ended"
     /\ \/ q \in settled /\ UNCHANGED <<settled, armed, lock, slotVars>>
        \/ /\ q \notin settled
           /\ settled' = settled \cup {q}
           /\ armed' = [armed EXCEPT ![q] = NoRequest]
           /\ ReleaseMutex(q)
     /\ \/ /\ Answer(r, "final")
           /\ toolTimer' = toolTimer \ {q}
           /\ UNCHANGED <<held, index>>
        \/ /\ Answer(r, "error")     \* throw; the catch block forgets once more
           /\ toolTimer' = toolTimer \ {q, held[session[q]]}
           /\ Forget(session[q])
     /\ UNCHANGED <<requestVars, works, aborted, timedOut, sdk, segment>>

\* (mutant: the timer sets its flag and leaves the run alone)
SegmentTimeoutKeepsRun(r) ==
  /\ Pumping(r)
  /\ Macrotask
  /\ r \notin timedOut
  /\ timedOut' = timedOut \cup {r}
  /\ UNCHANGED <<pc, requestVars, works, aborted, outcome, slotVars, lock,
                 registryVars, runVars, segment>>

\* REQUEST_TIMEOUT_MS: the segment timer of pump().
SegmentTimeout(r) ==
  /\ Pumping(r)
  /\ Macrotask
  /\ r \notin timedOut
  /\ timedOut' = timedOut \cup {r}
  /\ Discard(works[r])
  /\ UNCHANGED <<pc, requestVars, works, aborted, outcome, segment>>

(* runTurn(): what it does to what the requests share.  The mutex is held until *)
(* run.wait() is over, whoever cancelled the run.                          *)

PlainCancel(r) == sdk' = [sdk EXCEPT ![r] = IF @ = "running" THEN "cancelling" ELSE @]

PlainTimeout(r) ==
  /\ pc[r] = "plain"
  /\ Macrotask
  /\ r \notin timedOut
  /\ timedOut' = timedOut \cup {r}
  /\ PlainCancel(r)
  /\ UNCHANGED <<pc, requestVars, works, aborted, outcome, slotVars, lock,
                 registryVars, settled, armed, segment>>

\* The stream is over, or a tool call was captured (cancel mode) and the run is
\* cancelled for it: timer and abort listener are removed.
PlainDrains(r) ==
  /\ pc[r] = "plain"
  /\ Goto(r, "finishing")
  /\ UNCHANGED sdk \/ PlainCancel(r)
  /\ UNCHANGED <<requestVars, works, aborted, timedOut, outcome, slotVars, lock,
                 registryVars, settled, armed, segment>>

\* iterator.next() rejects: runTurn() throws at once, without cancelling the run
\* or waiting for it, and mutex and slot go back while it may be running.
PlainFails(r) ==
  /\ pc[r] = "plain"
  /\ Answer(r, "error")
  /\ armed' = [armed EXCEPT ![r] = NoRequest]
  /\ ReleaseMutex(r)
  /\ UNCHANGED <<requestVars, works, aborted, timedOut, registryVars, sdk, settled, segment>>

\* run.wait() is over: answer, mutex and slot.
PlainDone(r) ==
  /\ pc[r] = "finishing"
  /\ sdk[r] = "ended"
  /\ \E what \in {"final", "tool_calls", "cancelled", "error"} :
       /\ r \in aborted /\ armed[r] = r => what = "cancelled"
       /\ r \in timedOut \ aborted => what \in {"error", "tool_calls"}
       /\ Answer(r, what)
  /\ armed' = [armed EXCEPT ![r] = NoRequest]
  /\ ReleaseMutex(r)
  /\ UNCHANGED <<requestVars, works, aborted, timedOut, registryVars, sdk, settled, segment>>

-----------------------------------------------------------------------------
(* The clients' connections, the tool-result timers, the Cursor runs. *)

\* The connection closes before the answer was written.
ClientAborts(r) ==
  /\ Macrotask
  /\ \/ pc[r] \in {"pumping", "waiting", "plain"}
     \/ EarlyAbort /\ pc[r] \in {"locking", "sending"}
  /\ r \notin aborted
  /\ aborted' = aborted \cup {r}
  /\ \/ /\ works[r] # NoRequest /\ armed[works[r]] = r /\ pc[r] # "plain"
        /\ Discard(works[r])
     \/ /\ works[r] # NoRequest /\ armed[works[r]] = r /\ pc[r] = "plain"
        /\ PlainCancel(r)
        /\ UNCHANGED <<slotVars, lock, registryVars, settled, armed>>
     \/ /\ works[r] = NoRequest \/ armed[works[r]] # r
        /\ UNCHANGED <<slotVars, lock, registryVars, runVars>>
  /\ UNCHANGED <<pc, requestVars, works, timedOut, outcome, segment>>

\* (mutant: the run is forgotten and not torn down)
ToolTimeoutForgets(q) ==
  /\ Macrotask
  /\ q \in toolTimer
  /\ Forget(session[q])
  /\ toolTimer' = toolTimer \ {q}
  /\ UNCHANGED <<pc, requestVars, works, aborted, timedOut, outcome, slotVars, lock,
                 runVars, segment>>

\* TOOL_RESULT_TIMEOUT_MS since the run asked.
ToolTimeout(q) ==
  /\ Macrotask
  /\ q \in toolTimer
  /\ Discard(q)
  /\ UNCHANGED <<pc, requestVars, works, aborted, timedOut, outcome, segment>>

RunEnds(q) ==
  /\ Macrotask
  /\ sdk[q] \in {"running", "cancelling"}
  /\ sdk' = [sdk EXCEPT ![q] = "ended"]
  /\ UNCHANGED <<pc, requestVars, works, aborted, timedOut, outcome, slotVars, lock,
                 registryVars, settled, armed, segment>>

Prepare(r) ==
  \/ CatalogFails(r) \/ Match(r) \/ AcquireSlot(r) \/ SlotGranted(r)
  \/ PrepareFails(r) \/ Prepared(r)

Execute(r) ==
  \/ StartSend(r) \/ SendOk(r) \/ SendFails(r) \/ Provide(r)
  \/ PumpAsks(r) \/ PumpDrains(r) \/ PumpCancelled(r) \/ PumpTimedOut(r) \/ PumpFails(r)
  \/ WaitDone(r) \/ PlainDrains(r) \/ PlainFails(r) \/ PlainDone(r)

Next ==
  \E r \in Request :
    \/ Receive(r) \/ Prepare(r) \/ Execute(r)
    \/ SegmentTimeout(r) \/ PlainTimeout(r) \/ ToolTimeout(r)
    \/ ClientAborts(r) \/ RunEnds(r)

\* Timers fire, awaits of the gateway's own promises resume, and of the outside
\* world only this is assumed: the catalog and the session answer, agent.send()
\* settles, and a run that was cancelled, or whose stream runTurn() has read to
\* the end, ends.  Otherwise a run may stay silent, a client may stay away or keep
\* its connection, for ever.
Fairness ==
  \A r \in Request :
    /\ WF_vars(Prepare(r))
    /\ WF_vars(StartSend(r)) /\ WF_vars(SendOk(r) \/ SendFails(r)) /\ WF_vars(Provide(r))
    /\ WF_vars(works[r] \in settled /\ PumpCancelled(r))
    /\ WF_vars(PumpTimedOut(r)) /\ WF_vars(WaitDone(r)) /\ WF_vars(PlainDone(r))
    /\ WF_vars(SegmentTimeout(r)) /\ WF_vars(PlainTimeout(r)) /\ WF_vars(ToolTimeout(r))
    /\ WF_vars((sdk[r] = "cancelling" \/ pc[r] = "finishing") /\ RunEnds(r))
    /\ WF_vars(sdk[r] = "ended" /\ PlainDrains(r))

Spec == Init /\ [][Next]_vars /\ Fairness

-----------------------------------------------------------------------------
(* Properties. *)

Location == {"idle", "catalog", "matched", "queued", "resolving", "locking",
             "sending", "pumping", "waiting", "plain", "finishing", "done"}

\* Types of the variables.
TypeOK ==
  /\ pc \in [Request -> Location]
  /\ session \in [Request -> Session] /\ hold \subseteq Request
  /\ asks \in [Request -> Batch \cup {NoRequest}]
  /\ works \in [Request -> Request \cup {NoRequest}]
  /\ aborted \subseteq Request /\ timedOut \subseteq Request
  /\ outcome \in [Request -> {"none", "tool_calls", "final", "cancelled", "error"}]
  /\ Slots!TypeOK
  /\ lock \in [Session -> Seq(Request)]
  /\ held \in [Session -> Request \cup {NoRequest}]
  /\ index \subseteq Batch /\ toolTimer \subseteq Request
  /\ sdk \in [Request -> {"none", "running", "cancelling", "ended"}]
  /\ settled \subseteq Request
  /\ armed \in [Request -> Request \cup {NoRequest}]
  /\ segment \in [Request -> 0 .. MaxSegments]

\* Run q has been started in hold mode and has not reached a terminal state.
Alive(q) == q \in hold /\ works[q] = q /\ q \notin settled

IsHeld(q) == held[session[q]] = q

\* Request q is on its way from the slot it acquired to its answer.
InProgress(q) == pc[q] \in {"queued", "resolving", "locking", "sending", "pumping",
                            "waiting", "plain", "finishing"}

\* The semaphore's counter agrees with who owns a slot, although releases come
\* from routes, catch blocks, timers, disconnects and settled runs.
SlotsAgree == Slots!CounterAgrees /\ Slots!QueueSound

\* No slot is lost: its owner is in progress, or its run is alive, held or
\* worked on by some request.
NoSlotLost ==
  \A q \in slotOwners :
    \/ InProgress(q)
    \/ Alive(q) /\ (IsHeld(q) \/ \E r \in Request : Pumping(r) /\ works[r] = q)

\* No session is locked for ever: the owner of its mutex is in progress or its
\* run is alive, held or worked on; and nobody is in the queue of two mutexes
\* or twice in one.
NoMutexLost ==
  \A s \in Session : \A i, j \in DOMAIN lock[s] :
    LET q == lock[s][i]
    IN /\ session[q] = s
       /\ lock[s][j] = q => i = j
       /\ \/ pc[q] \in {"locking", "sending", "pumping", "waiting", "plain", "finishing"}
          \/ Alive(q) /\ (IsHeld(q) \/ \E r \in Request : Pumping(r) /\ works[r] = q)

\* A run keeps its session's mutex and its slot until it is settled, across
\* all the requests of its tool loop; so at most one live run per agent, and at
\* most Max in all.
LiveRunOwns ==
  \A q \in Request :
    Alive(q) \/ pc[q] \in {"plain", "finishing"} => OwnsLock(q) /\ q \in slotOwners

\* The registries agree: a held run is alive, its tool-result timer is armed,
\* its current batch - and no other - leads to it, and no request works on it.
RegistriesAgree ==
  /\ \A q \in Request : q \in toolTimer <=> IsHeld(q)
  /\ \A s \in Session : held[s] # NoRequest =>
       /\ session[held[s]] = s /\ Alive(held[s])
       /\ \A r \in Request : Pumping(r) => works[r] # held[s]
  /\ index = {<<q, segment[q]>> : q \in {held[s] : s \in Session} \ {NoRequest}}

\* One request at a time works on a live run, however often its client sends
\* the results of a batch, and the run listens to that request's disconnect.
OneWorker ==
  \A q \in Request : \A r1, r2 \in {r \in Request : Pumping(r) /\ works[r] = q} :
    Alive(q) => r1 = r2 /\ armed[q] = r1

\* A run that was settled is never registered, pumped by a new request or
\* unsettled again.
SettledIsFinal ==
  [][\A q \in settled : /\ q \in settled'
                        /\ held'[session[q]] # q
                        /\ \A r \in Request : works'[r] = q => works[r] = q]_vars

\* Every request is answered: slots, mutexes, timers and teardowns together
\* leave nobody waiting, also when all slots belong to runs that wait for the
\* results their clients' next requests bring.
EveryRequestAnswered == \A r \in Request : pc[r] # "idle" ~> pc[r] = "done"

\* Every slot is given back, and with it the session's mutex.
EverySlotReturns ==
  \A r \in Request : r \in slotOwners ~> r \notin slotOwners /\ ~OwnsLock(r)

\* README.md: "a global semaphore (`MAX_CONCURRENT_RUNS`) plus per-agent mutexes
\* prevent overwhelming the Cursor backend or triggering `AgentBusyError`".
NoSendToBusyAgent ==
  [][\A r \in Request : pc[r] = "locking" /\ pc'[r] = "sending" => ~Busy(session[r])]_vars

\* orchestrator.ts: "Acquires a global concurrency slot that the caller MUST
\* release (via the returned `releaseSemaphore`) exactly once".
SlotReleasedOnError == \A r \in Request : outcome[r] = "error" => r \notin slotOwners
=============================================================================
