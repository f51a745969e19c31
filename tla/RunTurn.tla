------------------------------ MODULE RunTurn ------------------------------
(***************************************************************************)
(* One turn that is not a continuation, from agent.send() to the last      *)
(* event of its HTTP answer: runTurn (src/src/cursor/runController.ts)     *)
(* with the cancel-mode ToolCallCapture (toolBridge.ts), or, when bridge   *)
(* is "hold", one segment of a held run (pump() of heldRunManager.ts);     *)
(* executeGatewayTurn's record() (orchestrator.ts); and the answers,       *)
(* streamed or not, of routes/chatCompletions.ts, completionsLegacy.ts,    *)
(* responses.ts and of the test chat in admin.ts.  What outlives the       *)
(* segment of a held run is in HeldRun.                                    *)
(*                                                                         *)
(* A text fragment is its number, a text the sequence of its fragments.    *)
(* Reasoning goes its own way, like text, and is left out.                 *)
(***************************************************************************)
EXTENDS Naturals, Sequences, FiniteSets

CONSTANTS
  Calls,         \* the tool calls the model may make
  MaxFragments   \* bound: text fragments of one run

ASSUME RunTurnAssumption == MaxFragments \in Nat /\ IsFiniteSet(Calls)

VARIABLES
  route,      \* the endpoint: "chat", "legacy", "responses" or "admin"
  streaming,  \* the client asked for a stream
  bridge,     \* the tool bridge: "none", "cancel" or "hold"
  pc,         \* "new", "send", "race", "wait", "answer", "done"
  run,        \* the Cursor run: "alive", "finished", "error", "cancelled"
  cancelling, \* run.cancel() was called
  produced,   \* fragments the run has produced
  text,       \* TextAccumulator.value
  captured,   \* the call a ToolCallCapture was resolved with, as a sequence
  toolCall,   \* capturedToolCall, or the batch of a held run
  armed,      \* the timer and the abort listener are in place
  timedOut,   \* the timer has fired
  aborted,    \* runTurn's flag, set by its listener; pump()'s abortSignal.aborted
  drained,    \* history: the stream ended before any timer or disconnect
  gone,       \* the client has disconnected
  outcome,    \* what executeGatewayTurn returns or throws
  activity,   \* what record() has logged
  events,     \* the answer so far
  open,       \* the Responses item that text goes to, 0 when none is open
  nextItem    \* nextOutputIndex; items are numbered from 1 here

vars == <<route, streaming, bridge, pc, run, cancelling, produced, text, captured, toolCall,
          armed, timedOut, aborted, drained, gone, outcome, activity, events, open, nextItem>>
turnVars == <<route, streaming, bridge>>
answerVars == <<outcome, activity>>
sinkVars == <<events, open, nextItem>>

Nothing == [finish |-> "none", content |-> <<>>, calls |-> <<>>]

Init ==
  /\ route \in {"chat", "legacy", "responses", "admin"} /\ streaming \in BOOLEAN
  /\ bridge \in IF route \in {"legacy", "admin"} THEN {"none"} ELSE {"none", "cancel", "hold"}
  /\ pc = "new" /\ run = "alive" /\ cancelling = FALSE /\ produced = 0
  /\ text = <<>> /\ captured = <<>> /\ toolCall = <<>>
  /\ armed = FALSE /\ timedOut = FALSE /\ aborted = FALSE /\ drained = FALSE /\ gone = FALSE
  /\ outcome = Nothing /\ activity = <<>> /\ events = <<>> /\ open = 0 /\ nextItem = 1

(***************************************************************************)
(* The sink: what the routes write                                         *)
(***************************************************************************)
Event(type, item, data) == [type |-> type, item |-> item, data |-> data]

Opening ==
  IF route = "chat" THEN <<Event("role", 0, <<>>)>>
  ELSE IF route = "responses" THEN <<Event("created", 0, <<>>)>> ELSE <<>>

\* onTextDelta of the chat: a chunk.  The legacy route and the test chat do
\* the same.
Chunk(fragment) ==
  events' = Append(events, Event("delta", 0, <<fragment>>)) /\ UNCHANGED <<open, nextItem>>

\* onTextDelta of the Responses route: a text item is opened when none is.
ItemText(fragment) ==
  \/ /\ open = 0
     /\ open' = nextItem /\ nextItem' = nextItem + 1
     /\ events' = events \o <<Event("added", nextItem, "message"),
                             Event("delta", nextItem, <<fragment>>)>>
  \/ /\ open # 0
     /\ events' = Append(events, Event("delta", open, <<fragment>>))
     /\ UNCHANGED <<open, nextItem>>

\* The sink's; a request that is not streamed has no sink.
OnText(fragment) ==
  IF ~streaming THEN UNCHANGED sinkVars
  ELSE IF route = "responses" THEN ItemText(fragment) ELSE Chunk(fragment)

\* Mutant: leaves the text item open.
CloseTextNot(es, content) == es
\* closeTextIfOpen
CloseText(es, content) ==
  IF open = 0 THEN es ELSE Append(es, Event("done", open, content))

\* onToolCallStarted, once per call, of the chat; of the Responses route: an
\* item is added, gets its arguments and is done at once.
CallChunks(calls) ==
  /\ events' = events \o [i \in DOMAIN calls |-> Event("call", i - 1, calls[i])]
  /\ UNCHANGED nextItem
CallItems(calls) ==
  /\ events' = CloseText(events, text) \o
       [k \in 1 .. 2 * Len(calls) |->
          IF k % 2 = 1 THEN Event("added", nextItem + k \div 2, "call")
          ELSE Event("done", nextItem + k \div 2 - 1, calls[k \div 2])]
  /\ nextItem' = nextItem + Len(calls)

Surface(calls) ==
  /\ toolCall' = calls
  /\ IF ~streaming THEN UNCHANGED <<events, nextItem>>
     ELSE IF route = "responses" THEN CallItems(calls) ELSE CallChunks(calls)
  /\ open' = 0

(***************************************************************************)
(* runTurn                                                                 *)
(***************************************************************************)
\* The route has written its first event and the mutex is granted.
Start ==
  /\ pc = "new" /\ pc' = "send"
  /\ events' = IF streaming THEN Opening ELSE <<>>
  /\ UNCHANGED <<turnVars, run, cancelling, produced, text, captured, toolCall, armed,
                 timedOut, aborted, drained, gone, answerVars, open, nextItem>>

\* agent.send() returns; timer and listener are installed.  The listener
\* does not hear of a disconnect from before.
SendOk ==
  /\ pc = "send" /\ pc' = "race" /\ armed' = TRUE
  /\ UNCHANGED <<turnVars, run, cancelling, produced, text, captured, toolCall,
                 timedOut, aborted, drained, gone, answerVars, sinkVars>>

\* A fragment arrives and wins the race: consumeSdkMessage.
Message ==
  /\ pc = "race" /\ produced < MaxFragments /\ run = "alive"
  /\ produced' = produced + 1
  /\ text' = Append(text, produced + 1)
  /\ OnText(produced + 1)
  /\ UNCHANGED <<turnVars, pc, run, cancelling, captured, toolCall, armed, timedOut,
                 aborted, drained, gone, answerVars>>

\* The model calls a bridged tool: ToolCallCapture.capture keeps the first
\* call; the run goes on with a placeholder result.
Capture ==
  /\ bridge = "cancel" /\ pc \in {"send", "race", "wait"} /\ run = "alive"
  /\ \E call \in Calls :
       captured' = IF captured = <<>> THEN <<call>> ELSE captured
  /\ UNCHANGED <<turnVars, pc, run, cancelling, produced, text, toolCall, armed,
                 timedOut, aborted, drained, gone, answerVars, sinkVars>>

\* runTurn's finally: the timer and the listener go.
Leave == pc' = "wait" /\ armed' = FALSE

\* The captured call wins the race: it is surfaced and the run cancelled.
ToolWins ==
  /\ pc = "race" /\ captured # <<>>
  /\ Surface(captured) /\ cancelling' = TRUE /\ Leave
  /\ UNCHANGED <<turnVars, run, produced, text, captured, timedOut, aborted, drained, gone,
                 answerVars>>

\* The stream ends, maybe before the run does.  pump() looks at its timer and
\* the abort signal, and keeps both in place.
StreamDone ==
  /\ pc = "race"
  /\ IF bridge = "hold" THEN ~timedOut /\ ~aborted /\ pc' = "wait" /\ UNCHANGED armed ELSE Leave
  /\ drained' = (~timedOut /\ ~aborted)
  /\ UNCHANGED <<turnVars, run, cancelling, produced, text, captured, toolCall, timedOut,
                 aborted, gone, answerVars, sinkVars>>

\* The calls of a batch, in the order in which they came.
Batches ==
  {calls \in UNION {[1 .. n -> Calls] : n \in 1 .. Cardinality(Calls)} :
     \A i, j \in DOMAIN calls : calls[i] = calls[j] => i = j}

\* pump(): a segment ends with the calls of a batch and without a wait.
BatchWins ==
  /\ bridge = "hold" /\ pc = "race" /\ run = "alive" /\ ~timedOut /\ ~aborted
  /\ \E calls \in Batches : Surface(calls)
  /\ pc' = "wait" /\ armed' = FALSE
  /\ UNCHANGED <<turnVars, run, cancelling, produced, text, captured, timedOut, aborted,
                 drained, gone, answerVars>>

\* The timer, and the disconnect, cancel the run.
Timeout ==
  /\ armed /\ ~timedOut /\ timedOut' = TRUE /\ cancelling' = TRUE
  /\ UNCHANGED <<turnVars, pc, run, produced, text, captured, toolCall, armed, aborted,
                 drained, gone, answerVars, sinkVars>>

\* The test chat has no abort signal when it is not streamed.  pump() reads
\* the signal, but nothing once it has its batch.
Disconnect ==
  /\ pc \in {"send", "race", "wait"} /\ ~(bridge = "hold" /\ toolCall # <<>>)
  /\ ~gone /\ gone' = TRUE
  /\ aborted' = (bridge = "hold" \/ (armed /\ (route # "admin" \/ streaming)))
  /\ cancelling' = (cancelling \/ (armed /\ aborted'))
  /\ UNCHANGED <<turnVars, pc, run, produced, text, captured, toolCall, armed, timedOut,
                 drained, answerVars, sinkVars>>

\* Cursor ends the run; a cancelled one may still have come to its own end.
RunEnds ==
  /\ pc \in {"race", "wait"} /\ run = "alive"
  /\ run' \in {"finished", "error"} \cup (IF cancelling THEN {"cancelled"} ELSE {})
  /\ UNCHANGED <<turnVars, pc, cancelling, produced, text, captured, toolCall, armed,
                 timedOut, aborted, drained, gone, answerVars, sinkVars>>

Result(finish, calls) == [finish |-> finish, content |-> text, calls |-> calls]
Failure == [finish |-> "error", content |-> <<>>, calls |-> <<>>]

\* Mutant: takes whatever the run says for its end.
ClassifyByRun ==
  IF run = "error" THEN Failure
  ELSE Result(IF toolCall # <<>> THEN "tool_calls" ELSE "stop", toolCall)
\* What runTurn makes of it once run.wait() has settled.
Classify ==
  IF aborted THEN Result("cancelled", <<>>)
  ELSE IF timedOut /\ toolCall = <<>> THEN Failure
  ELSE IF toolCall = <<>> /\ run = "error" THEN Failure
  ELSE Result(IF toolCall # <<>> THEN "tool_calls"
              ELSE IF run = "cancelled" THEN "cancelled" ELSE "stop", toolCall)

\* What pump() makes of it: after run.wait() it asks for "error" only.
Segment ==
  IF toolCall # <<>> THEN Result("tool_calls", toolCall)
  ELSE IF run = "error" THEN Failure ELSE Result("stop", <<>>)

\* record(): the activity log's status of an outcome.
Status(finish) == IF finish = "stop" THEN "ok" ELSE finish

\* The turn is over, with this outcome.
Conclude(result) ==
  /\ outcome' = result /\ activity' = Append(activity, Status(result.finish))
  /\ pc' = "answer" /\ armed' = FALSE
  /\ UNCHANGED <<turnVars, run, cancelling, produced, text, captured, toolCall, timedOut,
                 aborted, drained, gone, sinkVars>>

\* run.wait() settles; a held run that asks for tools does not wait for it.
Settle ==
  /\ pc = "wait" /\ (run # "alive" \/ (bridge = "hold" /\ toolCall # <<>>))
  /\ Conclude(IF bridge = "hold" THEN Segment ELSE Classify)

\* pump(): the timer or the disconnect has closed the gate, and the race ends
\* with an empty batch, or the stream ends; the timer is looked at first.
SegmentCut ==
  /\ bridge = "hold" /\ pc = "race" /\ (timedOut \/ aborted)
  /\ Conclude(IF timedOut THEN Failure ELSE Result("cancelled", <<>>))

\* agent.send(), or the stream, is rejected.
Reject == pc \in {"send", "race"} /\ Conclude(Failure)

\* run.wait() is rejected: ignored after an intentional cancellation; pump()
\* ignores it always, and has no status then.
RejectWait ==
  /\ pc = "wait" /\ ~(bridge = "hold" /\ toolCall # <<>>)
  /\ Conclude(IF bridge = "hold" THEN Result("stop", <<>>)
              ELSE IF toolCall # <<>> \/ timedOut \/ aborted THEN Classify ELSE Failure)

(***************************************************************************)
(* The end of the answer                                                   *)
(***************************************************************************)
\* outcomeToOutputItems: the message first, then the calls, which are those
\* that were streamed when there were any.
Output ==
  LET calls == IF toolCall # <<>> THEN toolCall ELSE outcome.calls IN
  (IF outcome.content # <<>> \/ calls = <<>>
   THEN <<[type |-> "message", data |-> outcome.content]>> ELSE <<>>)
  \o [i \in DOMAIN calls |-> [type |-> "call", data |-> calls[i]]]

\* toOpenAIFinishReason
FinishReason == IF outcome.finish = "tool_calls" THEN "tool_calls" ELSE "stop"

\* What ends the stream of an outcome, before [DONE].
ChatEnd == Append(events, Event("final", 0, FinishReason))
LegacyEnd == Append(events, Event("final", 0, "stop"))
AdminEnd == Append(events, Event("final", 0, outcome.finish))
ResponsesEnd == Append(CloseText(events, outcome.content), Event("completed", 0, Output))

\* The answer to a request that is not streamed: the message, and for a
\* client that can read it what was called.
Body ==
  IF route = "responses" THEN Event("completed", 0, Output)
  ELSE Event("body", 0, [content |-> outcome.content,
         calls |-> IF route = "chat" THEN outcome.calls ELSE <<>>,
         finish |-> IF route = "chat" THEN FinishReason ELSE "stop"])

\* An error is sent in place of the end.
Finish ==
  /\ pc = "answer" /\ pc' = "done"
  /\ events' =
       IF outcome.finish = "error" THEN Append(events, Event("failed", 0, <<>>))
       ELSE IF ~streaming THEN <<Body>>
       ELSE CASE route = "chat" -> ChatEnd
              [] route = "legacy" -> LegacyEnd
              [] route = "admin" -> AdminEnd
              [] route = "responses" -> ResponsesEnd
  /\ open' = 0
  /\ UNCHANGED <<turnVars, run, cancelling, produced, text, captured, toolCall, armed,
                 timedOut, aborted, drained, gone, answerVars, nextItem>>

Next ==
  \/ Start \/ SendOk \/ Message \/ Capture \/ ToolWins \/ StreamDone \/ BatchWins
  \/ Timeout \/ Disconnect \/ RunEnds \/ Settle \/ SegmentCut \/ Reject \/ RejectWait \/ Finish

Spec == Init /\ [][Next]_vars

(***************************************************************************)
(* Properties                                                              *)
(***************************************************************************)
Ends == {"failed", "completed", "final", "body"}

\* The events of this type are `told`, one after the other.
Tells(es, type, told) ==
  \E n \in 0 .. Len(es) :
    /\ \A i \in DOMAIN told : n + i \in DOMAIN es /\ es[n + i] = told[i]
    /\ \A i \in DOMAIN es : es[i].type = type => i \in n + 1 .. n + Len(told)

\* The items of this output, and no others, are each added once, under their
\* index, and afterwards done once, with their contents.
TellsItems(es, output) ==
  /\ \A i \in DOMAIN output : \E a, d \in DOMAIN es :
       /\ a < d
       /\ es[a] = Event("added", i, output[i].type)
       /\ es[d] = Event("done", i, output[i].data)
  /\ \A j \in DOMAIN es : es[j].type \in {"added", "done"} =>
       /\ es[j].item \in DOMAIN output
       /\ \A k \in DOMAIN es :
            es[k].type = es[j].type /\ es[k].item = es[j].item => k = j

\* The answer tells what the turn's outcome is, streamed or not: it has one
\* end, and one line in the activity log, which agree; the deltas are the
\* content; each call is told once, with its index; the items of a streamed
\* Responses answer are the `output` of its last event (when there were any).
StreamTellsOutcome ==
  pc = "done" =>
    LET last == events[Len(events)]
        item == IF route = "responses" THEN 1 ELSE 0 IN
    /\ Len(activity) = 1
    /\ last.type \in Ends
    /\ \A i \in 1 .. Len(events) - 1 : events[i].type \notin Ends
    /\ activity[1] = "error" <=> last.type = "failed"
    /\ streaming /\ last.type # "failed" =>
         Tells(events, "delta", [i \in DOMAIN outcome.content |->
                                   Event("delta", item, <<outcome.content[i]>>)])
    /\ last.type = "completed" /\ (\E i \in DOMAIN events : events[i].type = "added") =>
         TellsItems(events, last.data)
    /\ last.type = "final" /\ ~aborted =>
         /\ last.data = "tool_calls" <=> outcome.calls # <<>>
         /\ Tells(events, "call", [i \in DOMAIN outcome.calls |->
                                     Event("call", i - 1, outcome.calls[i])])
    /\ last.type = "body" =>
         /\ last.data.calls = outcome.calls
         /\ last.data.finish = "tool_calls" <=> toolCall # <<>> /\ ~aborted

\* "stop" is said only of a turn whose stream was read to its end before the
\* timer or the client cut it, with all that was read told; for runTurn also
\* only of a run that came to its end by itself and that neither of the two
\* ended.  For a held run that is not so: pump() says it too when they come,
\* or run.wait() is rejected, after the stream.  A call that was surfaced is
\* never turned into a plain answer or a failure by the cancellation that
\* follows it.
StopMeansFinished ==
  pc \in {"answer", "done"} =>
    /\ outcome.finish = "stop" =>
         /\ drained /\ outcome.content = [i \in 1 .. produced |-> i]
         /\ bridge # "hold" => run = "finished" /\ ~timedOut /\ ~aborted
    /\ toolCall # <<>> => outcome.finish = "tool_calls" \/ aborted
=============================================================================
