------------------------- MODULE TurnPipelineProofs -------------------------
(***************************************************************************)
(* Proofs about TurnPipeline, for any tool calls, catalogs, callers and    *)
(* bounds.  The two halves of a request share no variable: TurnInv is the  *)
(* invariant of the turn, Script what it has told so far, CatalogInv the   *)
(* invariant of the catalog's cache, and Chosen that of the resolved id.   *)
(***************************************************************************)
EXTENDS TurnPipeline, SequenceTheorems, WellFoundedInduction, TLAPS

(***************************************************************************)
(* The turn.  StopMeansFinished is kept because a turn that waits for its  *)
(* run without a call has had its stream to the end, unless runTurn's      *)
(* timer or listener says otherwise; because runTurn has taken both away   *)
(* by then, and pump(), which has not, never reads them again; and because *)
(* no call is surfaced while the stream is raced, and what was read is the *)
(* text.                                                                   *)
(***************************************************************************)
TurnInv ==
  /\ pc \in {"new", "send", "race", "wait", "answer", "done"}
  /\ run \in {"alive", "finished", "error", "cancelled"}
  /\ produced \in Nat /\ text = [i \in 1 .. produced |-> i]
  /\ pc \in {"new", "send", "race"} => toolCall = <<>>
  /\ bridge # "cancel" => captured = <<>>
  /\ armed => pc = "race" \/ (pc = "wait" /\ bridge = "hold" /\ toolCall = <<>>)
  /\ aborted => gone
  /\ pc = "wait" /\ toolCall = <<>> => drained \/ (bridge # "hold" /\ (timedOut \/ aborted))
  /\ pc = "wait" /\ bridge = "hold" /\ toolCall # <<>> => ~aborted
  /\ StopMeansFinished

LEMMA NextFragment ==
  ASSUME NEW n \in Nat
  PROVE  Append([i \in 1 .. n |-> i], n + 1) = [i \in 1 .. n + 1 |-> i]
<1> DEFINE s == [i \in 1 .. n |-> i]
<1>1. s \in Seq(Nat) /\ Len(s) = n
  BY LenProperties, SMT
<1>2. /\ Append(s, n + 1) \in Seq(Nat) /\ Len(Append(s, n + 1)) = n + 1
      /\ \A i \in 1 .. n : Append(s, n + 1)[i] = s[i]
      /\ Append(s, n + 1)[n + 1] = n + 1
  BY <1>1, AppendProperties, n + 1 \in Nat
<1>3. Append(s, n + 1) = [i \in 1 .. n + 1 |-> Append(s, n + 1)[i]]
  BY <1>2, LenProperties
<1>4. \A i \in 1 .. n + 1 : Append(s, n + 1)[i] = i
  BY <1>2, SMT
<1> QED
  BY <1>3, <1>4

LEMMA TurnInit == Init => TurnInv
<1> SUFFICES ASSUME Init PROVE TurnInv
  OBVIOUS
<1>1. <<>> = [i \in 1 .. 0 |-> i]
  BY SMT
<1> QED
  BY <1>1 DEF Init, TurnInv, StopMeansFinished

\* What runTurn, and what pump(), make of a turn.
LEMMA Ends1 ==
  ASSUME run \in {"alive", "finished", "error", "cancelled"}
  PROVE  /\ Classify.finish = "stop" =>
              /\ ~timedOut /\ ~aborted /\ Classify.content = text
              /\ toolCall = <<>> /\ run \notin {"error", "cancelled"}
         /\ toolCall # <<>> => Classify.finish = "tool_calls" \/ aborted
         /\ Segment.finish = "stop" => Segment.content = text /\ toolCall = <<>>
         /\ toolCall # <<>> => Segment.finish = "tool_calls"
         /\ Failure.finish = "error"
         /\ \A finish, calls : /\ Result(finish, calls).finish = finish
                               /\ Result(finish, calls).content = text
  BY DEF Classify, Segment, Result, Failure

LEMMA BatchNotEmpty == ASSUME NEW calls \in Batches PROVE calls # <<>>
<1>1. PICK n \in 1 .. Cardinality(Calls) : calls \in [1 .. n -> Calls]
  BY DEF Batches
<1>2. 1 \in DOMAIN calls
  BY <1>1
<1>3. DOMAIN <<>> = {}
  <2>1. <<>> = [i \in 1 .. 0 |-> i] /\ 1 .. 0 = {}
    BY SMT
  <2> QED
    BY <2>1
<1> QED
  BY <1>2, <1>3

\* The outcomes that a turn may be concluded with.
Truthful(result) ==
  /\ result.finish = "stop" =>
       /\ drained /\ result.content = text
       /\ bridge # "hold" => run = "finished" /\ ~timedOut /\ ~aborted
  /\ toolCall # <<>> => result.finish = "tool_calls" \/ aborted

LEMMA ConcludeInv ==
  ASSUME TurnInv, NEW result, Conclude(result), Truthful(result),
         pc \in {"send", "race", "wait"}
  PROVE  TurnInv'
  BY DEF TurnInv, StopMeansFinished, Conclude, Truthful, turnVars

LEMMA TurnStepInv == TurnInv /\ [Next]_vars => TurnInv'
<1> SUFFICES ASSUME TurnInv, [Next]_vars PROVE TurnInv'
  OBVIOUS
<1> USE DEF TurnInv, StopMeansFinished, turnVars, answerVars
<1>1. CASE Start
  BY <1>1 DEF Start
<1>2. CASE SendOk
  BY <1>2 DEF SendOk
<1>3. CASE Message
  BY <1>3, NextFragment DEF Message
<1>4. CASE Capture
  BY <1>4 DEF Capture
<1>5. CASE ToolWins
  BY <1>5 DEF ToolWins, Leave, Surface
<1>6. CASE StreamDone
  BY <1>6 DEF StreamDone, Leave
<1>7. CASE BatchWins
  <2>1. PICK calls \in Batches : toolCall' = calls
    BY <1>7 DEF BatchWins, Surface
  <2>2. toolCall' # <<>>
    BY <2>1, BatchNotEmpty
  <2> QED
    BY <1>7, <2>2 DEF BatchWins
<1>8. CASE Timeout
  BY <1>8 DEF Timeout
<1>9. CASE Disconnect
  BY <1>9 DEF Disconnect
<1>10. CASE RunEnds
  BY <1>10 DEF RunEnds
<1>11. CASE Settle
  <2>1. PICK result : /\ result = IF bridge = "hold" THEN Segment ELSE Classify
                      /\ Conclude(result) /\ pc = "wait"
    BY <1>11 DEF Settle
  <2>2. CASE bridge = "hold"
    BY <2>1, <2>2, Ends1, ConcludeInv DEF Truthful
  <2>3. CASE bridge # "hold"
    <3>1. run # "alive"
      BY <1>11, <2>3 DEF Settle
    <3> QED
      BY <2>1, <2>3, <3>1, Ends1, ConcludeInv DEF Truthful
  <2> QED
    BY <2>2, <2>3
<1>12. CASE SegmentCut
  <2>1. PICK result : /\ result = IF timedOut THEN Failure ELSE Result("cancelled", <<>>)
                      /\ Conclude(result) /\ pc = "race"
    BY <1>12 DEF SegmentCut
  <2>2. result.finish \in {"error", "cancelled"}
    BY <2>1, Ends1
  <2> QED
    BY <2>1, <2>2, ConcludeInv DEF Truthful
<1>13. CASE Reject
  BY <1>13, Ends1, ConcludeInv DEF Reject, Truthful
<1>14. CASE RejectWait
  <2>1. PICK result :
          /\ result = IF bridge = "hold" THEN Result("stop", <<>>)
                      ELSE IF toolCall # <<>> \/ timedOut \/ aborted THEN Classify ELSE Failure
          /\ Conclude(result) /\ pc = "wait"
    BY <1>14 DEF RejectWait
  <2>2. CASE bridge = "hold"
    <3>1. toolCall = <<>> /\ drained
      BY <1>14, <2>2 DEF RejectWait
    <3> QED
      BY <2>1, <2>2, <3>1, Ends1, ConcludeInv DEF Truthful
  <2>3. CASE bridge # "hold"
    <3>1. CASE toolCall # <<>> \/ timedOut \/ aborted
      <4>1. result.finish # "stop" /\ (toolCall # <<>> => result.finish = "tool_calls" \/ aborted)
        BY <2>1, <2>3, <3>1, Ends1
      <4> QED
        BY <2>1, <4>1, ConcludeInv DEF Truthful
    <3>2. CASE toolCall = <<>> /\ ~timedOut /\ ~aborted
      BY <2>1, <2>3, <3>2, Ends1, ConcludeInv DEF Truthful
    <3> QED
      BY <3>1, <3>2
  <2> QED
    BY <2>2, <2>3
<1>15. CASE Finish
  BY <1>15 DEF Finish
<1>16. CASE UNCHANGED vars
  BY <1>16 DEF vars
<1> QED
  BY <1>1, <1>2, <1>3, <1>4, <1>5, <1>6, <1>7, <1>8, <1>9, <1>10, <1>11, <1>12, <1>13, <1>14,
     <1>15, <1>16 DEF Next

\* A turn says "stop" only when its stream was read to the end before timer
\* and disconnect, and told whole; runTurn() only of a run that ended by
\* itself, too.  A surfaced call is never turned into something else.  This
\* under every order of stream, captured call, batch, timer, disconnect and
\* rejection, for runTurn() and for a segment of pump().
THEOREM StopIsTrue == Spec => []StopMeansFinished
<1>1. Init => TurnInv
  BY TurnInit
<1>2. TurnInv /\ [Next]_vars => TurnInv'
  BY TurnStepInv
<1>3. TurnInv => StopMeansFinished
  BY DEF TurnInv
<1> QED
  BY <1>1, <1>2, <1>3, PTL DEF Spec

\* The turn of a request that has its model from the catalog is such a turn.
LEMMA PipelineStep == [PipelineNext]_allVars => [Next]_vars
<1> SUFFICES ASSUME [PipelineNext]_allVars PROVE [Next]_vars
  OBVIOUS
<1>1. CASE ListStep /\ UNCHANGED <<vars, requestVars>>
  BY <1>1
<1>2. CASE Resolve
  BY <1>2 DEF Resolve
<1>3. CASE Begin
  BY <1>3 DEF Begin, Next
<1>4. CASE TurnStep
  BY <1>4 DEF TurnStep, Next
<1>5. CASE UNCHANGED allVars
  BY <1>5 DEF allVars
<1> QED
  BY <1>1, <1>2, <1>3, <1>4, <1>5 DEF PipelineNext

\* The same of every request of the pipeline, whatever the catalog does.
THEOREM PipelineStopIsTrue == PipelineSpec => []StopMeansFinished
<1>1. PipelineInit => TurnInv
  BY TurnInit DEF PipelineInit
<1>2. TurnInv /\ [PipelineNext]_allVars => TurnInv'
  BY PipelineStep, TurnStepInv
<1>3. TurnInv => StopMeansFinished
  BY DEF TurnInv
<1> QED
  BY <1>1, <1>2, <1>3, PTL DEF PipelineSpec

(***************************************************************************)
(* The catalog.  There is one fetch at a time, so that the cache is, while *)
(* it is under way, what the fetch fell back on; what it will be answered  *)
(* was published since and is no older.                                    *)
(***************************************************************************)
\* The calls of a catalog whose cache is `version`.
Calling(calls, version) ==
  /\ calls \in [Callers -> [pc : {"idle", "waiting", "done"}, floor : Nat, answer : Nat]]
  /\ \A c \in Callers : /\ calls[c].pc = "waiting" => calls[c].floor <= version
                        /\ calls[c].pc = "done" => calls[c].floor <= calls[c].answer

\* The fetches that are under way while the cache is `version`.
Fetching(fetches, version, newest) ==
  /\ fetches \in [Callers -> [since : Nat, fallback : Nat]]
  /\ \A c, d \in {e \in Callers : fetches[e] # NoFetch} : c = d
  /\ \A c \in {e \in Callers : fetches[e] # NoFetch} :
       /\ fetches[c].fallback = version
       /\ version <= fetches[c].since /\ fetches[c].since <= newest

CatalogInv ==
  /\ upstream \in Nat /\ cached \in Nat /\ cached <= upstream
  /\ joined \in [Callers -> Callers]
  /\ Fetching(fetch, cached, upstream) /\ Calling(call, cached)

\* What CatalogNeverGoesBack asks of a step.
StepForward ==
  /\ cached' >= cached
  /\ \A c \in Callers : call'[c].pc = "done" => call'[c].answer >= call'[c].floor

LEMMA CatalogInitInv == CatalogInit => CatalogInv
  BY DEF CatalogInit, CatalogInv, Fetching, Calling, NoFetch, Idle

LEMMA CallingForward ==
  ASSUME NEW version, Calling(call', version)
  PROVE  \A c \in Callers : call'[c].pc = "done" => call'[c].answer >= call'[c].floor
  BY DEF Calling

\* An answer that is no older than the cache was.
LEMMA Answered ==
  ASSUME NEW d \in Callers, NEW version \in Nat, Calling(call, cached),
         cached \in Nat, cached <= version, Answer(d, version)
  PROVE  Calling(call', version)
<1>1. \A c \in Callers : /\ call[c] \in [pc : {"idle", "waiting", "done"}, floor : Nat, answer : Nat]
                         /\ call[c].floor \in Nat /\ call[c].answer \in Nat
  BY DEF Calling
<1>2. SUFFICES ASSUME NEW c \in Callers
               PROVE  /\ call'[c] \in [pc : {"idle", "waiting", "done"}, floor : Nat, answer : Nat]
                      /\ call'[c].pc = "waiting" => call'[c].floor <= version
                      /\ call'[c].pc = "done" => call'[c].floor <= call'[c].answer
  BY DEF Calling, Answer
<1>3. CASE call[c].pc = "waiting" /\ joined[c] = d
  <2>1. call'[c] = [call[c] EXCEPT !.pc = "done", !.answer = version]
    BY <1>3 DEF Answer
  <2>2. /\ call'[c] \in [pc : {"idle", "waiting", "done"}, floor : Nat, answer : Nat]
        /\ call'[c].pc = "done" /\ call'[c].floor = call[c].floor /\ call'[c].answer = version
    BY <1>1, <2>1
  <2>3. call[c].floor <= cached
    BY <1>3 DEF Calling
  <2> QED
    BY <1>1, <2>2, <2>3
<1>4. CASE ~(call[c].pc = "waiting" /\ joined[c] = d)
  <2>1. call'[c] = call[c]
    BY <1>4 DEF Answer
  <2>2. /\ call[c].pc = "waiting" => call[c].floor <= cached
        /\ call[c].pc = "done" => call[c].floor <= call[c].answer
    BY DEF Calling
  <2> QED
    BY <1>1, <2>1, <2>2
<1> QED
  BY <1>3, <1>4

LEMMA FetchEnds ==
  ASSUME NEW c \in inflight, Fetching(fetch, cached, upstream),
         fetch' = [fetch EXCEPT ![c] = NoFetch]
  PROVE  Fetching(fetch', cached', upstream')
  BY DEF Fetching, inflight, NoFetch

LEMMA CatalogCallStep ==
  ASSUME CatalogInv, NEW c \in Callers, CatalogStep(c) \/ CallAgain(c)
  PROVE  CatalogInv' /\ StepForward
<1>1. SUFFICES CatalogInv' /\ cached' >= cached
  BY CallingForward DEF CatalogInv, StepForward
<1> USE DEF CatalogInv
<1>2. CASE ListCached(c)
  BY <1>2 DEF ListCached, Calling
<1>3. CASE ListFetch(c)
  <2>1. UNCHANGED <<upstream, cached>> /\ Calling(call', cached)
    BY <1>3 DEF ListFetch, Wait, Calling
  <2>2. joined' \in [Callers -> Callers] /\ Fetching(fetch', cached, upstream)
    <3>1. CASE inflight # {}
      BY <1>3, <3>1 DEF ListFetch, inflight
    <3>2. CASE inflight = {}
      BY <1>3, <3>2 DEF ListFetch, inflight, Fetching, NoFetch
    <3> QED
      BY <3>1, <3>2
  <2> QED
    BY <2>1, <2>2
<1>4. CASE FetchOk(c)
  <2>1. PICK version \in fetch[c].since .. upstream : cached' = version /\ Answer(c, version)
    BY <1>4 DEF FetchOk
  <2>2. /\ fetch' = [fetch EXCEPT ![c] = NoFetch]
        /\ c \in inflight /\ UNCHANGED <<upstream, joined>>
    BY <1>4 DEF FetchOk
  <2>3. version \in Nat /\ cached <= version /\ version <= upstream
    BY <2>1, <2>2 DEF Fetching, inflight
  <2>4. Calling(call', cached') /\ Fetching(fetch', cached', upstream')
    BY <2>1, <2>2, <2>3, Answered, FetchEnds
  <2> QED
    BY <2>1, <2>2, <2>3, <2>4
<1>5. CASE FetchFails(c)
  <2>1. /\ fetch' = [fetch EXCEPT ![c] = NoFetch]
        /\ c \in inflight /\ UNCHANGED <<upstream, cached, joined>>
        /\ Answer(c, fetch[c].fallback)
    BY <1>5 DEF FetchFails
  <2>2. fetch[c].fallback = cached
    BY <2>1 DEF Fetching, inflight
  <2>3. Answer(c, cached)
    BY <2>1, <2>2
  <2>4. Calling(call', cached)
    BY <2>3, cached <= cached, Answered
  <2>5. Fetching(fetch', cached', upstream')
    BY <2>1, FetchEnds
  <2> QED
    BY <2>1, <2>4, <2>5
<1>6. CASE CallAgain(c)
  BY <1>6 DEF CallAgain, Calling, Idle
<1> QED
  BY <1>2, <1>3, <1>4, <1>5, <1>6 DEF CatalogStep

LEMMA CatalogStepInv ==
  CatalogInv /\ [PipelineNext]_allVars => CatalogInv' /\ [StepForward]_catalogVars
<1> SUFFICES ASSUME CatalogInv, [PipelineNext]_allVars
             PROVE  CatalogInv' /\ [StepForward]_catalogVars
  OBVIOUS
<1>1. CASE ListStep
  <2> USE DEF CatalogInv, StepForward, Fetching, Calling
  <2>1. CASE Expires
    BY <2>1 DEF Expires
  <2>2. CASE Publish
    BY <2>2 DEF Publish
  <2> QED
    BY <1>1, <2>1, <2>2, CatalogCallStep DEF ListStep
<1>2. CASE UNCHANGED catalogVars
  BY <1>2 DEF CatalogInv, catalogVars
<1>3. CASE Resolve \/ Begin \/ (TurnStep /\ UNCHANGED <<catalogVars, requestVars>>)
                  \/ UNCHANGED allVars
  BY <1>2, <1>3 DEF Resolve, Begin, allVars
<1> QED
  BY <1>1, <1>3 DEF PipelineNext

\* The cache never goes back to an older catalog, and no caller of list() is
\* given one that is older than what was cached when he called, however
\* fetches, joins, failures and the TTL interleave.
THEOREM CatalogMovesForward == PipelineSpec => CatalogNeverGoesBack
<1>1. PipelineInit => CatalogInv
  BY CatalogInitInv DEF PipelineInit
<1>2. CatalogInv /\ [PipelineNext]_allVars => CatalogInv' /\ [StepForward]_catalogVars
  BY CatalogStepInv
<1> QED
  BY <1>1, <1>2, PTL DEF PipelineSpec, CatalogNeverGoesBack, StepForward

(***************************************************************************)
(* The answer                                                              *)
(*                                                                         *)
(* StreamTellsOutcome follows from a script: at every moment the events    *)
(* that were streamed are the opening, the fragments that were read and    *)
(* the calls that were surfaced, in this order (Plain); on the Responses   *)
(* route inside the items they belong to (Itemized).  Both scripts and the *)
(* lemmas about them are about sequences alone.                            *)
(***************************************************************************)
IsSeq(s) == Len(s) \in Nat /\ s = [i \in 1 .. Len(s) |-> s[i]]

Fragments(n) == [i \in 1 .. n |-> i]

\* A stream without items: `lead` opening events, n fragments, the calls.
Plain(es, lead, n, calls) ==
  /\ IsSeq(es) /\ Len(es) = lead + n + Len(calls)
  /\ \A i \in 1 .. lead : es[i].type \in {"role", "created"}
  /\ \A i \in 1 .. n : es[lead + i] = Event("delta", 0, <<i>>)
  /\ \A i \in 1 .. Len(calls) : es[lead + n + i] = Event("call", i - 1, calls[i])

\* The items before the calls, and the events that tell them.
TextItems(n) == IF n = 0 THEN 0 ELSE 1
Base(n, item) == IF n = 0 THEN 1 ELSE IF item = 0 THEN n + 3 ELSE n + 2

\* A stream of the Responses route: an item with n fragments, closed (item 0)
\* or still open, and one item per call.
Itemized(es, n, item, calls) ==
  /\ IsSeq(es) /\ Len(es) = Base(n, item) + 2 * Len(calls)
  /\ es[1].type \in {"role", "created"}
  /\ n # 0 => es[2] = Event("added", 1, "message")
  /\ \A i \in 1 .. n : es[2 + i] = Event("delta", 1, <<i>>)
  /\ n # 0 /\ item = 0 => es[n + 3] = Event("done", 1, Fragments(n))
  /\ \A j \in 1 .. Len(calls) :
       /\ es[Base(n, item) + 2 * j - 1] = Event("added", TextItems(n) + j, "call")
       /\ es[Base(n, item) + 2 * j] = Event("done", TextItems(n) + j, calls[j])

LEMMA SeqOfLength ==
  ASSUME NEW n \in Nat, NEW s, s = [i \in 1 .. n |-> s[i]]
  PROVE  IsSeq(s) /\ Len(s) = n /\ DOMAIN s = 1 .. n
<1> DEFINE S == {s[i] : i \in 1 .. n}
<1>1. s \in [1 .. n -> S]
  OBVIOUS
<1>2. s \in Seq(S)
  BY <1>1
<1>3. Len(s) \in Nat /\ DOMAIN s = 1 .. Len(s) /\ DOMAIN s = 1 .. n
  BY <1>1, <1>2, LenProperties
<1>4. Len(s) = n
  BY <1>3
<1> QED
  BY <1>3, <1>4 DEF IsSeq

LEMMA Joined ==
  ASSUME NEW s, NEW t, IsSeq(s), IsSeq(t)
  PROVE  /\ IsSeq(s \o t) /\ Len(s \o t) = Len(s) + Len(t)
         /\ \A i \in 1 .. Len(s) : (s \o t)[i] = s[i]
         /\ \A i \in 1 .. Len(t) : (s \o t)[Len(s) + i] = t[i]
<1> DEFINE S == {s[i] : i \in 1 .. Len(s)} \cup {t[i] : i \in 1 .. Len(t)}
<1>1. s \in [1 .. Len(s) -> S] /\ t \in [1 .. Len(t) -> S] /\ Len(s) \in Nat /\ Len(t) \in Nat
  BY DEF IsSeq
<1>2. s \in Seq(S) /\ t \in Seq(S)
  BY <1>1
<1> HIDE DEF S
<1>3. /\ s \o t \in Seq(S) /\ Len(s \o t) = Len(s) + Len(t)
      /\ \A i \in 1 .. Len(s) + Len(t) :
           (s \o t)[i] = IF i <= Len(s) THEN s[i] ELSE t[i - Len(s)]
  BY <1>2, ConcatProperties
<1>4. IsSeq(s \o t)
  BY <1>1, <1>3, LenProperties DEF IsSeq
<1>5. \A i \in 1 .. Len(s) : (s \o t)[i] = s[i]
  BY <1>1, <1>3
<1>6. ASSUME NEW i \in 1 .. Len(t)
      PROVE  (s \o t)[Len(s) + i] = t[i]
  <2>1. Len(s) + i \in 1 .. Len(s) + Len(t) /\ ~(Len(s) + i <= Len(s)) /\ (Len(s) + i) - Len(s) = i
    BY <1>1
  <2> QED
    BY <1>3, <2>1
<1> QED
  BY <1>3, <1>4, <1>5, <1>6

LEMMA Appended ==
  ASSUME NEW s, NEW e, IsSeq(s)
  PROVE  /\ IsSeq(Append(s, e)) /\ Len(Append(s, e)) = Len(s) + 1
         /\ \A i \in 1 .. Len(s) : Append(s, e)[i] = s[i]
         /\ Append(s, e)[Len(s) + 1] = e
<1> DEFINE S == {s[i] : i \in 1 .. Len(s)} \cup {e}
<1>1. s \in [1 .. Len(s) -> S] /\ Len(s) \in Nat /\ e \in S
  BY DEF IsSeq
<1>2. s \in Seq(S)
  BY <1>1
<1> HIDE DEF S
<1>3. /\ Append(s, e) \in Seq(S) /\ Len(Append(s, e)) = Len(s) + 1
      /\ \A i \in 1 .. Len(s) : Append(s, e)[i] = s[i]
      /\ Append(s, e)[Len(s) + 1] = e
  BY <1>1, <1>2, AppendProperties
<1>4. IsSeq(Append(s, e))
  BY <1>1, <1>3, LenProperties DEF IsSeq
<1> QED
  BY <1>3, <1>4

\* One more fragment of a plain stream; the calls that end it.
LEMMA PlainDelta ==
  ASSUME NEW es, NEW lead \in Nat, NEW n \in Nat, Plain(es, lead, n, <<>>)
  PROVE  Plain(Append(es, Event("delta", 0, <<n + 1>>)), lead, n + 1, <<>>)
<1>1. PICK e : e = Event("delta", 0, <<n + 1>>)
  OBVIOUS
<1>2. IsSeq(es) /\ Len(es) = lead + n
  BY DEF Plain
<1>3. PICK t : t = Append(es, e)
  OBVIOUS
<1>4. /\ IsSeq(t) /\ Len(t) = lead + n + 1 /\ t[lead + n + 1] = e
      /\ \A i \in 1 .. lead + n : t[i] = es[i]
  BY <1>2, <1>3, Appended
<1>5. \A i \in 1 .. n + 1 : t[lead + i] = Event("delta", 0, <<i>>)
  <2> SUFFICES ASSUME NEW i \in 1 .. n + 1
               PROVE  t[lead + i] = Event("delta", 0, <<i>>)
    OBVIOUS
  <2>1. CASE i = n + 1
    BY <1>1, <1>4, <2>1
  <2>2. CASE i \in 1 .. n
    <3>1. lead + i \in 1 .. lead + n
      BY <2>2
    <3> QED
      BY <1>4, <2>2, <3>1 DEF Plain
  <2> QED
    BY <2>1, <2>2
<1>6. \A i \in 1 .. lead : t[i].type \in {"role", "created"}
  BY <1>4 DEF Plain
<1>7. Plain(t, lead, n + 1, <<>>)
  BY <1>4, <1>5, <1>6 DEF Plain
<1> QED
  BY <1>1, <1>3, <1>7

LEMMA PlainCalls ==
  ASSUME NEW es, NEW lead \in Nat, NEW n \in Nat, Plain(es, lead, n, <<>>),
         NEW calls, IsSeq(calls)
  PROVE  Plain(es \o [i \in DOMAIN calls |-> Event("call", i - 1, calls[i])], lead, n, calls)
<1>1. PICK told : told = [i \in DOMAIN calls |-> Event("call", i - 1, calls[i])]
  OBVIOUS
<1>2. PICK c \in Nat : c = Len(calls) /\ DOMAIN calls = 1 .. c
  BY DEF IsSeq
<1>3. /\ told = [i \in 1 .. c |-> told[i]]
      /\ \A i \in 1 .. c : told[i] = Event("call", i - 1, calls[i])
  BY <1>1, <1>2
<1>4. IsSeq(told) /\ Len(told) = c
  BY <1>3, SeqOfLength
<1>5. IsSeq(es) /\ Len(es) = lead + n
  BY DEF Plain
<1>6. PICK t : t = es \o told
  OBVIOUS
<1>7. /\ IsSeq(t) /\ Len(t) = lead + n + c
      /\ \A i \in 1 .. lead + n : t[i] = es[i]
      /\ \A i \in 1 .. c : t[lead + n + i] = told[i]
  BY <1>4, <1>5, <1>6, Joined
<1>8. \A i \in 1 .. n : t[lead + i] = Event("delta", 0, <<i>>)
  <2> SUFFICES ASSUME NEW i \in 1 .. n
               PROVE  t[lead + i] = Event("delta", 0, <<i>>)
    OBVIOUS
  <2>1. lead + i \in 1 .. lead + n
    OBVIOUS
  <2> QED
    BY <1>7, <2>1 DEF Plain
<1>9. \A i \in 1 .. lead : t[i].type \in {"role", "created"}
  BY <1>7 DEF Plain
<1>10. Plain(t, lead, n, calls)
  BY <1>2, <1>3, <1>7, <1>8, <1>9 DEF Plain
<1> QED
  BY <1>1, <1>6, <1>10

\* The first fragment opens the item of the text, the others go into it, and
\* it is closed with all of them.
LEMMA ItemFirst ==
  ASSUME NEW es, Itemized(es, 0, 0, <<>>)
  PROVE  Itemized(es \o <<Event("added", 1, "message"), Event("delta", 1, <<1>>)>>,
                  1, 1, <<>>)
<1>1. PICK a : a = Event("added", 1, "message")
  OBVIOUS
<1>2. PICK d : d = Event("delta", 1, <<1>>)
  OBVIOUS
<1>3. PICK pair : pair = <<a, d>> /\ IsSeq(pair) /\ Len(pair) = 2
  <2>1. <<a, d>> \in Seq({a, d}) /\ Len(<<a, d>>) = 2
    OBVIOUS
  <2>2. <<a, d>> \in [1 .. 2 -> {a, d}]
    BY <2>1, LenProperties
  <2>3. IsSeq(<<a, d>>)
    BY <2>1, <2>2 DEF IsSeq
  <2> QED
    BY <2>1, <2>3
<1>4. IsSeq(es) /\ Len(es) = 1 /\ es[1].type \in {"role", "created"}
  BY DEF Itemized, Base
<1>5. PICK t : t = es \o pair
  OBVIOUS
<1>6. /\ IsSeq(t) /\ Len(t) = 3 /\ t[1] = es[1]
      /\ \A i \in 1 .. 2 : t[1 + i] = pair[i]
  <2>1. IsSeq(es) /\ IsSeq(pair)
    BY <1>3, <1>4
  <2>2. /\ IsSeq(t) /\ Len(t) = Len(es) + Len(pair)
        /\ \A i \in 1 .. Len(es) : t[i] = es[i]
        /\ \A i \in 1 .. Len(pair) : t[Len(es) + i] = pair[i]
    BY ONLY <2>1, <1>5, Joined
  <2> QED
    BY <1>3, <1>4, <2>2
<1>7. t[2] = a /\ t[3] = d
  BY <1>3, <1>6
<1>8. Base(1, 1) = 3
  BY DEF Base
<1>9. Itemized(t, 1, 1, <<>>)
  BY <1>1, <1>2, <1>4, <1>6, <1>7, <1>8 DEF Itemized
<1> QED
  BY <1>1, <1>2, <1>3, <1>5, <1>9

LEMMA ItemDelta ==
  ASSUME NEW es, NEW n \in Nat \ {0}, Itemized(es, n, 1, <<>>)
  PROVE  Itemized(Append(es, Event("delta", 1, <<n + 1>>)), n + 1, 1, <<>>)
<1>1. PICK e : e = Event("delta", 1, <<n + 1>>)
  OBVIOUS
<1>2. Base(n, 1) = n + 2 /\ Base(n + 1, 1) = n + 3
  BY DEF Base
<1>3. IsSeq(es) /\ Len(es) = n + 2
  BY <1>2 DEF Itemized
<1>4. PICK t : t = Append(es, e)
  OBVIOUS
<1>5. /\ IsSeq(t) /\ Len(t) = n + 3 /\ t[n + 3] = e
      /\ \A i \in 1 .. n + 2 : t[i] = es[i]
  BY <1>3, <1>4, Appended
<1>6. \A i \in 1 .. n + 1 : t[2 + i] = Event("delta", 1, <<i>>)
  <2> SUFFICES ASSUME NEW i \in 1 .. n + 1
               PROVE  t[2 + i] = Event("delta", 1, <<i>>)
    OBVIOUS
  <2>1. CASE i = n + 1
    BY <1>1, <1>5, <2>1
  <2>2. CASE i \in 1 .. n
    <3>1. 2 + i \in 1 .. n + 2
      BY <2>2
    <3> QED
      BY <1>5, <2>2, <3>1 DEF Itemized
  <2> QED
    BY <2>1, <2>2
<1>7. t[1].type \in {"role", "created"} /\ t[2] = Event("added", 1, "message")
  BY <1>5 DEF Itemized
<1>8. Itemized(t, n + 1, 1, <<>>)
  BY <1>2, <1>5, <1>6, <1>7 DEF Itemized
<1> QED
  BY <1>1, <1>4, <1>8

LEMMA ItemClosed ==
  ASSUME NEW es, NEW n \in Nat \ {0}, Itemized(es, n, 1, <<>>)
  PROVE  Itemized(Append(es, Event("done", 1, Fragments(n))), n, 0, <<>>)
<1>1. PICK e : e = Event("done", 1, Fragments(n))
  OBVIOUS
<1>2. Base(n, 1) = n + 2 /\ Base(n, 0) = n + 3
  BY DEF Base
<1>3. IsSeq(es) /\ Len(es) = n + 2
  BY <1>2 DEF Itemized
<1>4. PICK t : t = Append(es, e)
  OBVIOUS
<1>5. /\ IsSeq(t) /\ Len(t) = n + 3 /\ t[n + 3] = e
      /\ \A i \in 1 .. n + 2 : t[i] = es[i]
  BY <1>3, <1>4, Appended
<1>6. \A i \in 1 .. n : t[2 + i] = Event("delta", 1, <<i>>)
  <2> SUFFICES ASSUME NEW i \in 1 .. n
               PROVE  t[2 + i] = Event("delta", 1, <<i>>)
    OBVIOUS
  <2>1. 2 + i \in 1 .. n + 2
    OBVIOUS
  <2> QED
    BY <1>5, <2>1 DEF Itemized
<1>7. t[1].type \in {"role", "created"} /\ t[2] = Event("added", 1, "message")
  BY <1>5 DEF Itemized
<1>8. Itemized(t, n, 0, <<>>)
  BY <1>1, <1>2, <1>5, <1>6, <1>7 DEF Itemized
<1> QED
  BY <1>1, <1>4, <1>8

\* The calls follow the text, two events for each.
LEMMA ItemCalls ==
  ASSUME NEW es, NEW n \in Nat, Itemized(es, n, 0, <<>>), NEW calls, IsSeq(calls),
         NEW told, NEW next, next = 1 + TextItems(n),
         told = [k \in 1 .. 2 * Len(calls) |->
                   IF k % 2 = 1 THEN Event("added", next + k \div 2, "call")
                   ELSE Event("done", next + k \div 2 - 1, calls[k \div 2])]
  PROVE  Itemized(es \o told, n, 0, calls)
<1>1. PICK b \in Nat : b = Base(n, 0) /\ b >= 1 /\ (n # 0 => b = n + 3)
  <2>1. Base(n, 0) \in Nat /\ Base(n, 0) >= 1 /\ (n # 0 => Base(n, 0) = n + 3)
    BY DEF Base
  <2> QED
    BY <2>1
<1>2. PICK c \in Nat : c = Len(calls)
  BY DEF IsSeq
<1>3. PICK m \in Nat : m = TextItems(n) /\ next = 1 + m
  BY DEF TextItems
<1>4. told = [k \in 1 .. 2 * c |-> told[k]] /\ 2 * c \in Nat
  BY <1>2
<1>5. IsSeq(told) /\ Len(told) = 2 * c
  BY <1>4, SeqOfLength
<1>6. IsSeq(es) /\ Len(es) = b
  BY <1>1 DEF Itemized
<1>7. PICK t : t = es \o told
  OBVIOUS
<1>8. /\ IsSeq(t) /\ Len(t) = b + 2 * c
      /\ \A i \in 1 .. b : t[i] = es[i]
      /\ \A i \in 1 .. 2 * c : t[b + i] = told[i]
  <2>1. IsSeq(es) /\ IsSeq(told)
    BY <1>5, <1>6
  <2>2. /\ IsSeq(t) /\ Len(t) = Len(es) + Len(told)
        /\ \A i \in 1 .. Len(es) : t[i] = es[i]
        /\ \A i \in 1 .. Len(told) : t[Len(es) + i] = told[i]
    BY ONLY <2>1, <1>7, Joined
  <2> QED
    BY <1>5, <1>6, <2>2
<1>9. ASSUME NEW j \in 1 .. c
      PROVE  /\ t[b + 2 * j - 1] = Event("added", m + j, "call")
             /\ t[b + 2 * j] = Event("done", m + j, calls[j])
  <2>1. /\ 2 * j - 1 \in 1 .. 2 * c /\ 2 * j \in 1 .. 2 * c
        /\ (2 * j - 1) % 2 = 1 /\ (2 * j) % 2 = 0
        /\ (2 * j - 1) \div 2 = j - 1 /\ (2 * j) \div 2 = j
    OBVIOUS
  <2>2. told[2 * j - 1] = Event("added", next + (j - 1), "call")
    BY <1>2, <2>1
  <2>3. told[2 * j] = Event("done", next + j - 1, calls[j])
    BY <1>2, <2>1
  <2>4. next + (j - 1) = m + j /\ next + j - 1 = m + j /\ b + (2 * j - 1) = b + 2 * j - 1
    BY <1>3
  <2>5. t[b + (2 * j - 1)] = told[2 * j - 1] /\ t[b + 2 * j] = told[2 * j]
    BY <1>8, <2>1
  <2> QED
    BY <2>2, <2>3, <2>4, <2>5
<1>10. t[1].type \in {"role", "created"}
  BY <1>1, <1>8 DEF Itemized
<1>11. n # 0 => t[2] = Event("added", 1, "message")
  BY <1>1, <1>8 DEF Itemized
<1>12. ASSUME NEW i \in 1 .. n
       PROVE  t[2 + i] = Event("delta", 1, <<i>>)
  <2>1. 2 + i \in 1 .. b
    BY <1>1
  <2> QED
    BY <1>8, <2>1 DEF Itemized
<1>13. n # 0 => t[n + 3] = Event("done", 1, Fragments(n))
  BY <1>1, <1>8 DEF Itemized
<1>14. Itemized(t, n, 0, calls)
  BY <1>1, <1>2, <1>3, <1>8, <1>9, <1>10, <1>11, <1>12, <1>13 DEF Itemized
<1> QED
  BY <1>7, <1>14

\* What a stream is to tell: the deltas of n fragments, and the calls.
Deltas(n, item) == [i \in 1 .. n |-> Event("delta", item, <<i>>)]
Called(calls) == [i \in DOMAIN calls |-> Event("call", i - 1, calls[i])]

\* What a plain stream tells, once its end has been sent.
LEMMA PlainTells ==
  ASSUME NEW es, NEW lead \in Nat, NEW n \in Nat, NEW calls, IsSeq(calls),
         Plain(es, lead, n, calls), NEW last, last.type \in Ends,
         NEW t, t = Append(es, last)
  PROVE  /\ IsSeq(t) /\ t[Len(t)] = last
         /\ \A i \in 1 .. Len(t) - 1 : t[i].type \notin Ends
         /\ Tells(t, "delta", Deltas(n, 0)) /\ Tells(t, "call", Called(calls))
<1>1. PICK c \in Nat : c = Len(calls) /\ DOMAIN calls = 1 .. c
  BY DEF IsSeq
<1>2. IsSeq(es) /\ Len(es) = lead + n + c
  BY <1>1 DEF Plain
<1>3. PICK e \in Nat : e = lead + n + c
  OBVIOUS
<1>4. /\ IsSeq(t) /\ Len(t) = e + 1 /\ t[e + 1] = last
      /\ \A i \in 1 .. e : t[i] = es[i]
  BY <1>2, <1>3, Appended
<1>5. DOMAIN t = 1 .. e + 1
  BY <1>4 DEF IsSeq
<1>6. ASSUME NEW i \in 1 .. lead
      PROVE  t[i].type \in {"role", "created"}
  BY <1>3, <1>4 DEF Plain
<1>7. ASSUME NEW i \in 1 .. n
      PROVE  t[lead + i] = Event("delta", 0, <<i>>) /\ t[lead + i].type = "delta"
  <2>1. lead + i \in 1 .. e
    BY <1>3
  <2>2. t[lead + i] = Event("delta", 0, <<i>>)
    BY <1>4, <2>1 DEF Plain
  <2> QED
    BY <2>2 DEF Event
<1>8. ASSUME NEW i \in 1 .. c
      PROVE  t[lead + n + i] = Event("call", i - 1, calls[i]) /\ t[lead + n + i].type = "call"
  <2>1. lead + n + i \in 1 .. e
    BY <1>3
  <2>2. t[lead + n + i] = Event("call", i - 1, calls[i])
    BY <1>1, <1>4, <2>1 DEF Plain
  <2> QED
    BY <2>2 DEF Event
<1>9. ASSUME NEW p \in 1 .. e
      PROVE  \/ t[p].type \in {"role", "created"}
             \/ p \in lead + 1 .. lead + n /\ t[p].type = "delta"
             \/ p \in lead + n + 1 .. lead + n + c /\ t[p].type = "call"
  <2>1. CASE p \in 1 .. lead
    BY <1>6, <2>1
  <2>2. CASE p \in lead + 1 .. lead + n
    <3>1. PICK i \in 1 .. n : p = lead + i
      <4>1. p - lead \in 1 .. n /\ p = lead + (p - lead)
        BY <2>2
      <4> QED
        BY <4>1
    <3> QED
      BY <1>7, <2>2, <3>1
  <2>3. CASE p \in lead + n + 1 .. lead + n + c
    <3>1. PICK i \in 1 .. c : p = lead + n + i
      <4>1. p - (lead + n) \in 1 .. c /\ p = lead + n + (p - (lead + n))
        BY <2>3
      <4> QED
        BY <4>1
    <3> QED
      BY <1>8, <2>3, <3>1
  <2>4. \/ p \in 1 .. lead \/ p \in lead + 1 .. lead + n
        \/ p \in lead + n + 1 .. lead + n + c
    BY <1>3
  <2> QED
    BY <2>1, <2>2, <2>3, <2>4
<1>10. \A i \in 1 .. Len(t) - 1 : t[i].type \notin Ends
  BY <1>4, <1>9 DEF Ends
<1>11. Tells(t, "delta", Deltas(n, 0))
  <2>1. PICK deltas : deltas = Deltas(n, 0)
    OBVIOUS
  <2>2. /\ deltas = [i \in 1 .. n |-> deltas[i]]
        /\ \A i \in 1 .. n : deltas[i] = Event("delta", 0, <<i>>)
    BY <2>1 DEF Deltas
  <2>3. Len(deltas) = n /\ DOMAIN deltas = 1 .. n
    BY <2>2, SeqOfLength
  <2>4. ASSUME NEW i \in DOMAIN deltas
        PROVE  lead + i \in DOMAIN t /\ t[lead + i] = deltas[i]
    <3>1. i \in 1 .. n /\ lead + i \in 1 .. e + 1 /\ deltas[i] = Event("delta", 0, <<i>>)
      BY <1>3, <2>2, <2>3
    <3> QED
      BY <1>5, <1>7, <3>1
  <2>5. \A i \in DOMAIN t : t[i].type = "delta" => i \in lead + 1 .. lead + n
    BY <1>4, <1>5, <1>9 DEF Ends
  <2>6. lead \in 0 .. Len(t)
    BY <1>3, <1>4
  <2>7. Tells(t, "delta", deltas)
    BY <2>3, <2>4, <2>5, <2>6 DEF Tells
  <2> QED
    BY <2>1, <2>7
<1>12. Tells(t, "call", Called(calls))
  <2>1. PICK called : called = Called(calls)
    OBVIOUS
  <2>2. /\ called = [i \in 1 .. c |-> called[i]]
        /\ \A i \in 1 .. c : called[i] = Event("call", i - 1, calls[i])
    BY <1>1, <2>1 DEF Called
  <2>3. Len(called) = c /\ DOMAIN called = 1 .. c
    BY <2>2, SeqOfLength
  <2>4. \A i \in DOMAIN called : lead + n + i \in DOMAIN t /\ t[lead + n + i] = called[i]
    BY <1>3, <1>5, <1>8, <2>2, <2>3
  <2>5. \A i \in DOMAIN t : t[i].type = "call" => i \in lead + n + 1 .. lead + n + c
    BY <1>4, <1>5, <1>9 DEF Ends
  <2>6. lead + n \in 0 .. Len(t)
    BY <1>3, <1>4
  <2>7. Tells(t, "call", called)
    BY <2>3, <2>4, <2>5, <2>6 DEF Tells
  <2> QED
    BY <2>1, <2>7
<1> QED
  BY <1>4, <1>10, <1>11, <1>12

\* The events of an itemized stream with n fragments and c calls that has ended,
\* place by place: b is where the calls begin, m the number of items before them.
Places(t, n, calls, last, b, c, m) ==
  /\ IsSeq(t) /\ Len(t) = b + 2 * c + 1 /\ t[b + 2 * c + 1] = last
  /\ t[1].type \in {"role", "created"}
  /\ n # 0 => t[2] = Event("added", 1, "message")
  /\ \A i \in 1 .. n : t[2 + i] = Event("delta", 1, <<i>>)
  /\ n # 0 => t[n + 3] = Event("done", 1, Fragments(n))
  /\ \A j \in 1 .. c : /\ t[b + 2 * j - 1] = Event("added", m + j, "call")
                       /\ t[b + 2 * j] = Event("done", m + j, calls[j])

LEMMA EventFields ==
  ASSUME NEW type, NEW item, NEW data
  PROVE  /\ Event(type, item, data).type = type
         /\ Event(type, item, data).item = item
         /\ Event(type, item, data).data = data
  BY DEF Event

LEMMA ItemPlaces ==
  ASSUME NEW es, NEW n \in Nat, NEW calls, IsSeq(calls), Itemized(es, n, 0, calls),
         NEW last, NEW t, t = Append(es, last),
         NEW b \in Nat, b = Base(n, 0), NEW c \in Nat, c = Len(calls),
         NEW m \in Nat, m = TextItems(n)
  PROVE  Places(t, n, calls, last, b, c, m)
<1>1. b >= 1 /\ (n # 0 => b = n + 3)
  BY DEF Base
<1>2. PICK e \in Nat : e = b + 2 * c
  OBVIOUS
<1>3. IsSeq(es) /\ Len(es) = e
  BY <1>2 DEF Itemized
<1>4. /\ IsSeq(t) /\ Len(t) = e + 1 /\ t[e + 1] = last
      /\ \A i \in 1 .. e : t[i] = es[i]
  BY <1>3, Appended
<1>6. t[1].type \in {"role", "created"} /\ (n # 0 => t[2] = Event("added", 1, "message"))
  BY <1>1, <1>2, <1>4 DEF Itemized
<1>7. n # 0 => t[n + 3] = Event("done", 1, Fragments(n))
  BY <1>1, <1>2, <1>4 DEF Itemized
<1>8. ASSUME NEW i \in 1 .. n
      PROVE  t[2 + i] = Event("delta", 1, <<i>>)
  <2>1. 2 + i \in 1 .. e
    BY <1>1, <1>2
  <2> QED
    BY <1>4, <2>1 DEF Itemized
<1>9. ASSUME NEW j \in 1 .. c
      PROVE  /\ t[b + 2 * j - 1] = Event("added", m + j, "call")
             /\ t[b + 2 * j] = Event("done", m + j, calls[j])
  <2>1. b + 2 * j - 1 \in 1 .. e /\ b + 2 * j \in 1 .. e
    BY <1>1, <1>2
  <2>2. /\ es[b + 2 * j - 1] = Event("added", m + j, "call")
        /\ es[b + 2 * j] = Event("done", m + j, calls[j])
    BY DEF Itemized
  <2> QED
    BY <1>4, <2>1, <2>2
<1> QED
  BY <1>2, <1>4, <1>6, <1>7, <1>8, <1>9 DEF Places

\* There are no other places.
LEMMA NoOtherPlace ==
  ASSUME NEW n \in Nat, NEW c \in Nat, NEW b \in Nat, b = Base(n, 0),
         NEW p \in 1 .. b + 2 * c + 1
  PROVE  \/ p = 1 \/ p = b + 2 * c + 1
         \/ n # 0 /\ (p = 2 \/ p = n + 3)
         \/ \E i \in 1 .. n : p = 2 + i
         \/ \E j \in 1 .. c : p = b + 2 * j - 1 \/ p = b + 2 * j
<1>1. CASE n = 0 /\ p <= b
  BY <1>1 DEF Base
<1>2. CASE n # 0 /\ p <= b
  <2>1. b = n + 3
    BY <1>2 DEF Base
  <2>2. CASE p \in 3 .. n + 2
    <3>1. p - 2 \in 1 .. n /\ p = 2 + (p - 2)
      BY <2>2
    <3> QED
      BY <3>1
  <2> QED
    BY <1>2, <2>1, <2>2
<1>3. CASE p > b /\ p <= b + 2 * c
  <2>1. PICK k \in Nat : k = p - b /\ k \in 1 .. 2 * c
    BY <1>3
  <2>2. PICK j \in Nat : j = (k + 1) \div 2
    OBVIOUS
  <2>3. j \in 1 .. c /\ (k = 2 * j - 1 \/ k = 2 * j)
    BY <2>1, <2>2
  <2> QED
    BY <2>1, <2>3
<1> QED
  BY <1>1, <1>2, <1>3

LEMMA ItemsTold ==
  ASSUME NEW n \in Nat, NEW b \in Nat, b = Base(n, 0), NEW c \in Nat, NEW m \in Nat,
         NEW calls, NEW last, last.type \in Ends,
         NEW t, Places(t, n, calls, last, b, c, m)
  PROVE  /\ IsSeq(t) /\ t[Len(t)] = last
         /\ \A i \in 1 .. Len(t) - 1 : t[i].type \notin Ends
         /\ Tells(t, "delta", Deltas(n, 1))
<1>1. /\ IsSeq(t) /\ Len(t) = b + 2 * c + 1 /\ t[b + 2 * c + 1] = last
      /\ t[1].type \in {"role", "created"}
  BY DEF Places
<1>2. DOMAIN t = 1 .. b + 2 * c + 1
  BY <1>1 DEF IsSeq
<1>3. n # 0 => t[2].type = "added" /\ t[n + 3].type = "done"
  <2>1. n # 0 => /\ t[2] = Event("added", 1, "message")
                 /\ t[n + 3] = Event("done", 1, Fragments(n))
    BY DEF Places
  <2> QED
    BY <2>1, EventFields
<1>4. ASSUME NEW i \in 1 .. n
      PROVE  t[2 + i] = Event("delta", 1, <<i>>) /\ t[2 + i].type = "delta"
  <2>1. t[2 + i] = Event("delta", 1, <<i>>)
    BY DEF Places
  <2> QED
    BY <2>1, EventFields
<1>5. ASSUME NEW j \in 1 .. c
      PROVE  t[b + 2 * j - 1].type = "added" /\ t[b + 2 * j].type = "done"
  <2>1. /\ t[b + 2 * j - 1] = Event("added", m + j, "call")
        /\ t[b + 2 * j] = Event("done", m + j, calls[j])
    BY DEF Places
  <2> QED
    BY <2>1, EventFields
<1>6. ASSUME NEW p \in 1 .. b + 2 * c + 1
      PROVE  \/ p = b + 2 * c + 1
             \/ t[p].type \in {"role", "created", "added", "done"}
             \/ t[p].type = "delta" /\ p \in 3 .. n + 2
  <2>1. CASE p = 1 \/ p = b + 2 * c + 1
    BY <1>1, <2>1
  <2>2. CASE n # 0 /\ (p = 2 \/ p = n + 3)
    BY <1>3, <2>2
  <2>3. CASE \E i \in 1 .. n : p = 2 + i
    <3>1. PICK i \in 1 .. n : p = 2 + i
      BY <2>3
    <3>2. p \in 3 .. n + 2
      BY <3>1
    <3> QED
      BY <1>4, <3>1, <3>2
  <2>4. CASE \E j \in 1 .. c : p = b + 2 * j - 1 \/ p = b + 2 * j
    BY <1>5, <2>4
  <2>5. \/ p = 1 \/ p = b + 2 * c + 1
        \/ n # 0 /\ (p = 2 \/ p = n + 3)
        \/ \E i \in 1 .. n : p = 2 + i
        \/ \E j \in 1 .. c : p = b + 2 * j - 1 \/ p = b + 2 * j
    BY NoOtherPlace
  <2> QED
    BY <2>1, <2>2, <2>3, <2>4, <2>5
<1>7. ASSUME NEW i \in 1 .. Len(t) - 1
      PROVE  t[i].type \notin Ends
  <2>1. i \in 1 .. b + 2 * c + 1 /\ i # b + 2 * c + 1
    BY <1>1
  <2> QED
    BY <1>6, <2>1 DEF Ends
<1>8. last.type # "delta"
  BY DEF Ends
<1>9. Tells(t, "delta", Deltas(n, 1))
  <2>1. PICK deltas : deltas = Deltas(n, 1)
    OBVIOUS
  <2>2. /\ deltas = [i \in 1 .. n |-> deltas[i]]
        /\ \A i \in 1 .. n : deltas[i] = Event("delta", 1, <<i>>)
    BY <2>1 DEF Deltas
  <2>3. Len(deltas) = n /\ DOMAIN deltas = 1 .. n
    BY <2>2, SeqOfLength
  <2>4. b >= n + 1 /\ (n # 0 => b = n + 3)
    BY DEF Base
  <2>5. PICK first : first = IF n = 0 THEN 0 ELSE 2
    OBVIOUS
  <2>6. first \in 0 .. Len(t)
    BY <1>1, <2>4, <2>5
  <2>7. ASSUME NEW i \in DOMAIN deltas
        PROVE  first + i \in DOMAIN t /\ t[first + i] = deltas[i]
    <3>1. i \in 1 .. n /\ first = 2 /\ 2 + i \in 1 .. b + 2 * c + 1
      BY <2>3, <2>4, <2>5
    <3> QED
      BY <1>2, <1>4, <2>2, <3>1
  <2>8. ASSUME NEW i \in DOMAIN t, t[i].type = "delta"
        PROVE  i \in first + 1 .. first + n
    <3>1. i \in 3 .. n + 2
      BY <1>1, <1>2, <1>6, <1>8, <2>8
    <3> QED
      BY <2>5, <3>1
  <2>9. Tells(t, "delta", deltas)
    BY <2>3, <2>6, <2>7, <2>8 DEF Tells
  <2> QED
    BY <2>1, <2>9
<1> QED
  BY <1>1, <1>7, <1>9

\* An output of n fragments and c calls, m items before them.
Made(output, n, calls, c, m) ==
  /\ DOMAIN output = 1 .. m + c
  /\ n # 0 => output[1].type = "message" /\ output[1].data = Fragments(n)
  /\ \A j \in 1 .. c : output[m + j].type = "call" /\ output[m + j].data = calls[j]

\* The items of an itemized stream are the text, if there is any, and the calls.
LEMMA OutputTold ==
  ASSUME NEW n \in Nat, NEW b \in Nat, b = Base(n, 0), NEW c \in Nat,
         NEW m \in Nat, m = TextItems(n),
         NEW calls, NEW last, last.type \in Ends,
         NEW t, Places(t, n, calls, last, b, c, m),
         NEW output, Made(output, n, calls, c, m)
  PROVE  TellsItems(t, output)
<1>1. b >= 1 /\ (n # 0 => b = n + 3) /\ (n = 0 => m = 0) /\ (n # 0 => m = 1)
  BY DEF Base, TextItems
<1>2. /\ IsSeq(t) /\ Len(t) = b + 2 * c + 1 /\ t[b + 2 * c + 1] = last
      /\ t[1].type \in {"role", "created"}
  BY DEF Places
<1>3. DOMAIN t = 1 .. b + 2 * c + 1
  BY <1>2 DEF IsSeq
<1>0. /\ DOMAIN output = 1 .. m + c
      /\ n # 0 => output[1].type = "message" /\ output[1].data = Fragments(n)
      /\ \A j \in 1 .. c : output[m + j].type = "call" /\ output[m + j].data = calls[j]
  BY DEF Made
<1>4. n # 0 => /\ t[2] = Event("added", 1, "message")
               /\ t[n + 3] = Event("done", 1, Fragments(n))
  BY DEF Places
<1>5. \A j \in 1 .. c : /\ t[b + 2 * j - 1] = Event("added", m + j, "call")
                        /\ t[b + 2 * j] = Event("done", m + j, calls[j])
  BY DEF Places
<1>6. ASSUME NEW i \in DOMAIN output
      PROVE  \E a, d \in DOMAIN t :
               /\ a < d
               /\ t[a] = Event("added", i, output[i].type)
               /\ t[d] = Event("done", i, output[i].data)
  <2>1. CASE i <= m
    <3>1. i = 1 /\ n # 0
      BY <1>0, <1>1, <2>1
    <3>2. 2 \in DOMAIN t /\ n + 3 \in DOMAIN t /\ 2 < n + 3
      BY <1>1, <1>3, <3>1
    <3>3. t[2] = Event("added", i, output[i].type) /\ t[n + 3] = Event("done", i, output[i].data)
      BY <1>0, <1>4, <3>1
    <3> QED
      BY <3>2, <3>3
  <2>2. CASE i > m
    <3>1. PICK j \in 1 .. c : i = m + j
      <4>1. i - m \in 1 .. c /\ i = m + (i - m)
        BY <1>0, <2>2
      <4> QED
        BY <4>1
    <3>2. /\ b + 2 * j - 1 \in DOMAIN t /\ b + 2 * j \in DOMAIN t
          /\ b + 2 * j - 1 < b + 2 * j
      BY <1>1, <1>3
    <3>3. output[i].type = "call" /\ output[i].data = calls[j]
      BY <1>0, <3>1
    <3>4. /\ t[b + 2 * j - 1] = Event("added", i, output[i].type)
          /\ t[b + 2 * j] = Event("done", i, output[i].data)
      BY <1>5, <3>1, <3>3
    <3> QED
      BY <3>2, <3>4
  <2> QED
    BY <1>0, <2>1, <2>2
<1> DEFINE AddedAt(i) == IF i <= m THEN 2 ELSE b + 2 * (i - m) - 1
           DoneAt(i)  == IF i <= m THEN n + 3 ELSE b + 2 * (i - m)
<1>7. ASSUME NEW p \in DOMAIN t, t[p].type \in {"added", "done"}
      PROVE  /\ t[p].item \in DOMAIN output
             /\ t[p].type = "added" => p = AddedAt(t[p].item)
             /\ t[p].type = "done" => p = DoneAt(t[p].item)
  <2>1. CASE p = 1 \/ p = b + 2 * c + 1
    BY <1>2, <1>7, <2>1 DEF Ends
  <2>2. CASE n # 0 /\ p = 2
    <3>1. t[p].type = "added" /\ t[p].item = 1
      BY <1>4, <2>2, EventFields
    <3> QED
      BY <1>0, <1>1, <2>2, <3>1
  <2>3. CASE n # 0 /\ p = n + 3
    <3>1. t[p].type = "done" /\ t[p].item = 1
      BY <1>4, <2>3, EventFields
    <3> QED
      BY <1>0, <1>1, <2>3, <3>1
  <2>4. CASE \E i \in 1 .. n : p = 2 + i
    <3>1. PICK i \in 1 .. n : p = 2 + i
      BY <2>4
    <3>2. t[2 + i] = Event("delta", 1, <<i>>)
      BY DEF Places
    <3>3. t[p].type = "delta"
      BY <3>1, <3>2, EventFields
    <3> QED
      BY <1>7, <3>3
  <2>5. ASSUME NEW j \in 1 .. c, p = b + 2 * j - 1
        PROVE  t[p].type = "added" /\ t[p].item = m + j /\ p = AddedAt(m + j)
    <3>1. t[p].type = "added" /\ t[p].item = m + j
      BY <1>5, <2>5, EventFields
    <3>2. ~(m + j <= m) /\ (m + j) - m = j
      OBVIOUS
    <3> QED
      BY <2>5, <3>1, <3>2
  <2>6. ASSUME NEW j \in 1 .. c, p = b + 2 * j
        PROVE  t[p].type = "done" /\ t[p].item = m + j /\ p = DoneAt(m + j)
    <3>1. t[p].type = "done" /\ t[p].item = m + j
      BY <1>5, <2>6, EventFields
    <3>2. ~(m + j <= m) /\ (m + j) - m = j
      OBVIOUS
    <3> QED
      BY <2>6, <3>1, <3>2
  <2> HIDE DEF AddedAt, DoneAt
  <2>7. CASE \E j \in 1 .. c : p = b + 2 * j - 1 \/ p = b + 2 * j
    <3>1. PICK j \in 1 .. c : p = b + 2 * j - 1 \/ p = b + 2 * j
      BY <2>7
    <3>2. m + j \in DOMAIN output
      BY <1>0
    <3> QED
      BY <2>5, <2>6, <3>1, <3>2
  <2>8. \/ p = 1 \/ p = b + 2 * c + 1
        \/ n # 0 /\ (p = 2 \/ p = n + 3)
        \/ \E i \in 1 .. n : p = 2 + i
        \/ \E j \in 1 .. c : p = b + 2 * j - 1 \/ p = b + 2 * j
    <3>1. n \in Nat /\ c \in Nat /\ b \in Nat /\ b = Base(n, 0) /\ p \in 1 .. b + 2 * c + 1
      BY <1>3
    <3> QED
      BY ONLY <3>1, NoOtherPlace
  <2> QED
    BY <2>1, <2>2, <2>3, <2>4, <2>7, <2>8
<1> HIDE DEF AddedAt, DoneAt
<1>8. \A j \in DOMAIN t : t[j].type \in {"added", "done"} =>
        /\ t[j].item \in DOMAIN output
        /\ \A k \in DOMAIN t : t[k].type = t[j].type /\ t[k].item = t[j].item => k = j
  BY <1>7
<1> QED
  BY <1>6, <1>8 DEF TellsItems

\* An itemized stream has no end yet, whether its text is closed or open.
LEMMA NoEndYet ==
  ASSUME NEW es, NEW n \in Nat, NEW calls, IsSeq(calls), NEW item \in {0, 1},
         item = 1 => n # 0 /\ calls = <<>>, Itemized(es, n, item, calls)
  PROVE  IsSeq(es) /\ \A i \in 1 .. Len(es) : es[i].type \notin Ends
<1>1. ASSUME NEW closed, Itemized(closed, n, 0, calls)
      PROVE  \A i \in 1 .. Len(closed) : closed[i].type \notin Ends
  <2>1. PICK last : last = Event("failed", 0, <<>>)
    OBVIOUS
  <2>2. last.type \in Ends
    BY <2>1, EventFields DEF Ends
  <2>3. PICK t : t = Append(closed, last)
    OBVIOUS
  <2>4. PICK b \in Nat, c \in Nat, m \in Nat : b = Base(n, 0) /\ c = Len(calls) /\ m = TextItems(n)
    BY DEF IsSeq, Base, TextItems
  <2>5. Places(t, n, calls, last, b, c, m)
    BY <1>1, <2>3, <2>4, ItemPlaces
  <2>6. \A i \in 1 .. Len(t) - 1 : t[i].type \notin Ends
    BY <2>2, <2>4, <2>5, ItemsTold
  <2>7. IsSeq(closed) /\ Len(closed) \in Nat
    BY <1>1 DEF Itemized, IsSeq
  <2>8. Len(t) = Len(closed) + 1 /\ \A i \in 1 .. Len(closed) : t[i] = closed[i]
    BY <2>3, <2>7, Appended
  <2> QED
    BY <2>6, <2>7, <2>8
<1>2. CASE item = 0
  BY <1>1, <1>2 DEF Itemized
<1>3. CASE item = 1
  <2>1. PICK closed : closed = Append(es, Event("done", 1, Fragments(n)))
    OBVIOUS
  <2>2. Itemized(closed, n, 0, calls)
    BY <1>3, <2>1, ItemClosed
  <2>3. IsSeq(es) /\ Len(es) \in Nat
    BY DEF Itemized, IsSeq
  <2>4. Len(closed) = Len(es) + 1 /\ \A i \in 1 .. Len(es) : closed[i] = es[i]
    BY <2>1, <2>3, Appended
  <2> QED
    BY <1>1, <2>2, <2>3, <2>4
<1> QED
  BY <1>2, <1>3

LEMMA Empty == IsSeq(<<>>) /\ Len(<<>>) = 0
<1>1. <<>> = [i \in 1 .. 0 |-> i]
  BY SMT
<1> QED
  BY <1>1 DEF IsSeq

LEMMA NotEmpty ==
  ASSUME NEW s, IsSeq(s), s # <<>>
  PROVE  Len(s) \in Nat \ {0}
<1>1. Len(s) \in Nat /\ s = [i \in 1 .. Len(s) |-> s[i]]
  BY DEF IsSeq
<1>2. ASSUME Len(s) = 0 PROVE FALSE
  <2>1. s = [i \in 1 .. 0 |-> s[i]]
    BY <1>1, <1>2
  <2> QED
    BY <2>1
<1> QED
  BY <1>1, <1>2

(***************************************************************************)
(* The invariant: the script holds while the turn runs, and what the turn  *)
(* ends with is what was told.                                             *)
(***************************************************************************)
Lead == IF route = "chat" THEN 1 ELSE 0
\* The item of the text is open from the first fragment to the calls.
Opened == IF streaming /\ route = "responses" /\ produced # 0 /\ toolCall = <<>> THEN 1 ELSE 0

Requested ==
  /\ route \in {"chat", "legacy", "responses", "admin"} /\ streaming \in BOOLEAN
  /\ route \in {"legacy", "admin"} => bridge = "none"
  /\ bridge = "none" => toolCall = <<>>
  /\ IsSeq(captured) /\ IsSeq(toolCall)

Logged ==
  /\ pc \in {"new", "send", "race", "wait"} => activity = <<>>
  /\ pc \in {"answer", "done"} =>
       /\ activity = <<Status(outcome.finish)>>
       /\ outcome.finish # "error" =>
            /\ outcome.content = text
            /\ outcome.calls = IF aborted THEN <<>> ELSE toolCall
            /\ outcome.finish = "tool_calls" <=> toolCall # <<>> /\ ~aborted

Streamed ==
  /\ pc = "new" => produced = 0 /\ nextItem = 1
  /\ pc # "done" => open = Opened
  /\ pc # "done" /\ (pc = "new" \/ ~streaming) => events = <<>>
  /\ streaming /\ pc \in {"send", "race", "wait", "answer"} =>
       /\ route # "responses" => Plain(events, Lead, produced, toolCall)
       /\ route = "responses" => /\ Itemized(events, produced, open, toolCall)
                                 /\ nextItem = 1 + TextItems(produced) + Len(toolCall)

Script == TurnInv /\ Requested /\ Logged /\ Streamed /\ StreamTellsOutcome

LEMMA ScriptInit == Init => Script
<1> SUFFICES ASSUME Init PROVE Script
  OBVIOUS
<1>1. TurnInv
  BY TurnInit
<1>2. Requested /\ Logged /\ StreamTellsOutcome
  BY Empty DEF Init, Requested, Logged, StreamTellsOutcome
<1>3. Streamed
  BY DEF Init, Streamed, Opened
<1> QED
  BY <1>1, <1>2, <1>3 DEF Script

LEMMA RequestedStep == TurnInv /\ Requested /\ [Next]_vars => Requested'
<1> SUFFICES ASSUME TurnInv, Requested, [Next]_vars PROVE Requested'
  OBVIOUS
<1> USE DEF Requested, TurnInv, turnVars
<1>1. CASE Start
  BY <1>1 DEF Start
<1>2. CASE SendOk
  BY <1>2 DEF SendOk
<1>3. CASE Message
  BY <1>3 DEF Message
<1>4. CASE Capture
  <2>1. PICK c \in Calls : captured' = IF captured = <<>> THEN <<c>> ELSE captured
    BY <1>4 DEF Capture
  <2>2. IsSeq(<<c>>)
    <3>1. <<c>> \in [1 .. 1 -> {c}] /\ Len(<<c>>) = 1
      BY LenProperties, <<c>> \in Seq({c})
    <3> QED
      BY <3>1 DEF IsSeq
  <2> QED
    BY <1>4, <2>1, <2>2 DEF Capture
<1>5. CASE ToolWins
  BY <1>5 DEF ToolWins, Leave, Surface
<1>6. CASE StreamDone
  BY <1>6 DEF StreamDone, Leave
<1>7. CASE BatchWins
  <2>1. PICK calls \in Batches : toolCall' = calls
    BY <1>7 DEF BatchWins, Surface
  <2>2. PICK n \in 1 .. Cardinality(Calls) : calls \in [1 .. n -> Calls]
    BY DEF Batches
  <2>3. n \in Nat /\ calls = [i \in 1 .. n |-> calls[i]]
    BY <2>2
  <2>4. IsSeq(calls)
    BY <2>3, SeqOfLength
  <2> QED
    BY <1>7, <2>1, <2>4 DEF BatchWins
<1>8. CASE Timeout
  BY <1>8 DEF Timeout
<1>9. CASE Disconnect
  BY <1>9 DEF Disconnect
<1>10. CASE RunEnds
  BY <1>10 DEF RunEnds
<1>11. ASSUME NEW result, Conclude(result) PROVE Requested'
  BY <1>11 DEF Conclude
<1>12. CASE Settle \/ SegmentCut \/ Reject \/ RejectWait
  BY <1>11, <1>12 DEF Settle, SegmentCut, Reject, RejectWait
<1>13. CASE Finish
  BY <1>13 DEF Finish
<1>14. CASE UNCHANGED vars
  BY <1>14 DEF vars
<1> QED
  BY <1>1, <1>2, <1>3, <1>4, <1>5, <1>6, <1>7, <1>8, <1>9, <1>10, <1>12, <1>13, <1>14
     DEF Next

\* The outcomes that agree with the turn's calls and text.
Fitting(result) ==
  result.finish # "error" =>
    /\ result.content = text
    /\ result.calls = IF aborted THEN <<>> ELSE toolCall
    /\ result.finish = "tool_calls" <=> toolCall # <<>> /\ ~aborted

LEMMA Outcomes ==
  /\ Fitting(Classify) /\ Fitting(Failure)
  /\ (toolCall # <<>> => ~aborted) => Fitting(Segment)
  /\ toolCall = <<>> => Fitting(Result("stop", <<>>)) /\ Fitting(Result("cancelled", <<>>))
  BY DEF Fitting, Classify, Segment, Result, Failure

LEMMA LoggedStep == TurnInv /\ Logged /\ [Next]_vars => Logged'
<1> SUFFICES ASSUME TurnInv, Logged, [Next]_vars PROVE Logged'
  OBVIOUS
<1>1. ASSUME UNCHANGED answerVars, pc \in {"new", "send", "race", "wait"},
             pc' \in {"new", "send", "race", "wait"}
      PROVE  Logged'
  BY <1>1 DEF Logged, answerVars
<1>2. CASE Start \/ SendOk \/ Message \/ Capture \/ ToolWins \/ BatchWins \/ Disconnect \/ RunEnds
  BY <1>1, <1>2 DEF Start, SendOk, Message, Capture, ToolWins, BatchWins, Leave, Disconnect,
                    RunEnds
<1>3. CASE StreamDone
  BY <1>1, <1>3 DEF StreamDone, Leave
<1>4. CASE Timeout
  BY <1>1, <1>4 DEF Timeout, TurnInv
<1>5. ASSUME NEW result, Conclude(result), Fitting(result), pc \in {"send", "race", "wait"}
      PROVE  Logged'
  <2>1. activity = <<>> /\ pc' = "answer" /\ UNCHANGED <<text, toolCall, aborted>>
    BY <1>5 DEF Conclude, Logged
  <2>2. outcome' = result /\ activity' = <<Status(result.finish)>>
    BY <1>5, <2>1 DEF Conclude
  <2>3. Status(result.finish) = Status(outcome.finish)'
    BY <2>2 DEF Status
  <2> QED
    BY <1>5, <2>1, <2>2, <2>3 DEF Logged, Fitting
<1>6. CASE Settle
  <2>1. bridge = "hold" /\ toolCall # <<>> => ~aborted
    BY <1>6 DEF Settle, TurnInv
  <2> QED
    BY <1>5, <1>6, <2>1, Outcomes DEF Settle
<1>7. CASE SegmentCut
  <2>1. toolCall = <<>>
    BY <1>7 DEF SegmentCut, TurnInv
  <2> QED
    BY <1>5, <1>7, <2>1, Outcomes DEF SegmentCut
<1>8. CASE Reject
  BY <1>5, <1>8, Outcomes DEF Reject
<1>9. CASE RejectWait
  BY <1>5, <1>9, Outcomes DEF RejectWait
<1>10. CASE Finish
  BY <1>10 DEF Finish, Logged, answerVars, Status
<1>11. CASE UNCHANGED vars
  BY <1>11 DEF vars, Logged, Status
<1> QED
  BY <1>2, <1>3, <1>4, <1>6, <1>7, <1>8, <1>9, <1>10, <1>11 DEF Next

\* The stream is extended by what a fragment, and a surfaced call, adds to it.
LEMMA FragmentStreamed ==
  ASSUME TurnInv, Requested, Streamed, Message
  PROVE  Streamed'
<1>1. PICK n \in Nat : n = produced
  BY DEF TurnInv
<1>2. /\ pc = "race" /\ pc' = "race" /\ toolCall = <<>> /\ toolCall' = <<>>
      /\ produced' = n + 1 /\ OnText(n + 1) /\ UNCHANGED <<route, streaming>>
  BY <1>1 DEF Message, turnVars, TurnInv
<1>3. open = Opened
  BY <1>2 DEF Streamed
<1>4. CASE ~streaming
  BY <1>2, <1>3, <1>4 DEF Streamed, Opened, OnText, sinkVars
<1>5. CASE streaming /\ route # "responses"
  <2>1. events' = Append(events, Event("delta", 0, <<n + 1>>)) /\ UNCHANGED <<open, nextItem>>
    BY <1>2, <1>5 DEF OnText, Chunk
  <2>2. PICK lead \in Nat : lead = Lead /\ lead = Lead'
    BY <1>2 DEF Lead
  <2>3. Plain(events, lead, n, <<>>)
    BY <1>1, <1>2, <1>5, <2>2 DEF Streamed
  <2>4. Plain(events', lead, n + 1, <<>>)
    BY <2>1, <2>3, PlainDelta
  <2> QED
    BY <1>2, <1>3, <1>5, <2>1, <2>2, <2>4 DEF Streamed, Opened
<1>6. CASE streaming /\ route = "responses"
  <2>1. /\ Itemized(events, n, open, <<>>)
        /\ nextItem = 1 + TextItems(n) + Len(<<>>)
    BY <1>1, <1>2, <1>6 DEF Streamed
  <2>2. nextItem = 1 + TextItems(n)
    BY <2>1, Empty DEF TextItems
  <2>3. ItemText(n + 1)
    BY <1>2, <1>6 DEF OnText
  <2>4. TextItems(n + 1) = 1 /\ n + 1 # 0
    BY DEF TextItems
  <2>5. CASE n = 0
    <3>1. open = 0 /\ nextItem = 1 /\ Itemized(events, 0, 0, <<>>)
      BY <1>1, <1>3, <2>1, <2>2, <2>5 DEF Opened, TextItems
    <3>2. /\ open' = 1 /\ nextItem' = 2
          /\ events' = events \o <<Event("added", 1, "message"), Event("delta", 1, <<1>>)>>
      BY <2>3, <2>5, <3>1 DEF ItemText
    <3>3. Itemized(events', 1, 1, <<>>)
      BY <3>1, <3>2, ItemFirst
    <3>4. produced' = 1 /\ nextItem' = 1 + TextItems(1) + Len(<<>>)
      BY <1>2, <2>4, <2>5, <3>2, Empty
    <3> QED
      BY <1>2, <1>6, <3>2, <3>3, <3>4 DEF Streamed, Opened
  <2>6. CASE n # 0
    <3>1. open = 1
      BY <1>1, <1>2, <1>3, <1>6, <2>6 DEF Opened
    <3>2. events' = Append(events, Event("delta", 1, <<n + 1>>)) /\ UNCHANGED <<open, nextItem>>
      BY <2>3, <3>1 DEF ItemText
    <3>3. Itemized(events', n + 1, 1, <<>>)
      BY <2>1, <2>6, <3>1, <3>2, ItemDelta
    <3>4. nextItem' = 1 + TextItems(n + 1) + Len(<<>>)
      BY <2>2, <2>4, <2>6, <3>2, Empty DEF TextItems
    <3> QED
      BY <1>2, <1>6, <2>4, <3>1, <3>2, <3>3, <3>4 DEF Streamed, Opened
  <2> QED
    BY <2>5, <2>6
<1> QED
  BY <1>2, <1>4, <1>5, <1>6 DEF Requested

LEMMA TextClosed ==
  ASSUME NEW n \in Nat, NEW content, content = Fragments(n),
         NEW es, Itemized(es, n, open, <<>>), open \in {0, 1}, open = 0 <=> n = 0
  PROVE  Itemized(CloseText(es, content), n, 0, <<>>)
<1>1. CASE open = 0
  BY <1>1 DEF CloseText
<1>2. CASE open = 1
  <2>1. CloseText(es, content) = Append(es, Event("done", 1, Fragments(n)))
    BY <1>2 DEF CloseText
  <2> QED
    BY <1>2, <2>1, ItemClosed
<1> QED
  BY <1>1, <1>2

LEMMA CallsStreamed ==
  ASSUME TurnInv, Streamed, NEW calls, IsSeq(calls), calls # <<>>, Surface(calls),
         streaming \in BOOLEAN, pc = "race", pc' = "wait",
         UNCHANGED <<route, streaming, produced>>
  PROVE  Streamed'
<1>1. PICK n \in Nat : n = produced /\ text = Fragments(n)
  BY DEF TurnInv, Fragments
<1>2. toolCall = <<>> /\ toolCall' = calls /\ open = Opened /\ open' = 0
  BY DEF TurnInv, Streamed, Surface
<1>3. Opened' = 0
  BY <1>2 DEF Opened
<1>4. CASE ~streaming
  BY <1>2, <1>3, <1>4 DEF Streamed, Surface
<1>5. CASE streaming /\ route # "responses"
  <2>1. events' = events \o [i \in DOMAIN calls |-> Event("call", i - 1, calls[i])]
    BY <1>5 DEF Surface, CallChunks
  <2>2. PICK lead \in Nat : lead = Lead /\ lead = Lead'
    BY DEF Lead
  <2>3. Plain(events, lead, n, <<>>)
    BY <1>1, <1>2, <1>5, <2>2 DEF Streamed
  <2>4. Plain(events', lead, n, calls)
    BY <2>1, <2>3, PlainCalls
  <2> QED
    BY <1>1, <1>2, <1>3, <1>5, <2>2, <2>4 DEF Streamed
<1>6. CASE streaming /\ route = "responses"
  <2>1. /\ Itemized(events, n, open, <<>>)
        /\ nextItem = 1 + TextItems(n) + Len(<<>>)
    BY <1>1, <1>2, <1>6 DEF Streamed
  <2>2. nextItem = 1 + TextItems(n)
    BY <2>1, Empty DEF TextItems
  <2>3. CallItems(calls)
    BY <1>6 DEF Surface
  <2>4. PICK es : es = CloseText(events, text)
    OBVIOUS
  <2>5. open \in {0, 1} /\ (open = 0 <=> n = 0)
    BY <1>1, <1>2, <1>6 DEF Opened
  <2>6. Itemized(es, n, 0, <<>>)
    BY <1>1, <2>1, <2>4, <2>5, TextClosed
  <2>7. PICK told : told = [k \in 1 .. 2 * Len(calls) |->
                              IF k % 2 = 1 THEN Event("added", nextItem + k \div 2, "call")
                              ELSE Event("done", nextItem + k \div 2 - 1, calls[k \div 2])]
    OBVIOUS
  <2>8. events' = es \o told /\ nextItem' = nextItem + Len(calls)
    BY <2>3, <2>4, <2>7 DEF CallItems
  <2>9. Itemized(events', n, 0, calls)
    BY <2>2, <2>6, <2>7, <2>8, ItemCalls
  <2>10. nextItem' = 1 + TextItems(n) + Len(calls)
    BY <2>2, <2>8 DEF IsSeq, TextItems
  <2> QED
    BY <1>1, <1>2, <1>3, <1>6, <2>9, <2>10 DEF Streamed
<1> QED
  BY <1>4, <1>5, <1>6

LEMMA StreamedStep == Script /\ [Next]_vars => Streamed'
<1> SUFFICES ASSUME TurnInv, Requested, Streamed, [Next]_vars PROVE Streamed'
  BY DEF Script
<1>1. CASE Start
  <2>1. /\ pc = "new" /\ pc' = "send" /\ toolCall = <<>> /\ produced = 0 /\ nextItem = 1 /\ open = 0
        /\ UNCHANGED <<route, streaming, produced, toolCall, open, nextItem>>
        /\ events' = IF streaming THEN Opening ELSE <<>>
    BY <1>1 DEF Start, turnVars, TurnInv, Streamed, Opened
  <2>2. CASE ~streaming
    BY <2>1, <2>2 DEF Streamed, Opened
  <2>3. ASSUME NEW e, e.type \in {"role", "created"}
        PROVE  /\ Plain(<<e>>, 1, 0, <<>>) /\ Itemized(<<e>>, 0, 0, <<>>)
    <3>1. <<e>> \in [1 .. 1 -> {e}] /\ Len(<<e>>) = 1 /\ <<e>>[1] = e
      BY LenProperties, <<e>> \in Seq({e})
    <3>2. IsSeq(<<e>>)
      BY <3>1 DEF IsSeq
    <3> QED
      BY <2>3, <3>1, <3>2, Empty DEF Plain, Itemized, Base
  <2>4. CASE streaming /\ route = "responses"
    <3>1. PICK e : e = Event("created", 0, <<>>)
      OBVIOUS
    <3>2. events' = <<e>> /\ e.type = "created"
      BY <2>1, <2>4, <3>1, EventFields DEF Opening
    <3>3. Itemized(events', 0, 0, <<>>)
      BY <2>3, <3>2
    <3>4. 1 = 1 + TextItems(0) + Len(<<>>)
      BY Empty DEF TextItems
    <3> QED
      BY <2>1, <2>4, <3>3, <3>4 DEF Streamed, Opened
  <2>5. CASE streaming /\ route = "chat"
    <3>1. PICK e : e = Event("role", 0, <<>>)
      OBVIOUS
    <3>2. events' = <<e>> /\ e.type = "role"
      BY <2>1, <2>5, <3>1, EventFields DEF Opening
    <3>3. Plain(events', 1, 0, <<>>)
      BY <2>3, <3>2
    <3> QED
      BY <2>1, <2>5, <3>3 DEF Streamed, Opened, Lead
  <2>6. CASE streaming /\ route \notin {"chat", "responses"}
    <3>1. events' = <<>>
      BY <2>1, <2>6 DEF Opening
    <3>2. Plain(<<>>, 0, 0, <<>>)
      BY Empty DEF Plain
    <3> QED
      BY <2>1, <2>6, <3>1, <3>2 DEF Streamed, Opened, Lead
  <2> QED
    BY <2>2, <2>4, <2>5, <2>6 DEF Requested
<1>2. CASE Message
  BY <1>2, FragmentStreamed
<1>3. CASE ToolWins
  <2>1. /\ IsSeq(captured) /\ captured # <<>> /\ Surface(captured)
        /\ pc = "race" /\ pc' = "wait" /\ UNCHANGED <<route, streaming, produced>>
    BY <1>3 DEF ToolWins, Leave, Requested, turnVars
  <2> QED
    BY <2>1, CallsStreamed DEF Requested
<1>4. CASE BatchWins
  <2>1. PICK calls \in Batches : Surface(calls)
    BY <1>4 DEF BatchWins
  <2>2. PICK n \in 1 .. Cardinality(Calls) : calls \in [1 .. n -> Calls]
    BY DEF Batches
  <2>3. n \in Nat /\ n # 0 /\ calls = [i \in 1 .. n |-> calls[i]]
    BY <2>2
  <2>4. IsSeq(calls) /\ Len(calls) = n
    BY <2>3, SeqOfLength
  <2>5. calls # <<>>
    BY <2>3, <2>4, Empty
  <2>6. pc = "race" /\ pc' = "wait" /\ UNCHANGED <<route, streaming, produced>>
    BY <1>4 DEF BatchWins, turnVars
  <2> QED
    BY <2>1, <2>4, <2>5, <2>6, CallsStreamed DEF Requested
<1>5. ASSUME UNCHANGED <<route, streaming, produced, toolCall, events, open, nextItem>>,
             pc \in {"send", "race", "wait"}, pc' \in {"send", "race", "wait", "answer"}
      PROVE  Streamed'
  BY <1>5 DEF Streamed, Opened, Lead
<1>6. CASE SendOk \/ Capture \/ StreamDone \/ Disconnect \/ RunEnds \/ Timeout
  BY <1>5, <1>6 DEF SendOk, Capture, StreamDone, Leave, Disconnect, RunEnds, Timeout, TurnInv,
                    turnVars, sinkVars
<1>7. CASE Settle \/ SegmentCut \/ Reject \/ RejectWait
  BY <1>5, <1>7 DEF Settle, SegmentCut, Reject, RejectWait, Conclude, turnVars, sinkVars
<1>8. CASE Finish
  BY <1>8 DEF Finish, Streamed
<1>9. CASE UNCHANGED vars
  BY <1>9 DEF vars, Streamed, Opened, Lead
<1> QED
  BY <1>1, <1>2, <1>3, <1>4, <1>6, <1>7, <1>8, <1>9 DEF Next

\* Before the end nothing that was streamed is an end.
LEMMA NotEnded ==
  ASSUME TurnInv, Requested, Streamed, pc = "answer"
  PROVE  IsSeq(events) /\ \A i \in 1 .. Len(events) : events[i].type \notin Ends
<1>1. PICK n \in Nat : n = produced
  BY DEF TurnInv
<1>2. IsSeq(toolCall)
  BY DEF Requested
<1>3. CASE ~streaming
  BY <1>3, Empty DEF Streamed
<1>4. CASE streaming /\ route # "responses"
  <2>1. PICK lead \in Nat : lead = Lead
    BY DEF Lead
  <2>2. Plain(events, lead, n, toolCall)
    BY <1>1, <1>4, <2>1 DEF Streamed
  <2>3. PICK last : last = Event("failed", 0, <<>>)
    OBVIOUS
  <2>4. last.type \in Ends
    BY <2>3, EventFields DEF Ends
  <2>5. PICK t : t = Append(events, last)
    OBVIOUS
  <2>6. \A i \in 1 .. Len(t) - 1 : t[i].type \notin Ends
    BY <1>2, <2>2, <2>4, <2>5, PlainTells
  <2>7. IsSeq(events) /\ Len(events) \in Nat
    BY <2>2 DEF Plain, IsSeq
  <2>8. Len(t) = Len(events) + 1 /\ \A i \in 1 .. Len(events) : t[i] = events[i]
    BY <2>5, <2>7, Appended
  <2> QED
    BY <2>6, <2>7, <2>8
<1>5. CASE streaming /\ route = "responses"
  <2>1. Itemized(events, n, open, toolCall)
    BY <1>1, <1>5 DEF Streamed
  <2>2. open \in {0, 1} /\ (open = 1 => n # 0 /\ toolCall = <<>>)
    BY <1>1 DEF Streamed, Opened
  <2> QED
    BY <1>1, <1>2, <2>1, <2>2, NoEndYet
<1> QED
  BY <1>3, <1>4, <1>5 DEF Requested

\* What the end of an answer leaves as it was.
LEMMA AtTheEnd ==
  ASSUME Script, Finish
  PROVE  /\ pc = "answer" /\ pc' = "done"
         /\ UNCHANGED <<route, streaming, toolCall, aborted, outcome, activity>>
         /\ Len(activity) = 1 /\ (activity[1] = "error" <=> outcome.finish = "error")
<1>1. /\ pc = "answer" /\ pc' = "done"
      /\ UNCHANGED <<route, streaming, toolCall, aborted, outcome, activity>>
  BY DEF Finish, turnVars, answerVars
<1>2. activity = <<Status(outcome.finish)>>
  BY <1>1 DEF Script, Logged
<1>3. Len(activity) = 1 /\ activity[1] = Status(outcome.finish)
  BY <1>2
<1> QED
  BY <1>1, <1>3 DEF Status

LEMMA FailureTold ==
  ASSUME Script, Finish, outcome.finish = "error"
  PROVE  StreamTellsOutcome'
<1>1. PICK last : last = Event("failed", 0, <<>>)
  OBVIOUS
<1>2. last.type = "failed" /\ last.type \in Ends
  BY <1>1, EventFields DEF Ends
<1>3. events' = Append(events, last)
  BY <1>1 DEF Finish
<1>4. IsSeq(events) /\ \A i \in 1 .. Len(events) : events[i].type \notin Ends
  BY AtTheEnd, NotEnded DEF Script
<1>5. PICK k \in Nat : k = Len(events)
  BY <1>4 DEF IsSeq
<1>6. PICK t : t = events'
  OBVIOUS
<1>7. Len(t) = k + 1 /\ t[k + 1] = last /\ \A i \in 1 .. k : t[i] = events[i]
  BY <1>3, <1>4, <1>5, <1>6, Appended
<1>8. t[Len(t)] = last /\ \A i \in 1 .. Len(t) - 1 : t[i].type \notin Ends
  BY <1>4, <1>5, <1>7
<1> QED
  BY <1>2, <1>6, <1>8, AtTheEnd DEF StreamTellsOutcome

LEMMA BodyTold ==
  ASSUME Script, Finish, outcome.finish # "error", ~streaming
  PROVE  StreamTellsOutcome'
<1>1. PICK last : last = Body
  OBVIOUS
<1>2. PICK t : t = events' /\ t = <<last>>
  BY <1>1 DEF Finish
<1>3. Len(t) = 1 /\ t[Len(t)] = last /\ DOMAIN t = {1} /\ t[1] = last
  BY <1>2
<1>4. /\ outcome.calls = IF aborted THEN <<>> ELSE toolCall
      /\ outcome.finish = "tool_calls" <=> toolCall # <<>> /\ ~aborted
      /\ route \in {"legacy", "admin"} => toolCall = <<>>
  BY AtTheEnd DEF Script, Logged, Requested
<1>5. CASE route = "responses"
  <2>1. last.type = "completed"
    BY <1>1, <1>5, EventFields DEF Body
  <2>2. last.type \in Ends /\ last.type # "added"
    BY <2>1 DEF Ends
  <2> QED
    BY <1>2, <1>3, <2>1, <2>2, AtTheEnd DEF StreamTellsOutcome
<1>6. CASE route # "responses"
  <2>1. /\ last.type = "body"
        /\ last.data = [content |-> outcome.content,
             calls |-> IF route = "chat" THEN outcome.calls ELSE <<>>,
             finish |-> IF route = "chat" THEN FinishReason ELSE "stop"]
    BY <1>1, <1>6, EventFields DEF Body
  <2>2. last.type \in Ends
    BY <2>1 DEF Ends
  <2>3. last.data.calls = outcome.calls
    BY <1>4, <1>6, <2>1 DEF Script, Requested
  <2>4. last.data.finish = "tool_calls" <=> toolCall # <<>> /\ ~aborted
    BY <1>4, <1>6, <2>1 DEF Script, Requested, FinishReason
  <2> QED
    BY <1>2, <1>3, <2>1, <2>2, <2>3, <2>4, AtTheEnd DEF StreamTellsOutcome
<1> QED
  BY <1>5, <1>6

LEMMA PlainTold ==
  ASSUME Script, Finish, outcome.finish # "error", streaming, route # "responses"
  PROVE  StreamTellsOutcome'
<1>1. PICK n \in Nat : n = produced /\ text = [i \in 1 .. n |-> i]
  BY DEF Script, TurnInv
<1>2. PICK reason : /\ events' = Append(events, Event("final", 0, reason))
                    /\ reason = IF route = "chat" THEN FinishReason
                                ELSE IF route = "legacy" THEN "stop" ELSE outcome.finish
  BY DEF Finish, ChatEnd, LegacyEnd, AdminEnd, Script, Requested
<1>3. PICK last : last = Event("final", 0, reason)
  OBVIOUS
<1>4. last.type = "final" /\ last.data = reason /\ last.type \in Ends
  BY <1>3, EventFields DEF Ends
<1>5. PICK t : t = events' /\ t = Append(events, last)
  BY <1>2, <1>3
<1>6. /\ outcome.content = text
      /\ outcome.calls = IF aborted THEN <<>> ELSE toolCall
      /\ outcome.finish = "tool_calls" <=> toolCall # <<>> /\ ~aborted
      /\ route \in {"legacy", "admin"} => toolCall = <<>>
      /\ IsSeq(toolCall)
  BY AtTheEnd DEF Script, Logged, Requested
<1>7. PICK lead \in Nat : lead = Lead
  BY DEF Lead
<1>8. Plain(events, lead, n, toolCall)
  BY <1>1, <1>7, AtTheEnd DEF Script, Streamed
<1>9. /\ t[Len(t)] = last /\ \A i \in 1 .. Len(t) - 1 : t[i].type \notin Ends
      /\ Tells(t, "delta", Deltas(n, 0)) /\ Tells(t, "call", Called(toolCall))
  <2>1. t = Append(events, last) /\ IsSeq(toolCall) /\ last.type \in Ends
    BY <1>4, <1>5, <1>6
  <2>2. n \in Nat /\ lead \in Nat
    OBVIOUS
  <2>3. /\ t[Len(t)] = last /\ \A i \in 1 .. Len(t) - 1 : t[i].type \notin Ends
    BY ONLY <1>8, <2>1, <2>2, PlainTells
  <2>4. Tells(t, "delta", Deltas(n, 0))
    BY ONLY <1>8, <2>1, <2>2, PlainTells
  <2>5. Tells(t, "call", Called(toolCall))
    BY ONLY <1>8, <2>1, <2>2, PlainTells, Zenon
  <2> QED
    BY <2>3, <2>4, <2>5
<1>10. [i \in DOMAIN outcome.content |-> Event("delta", 0, <<outcome.content[i]>>)]
          = Deltas(n, 0)
  BY <1>1, <1>6 DEF Deltas
<1>11. ~aborted => /\ outcome.calls = toolCall
                   /\ [i \in DOMAIN outcome.calls |-> Event("call", i - 1, outcome.calls[i])]
                        = Called(toolCall)
  BY <1>6 DEF Called
<1>12. reason = "tool_calls" <=> toolCall # <<>> /\ ~aborted
  BY <1>2, <1>6 DEF FinishReason, Script, Requested
<1> QED
  BY <1>4, <1>5, <1>9, <1>10, <1>11, <1>12, AtTheEnd DEF StreamTellsOutcome

\* What the output of a Responses answer is made of.
LEMMA OutputMade ==
  ASSUME Script, pc = "answer", outcome.finish # "error",
         NEW n \in Nat, n = produced, NEW c \in Nat, c = Len(toolCall),
         NEW m \in Nat, m = TextItems(n), n # 0 \/ c # 0
  PROVE  Made(Output, n, toolCall, c, m)
<1>1. /\ outcome.content = Fragments(n)
      /\ outcome.calls = IF aborted THEN <<>> ELSE toolCall
      /\ IsSeq(toolCall)
  BY DEF Script, Logged, Requested, TurnInv, Fragments
<1>2. DOMAIN toolCall = 1 .. c /\ (toolCall = <<>> <=> c = 0)
  BY <1>1, Empty, NotEmpty DEF IsSeq
<1>3. Fragments(n) = <<>> <=> n = 0
  <2>1. Fragments(n) = [i \in 1 .. n |-> Fragments(n)[i]]
    BY DEF Fragments
  <2>2. Len(Fragments(n)) = n
    BY <2>1, SeqOfLength
  <2>3. n = 0 => Fragments(n) = <<>>
    BY DEF Fragments
  <2> QED
    BY <2>2, <2>3, Empty
<1>4. PICK items : items = [i \in DOMAIN toolCall |-> [type |-> "call", data |-> toolCall[i]]]
  OBVIOUS
<1>5. /\ items = [i \in 1 .. c |-> items[i]]
      /\ \A i \in 1 .. c : items[i].type = "call" /\ items[i].data = toolCall[i]
  BY <1>2, <1>4
<1>6. IsSeq(items) /\ Len(items) = c
  BY <1>5, SeqOfLength
<1>7. PICK message : message = [type |-> "message", data |-> outcome.content]
  OBVIOUS
<1>8. PICK calls : calls = IF toolCall # <<>> THEN toolCall ELSE outcome.calls
  OBVIOUS
<1>9. calls = toolCall
  BY <1>1, <1>8
<1>10. Output = (IF outcome.content # <<>> \/ toolCall = <<>> THEN <<message>> ELSE <<>>) \o items
  BY <1>4, <1>7, <1>8, <1>9 DEF Output
<1>11. PICK first : first = IF n # 0 THEN <<message>> ELSE <<>>
  OBVIOUS
<1>12. Output = first \o items
  BY <1>1, <1>2, <1>3, <1>10, <1>11
<1>13. IsSeq(first) /\ Len(first) = m /\ (n # 0 => first[1] = message)
  <2>1. /\ <<message>> \in [1 .. 1 -> {message}] /\ Len(<<message>>) = 1
        /\ <<message>>[1] = message
    BY LenProperties, <<message>> \in Seq({message})
  <2>2. IsSeq(<<message>>)
    BY <2>1 DEF IsSeq
  <2> QED
    BY <1>11, <2>1, <2>2, Empty DEF TextItems
<1>14. PICK output : output = Output /\ output = first \o items
  BY <1>12
<1>15. /\ IsSeq(output) /\ Len(output) = m + c
       /\ \A i \in 1 .. m : output[i] = first[i]
       /\ \A i \in 1 .. c : output[m + i] = items[i]
  <2>1. /\ IsSeq(output) /\ Len(output) = Len(first) + Len(items)
        /\ \A i \in 1 .. Len(first) : output[i] = first[i]
        /\ \A i \in 1 .. Len(items) : output[Len(first) + i] = items[i]
    BY ONLY <1>6, <1>13, <1>14, Joined
  <2> QED
    BY <1>6, <1>13, <2>1
<1>16. DOMAIN output = 1 .. m + c
  BY <1>15 DEF IsSeq
<1>17. n # 0 => output[1] = message
  BY <1>13, <1>15 DEF TextItems
<1>18. n # 0 => output[1].type = "message" /\ output[1].data = Fragments(n)
  BY <1>1, <1>7, <1>17
<1>19. \A j \in 1 .. c : output[m + j].type = "call" /\ output[m + j].data = toolCall[j]
  BY <1>5, <1>15
<1>20. Made(output, n, toolCall, c, m)
  BY <1>16, <1>18, <1>19 DEF Made
<1> QED
  BY <1>14, <1>20

LEMMA ItemsOutput ==
  ASSUME Script, Finish, outcome.finish # "error", streaming, route = "responses"
  PROVE  StreamTellsOutcome'
<1>1. PICK n \in Nat : n = produced /\ text = Fragments(n)
  BY DEF Script, TurnInv, Fragments
<1>2. /\ outcome.content = text
      /\ outcome.calls = IF aborted THEN <<>> ELSE toolCall
      /\ IsSeq(toolCall)
  BY AtTheEnd DEF Script, Logged, Requested
<1>3. PICK last : last = Event("completed", 0, Output)
  OBVIOUS
<1>4. last.type = "completed" /\ last.data = Output /\ last.type \in Ends
  BY <1>3, EventFields DEF Ends
<1>5. PICK es : es = CloseText(events, outcome.content)
  OBVIOUS
<1>6. PICK t : t = events' /\ t = Append(es, last)
  BY <1>3, <1>5 DEF Finish, ResponsesEnd
<1>7. Itemized(es, n, 0, toolCall)
  <2>1. Itemized(events, n, open, toolCall) /\ open = Opened
    BY <1>1, AtTheEnd DEF Script, Streamed
  <2>2. CASE n = 0 \/ toolCall # <<>>
    BY <1>1, <1>5, <2>1, <2>2 DEF Opened, CloseText
  <2>3. CASE n # 0 /\ toolCall = <<>>
    <3>1. open = 1
      BY <1>1, <2>1, <2>3 DEF Opened
    <3> QED
      BY <1>1, <1>2, <1>5, <2>1, <2>3, <3>1, TextClosed
  <2> QED
    BY <2>2, <2>3
<1>8. PICK b \in Nat, c \in Nat, m \in Nat :
        b = Base(n, 0) /\ c = Len(toolCall) /\ m = TextItems(n)
  BY <1>2 DEF IsSeq, Base, TextItems
<1>9. Places(t, n, toolCall, last, b, c, m)
  BY <1>2, <1>6, <1>7, <1>8, ItemPlaces
<1>10. /\ t[Len(t)] = last /\ \A i \in 1 .. Len(t) - 1 : t[i].type \notin Ends
       /\ Tells(t, "delta", Deltas(n, 1))
  <2>1. n \in Nat /\ b \in Nat /\ c \in Nat /\ m \in Nat /\ b = Base(n, 0) /\ last.type \in Ends
    BY <1>4, <1>8
  <2>2. t[Len(t)] = last
    BY <1>9 DEF Places
  <2>3. \A i \in 1 .. Len(t) - 1 : t[i].type \notin Ends
    BY ONLY <1>9, <2>1, ItemsTold
  <2>4. Tells(t, "delta", Deltas(n, 1))
    BY ONLY <1>9, <2>1, ItemsTold
  <2> QED
    BY <2>2, <2>3, <2>4
<1>11. [i \in DOMAIN outcome.content |-> Event("delta", 1, <<outcome.content[i]>>)]
          = Deltas(n, 1)
  BY <1>1, <1>2 DEF Deltas, Fragments
<1>12. ASSUME \E i \in DOMAIN t : t[i].type = "added"
       PROVE  TellsItems(t, last.data)
  <2>1. n # 0 \/ c # 0
    <3> SUFFICES ASSUME n = 0, c = 0 PROVE FALSE
      OBVIOUS
    <3>1. /\ IsSeq(t) /\ Len(t) = b + 2 * c + 1 /\ t[b + 2 * c + 1] = last
          /\ t[1].type \in {"role", "created"}
      BY <1>9 DEF Places
    <3>2. b + 2 * c + 1 = 2
      BY <1>8 DEF Base
    <3>3. DOMAIN t = 1 .. 2
      BY <3>1, <3>2 DEF IsSeq
    <3>4. \A i \in DOMAIN t : i = 1 \/ i = 2
      BY <3>3
    <3> QED
      BY <1>4, <1>12, <3>1, <3>2, <3>4
  <2>2. PICK output : output = Output
    OBVIOUS
  <2>3. Made(output, n, toolCall, c, m)
    <3>1. pc = "answer" /\ n = produced
      BY <1>1, AtTheEnd
    <3> QED
      BY <1>8, <2>1, <2>2, <3>1, OutputMade
  <2>4. TellsItems(t, output)
    <3>1. /\ n \in Nat /\ b \in Nat /\ c \in Nat /\ m \in Nat /\ b = Base(n, 0)
          /\ m = TextItems(n) /\ last.type \in Ends
      BY <1>4, <1>8
    <3> QED
      BY ONLY <1>9, <2>3, <3>1, OutputTold
  <2> QED
    BY <1>4, <2>2, <2>4
<1> QED
  BY <1>4, <1>6, <1>10, <1>11, <1>12, AtTheEnd DEF StreamTellsOutcome

LEMMA ScriptStep == Script /\ [Next]_vars => Script'
<1> SUFFICES ASSUME Script, [Next]_vars PROVE Script'
  OBVIOUS
<1>1. TurnInv' /\ Requested' /\ Logged' /\ Streamed'
  BY TurnStepInv, RequestedStep, LoggedStep, StreamedStep DEF Script
<1>2. StreamTellsOutcome'
  <2>1. CASE Finish
    BY <2>1, FailureTold, BodyTold, PlainTold, ItemsOutput DEF Script, Requested
  <2>2. CASE pc' # "done"
    BY <2>2 DEF StreamTellsOutcome
  <2>3. CASE pc' = "done" /\ ~Finish
    <3>1. UNCHANGED vars
      BY <2>3 DEF Next, Start, SendOk, Message, Capture, ToolWins, StreamDone, BatchWins, Leave,
                  Timeout, Disconnect, RunEnds, Settle, SegmentCut, Reject, RejectWait, Conclude,
                  Script, TurnInv
    <3> QED
      BY <3>1 DEF vars, Script, StreamTellsOutcome
  <2> QED
    BY <2>1, <2>2, <2>3
<1> QED
  BY <1>1, <1>2 DEF Script

\* The answer tells what the turn came to: for runTurn(), record() and the four
\* routes, under every order of fragments, calls, batches, timer and disconnect,
\* for any calls and any number of them and of fragments.
THEOREM AnswerIsTheOutcome == Spec => []StreamTellsOutcome
<1>1. Init => Script
  BY ScriptInit
<1>2. Script /\ [Next]_vars => Script'
  BY ScriptStep
<1>3. Script => StreamTellsOutcome
  BY DEF Script
<1> QED
  BY <1>1, <1>2, <1>3, PTL DEF Spec

\* The same of every request of the pipeline, whatever the catalog does.
THEOREM PipelineAnswerIsTheOutcome == PipelineSpec => []StreamTellsOutcome
<1>1. PipelineInit => Script
  BY ScriptInit DEF PipelineInit
<1>2. Script /\ [PipelineNext]_allVars => Script'
  BY PipelineStep, ScriptStep
<1>3. Script => StreamTellsOutcome
  BY DEF Script
<1> QED
  BY <1>1, <1>2, <1>3, PTL DEF PipelineSpec

(***************************************************************************)
(* The id.  That listing and resolution agree is a fact about one catalog: *)
(* a listed slug is the model's id and one token, for which the model is   *)
(* the only one, and its id the longest base, that parseVariantSelection   *)
(* finds (SlugOfOneToken); the token decodes to the very parameter and     *)
(* value that it was made of (DeltaSuffix), and so the variant that was    *)
(* listed is among those that findDeclaredVariant returns the first of,    *)
(* which all serve the same values (ServedVariant).  Every step uses a     *)
(* part of Unambiguous.                                                    *)
(***************************************************************************)
\* A token.  The provers do not know that a literal is a STRING.
Word == STRING \cup {"fast", "auto", "unknown"}

\* A name made of tokens is a name made of words.
LEMMA NamesOfWords == Seq(STRING) \subseteq Seq(Word)
  BY SeqMonotonic DEF Word

(***************************************************************************)
(* Finding in a list: the least position that passes the test.             *)
(***************************************************************************)
LEMMA LeastExists ==
  ASSUME NEW S, S \subseteq Nat, S # {}
  PROVE  Least(S) \in S /\ \A i \in S : Least(S) <= i
<1>1. PICK i \in S : \A j \in S : ~(<<j, i>> \in OpToRel(<, Nat))
  BY NatLessThanWellFounded, WFMin, Zenon
<1>2. ASSUME NEW j \in S PROVE ~(j < i)
  <2>1. j \in Nat /\ i \in Nat
    OBVIOUS
  <2> QED
    BY <1>1, <2>1, Zenon DEF OpToRel
<1>3. \A j \in S : i <= j
  BY <1>2
<1> QED
  BY <1>3 DEF Least

\* The only position that passes the test is the one found.
LEMMA LeastOfOne == ASSUME NEW i \in Nat PROVE Least({i}) = i
  BY DEF Least

\* A candidate with the longest base, of the first model that has it.
LEMMA BestExists ==
  ASSUME NEW all, NEW n \in Nat, all \subseteq Nat \X (1 .. n), all # {}
  PROVE  Best(all) \in all
<1> DEFINE gaps == {n - c[2] : c \in all}
           gap == Least(gaps)
           firsts == {c[1] : c \in {d \in all : n - d[2] = gap}}
<1>1. gaps \subseteq Nat /\ gaps # {}
  OBVIOUS
<1>2. gap \in gaps /\ \A i \in gaps : gap <= i
  BY <1>1, LeastExists
<1>3. firsts \subseteq Nat /\ firsts # {}
  BY <1>2
<1>4. Least(firsts) \in firsts /\ \A i \in firsts : Least(firsts) <= i
  BY <1>3, LeastExists
<1>5. PICK b \in all : n - b[2] = gap /\ b[1] = Least(firsts)
  BY <1>4
<1>6. ASSUME NEW c \in all PROVE c[2] < b[2] \/ (c[2] = b[2] /\ b[1] <= c[1])
  <2>1. c[2] \in 1 .. n /\ b[2] \in 1 .. n /\ c[1] \in Nat /\ b[1] \in Nat
    OBVIOUS
  <2>2. gap <= n - c[2]
    BY <1>2
  <2>3. CASE n - c[2] = gap
    <3>1. c[1] \in firsts
      BY <2>3
    <3>2. b[1] <= c[1]
      BY <1>4, <1>5, <3>1
    <3> QED
      BY <1>5, <2>1, <2>3, <3>2
  <2>4. CASE n - c[2] # gap
    BY <1>5, <2>1, <2>2, <2>4
  <2> QED
    BY <2>3, <2>4
<1> HIDE DEF gaps, gap, firsts
<1> QED
  BY <1>6 DEF Best

\* A candidate that is better than all others is the best one.
LEMMA BestIs ==
  ASSUME NEW all, NEW m \in Nat, all \subseteq Nat \X (1 .. m),
         NEW i \in Nat, NEW n \in 1 .. m, <<i, n>> \in all,
         \A c \in all : c[2] <= n /\ (c[2] = n => c[1] = i)
  PROVE  Best(all) = <<i, n>>
<1>1. Best(all) \in all
  BY BestExists
<1>2. <<i, n>>[2] = n /\ <<i, n>>[1] = i
  OBVIOUS
<1>3. \A c \in all : c[2] < n \/ (c[2] = n /\ i <= c[1])
  OBVIOUS
<1>4. \E b \in all : \A c \in all : c[2] < b[2] \/ (c[2] = b[2] /\ b[1] <= c[1])
  BY <1>2, <1>3
<1>5. \A c \in all : c[2] < Best(all)[2] \/ (c[2] = Best(all)[2] /\ Best(all)[1] <= c[1])
  BY <1>4 DEF Best
<1>6. n <= Best(all)[2]
  <2>1. n < Best(all)[2] \/ n = Best(all)[2]
    BY <1>2, <1>5
  <2> QED
    BY <1>1, <2>1
<1>7. Best(all)[2] = n
  BY <1>1, <1>6
<1> QED
  BY <1>1, <1>7

(***************************************************************************)
(* Names: a base and the tokens after it.                                  *)
(***************************************************************************)
\* A name is its base and the tokens after it.
LEMMA RestOfName ==
  ASSUME NEW name \in Seq(Word), NEW n \in 1 .. Len(name) - 1
  PROVE  /\ Rest(name, n) \in Seq(Word) /\ Len(Rest(name, n)) = Len(name) - n
         /\ DOMAIN Rest(name, n) = 1 .. Len(name) - n
         /\ Rest(name, n)[Len(name) - n] = name[Len(name)]
         /\ SubSeq(name, 1, n) \in Seq(Word) /\ Len(SubSeq(name, 1, n)) = n
<1>1. Len(name) \in Nat /\ \A k \in 1 .. Len(name) : name[k] \in Word
  BY LenProperties, ElementOfSeq
<1>2. /\ \A k \in n + 1 .. Len(name) : name[k] \in Word
      /\ \A k \in 1 .. n : name[k] \in Word
  BY <1>1
<1>3. /\ Rest(name, n) \in Seq(Word) /\ Len(Rest(name, n)) = Len(name) - n
      /\ \A k \in 1 .. Len(name) - n : Rest(name, n)[k] = name[n + k]
  <2>1. n + 1 \in Int /\ Len(name) \in Int
    BY <1>1
  <2>2. /\ SubSeq(name, n + 1, Len(name)) \in Seq(Word)
        /\ Len(SubSeq(name, n + 1, Len(name))) =
             IF n + 1 <= Len(name) THEN Len(name) - (n + 1) + 1 ELSE 0
        /\ \A k \in 1 .. Len(name) - (n + 1) + 1 :
             SubSeq(name, n + 1, Len(name))[k] = name[n + 1 + k - 1]
    BY <1>2, <2>1, SubSeqProperties
  <2> QED
    BY <1>1, <2>2, SMT DEF Rest
<1>4. SubSeq(name, 1, n) \in Seq(Word) /\ Len(SubSeq(name, 1, n)) = n
  BY <1>1, <1>2, SubSeqProperties, SMT
<1>5. Len(name) - n \in 1 .. Len(name) - n /\ n + (Len(name) - n) = Len(name)
  BY <1>1
<1> QED
  BY <1>3, <1>4, <1>5, LenProperties

\* A token is a name of its own.
LEMMA OneToken ==
  ASSUME NEW T, NEW t \in T
  PROVE  <<t>> \in Seq(T) /\ Len(<<t>>) = 1 /\ <<t>>[1] = t
  OBVIOUS

\* A base that one token follows.
LEMMA OneTokenMore ==
  ASSUME NEW base \in Seq(Word), base # <<>>, NEW t \in Word
  PROVE  LET name == base \o <<t>> IN
         /\ name \in Seq(Word) /\ Len(base) \in 1 .. Len(name) - 1
         /\ Len(name) = Len(base) + 1 /\ name[Len(name)] = t
         /\ SubSeq(name, 1, Len(base)) = base /\ Rest(name, Len(base)) = <<t>>
         /\ Append(base, t) = name
<1> DEFINE name == base \o <<t>>
<1>1. <<t>> \in Seq(Word) /\ Len(<<t>>) = 1 /\ <<t>>[1] = t
  BY OneToken
<1>2. Len(base) \in Nat \ {0}
  BY EmptySeq
<1>3. /\ name \in Seq(Word) /\ Len(name) = Len(base) + 1
      /\ \A i \in 1 .. Len(base) : name[i] = base[i]
      /\ name[Len(name)] = t
  <2>1. /\ name \in Seq(Word) /\ Len(name) = Len(base) + Len(<<t>>)
        /\ \A i \in 1 .. Len(base) + Len(<<t>>) :
             name[i] = IF i <= Len(base) THEN base[i] ELSE <<t>>[i - Len(base)]
    BY <1>1, ConcatProperties
  <2>2. Len(base) + 1 \in 1 .. Len(base) + Len(<<t>>) /\ Len(base) + 1 - Len(base) = 1
    BY <1>1, <1>2
  <2>3. name[Len(base) + 1] = t
    BY <1>1, <1>2, <2>1, <2>2, ~(Len(base) + 1 <= Len(base))
  <2>4. \A i \in 1 .. Len(base) : name[i] = base[i]
    BY <1>1, <1>2, <2>1
  <2> QED
    BY <1>1, <2>1, <2>3, <2>4
<1> HIDE DEF name
<1>4. Len(base) \in 1 .. Len(name) - 1
  BY <1>2, <1>3
<1>5. SubSeq(name, 1, Len(base)) = base
  <2>1. \A i \in 1 .. Len(base) : name[i] \in Word
    BY <1>3, ElementOfSeq
  <2>2. /\ SubSeq(name, 1, Len(base)) \in Seq(Word)
        /\ Len(SubSeq(name, 1, Len(base))) = Len(base)
        /\ \A i \in 1 .. Len(base) : SubSeq(name, 1, Len(base))[i] = name[i]
    BY <1>2, <2>1, SubSeqProperties, SMT
  <2> QED
    BY <1>3, <2>2, SeqEqual
<1>6. Rest(name, Len(base)) = <<t>>
  <2>1. /\ Rest(name, Len(base)) \in Seq(Word) /\ Len(Rest(name, Len(base))) = 1
        /\ Rest(name, Len(base))[1] = t
    <3>1. Len(name) - Len(base) = 1
      BY <1>2, <1>3
    <3> QED
      BY <1>3, <1>4, <3>1, RestOfName
  <2> QED
    BY <1>1, <2>1, SeqEqual, \A i \in 1 .. 1 : i = 1
<1>7. Append(base, t) = name
  BY AppendIsConcat DEF name
<1> QED
  BY <1>3, <1>4, <1>5, <1>6, <1>7 DEF name

(***************************************************************************)
(* Variants: what the tokens of a slug assign, and what is served.         *)
(***************************************************************************)
\* Candidates are positions, so there is a best one.
LEMMA BestCandidate ==
  ASSUME NEW ms, WellTyped(ms), NEW name \in Seq(Word), Candidates(ms, name) # {}
  PROVE  /\ Best(Candidates(ms, name)) \in Candidates(ms, name)
         /\ Candidates(ms, name) \subseteq Nat \X (1 .. Len(name) - 1)
         /\ Len(name) \in Nat \ {0, 1}
<1>1. Len(name) \in Nat
  BY LenProperties
<1>2. Candidates(ms, name) \subseteq Nat \X (1 .. Len(name) - 1)
  BY DEF Candidates, WellTyped
<1>3. PICK k : k \in 1 .. Len(name) - 1
  BY <1>2
<1>4. Len(name) - 1 \in Nat /\ Len(name) \in Nat \ {0, 1}
  <2>1. \A n \in Nat : k \in 1 .. n - 1 => n - 1 \in Nat /\ n \in Nat \ {0, 1}
    OBVIOUS
  <2> QED
    BY <1>1, <1>3, <2>1
<1> QED
  BY <1>2, <1>4, BestExists

\* A base and one token that its model understands: this model, this base.
LEMMA SlugOfOneToken ==
  ASSUME NEW ms, WellTyped(ms), NamesDiffer(ms), NEW i \in DOMAIN ms,
         NEW base \in Bases(ms[i]), base # <<>>, NEW t \in Word,
         SwitchAt(ms[i], t) # {} \/ ChoiceAt(ms[i], t) # {}
  PROVE  LET name == base \o <<t>> IN
         /\ <<i, Len(base)>> \in Candidates(ms, name)
         /\ Best(Candidates(ms, name)) = <<i, Len(base)>>
         /\ Rest(name, Len(base)) = <<t>>
<1> DEFINE name == base \o <<t>>
<1>1. base \in Seq(Word)
  BY NamesOfWords DEF WellTyped
<1>2. /\ name \in Seq(Word) /\ Len(base) \in 1 .. Len(name) - 1
      /\ Len(name) = Len(base) + 1
      /\ SubSeq(name, 1, Len(base)) = base /\ Rest(name, Len(base)) = <<t>>
  BY <1>1, OneTokenMore
<1> HIDE DEF name
<1>3. Decodes(ms[i], <<t>>)
  <2>1. DOMAIN <<t>> = {1} /\ <<t>>[1] = t
    OBVIOUS
  <2>2. <<t>> # <<>>
    BY <2>1, DOMAIN <<>> = {}
  <2> QED
    BY <2>1, <2>2, Zenon DEF Decodes
<1>4. <<i, Len(base)>> \in Candidates(ms, name)
  <2>1. <<i, Len(base)>> \in (DOMAIN ms) \X (1 .. Len(name) - 1)
    BY <1>2
  <2>2. <<i, Len(base)>>[1] = i /\ <<i, Len(base)>>[2] = Len(base)
    OBVIOUS
  <2> QED
    BY <1>2, <1>3, <2>1, <2>2, Zenon DEF Candidates
<1>5. ASSUME NEW c \in Candidates(ms, name)
      PROVE  c[2] <= Len(base) /\ (c[2] = Len(base) => c[1] = i)
  <2>1. c[1] \in DOMAIN ms /\ c[2] \in 1 .. Len(name) - 1
        /\ SubSeq(name, 1, c[2]) \in Bases(ms[c[1]])
    BY DEF Candidates
  <2>2. c[2] <= Len(base)
    BY <1>2, <2>1, LenProperties, <1>1
  <2>3. c[2] = Len(base) => c[1] = i
    BY <1>2, <2>1 DEF NamesDiffer
  <2> QED
    BY <2>2, <2>3
<1>6. Best(Candidates(ms, name)) = <<i, Len(base)>>
  <2>1. /\ Candidates(ms, name) \subseteq Nat \X (1 .. Len(name) - 1)
        /\ Len(name) \in Nat \ {0, 1}
    BY <1>2, <1>4, BestCandidate
  <2>2. i \in Nat /\ Len(name) - 1 \in Nat
    BY <2>1 DEF WellTyped
  <2> QED
    BY <1>2, <1>4, <1>5, <2>1, <2>2, BestIs
<1> QED
  BY <1>2, <1>4, <1>6 DEF name

\* Each token that decodes is in the parameters that are wanted.
LEMMA TokensAssigned ==
  ASSUME NEW model, NEW tokens, Decodes(model, tokens), NEW k \in DOMAIN tokens
  PROVE  LET d == Decode(model, tokens[k])
             wants == parseVariantTokens(model, tokens)
         IN d.id \in DOMAIN wants /\ wants[d.id] = d.value
<1> DEFINE d(i) == Decode(model, tokens[i])
<1>1. d(CHOOSE i \in DOMAIN tokens : d(i).id = d(k).id) = d(k)
  <2> DEFINE j == CHOOSE i \in DOMAIN tokens : d(i).id = d(k).id
  <2>1. j \in DOMAIN tokens /\ d(j).id = d(k).id
    BY Zenon
  <2>2. j = k
    BY <2>1, Zenon DEF Decodes
  <2> QED
    BY <2>2
<1>2. d(k).id \in {d(i).id : i \in DOMAIN tokens}
  BY Zenon
<1> QED
  BY <1>1, <1>2, Zenon DEF parseVariantTokens

\* What parseVariantSelection returns.
Wants(ms, name) ==
  LET c == Best(Candidates(ms, name))
  IN parseVariantTokens(ms[c[1]], Rest(name, c[2]))
Slugged(ms, name) == ms[Best(Candidates(ms, name))[1]]

LEMMA VariantServed ==
  ASSUME NEW ms, WellTyped(ms), NEW name \in Seq(Word), Candidates(ms, name) # {}
  PROVE  LET served == parseVariantSelection(ms, name)
             model == Slugged(ms, name)
         IN /\ served # NoModel /\ served.id = model.id
            /\ \/ /\ served.params = Wants(ms, name)
                  /\ findDeclaredVariant(model, Wants(ms, name)) = {}
               \/ \E v \in findDeclaredVariant(model, Wants(ms, name)) :
                    served.params = model.variants[v].params
<1> DEFINE served == parseVariantSelection(ms, name)
           model == Slugged(ms, name)
           declared == findDeclaredVariant(model, Wants(ms, name))
<1>1. served = [id |-> model.id,
                params |-> IF declared = {} THEN Wants(ms, name)
                           ELSE model.variants[Least(declared)].params]
  BY Zenon DEF parseVariantSelection, Slugged, Wants
<1>2. model.id # <<>> /\ DOMAIN model.variants \subseteq Nat
  BY BestCandidate DEF Slugged, WellTyped, Candidates
<1>3. declared # {} => Least(declared) \in declared
  <2>1. declared \subseteq Nat
    BY <1>2 DEF findDeclaredVariant
  <2> HIDE DEF declared
  <2> QED
    BY <2>1, LeastExists
<1> HIDE DEF declared
<1>4. served.id = model.id /\ served.id # <<>>
  BY <1>1, <1>2
<1>5. served # NoModel
  BY <1>4 DEF NoModel
<1>6. served.params = IF declared = {} THEN Wants(ms, name)
                      ELSE model.variants[Least(declared)].params
  BY <1>1
<1> QED
  BY <1>3, <1>4, <1>5, <1>6 DEF declared

\* All that is wanted is served.
LEMMA WantsServed ==
  ASSUME NEW ms, WellTyped(ms), NEW name \in Seq(Word), Candidates(ms, name) # {},
         NEW p \in DOMAIN Wants(ms, name)
  PROVE  LET served == parseVariantSelection(ms, name)
         IN p \in DOMAIN served.params /\ served.params[p] = Wants(ms, name)[p]
  BY VariantServed DEF findDeclaredVariant

\* A token that was understood has its value in what is served.
LEMMA TokenServed ==
  ASSUME NEW ms, WellTyped(ms), NEW name \in Seq(Word), Candidates(ms, name) # {}
  PROVE  LET served == parseVariantSelection(ms, name)
             tokens == Rest(name, Best(Candidates(ms, name))[2])
         IN \A k \in DOMAIN tokens :
              LET d == Decode(Slugged(ms, name), tokens[k])
              IN d.id \in DOMAIN served.params /\ served.params[d.id] = d.value
<1> DEFINE tokens == Rest(name, Best(Candidates(ms, name))[2])
<1>1. Decodes(Slugged(ms, name), tokens)
  BY BestCandidate DEF Candidates, Slugged
<1> SUFFICES ASSUME NEW k \in DOMAIN tokens
             PROVE  LET d == Decode(Slugged(ms, name), tokens[k])
                        served == parseVariantSelection(ms, name)
                    IN d.id \in DOMAIN served.params /\ served.params[d.id] = d.value
  OBVIOUS
<1> DEFINE d == Decode(Slugged(ms, name), tokens[k])
<1>2. Wants(ms, name) = parseVariantTokens(Slugged(ms, name), tokens)
  BY Zenon DEF Wants, Slugged
<1>3. d.id \in DOMAIN Wants(ms, name) /\ Wants(ms, name)[d.id] = d.value
  BY <1>1, <1>2, TokensAssigned
<1> HIDE DEF tokens
<1> QED
  BY <1>3, WantsServed

\* Nobody asked for another context: the default one.
LEMMA ContextAtDefault ==
  ASSUME NEW ms, WellTyped(ms), NEW name \in Seq(Word), Candidates(ms, name) # {},
         VariantsAgree(Slugged(ms, name)), "context" \notin DOMAIN Wants(ms, name)
  PROVE  ContextOf(Slugged(ms, name), parseVariantSelection(ms, name).params)
           = ContextOf(Slugged(ms, name), <<>>)
<1> DEFINE model == Slugged(ms, name)
           params == parseVariantSelection(ms, name).params
           defaults == DefaultParams(model)
<1>1. DOMAIN <<>> = {}
  BY SMT
<1>2. CASE params = Wants(ms, name)
  BY <1>1, <1>2, Zenon DEF ContextOf
<1>3. CASE \E v \in findDeclaredVariant(model, Wants(ms, name)) : params = model.variants[v].params
  <2>1. DOMAIN params = DOMAIN defaults
    BY <1>3 DEF VariantsAgree, findDeclaredVariant
  <2>2. "context" \in DOMAIN params => params["context"] = defaults["context"]
    BY <1>3, <2>1 DEF findDeclaredVariant
  <2> QED
    BY <1>1, <2>1, <2>2, Zenon DEF ContextOf
<1> QED
  BY <1>2, <1>3, VariantServed

(***************************************************************************)
(* Resolution.                                                             *)
(***************************************************************************)
\* Names tell models apart.
LEMMA NameFindsModel ==
  ASSUME NEW ms, WellTyped(ms), NamesDiffer(ms), NEW i \in DOMAIN ms, NEW name \in Bases(ms[i])
  PROVE  /\ findModel(ms, name) = {i} /\ Least(findModel(ms, name)) = i
         /\ ById(ms, name) \subseteq {i} /\ ByAlias(ms, name) \subseteq {i}
         /\ ById(ms, name) # {} \/ ByAlias(ms, name) # {}
<1>1. \A j \in DOMAIN ms : name \in Bases(ms[j]) => j = i
  BY DEF NamesDiffer
<1>2. ById(ms, name) \subseteq {i} /\ ByAlias(ms, name) \subseteq {i}
  BY <1>1 DEF ById, ByAlias, Bases
<1>3. i \in ById(ms, name) \/ i \in ByAlias(ms, name)
  BY DEF ById, ByAlias, Bases
<1>4. findModel(ms, name) = {i}
  BY <1>2, <1>3 DEF findModel
<1> QED
  BY <1>2, <1>3, <1>4, LeastOfOne DEF WellTyped

\* findModel() finds a model by its id and by its aliases.
LEMMA FoundByName ==
  ASSUME NEW ms, WellTyped(ms), NEW name, findModel(ms, name) # {}
  PROVE  /\ Least(findModel(ms, name)) \in DOMAIN ms
         /\ name \in Bases(ms[Least(findModel(ms, name))])
<1>1. findModel(ms, name) \subseteq Nat
  BY DEF findModel, ById, ByAlias, WellTyped
<1>2. Least(findModel(ms, name)) \in findModel(ms, name)
  BY <1>1, LeastExists
<1> QED
  BY <1>2 DEF findModel, ById, ByAlias, Bases

\* A slug is neither an id nor "auto".
LEMMA SlugResolved ==
  ASSUME NEW ms, Unambiguous(ms), NEW name \in Seq(Word), Candidates(ms, name) # {}, NEW d
  PROVE  resolveModelSelection(ms, name, d) = parseVariantSelection(ms, name)
<1>1. ById(ms, name) = {}
  BY DEF Unambiguous, NoNameIsSlug, ById, Bases
<1>2. name # <<"auto">>
  <2>1. Len(name) \in Nat \ {0, 1}
    BY BestCandidate DEF Unambiguous
  <2>2. Len(<<"auto">>) = 1
    OBVIOUS
  <2> QED
    BY <2>1, <2>2
<1>3. parseVariantSelection(ms, name) # NoModel
  BY VariantServed DEF Unambiguous
<1> QED
  BY <1>1, <1>2, <1>3 DEF resolveModelSelection

\* The ways a name may be resolved.
LEMMA Resolutions ==
  ASSUME NEW ms, Unambiguous(ms), NEW name \in Seq(Word), NEW d
  PROVE  LET r == resolveModelSelection(ms, name, d) IN
         \/ \E i \in ById(ms, name) : r = selectionForModel(ms[i], FALSE)
         \/ /\ ById(ms, name) = {} /\ name = <<"auto">>
            /\ r = [id |-> name, params |-> <<>>]
         \/ /\ ById(ms, name) = {} /\ Candidates(ms, name) # {}
            /\ r = parseVariantSelection(ms, name)
         \/ /\ ById(ms, name) = {} /\ Candidates(ms, name) = {}
            /\ \E i \in ByAlias(ms, name) :
                 r = selectionForModel(ms[i], aliasImpliesFast(name, ms[i]) /\ hasFastParam(ms[i]))
         \/ /\ ById(ms, name) = {} /\ Candidates(ms, name) = {} /\ ByAlias(ms, name) = {}
            /\ \/ r = [id |-> name, params |-> <<>>]
               \/ \E i \in DOMAIN ms : r = selectionForModel(ms[i], FALSE)
<1> DEFINE r == resolveModelSelection(ms, name, d)
<1>1. WellTyped(ms) /\ DOMAIN ms \subseteq Nat
  BY DEF Unambiguous, WellTyped
<1>2. CASE ById(ms, name) # {}
  <2>1. Least(ById(ms, name)) \in ById(ms, name)
    BY <1>1, <1>2, LeastExists DEF ById
  <2> QED
    BY <1>2, <2>1, Zenon DEF resolveModelSelection
<1>3. CASE ById(ms, name) = {} /\ name = <<"auto">>
  BY <1>3, Zenon DEF resolveModelSelection
<1>4. CASE ById(ms, name) = {} /\ name # <<"auto">> /\ Candidates(ms, name) # {}
  BY <1>4, SlugResolved, Zenon
<1>5. Candidates(ms, name) = {} => parseVariantSelection(ms, name) = NoModel
  BY Zenon DEF parseVariantSelection
<1>6. CASE /\ ById(ms, name) = {} /\ name # <<"auto">> /\ Candidates(ms, name) = {}
           /\ ByAlias(ms, name) # {}
  <2>1. Least(ByAlias(ms, name)) \in ByAlias(ms, name)
    BY <1>1, <1>6, LeastExists DEF ByAlias
  <2> QED
    BY <1>5, <1>6, <2>1, Zenon DEF resolveModelSelection
<1>7. CASE /\ ById(ms, name) = {} /\ name # <<"auto">> /\ Candidates(ms, name) = {}
           /\ ByAlias(ms, name) = {}
  <2>1. r = Fallback(ms, name, d)
    BY <1>5, <1>7, Zenon DEF resolveModelSelection
  <2>2. findModel(ms, d) # {} => Least(findModel(ms, d)) \in DOMAIN ms
    BY <1>1, FoundByName
  <2> QED
    BY <1>7, <2>1, <2>2, Zenon DEF Fallback
<1> QED
  BY <1>2, <1>3, <1>4, <1>6, <1>7, Zenon

\* A model without a variant is sent Fast as asked for, and no other parameter.
LEMMA PlainServed ==
  ASSUME NEW m, NEW fast \in BOOLEAN
  PROVE  LET s == selectionForModel(m, fast) IN
         /\ s.id = m.id
         /\ hasFastParam(m) => /\ "fast" \in DOMAIN s.params
                               /\ s.params["fast"] = IF fast THEN True ELSE False
         /\ "context" \notin DOMAIN s.params
<1>1. "context" \notin DOMAIN <<>> /\ "context" # "fast"
  BY SMT
<1> QED
  BY <1>1 DEF selectionForModel

\* Whatever is resolved has an id.
LEMMA SomethingResolved ==
  ASSUME NEW ms, Unambiguous(ms), NEW name \in Seq(Word), name # <<>>, NEW d
  PROVE  resolveModelSelection(ms, name, d) # NoModel
<1> DEFINE r == resolveModelSelection(ms, name, d)
<1>1. \A i \in DOMAIN ms : ms[i].id # <<>>
  BY DEF Unambiguous, WellTyped
<1>2. CASE \E i \in DOMAIN ms : \E fast \in BOOLEAN : r = selectionForModel(ms[i], fast)
  BY <1>1, <1>2, PlainServed DEF NoModel
<1>3. CASE r = [id |-> name, params |-> <<>>]
  BY <1>3 DEF NoModel
<1>4. CASE Candidates(ms, name) # {} /\ r = parseVariantSelection(ms, name)
  BY <1>4, VariantServed DEF Unambiguous
<1>5. \A i : hasFastParam(ms[i]) \in BOOLEAN /\ aliasImpliesFast(name, ms[i]) \in BOOLEAN
  BY DEF hasFastParam, aliasImpliesFast
<1>6. ById(ms, name) \subseteq DOMAIN ms /\ ByAlias(ms, name) \subseteq DOMAIN ms
  BY DEF ById, ByAlias
<1> HIDE DEF r
<1>7. \/ \E i \in DOMAIN ms : \E fast \in BOOLEAN : r = selectionForModel(ms[i], fast)
      \/ r = [id |-> name, params |-> <<>>]
      \/ Candidates(ms, name) # {} /\ r = parseVariantSelection(ms, name)
  BY <1>5, <1>6, Resolutions, Zenon DEF r
<1> QED
  BY <1>2, <1>3, <1>4, <1>7

(***************************************************************************)
(* Fast.                                                                   *)
(***************************************************************************)
\* fast, where it is declared, decodes to itself.
LEMMA FastIsUnderstood ==
  ASSUME NEW m, TokensDiffer(m), hasFastParam(m)
  PROVE  /\ SwitchAt(m, "fast") # {}
         /\ Decode(m, "fast") = [id |-> "fast", value |-> True]
<1>1. SwitchAt(m, "fast") # {}
  BY DEF TokensDiffer, hasFastParam, SwitchAt
<1> QED
  BY <1>1 DEF Decode

\* A slug that ends in fast serves Fast.
LEMMA FastSlugServed ==
  ASSUME NEW ms, Unambiguous(ms), NEW name \in Seq(Word), Candidates(ms, name) # {},
         name[Len(name)] = "fast", hasFastParam(Slugged(ms, name))
  PROVE  LET served == parseVariantSelection(ms, name)
         IN "fast" \in DOMAIN served.params /\ served.params["fast"] = True
<1> DEFINE n == Best(Candidates(ms, name))[2]
           m == Slugged(ms, name)
           tokens == Rest(name, n)
<1>1. /\ Best(Candidates(ms, name)) \in Candidates(ms, name)
      /\ n \in 1 .. Len(name) - 1 /\ WellTyped(ms) /\ Len(name) \in Nat
  BY BestCandidate, LenProperties DEF Candidates, Unambiguous
<1>2. /\ DOMAIN tokens = 1 .. Len(name) - n /\ tokens[Len(name) - n] = "fast"
      /\ Len(name) - n \in 1 .. Len(name) - n
  BY <1>1, RestOfName
<1>3. Decode(m, "fast") = [id |-> "fast", value |-> True]
  BY <1>1, FastIsUnderstood DEF Unambiguous, Slugged, Candidates
<1>4. Decode(m, tokens[Len(name) - n]) = [id |-> "fast", value |-> True]
  BY <1>2, <1>3
<1>5. \A k \in DOMAIN tokens :
        LET d == Decode(m, tokens[k]) served == parseVariantSelection(ms, name)
        IN d.id \in DOMAIN served.params /\ served.params[d.id] = d.value
  BY <1>1, TokenServed, Zenon
<1>6. Len(name) - n \in DOMAIN tokens
  BY <1>2
<1> HIDE DEF n, m, tokens
<1> QED
  BY <1>4, <1>5, <1>6

\* What is served is the model with the id that is sent.
LEMMA IdFindsModel ==
  ASSUME NEW ms, NamesDiffer(ms), NEW i \in DOMAIN ms
  PROVE  (CHOOSE m \in Range(ms) : m.id = ms[i].id) = ms[i]
<1>1. \A j \in DOMAIN ms : ms[j].id = ms[i].id => j = i
  BY DEF NamesDiffer, Bases
<1>2. \A m \in Range(ms) : m.id = ms[i].id => m = ms[i]
  BY <1>1 DEF Range
<1>3. ms[i] \in Range(ms)
  BY DEF Range
<1> DEFINE m == CHOOSE m \in Range(ms) : m.id = ms[i].id
<1>4. m \in Range(ms) /\ m.id = ms[i].id
  BY <1>3
<1> QED
  BY <1>2, <1>4

\* A name that is no slug is served as non-Fast, whichever model answers.
LEMMA NoSlugServed ==
  ASSUME NEW ms, Unambiguous(ms), NEW name \in Seq(Word), Candidates(ms, name) = {}, NEW d,
         NEW i \in DOMAIN ms, resolveModelSelection(ms, name, d).id = ms[i].id,
         hasFastParam(ms[i])
  PROVE  LET r == resolveModelSelection(ms, name, d)
         IN "fast" \in DOMAIN r.params /\ r.params["fast"] = False
<1> DEFINE r == resolveModelSelection(ms, name, d)
<1>1. \A j \in DOMAIN ms : ms[j].id = ms[i].id => j = i
  BY DEF Unambiguous, NamesDiffer, Bases
<1>2. ASSUME NEW j \in DOMAIN ms, r = selectionForModel(ms[j], FALSE)
      PROVE  "fast" \in DOMAIN r.params /\ r.params["fast"] = False
  BY <1>1, <1>2, PlainServed
<1>3. CASE r = [id |-> name, params |-> <<>>] /\ ById(ms, name) = {}
  BY <1>3 DEF ById
<1>4. ASSUME NEW j \in ByAlias(ms, name) PROVE ~(aliasImpliesFast(name, ms[j]) /\ hasFastParam(ms[j]))
  <2> SUFFICES ASSUME aliasImpliesFast(name, ms[j]), hasFastParam(ms[j]) PROVE FALSE
    OBVIOUS
  <2>1. /\ j \in DOMAIN ms /\ ms[j].id \in Bases(ms[j]) /\ ms[j].id # <<>>
        /\ ms[j].id \in Seq(Word) /\ WellTyped(ms) /\ NamesDiffer(ms)
    BY NamesOfWords DEF ByAlias, Bases, Unambiguous, WellTyped
  <2>2. name = ms[j].id \o <<"fast">>
    BY <2>1, OneTokenMore DEF aliasImpliesFast
  <2>3. SwitchAt(ms[j], "fast") # {}
    BY <2>1, FastIsUnderstood DEF Unambiguous
  <2>4. "fast" \in Word
    BY DEF Word
  <2>5. Candidates(ms, ms[j].id \o <<"fast">>) # {}
    BY <2>1, <2>3, <2>4, SlugOfOneToken, Zenon
  <2> QED
    BY <2>2, <2>5
<1>5. ById(ms, name) \subseteq DOMAIN ms /\ ByAlias(ms, name) \subseteq DOMAIN ms
  BY DEF ById, ByAlias
<1>6. \/ \E j \in DOMAIN ms : r = selectionForModel(ms[j], FALSE)
      \/ r = [id |-> name, params |-> <<>>] /\ ById(ms, name) = {}
  <2>1. \A j \in ByAlias(ms, name) :
          (aliasImpliesFast(name, ms[j]) /\ hasFastParam(ms[j])) = FALSE
    BY <1>4 DEF aliasImpliesFast, hasFastParam
  <2> HIDE DEF r
  <2>2. \/ \E j \in ById(ms, name) : r = selectionForModel(ms[j], FALSE)
        \/ ById(ms, name) = {} /\ r = [id |-> name, params |-> <<>>]
        \/ \E j \in ByAlias(ms, name) :
             r = selectionForModel(ms[j], aliasImpliesFast(name, ms[j]) /\ hasFastParam(ms[j]))
        \/ \E j \in DOMAIN ms : r = selectionForModel(ms[j], FALSE)
    BY Resolutions, Zenon DEF r
  <2>3. ASSUME NEW j \in ByAlias(ms, name),
               r = selectionForModel(ms[j], aliasImpliesFast(name, ms[j]) /\ hasFastParam(ms[j]))
        PROVE  r = selectionForModel(ms[j], FALSE)
    BY <2>1, <2>3
  <2> QED
    BY <1>5, <2>2, <2>3
<1> QED
  BY <1>2, <1>3, <1>6

\* FastContract, of one catalog and one name.
LEMMA FastHolds ==
  ASSUME Unambiguous(models), wanted \in Seq(Word), wanted # <<>>,
         selection = resolveModelSelection(models, wanted, DefaultModel)
  PROVE  FastContract
<1> SUFFICES ASSUME selection.id \in {m.id : m \in Range(models)}, hasFastParam(ServedModel)
             PROVE  LET asked == /\ wanted[Len(wanted)] = "fast"
                                 /\ \E n \in 1 .. Len(wanted) - 1 : Understood(ServedModel, n)
                        plain == \/ wanted \in UNION {Bases(m) : m \in Range(models)}
                                 \/ \A m \in Range(models) : \A n \in 1 .. Len(wanted) - 1 :
                                      ~Understood(m, n)
                    IN IF asked THEN "fast" \in DOMAIN selection.params /\ selection.params["fast"] = True
                       ELSE plain => /\ "fast" \in DOMAIN selection.params
                                     /\ selection.params["fast"] = False
  BY Zenon DEF FastContract
<1> DEFINE asked == /\ wanted[Len(wanted)] = "fast"
                    /\ \E n \in 1 .. Len(wanted) - 1 : Understood(ServedModel, n)
           plain == \/ wanted \in UNION {Bases(m) : m \in Range(models)}
                    \/ \A m \in Range(models) : \A n \in 1 .. Len(wanted) - 1 : ~Understood(m, n)
           slugs == Candidates(models, wanted)
<1>1. PICK i \in DOMAIN models : selection.id = models[i].id /\ ServedModel = models[i]
  BY IdFindsModel DEF ServedModel, Range, Unambiguous
<1>2. ASSUME slugs # {}
      PROVE  /\ selection = parseVariantSelection(models, wanted)
             /\ Best(slugs) \in slugs /\ Best(slugs)[1] = i
             /\ Slugged(models, wanted) = models[i]
  <2>1. selection = parseVariantSelection(models, wanted)
    BY <1>2, SlugResolved
  <2>2. selection.id = models[Best(slugs)[1]].id
    BY <1>2, <2>1, VariantServed DEF Unambiguous, Slugged
  <2>3. Best(slugs) \in slugs
    BY <1>2, BestCandidate DEF Unambiguous
  <2>4. Best(slugs)[1] \in DOMAIN models
    BY <2>3 DEF Candidates
  <2>5. Best(slugs)[1] = i
    BY <1>1, <2>2, <2>4 DEF Unambiguous, NamesDiffer, Bases
  <2> QED
    BY <2>1, <2>3, <2>5 DEF Slugged
<1>3. ASSUME NEW j \in DOMAIN models, NEW n \in 1 .. Len(wanted) - 1
      PROVE  Understood(models[j], n) <=> <<j, n>> \in slugs
  <2>1. <<j, n>>[1] = j /\ <<j, n>>[2] = n /\ <<j, n>> \in (DOMAIN models) \X (1 .. Len(wanted) - 1)
    OBVIOUS
  <2> QED
    BY <2>1, Zenon DEF Candidates, Understood
<1>4. slugs \subseteq (DOMAIN models) \X (1 .. Len(wanted) - 1)
  BY DEF Candidates
<1> HIDE DEF slugs
<1>5. CASE asked
  <2>1. slugs # {}
    BY <1>1, <1>3, <1>5
  <2> QED
    BY <1>1, <1>2, <1>5, <2>1, FastSlugServed DEF slugs
<1>6. CASE ~asked /\ plain
  <2>1. CASE slugs = {}
    BY <1>1, <2>1, <1>6, NoSlugServed DEF slugs
  <2>2. CASE slugs # {}
    <3>1. PICK j \in DOMAIN models : wanted \in Bases(models[j])
      <4>1. PICK c \in slugs : TRUE
        BY <2>2
      <4>2. c = <<c[1], c[2]>> /\ c[1] \in DOMAIN models /\ c[2] \in 1 .. Len(wanted) - 1
        BY <1>4
      <4>3. Understood(models[c[1]], c[2]) /\ models[c[1]] \in Range(models)
        BY <1>3, <4>1, <4>2 DEF Range
      <4>4. wanted \in UNION {Bases(m) : m \in Range(models)}
        BY <1>6, <4>2, <4>3
      <4> QED
        BY <4>4 DEF Range
    <3>2. \A c \in slugs : wanted[Len(wanted)] = "fast"
      BY <3>1 DEF slugs, Unambiguous, NoNameIsSlug
    <3>3. <<i, Best(slugs)[2]>> \in slugs /\ Best(slugs)[2] \in 1 .. Len(wanted) - 1
      BY <1>2, <1>4, <2>2
    <3>4. Understood(models[i], Best(slugs)[2])
      BY <1>3, <3>3
    <3> QED
      BY <1>1, <1>6, <2>2, <3>2, <3>3, <3>4
  <2> QED
    BY <2>1, <2>2
<1> QED
  BY <1>5, <1>6

(***************************************************************************)
(* What is listed.                                                         *)
(***************************************************************************)
\* One token wants what it decodes to.
LEMMA OneTokenWants ==
  ASSUME NEW model, NEW tokens, Decodes(model, tokens), DOMAIN tokens = {1}
  PROVE  LET d == Decode(model, tokens[1])
             wants == parseVariantTokens(model, tokens)
         IN DOMAIN wants = {d.id} /\ wants[d.id] = d.value
<1>1. DOMAIN parseVariantTokens(model, tokens) = {Decode(model, tokens[i]).id : i \in DOMAIN tokens}
  BY Zenon DEF parseVariantTokens
<1> QED
  BY <1>1, TokensAssigned

\* A slug of one token that follows an id: its model, and what is wanted.
LEMMA SlugOfId ==
  ASSUME NEW ms, Unambiguous(ms), NEW i \in DOMAIN ms, NEW t \in Word,
         SwitchAt(ms[i], t) # {} \/ ChoiceAt(ms[i], t) # {}
  PROVE  /\ Candidates(ms, ms[i].id \o <<t>>) # {} /\ Slugged(ms, ms[i].id \o <<t>>) = ms[i]
         /\ \A p : p \in DOMAIN Wants(ms, ms[i].id \o <<t>>) <=> p = Decode(ms[i], t).id
         /\ Wants(ms, ms[i].id \o <<t>>)[Decode(ms[i], t).id] = Decode(ms[i], t).value
<1> DEFINE base == ms[i].id
           tokens == <<t>>
           slug == base \o tokens
<1>1. base \in Bases(ms[i]) /\ base # <<>> /\ WellTyped(ms) /\ NamesDiffer(ms)
  BY DEF Bases, Unambiguous, WellTyped
<1>2. /\ <<i, Len(base)>> \in Candidates(ms, slug)
      /\ Best(Candidates(ms, slug)) = <<i, Len(base)>> /\ Rest(slug, Len(base)) = tokens
  BY <1>1, SlugOfOneToken
<1>3. DOMAIN tokens = {1} /\ tokens[1] = t
  OBVIOUS
<1> HIDE DEF base, tokens, slug
<1>4. <<i, Len(base)>>[1] = i /\ <<i, Len(base)>>[2] = Len(base)
  OBVIOUS
<1>5. Decodes(ms[i], tokens)
  BY <1>2, <1>4, Zenon DEF Candidates
<1>6. Slugged(ms, slug) = ms[i] /\ Wants(ms, slug) = parseVariantTokens(ms[i], tokens)
  BY <1>2, <1>4, Zenon DEF Slugged, Wants
<1>7. /\ \A p : p \in DOMAIN Wants(ms, slug) <=> p = Decode(ms[i], t).id
      /\ Wants(ms, slug)[Decode(ms[i], t).id] = Decode(ms[i], t).value
  <2>1. LET d == Decode(ms[i], t)
        IN DOMAIN Wants(ms, slug) = {d.id} /\ Wants(ms, slug)[d.id] = d.value
    BY <1>3, <1>5, <1>6, OneTokenWants
  <2> QED
    BY <2>1
<1> QED
  BY <1>2, <1>6, <1>7, Zenon DEF slug, base, tokens

\* An id and a token make a name that ends in the token.
LEMMA SlugOfIdName ==
  ASSUME NEW ms, WellTyped(ms), NEW i \in DOMAIN ms, NEW t \in Word
  PROVE  LET slug == ms[i].id \o <<t>>
         IN slug \in Seq(Word) /\ slug[Len(slug)] = t /\ Append(ms[i].id, t) = slug
<1>1. ms[i].id \in Seq(Word) /\ ms[i].id # <<>>
  BY NamesOfWords DEF WellTyped, Bases
<1> QED
  BY <1>1, OneTokenMore

\* The selection r is what an entry of m with these params was listed for.
Serves(r, m, params) ==
  /\ r.id = m.id
  /\ \A p \in DOMAIN params : p \in DOMAIN r.params /\ r.params[p] = params[p]
  /\ ContextOf(m, r.params) = ContextOf(m, params)

\* An id or an alias: its own model, and the context length of this one's
\* default; also when the alias is the model's Fast slug.
LEMMA ServedName ==
  ASSUME NEW ms, Unambiguous(ms), NEW i \in DOMAIN ms, NEW name \in Bases(ms[i]), NEW d
  PROVE  Serves(resolveModelSelection(ms, name, d), ms[i], <<>>)
<1> DEFINE r == resolveModelSelection(ms, name, d)
           slugs == Candidates(ms, name)
<1> SUFFICES r.id = ms[i].id /\ ContextOf(ms[i], r.params) = ContextOf(ms[i], <<>>)
  <2> HIDE DEF r
  <2>1. DOMAIN <<>> = {}
    BY SMT
  <2>2. ASSUME r.id = ms[i].id, ContextOf(ms[i], r.params) = ContextOf(ms[i], <<>>)
        PROVE  Serves(r, ms[i], <<>>)
    BY <2>1, <2>2, Zenon DEF Serves
  <2> QED
    BY <2>2 DEF r
<1>1. name \in Seq(Word) /\ WellTyped(ms) /\ NamesDiffer(ms)
  BY NamesOfWords DEF Unambiguous, WellTyped
<1>2. /\ ById(ms, name) \subseteq {i} /\ ByAlias(ms, name) \subseteq {i}
      /\ ById(ms, name) # {} \/ ByAlias(ms, name) # {}
  BY <1>1, NameFindsModel
<1>3. ASSUME NEW fast \in BOOLEAN, r = selectionForModel(ms[i], fast)
      PROVE  r.id = ms[i].id /\ ContextOf(ms[i], r.params) = ContextOf(ms[i], <<>>)
  <2>1. r.id = ms[i].id /\ "context" \notin DOMAIN r.params
    BY <1>3, PlainServed
  <2>2. "context" \notin DOMAIN <<>>
    BY SMT
  <2> QED
    BY <2>1, <2>2, Zenon DEF ContextOf
<1>4. CASE slugs = {}
  <2>1. ~(name = <<"auto">> /\ ById(ms, name) = {})
    BY <1>1, <1>2 DEF ByAlias, NamesDiffer
  <2>2. (aliasImpliesFast(name, ms[i]) /\ hasFastParam(ms[i])) \in BOOLEAN
    BY DEF aliasImpliesFast, hasFastParam
  <2> HIDE DEF r
  <2>3. \/ \E j \in ById(ms, name) : r = selectionForModel(ms[j], FALSE)
        \/ \E j \in ByAlias(ms, name) :
             r = selectionForModel(ms[j], aliasImpliesFast(name, ms[j]) /\ hasFastParam(ms[j]))
    BY <1>1, <1>2, <1>4, <2>1, Resolutions, Zenon DEF r
  <2>4. \E fast \in BOOLEAN : r = selectionForModel(ms[i], fast)
    BY <1>2, <2>2, <2>3
  <2> QED
    BY <1>3, <2>4 DEF r
<1>5. CASE slugs # {}
  <2> DEFINE best == Best(slugs)
  <2>1. best \in slugs /\ Len(name) \in Nat \ {0, 1}
    BY <1>1, <1>5, BestCandidate
  <2>2. /\ best[1] = i /\ best[2] = Len(name) - 1 /\ name[Len(name)] = "fast"
        /\ hasFastParam(ms[i])
    BY <2>1 DEF Unambiguous, NoNameIsSlug
  <2>3. r = parseVariantSelection(ms, name)
    BY <1>1, <1>5, SlugResolved
  <2>4. Slugged(ms, name) = ms[i] /\ Wants(ms, name) = parseVariantTokens(ms[i], Rest(name, Len(name) - 1))
    BY <2>2, Zenon DEF Slugged, Wants
  <2>5. r.id = ms[i].id
    BY <1>1, <1>5, <2>3, <2>4, VariantServed
  <2>6. Decodes(ms[i], Rest(name, Len(name) - 1))
    BY <2>1, <2>2, Zenon DEF Candidates
  <2>7. /\ DOMAIN Rest(name, Len(name) - 1) = {1} /\ Rest(name, Len(name) - 1)[1] = "fast"
    <3> DEFINE n == Len(name) - 1
    <3>1. n \in 1 .. Len(name) - 1 /\ Len(name) - n = 1
      BY <2>1
    <3> HIDE DEF n
    <3>2. DOMAIN Rest(name, n) = 1 .. 1 /\ Rest(name, n)[1] = name[Len(name)]
      BY <1>1, <3>1, RestOfName
    <3> QED
      BY <2>2, <3>2 DEF n
  <2>8. Decode(ms[i], "fast") = [id |-> "fast", value |-> True]
    BY <2>2, FastIsUnderstood DEF Unambiguous
  <2>9. DOMAIN Wants(ms, name) = {"fast"}
    BY <2>4, <2>6, <2>7, <2>8, OneTokenWants
  <2>10. "context" # "fast"
    OBVIOUS
  <2>11. VariantsAgree(ms[i])
    BY DEF Unambiguous
  <2> QED
    BY <1>1, <1>5, <2>3, <2>4, <2>5, <2>9, <2>10, <2>11, ContextAtDefault
<1> QED
  BY <1>4, <1>5

\* A variant is listed for the one parameter it does not leave at its
\* default, with the token that stands for the value.
LEMMA DeltaSuffix ==
  ASSUME NEW ms, Unambiguous(ms), NEW i \in DOMAIN ms, NEW v \in DOMAIN ms[i].variants,
         singleDeltaVariantSuffix(ms[i], ms[i].variants[v]) # <<>>
  PROVE  LET params == ms[i].variants[v].params
             defaults == DefaultParams(ms[i])
         IN \E delta \in DOMAIN params, t \in Word :
              /\ singleDeltaVariantSuffix(ms[i], ms[i].variants[v]) = <<t>>
              /\ SwitchAt(ms[i], t) # {} \/ ChoiceAt(ms[i], t) # {}
              /\ Decode(ms[i], t) = [id |-> delta, value |-> params[delta]]
              /\ \A p \in DOMAIN params \ {delta} : p \in DOMAIN defaults /\ params[p] = defaults[p]
<1> DEFINE model == ms[i]
           params == model.variants[v].params
           defaults == DefaultParams(model)
           deltas == {p \in DOMAIN params : p \notin DOMAIN defaults \/ defaults[p] # params[p]}
           delta == CHOOSE p \in deltas : TRUE
           suffix == singleDeltaVariantSuffix(model, model.variants[v])
<1>1. /\ \E p \in deltas : deltas = {p}
      /\ params[delta] # False
      /\ suffix = IF params[delta] = True THEN <<delta>> ELSE params[delta]
  BY Zenon DEF singleDeltaVariantSuffix
<1>2. delta \in DOMAIN params /\ \A p \in DOMAIN params \ {delta} :
                                    p \in DOMAIN defaults /\ params[p] = defaults[p]
  <2>1. deltas = {delta}
    BY <1>1
  <2> HIDE DEF delta
  <2> QED
    BY <2>1
<1> HIDE DEF delta, suffix
<1>3. PICK k \in ParamAt(model, delta) : params[delta] \in Range(model.parameters[k].values)
  BY <1>2 DEF Unambiguous, VariantsAgree
<1>4. k \in DOMAIN model.parameters /\ model.parameters[k].id = delta
  BY <1>3 DEF ParamAt
<1>5. CASE params[delta] = True
  <2>1. delta \in Word
    BY <1>4 DEF Unambiguous, WellTyped, Word
  <2>2. SwitchAt(model, delta) # {}
    BY <1>3, <1>5 DEF SwitchAt
  <2>3. Decode(model, delta) = [id |-> delta, value |-> params[delta]]
    BY <1>5, <2>2, Zenon DEF Decode
  <2>4. suffix = <<delta>>
    BY <1>1, <1>5
  <2> QED
    BY <1>2, <2>1, <2>2, <2>3, <2>4 DEF suffix
<1>6. CASE params[delta] # True
  <2> DEFINE value == params[delta]
             t == value[1]
  <2>1. /\ value \in Seq(STRING) /\ Len(value) = 1
        /\ Decode(model, t) = [id |-> delta, value |-> value]
    BY <1>1, <1>3, <1>4, <1>6 DEF Unambiguous, TokensDiffer
  <2>2. t \in Word /\ value = <<t>>
    BY <2>1, ElementOfSeq DEF Word
  <2>3. ChoiceAt(model, t) # {}
    BY <1>3, <1>4, <2>2 DEF ChoiceAt
  <2>4. suffix = <<t>>
    BY <1>1, <1>6, <2>2
  <2> QED
    BY <1>2, <2>1, <2>2, <2>3, <2>4 DEF suffix
<1> QED
  BY <1>5, <1>6

\* A variant's slug serves the values that it was listed for.
LEMMA ServedVariant ==
  ASSUME NEW ms, Unambiguous(ms), NEW i \in DOMAIN ms, NEW v \in DOMAIN ms[i].variants,
         singleDeltaVariantSuffix(ms[i], ms[i].variants[v]) # <<>>, NEW d
  PROVE  LET name == ms[i].id \o singleDeltaVariantSuffix(ms[i], ms[i].variants[v])
         IN Serves(resolveModelSelection(ms, name, d), ms[i], ms[i].variants[v].params)
<1> DEFINE model == ms[i]
           params == model.variants[v].params
           defaults == DefaultParams(model)
           name == model.id \o singleDeltaVariantSuffix(model, model.variants[v])
           r == resolveModelSelection(ms, name, d)
           declared == findDeclaredVariant(model, Wants(ms, name))
<1>1. PICK delta \in DOMAIN params, t \in Word :
        /\ singleDeltaVariantSuffix(model, model.variants[v]) = <<t>>
        /\ SwitchAt(model, t) # {} \/ ChoiceAt(model, t) # {}
        /\ Decode(model, t) = [id |-> delta, value |-> params[delta]]
        /\ \A p \in DOMAIN params \ {delta} : p \in DOMAIN defaults /\ params[p] = defaults[p]
  BY DeltaSuffix
<1>2. /\ name \in Seq(Word) /\ Candidates(ms, name) # {} /\ Slugged(ms, name) = model
      /\ DOMAIN Wants(ms, name) = {delta} /\ Wants(ms, name)[delta] = params[delta]
  <2>1. name = ms[i].id \o <<t>> /\ name \in Seq(Word)
    BY <1>1, SlugOfIdName DEF Unambiguous
  <2> HIDE DEF name
  <2>2. SwitchAt(ms[i], t) # {} \/ ChoiceAt(ms[i], t) # {}
    BY <1>1
  <2>3. /\ Candidates(ms, name) # {} /\ Slugged(ms, name) = ms[i]
        /\ \A p : p \in DOMAIN Wants(ms, name) <=> p = Decode(ms[i], t).id
        /\ Wants(ms, name)[Decode(ms[i], t).id] = Decode(ms[i], t).value
    <3> HIDE DEF model, params
    <3> QED
      BY <2>1, <2>2, SlugOfId
  <2>4. Decode(ms[i], t).id = delta /\ Decode(ms[i], t).value = params[delta]
    BY <1>1
  <2> QED
    BY <2>1, <2>3, <2>4
<1> HIDE DEF name
<1>3. r = parseVariantSelection(ms, name) /\ r.id = model.id
  BY <1>2, SlugResolved, VariantServed DEF Unambiguous
<1>4. v \in declared
  BY <1>1, <1>2 DEF findDeclaredVariant
<1>5. PICK w \in declared : r.params = model.variants[w].params
  BY <1>2, <1>3, <1>4, VariantServed DEF Unambiguous
<1>6. DOMAIN r.params = DOMAIN params /\ DOMAIN params = DOMAIN defaults
  BY <1>5 DEF findDeclaredVariant, Unambiguous, VariantsAgree
<1>7. \A p \in DOMAIN params : r.params[p] = params[p]
  <2>1. \A p \in DOMAIN r.params :
          IF p \in DOMAIN Wants(ms, name) THEN r.params[p] = Wants(ms, name)[p]
          ELSE p \in DOMAIN defaults => r.params[p] = defaults[p]
    BY <1>5, Zenon DEF findDeclaredVariant
  <2> QED
    BY <1>1, <1>2, <1>6, <2>1
<1>8. ContextOf(model, r.params) = ContextOf(model, params)
  BY <1>6, <1>7, Zenon DEF ContextOf
<1> QED
  BY <1>3, <1>6, <1>7, <1>8 DEF name, Serves

\* The Fast slug serves Fast, also where Cursor's default is Fast.
LEMMA ServedFast ==
  ASSUME NEW ms, Unambiguous(ms), NEW i \in DOMAIN ms, hasFastParam(ms[i]), NEW d
  PROVE  LET r == resolveModelSelection(ms, Append(ms[i].id, "fast"), d)
         IN Serves(r, ms[i], [p \in {"fast"} |-> True])
<1>1. PICK t \in Word : t = "fast"
  BY DEF Word
<1> DEFINE name == ms[i].id \o <<t>>
           r == resolveModelSelection(ms, name, d)
<1>2. SwitchAt(ms[i], t) # {} /\ Decode(ms[i], t).id = t
  BY <1>1, FastIsUnderstood DEF Unambiguous
<1>3. name \in Seq(Word) /\ name[Len(name)] = t /\ Append(ms[i].id, t) = name
  BY SlugOfIdName DEF Unambiguous
<1>4. /\ Candidates(ms, name) # {} /\ Slugged(ms, name) = ms[i]
      /\ \A p : p \in DOMAIN Wants(ms, name) <=> p = Decode(ms[i], t).id
  BY <1>2, SlugOfId
<1> HIDE DEF name
<1>5. "context" \notin DOMAIN Wants(ms, name)
  <2>1. "context" # t
    BY <1>1
  <2> QED
    BY <1>2, <1>4, <2>1
<1>6. r = parseVariantSelection(ms, name) /\ r.id = ms[i].id
  BY <1>3, <1>4, SlugResolved, VariantServed DEF Unambiguous
<1>7. "fast" \in DOMAIN r.params /\ r.params["fast"] = True
  BY <1>1, <1>3, <1>4, <1>6, FastSlugServed
<1>8. ContextOf(ms[i], r.params) = ContextOf(ms[i], [p \in {"fast"} |-> True])
  <2>1. ContextOf(ms[i], r.params) = ContextOf(ms[i], <<>>)
    BY <1>3, <1>4, <1>5, <1>6, ContextAtDefault DEF Unambiguous
  <2>2. "context" \notin DOMAIN [p \in {"fast"} |-> True] /\ "context" \notin DOMAIN <<>>
    BY SMT
  <2> QED
    BY <2>1, <2>2, Zenon DEF ContextOf
<1> HIDE DEF r
<1>9. Serves(r, ms[i], [p \in {"fast"} |-> True])
  BY <1>6, <1>7, <1>8 DEF Serves
<1> QED
  BY <1>1, <1>3, <1>9 DEF r

\* What the list has an entry for.
LEMMA EntryKinds ==
  ASSUME NEW ms, NEW aliasesToo \in BOOLEAN, NEW e \in ModelList(ms, aliasesToo)
  PROVE  \E i \in DOMAIN ms :
           \/ \E name \in Bases(ms[i]) : e = Entry(name, ms[i], <<>>)
           \/ \E v \in DOMAIN ms[i].variants :
                LET suffix == singleDeltaVariantSuffix(ms[i], ms[i].variants[v])
                IN /\ suffix # <<>>
                   /\ e = Entry(ms[i].id \o suffix, ms[i], ms[i].variants[v].params)
           \/ /\ hasFastParam(ms[i])
              /\ e = Entry(Append(ms[i].id, "fast"), ms[i], [p \in {"fast"} |-> True])
<1>0. PICK i \in DOMAIN ms : \E q \in Pushes(ms, i, aliasesToo) : e = q.entry
  BY Zenon DEF ModelList
<1>1. PICK q \in Pushes(ms, i, aliasesToo) : e = q.entry
  BY <1>0
<1> DEFINE suffix(v) == singleDeltaVariantSuffix(ms[i], ms[i].variants[v])
<1>2. \/ q.entry = Entry(ms[i].id, ms[i], <<>>)
      \/ \E a \in DOMAIN ms[i].aliases : q.entry = Entry(ms[i].aliases[a], ms[i], <<>>)
      \/ \E v \in DOMAIN ms[i].variants :
           suffix(v) # <<>> /\ q.entry = Entry(ms[i].id \o suffix(v), ms[i], ms[i].variants[v].params)
      \/ \E f \in ParamAt(ms[i], "fast") :
           q.entry = Entry(Append(ms[i].id, "fast"), ms[i], [p \in {"fast"} |-> True])
  <2> DEFINE suf == [v \in DOMAIN ms[i].variants |-> suffix(v)]
  <2>1. \/ q = [at |-> <<i, 1, 1>>, entry |-> Entry(ms[i].id, ms[i], <<>>)]
        \/ \E a \in DOMAIN ms[i].aliases :
             q = [at |-> <<i, 2, a>>, entry |-> Entry(ms[i].aliases[a], ms[i], <<>>)]
        \/ \E v \in DOMAIN ms[i].variants :
             /\ suf[v] # <<>>
             /\ q = [at |-> <<i, 3, v>>,
                     entry |-> Entry(ms[i].id \o suf[v], ms[i], ms[i].variants[v].params)]
        \/ \E f \in ParamAt(ms[i], "fast") :
             q = [at |-> <<i, 4, 1>>,
                  entry |-> Entry(Append(ms[i].id, "fast"), ms[i], [p \in {"fast"} |-> True])]
    BY Zenon DEF Pushes
  <2>2. \A v \in DOMAIN ms[i].variants : suf[v] = suffix(v)
    OBVIOUS
  <2> HIDE DEF suf, suffix
  <2> QED
    BY <2>1, <2>2
<1>3. \A a \in DOMAIN ms[i].aliases : ms[i].aliases[a] \in Bases(ms[i])
  BY DEF Bases, Range
<1>4. ms[i].id \in Bases(ms[i])
  BY DEF Bases
<1> QED
  BY <1>1, <1>2, <1>3, <1>4, Zenon DEF hasFastParam

\* ListedIsServed, of one catalog and one name.
LEMMA ListedHolds ==
  ASSUME Unambiguous(models), wanted \in Seq(Word), wanted # <<>>,
         selection = resolveModelSelection(models, wanted, DefaultModel)
  PROVE  ListedIsServed
<1>1. ASSUME NEW i \in DOMAIN models, selection.id = models[i].id
      PROVE  ServedModel = models[i]
  BY <1>1, IdFindsModel DEF ServedModel, Unambiguous
<1>2. ASSUME NEW aliasesToo \in BOOLEAN, NEW e \in ModelList(models, aliasesToo), e.id = wanted
      PROVE  /\ selection.id = e.model
             /\ \A p \in DOMAIN e.params : p \in DOMAIN selection.params
                                           /\ selection.params[p] = e.params[p]
             /\ ContextOf(ServedModel, selection.params) = e.context
  <2>1. PICK i \in DOMAIN models :
          \/ \E name \in Bases(models[i]) : e = Entry(name, models[i], <<>>)
          \/ \E v \in DOMAIN models[i].variants :
               LET suffix == singleDeltaVariantSuffix(models[i], models[i].variants[v])
               IN /\ suffix # <<>>
                  /\ e = Entry(models[i].id \o suffix, models[i], models[i].variants[v].params)
          \/ /\ hasFastParam(models[i])
             /\ e = Entry(Append(models[i].id, "fast"), models[i], [p \in {"fast"} |-> True])
    BY EntryKinds
  <2>2. \E id, params : e = Entry(id, models[i], params)
    BY <2>1, Zenon
  <2>3. e.model = models[i].id /\ e.context = ContextOf(models[i], e.params)
    BY <2>2 DEF Entry
  <2>4. ASSUME \E name \in Bases(models[i]) : e = Entry(name, models[i], <<>>)
        PROVE  Serves(selection, models[i], e.params)
    <3>1. wanted \in Bases(models[i]) /\ e.params = <<>>
      BY <1>2, <2>4 DEF Entry
    <3> QED
      BY <3>1, ServedName
  <2>5. ASSUME \E v \in DOMAIN models[i].variants :
                 LET suffix == singleDeltaVariantSuffix(models[i], models[i].variants[v])
                 IN /\ suffix # <<>>
                    /\ e = Entry(models[i].id \o suffix, models[i], models[i].variants[v].params)
        PROVE  Serves(selection, models[i], e.params)
    <3>1. PICK v \in DOMAIN models[i].variants :
            /\ singleDeltaVariantSuffix(models[i], models[i].variants[v]) # <<>>
            /\ e = Entry(models[i].id \o singleDeltaVariantSuffix(models[i], models[i].variants[v]),
                         models[i], models[i].variants[v].params)
      BY <2>5
    <3>2. /\ wanted = models[i].id \o singleDeltaVariantSuffix(models[i], models[i].variants[v])
          /\ e.params = models[i].variants[v].params
      BY <1>2, <3>1 DEF Entry
    <3> QED
      BY <3>1, <3>2, ServedVariant
  <2>6. ASSUME /\ hasFastParam(models[i])
               /\ e = Entry(Append(models[i].id, "fast"), models[i], [p \in {"fast"} |-> True])
        PROVE  Serves(selection, models[i], e.params)
    <3>1. wanted = Append(models[i].id, "fast") /\ e.params = [p \in {"fast"} |-> True]
      BY <1>2, <2>6 DEF Entry
    <3>2. Serves(selection, models[i], [p \in {"fast"} |-> True])
      BY <2>6, <3>1, ServedFast
    <3> QED
      BY <3>1, <3>2
  <2>7. Serves(selection, models[i], e.params)
    BY <2>1, <2>4, <2>5, <2>6, Zenon
  <2>8. ServedModel = models[i]
    BY <1>1, <2>7 DEF Serves
  <2> QED
    BY <2>3, <2>7, <2>8 DEF Serves
<1>3. lookupOpenAIModel(models, wanted) \in {<<>>, selection.id}
  <2>1. CASE findModel(models, wanted) # {}
    <3>1. lookupOpenAIModel(models, wanted) = models[Least(findModel(models, wanted))].id
      BY <2>1, Zenon DEF lookupOpenAIModel
    <3>2. selection.id = models[Least(findModel(models, wanted))].id
      BY <2>1, FoundByName, ServedName DEF Unambiguous, Serves
    <3> QED
      BY <3>1, <3>2
  <2>2. CASE findModel(models, wanted) = {} /\ Candidates(models, wanted) = {}
    <3>1. lookupOpenAIModel(models, wanted) = NoModel.id
      BY <2>2, Zenon DEF lookupOpenAIModel, parseVariantSelection
    <3> QED
      BY <3>1 DEF NoModel
  <2>3. CASE findModel(models, wanted) = {} /\ Candidates(models, wanted) # {}
    <3>1. lookupOpenAIModel(models, wanted) = parseVariantSelection(models, wanted).id
      BY <2>3, Zenon DEF lookupOpenAIModel
    <3> QED
      BY <2>3, <3>1, SlugResolved
  <2> QED
    BY <2>1, <2>2, <2>3
<1> QED
  BY <1>2, <1>3, Zenon DEF ListedIsServed

(***************************************************************************)
(* The request.                                                            *)
(***************************************************************************)
\* Tokens are words, and so are the names that a client finds or types.
LEMMA TokensAreWords ==
  ASSUME Unambiguous(models), NEW t \in Tokens
  PROVE  t \in Word
<1>1. PICK i \in DOMAIN models :
        t \in {p.id : p \in Range(models[i].parameters)}
              \cup {v[1] : v \in Values(models[i]) \ {True, False}}
  BY DEF Tokens, Range
<1>2. CASE t \in {p.id : p \in Range(models[i].parameters)}
  BY <1>2 DEF Range, Unambiguous, WellTyped, Word
<1>3. CASE t \in {v[1] : v \in Values(models[i]) \ {True, False}}
  <2>1. PICK v \in Values(models[i]) \ {True, False} : t = v[1]
    BY <1>3
  <2>2. PICK k \in DOMAIN models[i].parameters : v \in Range(models[i].parameters[k].values)
    BY DEF Values
  <2>3. v \in Seq(STRING) /\ Len(v) = 1
    BY <2>2 DEF Unambiguous, TokensDiffer
  <2>4. 1 \in 1 .. Len(v)
    BY <2>3
  <2>5. v[1] \in STRING
    BY <2>3, <2>4, ElementOfSeq
  <2> QED
    BY <2>1, <2>5 DEF Word
<1> QED
  BY <1>1, <1>2, <1>3

\* So are the names that a client finds in the list or types.
LEMMA NamesAreWords ==
  ASSUME Unambiguous(models), NEW name \in Ids(TRUE) \cup Typed \cup {<<"auto">>, <<"unknown">>}
  PROVE  name \in Seq(Word)
<1>1. WellTyped(models) /\ \A i \in DOMAIN models : Bases(models[i]) \subseteq Seq(Word)
  BY NamesOfWords DEF Unambiguous, WellTyped
<1>2. CASE name \in Ids(TRUE)
  <2>1. PICK e \in ModelList(models, TRUE) : name = e.id
    BY <1>2 DEF Ids
  <2>2. PICK i \in DOMAIN models :
          \/ \E base \in Bases(models[i]) : e = Entry(base, models[i], <<>>)
          \/ \E v \in DOMAIN models[i].variants :
               LET suffix == singleDeltaVariantSuffix(models[i], models[i].variants[v])
               IN /\ suffix # <<>>
                  /\ e = Entry(models[i].id \o suffix, models[i], models[i].variants[v].params)
          \/ /\ hasFastParam(models[i])
             /\ e = Entry(Append(models[i].id, "fast"), models[i], [p \in {"fast"} |-> True])
    BY EntryKinds
  <2>3. \/ name \in Bases(models[i])
        \/ \E t \in Word : name = models[i].id \o <<t>>
        \/ name = Append(models[i].id, "fast")
    <3>1. ASSUME NEW v \in DOMAIN models[i].variants,
                 singleDeltaVariantSuffix(models[i], models[i].variants[v]) # <<>>
          PROVE  \E t \in Word : singleDeltaVariantSuffix(models[i], models[i].variants[v]) = <<t>>
      BY <3>1, DeltaSuffix
    <3>2. ASSUME NEW id, NEW m, NEW params, e = Entry(id, m, params) PROVE name = id
      BY <2>1, <3>2 DEF Entry
    <3> QED
      BY <2>2, <3>1, <3>2
  <2>4. \A t \in Word : models[i].id \o <<t>> \in Seq(Word)
    BY <1>1, SlugOfIdName
  <2>5. Append(models[i].id, "fast") \in Seq(Word)
    BY <1>1, AppendProperties DEF Bases, Word
  <2> QED
    BY <1>1, <2>3, <2>4, <2>5
<1>3. CASE name \in Typed
  <2> DEFINE slugs == {<<t>> : t \in Tokens} \cup {<<t, "fast">> : t \in Tokens}
             bases == UNION {Bases(m) : m \in Range(models)}
  <2>0. \E base \in bases, slug \in slugs : name = base \o slug
    <3>1. name \in {base \o slug : base \in bases, slug \in slugs}
      BY <1>3 DEF Typed
    <3> HIDE DEF slugs, bases
    <3> QED
      BY <3>1
  <2> PICK base \in bases, slug \in slugs : name = base \o slug
    BY <2>0
  <2>1. PICK t \in Tokens : slug = <<t>> \/ slug = <<t, "fast">>
    OBVIOUS
  <2>2. base \in Seq(Word)
    BY <1>1 DEF Range
  <2>3. t \in Word /\ "fast" \in Word
    BY TokensAreWords DEF Word
  <2>4. <<t>> \in Seq(Word) /\ <<t, "fast">> \in Seq(Word)
    BY <2>3
  <2> QED
    BY <2>1, <2>2, <2>4, ConcatProperties
<1>4. CASE name \in {<<"auto">>, <<"unknown">>}
  <2>1. "auto" \in Word /\ "unknown" \in Word
    BY DEF Word
  <2> QED
    BY <1>4, <2>1, OneToken
<1> QED
  BY <1>2, <1>3, <1>4

\* Until the turn begins, the request has an id exactly when it is resolved,
\* and this by the catalog that Cursor serves if list() answered with it.
Chosen ==
  /\ models \in Catalogs \cup {<<>>}
  /\ wanted # <<>> =>
       /\ wanted \in Seq(Word) /\ selection # NoModel
       /\ call[Requester].answer # 0 =>
            selection = resolveModelSelection(models, wanted, DefaultModel)

\* The catalog that Cursor serves is one of Catalogs, or empty.
LEMMA ServedCatalogs ==
  ASSUME NEW catalog \in Catalogs \cup {<<>>}
  PROVE  Unambiguous(catalog)
<1>1. Unambiguous(<<>>)
  <2>1. DOMAIN <<>> = {}
    OBVIOUS
  <2> QED
    BY <2>1 DEF Unambiguous, WellTyped, NamesDiffer, NoNameIsSlug
<1> QED
  BY <1>1, CatalogsAssumption

\* Nothing is resolved in the beginning.
LEMMA ChosenInit == PipelineInit => Chosen
  BY DEF PipelineInit, Chosen

\* Only Resolve chooses, from the catalog that is served.
LEMMA ChosenStep == Chosen /\ [PipelineNext]_allVars => Chosen'
<1> SUFFICES ASSUME Chosen, [PipelineNext]_allVars PROVE Chosen'
  OBVIOUS
<1>1. CASE ListStep /\ UNCHANGED <<vars, requestVars>>
  BY <1>1 DEF Chosen, ListStep, requestVars
<1>2. CASE Resolve
  <2>1. PICK name \in Ids(TRUE) \cup Typed \cup {<<"auto">>, <<"unknown">>} :
          /\ wanted' = name
          /\ selection' = resolveModelSelection(
               IF call[Requester].answer = 0 THEN <<>> ELSE models, name, DefaultModel)
    BY <1>2 DEF Resolve
  <2>2. UNCHANGED <<models, call>>
    BY <1>2 DEF Resolve, catalogVars
  <2>3. Unambiguous(models) /\ Unambiguous(<<>>)
    BY ServedCatalogs DEF Chosen
  <2>4. wanted' \in Seq(Word)
    BY <2>1, <2>3, NamesAreWords
  <2>5. wanted' # <<>> => selection' # NoModel
    BY <2>1, <2>3, <2>4, SomethingResolved
  <2> QED
    BY <2>1, <2>2, <2>4, <2>5 DEF Chosen
<1>3. CASE Begin
  BY <1>3 DEF Begin, Chosen
<1>4. CASE UNCHANGED <<catalogVars, requestVars>>
  BY <1>4 DEF Chosen, catalogVars, requestVars
<1>5. CASE UNCHANGED allVars
  BY <1>5, <1>4 DEF allVars
<1> QED
  BY <1>1, <1>2, <1>3, <1>4, <1>5 DEF PipelineNext

\* The two properties are facts about what was chosen.
LEMMA ChosenIsRight == Chosen => ListedIsServed /\ FastContract
<1> SUFFICES ASSUME Chosen PROVE ListedIsServed /\ FastContract
  OBVIOUS
<1>1. CASE ~Resolved
  BY <1>1, Zenon DEF ListedIsServed, FastContract
<1>2. CASE Resolved
  <2>1. /\ Unambiguous(models) /\ wanted \in Seq(Word) /\ wanted # <<>>
        /\ selection = resolveModelSelection(models, wanted, DefaultModel)
    BY <1>2, ServedCatalogs DEF Chosen, Resolved
  <2> QED
    BY <2>1, ListedHolds, FastHolds
<1> QED
  BY <1>1, <1>2

\* Every id that GET /v1/models lists for a catalog, and every id that GET
\* /v1/models/:id accepts besides, is served by the model, with the parameters
\* and the context length that it was listed for: toOpenAIModelList() and
\* resolveModelSelection(), for every catalog whose ids mean one thing.
THEOREM ListedIdsAreServed == PipelineSpec => []ListedIsServed
<1>1. PipelineSpec => []Chosen
  BY ChosenInit, ChosenStep, PTL DEF PipelineSpec
<1> QED
  BY <1>1, ChosenIsRight, PTL

\* Whoever asks for Fast is served Fast, and a bare id, an alias or an unknown
\* name never is, whatever Cursor's default variant says: the contract of
\* resolveModelSelection(), for every catalog whose ids mean one thing.
THEOREM FastIsKept == PipelineSpec => []FastContract
<1>1. PipelineSpec => []Chosen
  BY ChosenInit, ChosenStep, PTL DEF PipelineSpec
<1> QED
  BY <1>1, ChosenIsRight, PTL
=============================================================================
