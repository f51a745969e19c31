------------------------------ MODULE ToolLoop ------------------------------
(***************************************************************************)
(* What hold mode promises for one OpenAI tool loop, without the gate, the *)
(* stream, the timers or the registries: one Cursor run serves a series of *)
(* HTTP requests, each gets one answer, and the run keeps its concurrency  *)
(* slot and its session's mutex both while a request works on it and while *)
(* it waits for the client, and gives them back exactly once, at the       *)
(* latest with the answer that ends the loop.                              *)
(***************************************************************************)
VARIABLES stage,   \* "working": an HTTP request waits for the run
                   \* "asking":  the run waits for the client's tool results
                   \* "over":    the loop has ended
          owned    \* the run owns its slot and its mutex

loopVars == <<stage, owned>>

Init ==
  /\ stage = "working"
  /\ owned = TRUE

\* The request is answered with tool calls.
Ask ==
  /\ stage = "working" /\ owned
  /\ stage' = "asking"
  /\ UNCHANGED owned

\* The client's next request brings the results.
Resume ==
  /\ stage = "asking" /\ owned
  /\ stage' = "working"
  /\ UNCHANGED owned

\* The run is torn down under the request, which will be told.
GiveUp ==
  /\ stage = "working" /\ owned
  /\ owned' = FALSE
  /\ UNCHANGED stage

\* The request is answered for the last time.
Finish ==
  /\ stage = "working"
  /\ stage' = "over"
  /\ owned' = FALSE

\* The client never brings the results.
Expire ==
  /\ stage = "asking" /\ owned
  /\ stage' = "over"
  /\ owned' = FALSE

Next == Ask \/ Resume \/ GiveUp \/ Finish \/ Expire

\* Every request is answered and every run gives its resources back.
Spec == Init /\ [][Next]_loopVars
             /\ WF_loopVars(Ask \/ Finish) /\ WF_loopVars(Resume \/ Expire)
=============================================================================
