---------------------------- MODULE TurnPipeline ----------------------------
(***************************************************************************)
(* A request from its model id to the end of its answer: prepareGatewayTurn*)
(* (src/src/gateway/orchestrator.ts) asks the ModelCatalog for the model   *)
(* selection, which RunTurn's agent.send() then carries.  Other callers    *)
(* list the catalog meanwhile.                                             *)
(***************************************************************************)
EXTENDS RunTurn, ModelRules, ModelCatalog

CONSTANTS
  Requester,     \* the caller that is the request
  Catalogs,      \* catalogs Cursor may serve
  DefaultModel   \* config.defaultModel

ASSUME CatalogsAssumption == \A catalog \in Catalogs : Unambiguous(catalog)

VARIABLES
  models,        \* the catalog Cursor serves
  wanted,        \* the requested model id
  selection      \* what it was resolved to, NoModel before

requestVars == <<models, wanted, selection>>
allVars == <<vars, catalogVars, requestVars>>

PipelineInit ==
  /\ Init /\ CatalogInit
  \* Bound: only one kind of turn meets every catalog.
  /\ models \in IF route = "chat" /\ bridge = "none" /\ ~streaming
                 THEN Catalogs ELSE {<<>>}
  /\ wanted = <<>> /\ selection = NoModel

Ids(aliasesToo) == {e.id : e \in ModelList(models, aliasesToo)}

\* Slugs of two tokens that a user may type after a model's id or alias.
Values(model) == UNION {Range(model.parameters[i].values) : i \in DOMAIN model.parameters}
Tokens == UNION {{p.id : p \in Range(m.parameters)} \cup {v[1] : v \in Values(m) \ {True, False}} :
                   m \in Range(models)}
Typed == {base \o slug : base \in UNION {Bases(m) : m \in Range(models)},
                         slug \in {<<t>> : t \in Tokens} \cup {<<t, "fast">> : t \in Tokens}}

\* Any id the client finds in the list or types.  A request whose list()
\* has failed resolves against an empty catalog.
Resolve ==
  /\ selection = NoModel /\ call[Requester].pc = "done"
  /\ \A c \in Callers \ {Requester} : call[c] = Idle  \* bound: none is under way
  /\ \E name \in Ids(TRUE) \cup Typed \cup {<<"auto">>, <<"unknown">>} :
       /\ wanted' = name
       /\ selection' = resolveModelSelection(
            IF call[Requester].answer = 0 THEN <<>> ELSE models, name, DefaultModel)
  /\ UNCHANGED <<vars, catalogVars, models>>

\* The turn begins.  Bound: the catalog rests from here on, as a turn does
\* not read it, and is forgotten together with the id.
Begin ==
  /\ selection # NoModel /\ Start
  /\ models' = <<>> /\ wanted' = <<>> /\ UNCHANGED <<selection, catalogVars>>

TurnStep ==
  \/ SendOk \/ Message \/ Capture \/ ToolWins \/ StreamDone \/ BatchWins
  \/ Timeout \/ Disconnect \/ RunEnds \/ Settle \/ SegmentCut \/ Reject \/ RejectWait \/ Finish

ListStep ==
  /\ selection = NoModel
  /\ \/ \E c \in Callers : CatalogStep(c) \/ (c # Requester /\ CallAgain(c))
     \/ Expires \/ Publish

PipelineNext ==
  \/ ListStep /\ UNCHANGED <<vars, requestVars>>
  \/ Resolve \/ Begin
  \/ TurnStep /\ UNCHANGED <<catalogVars, requestVars>>

PipelineSpec == PipelineInit /\ [][PipelineNext]_allVars

(***************************************************************************)
(* Properties                                                              *)
(***************************************************************************)
Resolved == wanted # <<>> /\ call[Requester].answer # 0
ServedModel == CHOOSE m \in Range(models) : m.id = selection.id

\* Every id that GET /v1/models lists, in either mode, is served as what it
\* was listed for: the same model, the listed variant's parameters, and
\* the listed context length; and an id that GET /v1/models/:id accepts
\* besides is served by the model it was looked up in.
ListedIsServed ==
  Resolved =>
    /\ \A aliasesToo \in BOOLEAN : \A e \in ModelList(models, aliasesToo) :
         e.id = wanted =>
           /\ selection.id = e.model
           /\ \A p \in DOMAIN e.params : p \in DOMAIN selection.params
                                         /\ selection.params[p] = e.params[p]
           /\ ContextOf(ServedModel, selection.params) = e.context
    /\ lookupOpenAIModel(models, wanted) \in {<<>>, selection.id}

\* Whoever asks for Fast with the last of the tokens that continue an id or
\* an alias, and that the model understands, is served Fast; and a bare id, an
\* alias, or a name that nobody understands, for which the default model
\* answers, is served as non-Fast, also when Cursor's own default is Fast.
Understood(model, n) == /\ SubSeq(wanted, 1, n) \in Bases(model)
                        /\ Decodes(model, Rest(wanted, n))
FastContract ==
  Resolved /\ selection.id \in {m.id : m \in Range(models)} /\ hasFastParam(ServedModel) =>
    LET asked == /\ wanted[Len(wanted)] = "fast"
                 /\ \E n \in 1 .. Len(wanted) - 1 : Understood(ServedModel, n)
        plain == \/ wanted \in UNION {Bases(m) : m \in Range(models)}
                 \/ \A m \in Range(models) : \A n \in 1 .. Len(wanted) - 1 : ~Understood(m, n)
    IN IF asked THEN "fast" \in DOMAIN selection.params /\ selection.params["fast"] = True
       ELSE plain => "fast" \in DOMAIN selection.params /\ selection.params["fast"] = False
=============================================================================
