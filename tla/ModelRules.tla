---------------------------- MODULE ModelRules -----------------------------
(***************************************************************************)
(* The pure part of src/src/cursor/modelCatalog.ts: which ids are listed   *)
(* for a catalog, and which ModelSelection a requested id stands for.      *)
(*                                                                         *)
(* A name is the sequence of its tokens between hyphens, in lower case:    *)
(* composer-2.5-fast is <<"composer", "2.5", "fast">>, and x starts with   *)
(* `${base}-` when base is a strict prefix.  A model is a record           *)
(*   [id, aliases : names, parameters : a sequence of [id, values],        *)
(*    variants : a sequence of [default, params]]                          *)
(* with a token for a parameter's id, names for values, and a function     *)
(* from parameter ids to values for a variant's params.  What find() looks *)
(* for in a list is the set of positions that pass its test; it returns    *)
(* the least.                                                              *)
(***************************************************************************)
EXTENDS Naturals, Sequences, Functions

NoModel == [id |-> <<>>, params |-> <<>>]
True == <<"true">>
False == <<"false">>

Least(S) == CHOOSE i \in S : \A j \in S : i <= j

\* Where a parameter of this id is declared.
ParamAt(model, id) == {i \in DOMAIN model.parameters : model.parameters[i].id = id}
hasFastParam(model) == ParamAt(model, "fast") # {}

Bases(model) == {model.id} \cup Range(model.aliases)

\* findModelById, findModelByAlias, findModel: an id comes first.
ById(models, name) == {i \in DOMAIN models : models[i].id = name}
ByAlias(models, name) == {i \in DOMAIN models : name \in Range(models[i].aliases)}
findModel(models, name) ==
  IF ById(models, name) # {} THEN ById(models, name) ELSE ByAlias(models, name)

\* Mutant: leaves `fast` to Cursor's default.
selectionWithoutFast(model, fast) ==
  [id |-> model.id, params |-> IF fast THEN [p \in {"fast"} |-> True] ELSE <<>>]
selectionForModel(model, fast) ==
  [id |-> model.id,
   params |-> IF hasFastParam(model)
              THEN [p \in {"fast"} |-> IF fast THEN True ELSE False] ELSE <<>>]

\* parseVariantTokens: a token names a boolean parameter, or it is a value.
SwitchAt(model, token) ==
  {i \in ParamAt(model, token) : True \in Range(model.parameters[i].values)}
ChoiceAt(model, token) ==
  {i \in DOMAIN model.parameters : <<token>> \in Range(model.parameters[i].values)}
Decode(model, token) ==
  IF SwitchAt(model, token) # {} THEN [id |-> token, value |-> True]
  ELSE [id |-> model.parameters[Least(ChoiceAt(model, token))].id, value |-> <<token>>]

\* Every token decodes, and no two to the same parameter.
Decodes(model, tokens) ==
  /\ tokens # <<>>
  /\ \A i \in DOMAIN tokens :
       SwitchAt(model, tokens[i]) # {} \/ ChoiceAt(model, tokens[i]) # {}
  /\ \A i, j \in DOMAIN tokens :
       Decode(model, tokens[i]).id = Decode(model, tokens[j]).id => i = j

parseVariantTokens(model, tokens) ==
  [p \in {Decode(model, tokens[i]).id : i \in DOMAIN tokens} |->
     Decode(model, tokens[CHOOSE i \in DOMAIN tokens : Decode(model, tokens[i]).id = p]).value]

DefaultAt(model) == {i \in DOMAIN model.variants : model.variants[i].default}
DefaultParams(model) ==
  IF DefaultAt(model) = {} THEN <<>> ELSE model.variants[Least(DefaultAt(model))].params

\* findDeclaredVariant: what was asked for, and everything else at default.
findDeclaredVariant(model, wanted) ==
  LET defaults == DefaultParams(model) IN
  {i \in DOMAIN model.variants :
     LET params == model.variants[i].params IN
     /\ DOMAIN wanted \subseteq DOMAIN params
     /\ \A p \in DOMAIN params :
          IF p \in DOMAIN wanted THEN params[p] = wanted[p]
          ELSE p \in DOMAIN defaults => params[p] = defaults[p]}

\* The tokens of name after the n of a base.
Rest(name, n) == SubSeq(name, n + 1, Len(name))

\* The models with a base that the name continues with tokens that decode,
\* and this base's length.
Candidates(models, name) ==
  {c \in (DOMAIN models) \X (1 .. Len(name) - 1) :
     /\ SubSeq(name, 1, c[2]) \in Bases(models[c[1]])
     /\ Decodes(models[c[1]], Rest(name, c[2]))}

\* parseVariantSelection: the longest base, of the first model that has it;
\* NoModel when nothing matches.
Best(candidates) ==
  CHOOSE b \in candidates :
    \A c \in candidates : c[2] < b[2] \/ (c[2] = b[2] /\ b[1] <= c[1])
parseVariantSelection(models, name) ==
  LET best     == Best(Candidates(models, name))
      model    == models[best[1]]
      wanted   == parseVariantTokens(model, Rest(name, best[2]))
      declared == findDeclaredVariant(model, wanted)
  IN IF Candidates(models, name) = {} THEN NoModel
     ELSE [id |-> model.id,
           params |-> IF declared = {} THEN wanted ELSE model.variants[Least(declared)].params]

\* The alias that is named like the model with -fast.
aliasImpliesFast(name, model) == name = Append(model.id, "fast")

\* What the configured default is served as.
Fallback(models, name, defaultModel) ==
  IF defaultModel # name /\ findModel(models, defaultModel) # {}
  THEN selectionForModel(models[Least(findModel(models, defaultModel))], FALSE)
  ELSE [id |-> name, params |-> <<>>]

\* Mutant: the remaining aliases before the variants, and no longer as Fast.
resolveAliasFirst(models, name, defaultModel) ==
  LET known == findModel(models, name)
      variant == parseVariantSelection(models, name)
  IN IF known # {} THEN selectionForModel(models[Least(known)], FALSE)
     ELSE IF name = <<"auto">> THEN [id |-> name, params |-> <<>>]
     ELSE IF variant # NoModel THEN variant
     ELSE Fallback(models, name, defaultModel)
\* resolveModelSelection: id, "auto", variant, alias, default, as it is.
resolveModelSelection(models, name, defaultModel) ==
  LET exact   == ById(models, name)
      variant == parseVariantSelection(models, name)
      alias   == models[Least(ByAlias(models, name))]
  IN IF exact # {} THEN selectionForModel(models[Least(exact)], FALSE)
     ELSE IF name = <<"auto">> THEN [id |-> name, params |-> <<>>]
     ELSE IF variant # NoModel THEN variant
     ELSE IF ByAlias(models, name) # {}
     THEN selectionForModel(alias, aliasImpliesFast(name, alias) /\ hasFastParam(alias))
     ELSE Fallback(models, name, defaultModel)

(***************************************************************************)
(* The list                                                                *)
(***************************************************************************)
\* singleDeltaVariantSuffix, empty when the variant is not listed; the
\* default one has no delta.
singleDeltaVariantSuffix(model, variant) ==
  LET defaults == DefaultParams(model)
      deltas == {p \in DOMAIN variant.params :
                   p \notin DOMAIN defaults \/ defaults[p] # variant.params[p]}
      delta == CHOOSE p \in deltas : TRUE
  IN IF \/ DefaultAt(model) = {} \/ \A p \in deltas : deltas # {p}
        \/ deltas = {"fast"} \/ variant.params[delta] = False
     THEN <<>>
     ELSE IF variant.params[delta] = True THEN <<delta>> ELSE variant.params[delta]

\* resolveContextLength and its variant's form: the declared context value
\* that counts, <<>> when there is none (parseContextValue's number).
ContextOf(model, params) ==
  LET at == ParamAt(model, "context")
      values == model.parameters[Least(at)].values
  IN IF at = {} THEN <<>>
     ELSE IF "context" \in DOMAIN params THEN params["context"]
     ELSE IF "context" \in DOMAIN DefaultParams(model) THEN DefaultParams(model)["context"]
     ELSE IF values = <<>> THEN <<>> ELSE values[Len(values)]  \* values in rising order

Entry(id, model, params) ==
  [id |-> id, model |-> model.id, params |-> params, context |-> ContextOf(model, params)]

\* toOpenAIModelList without the allowlist: what push() is called with for
\* the i-th model, and when: its id, the aliases, the variants, Fast.  `params`
\* is what the entry stands for.
Pushes(models, i, aliasesToo) ==
  LET model == models[i]
      suffix == [v \in DOMAIN model.variants |->
                   singleDeltaVariantSuffix(model, model.variants[v])]
  IN {[at |-> <<i, 1, 1>>, entry |-> Entry(model.id, model, <<>>)]}
     \cup {[at |-> <<i, 2, a>>, entry |-> Entry(model.aliases[a], model, <<>>)] :
             a \in {b \in DOMAIN model.aliases : aliasesToo}}
     \cup {[at |-> <<i, 3, v>>,
             entry |-> Entry(model.id \o suffix[v], model, model.variants[v].params)] :
             v \in {w \in DOMAIN model.variants : suffix[w] # <<>>}}
     \cup {[at |-> <<i, 4, 1>>,
             entry |-> Entry(Append(model.id, "fast"), model, [p \in {"fast"} |-> True])] :
             f \in ParamAt(model, "fast")}

Before(p, q) == \E k \in 1 .. 3 : p[k] < q[k] /\ \A j \in 1 .. k - 1 : p[j] = q[j]

\* Of each id, the first entry counts.
ModelList(models, aliasesToo) ==
  LET all == UNION {Pushes(models, i, aliasesToo) : i \in DOMAIN models}
  IN {p.entry : p \in {q \in all : \A r \in all : Before(r.at, q.at) => r.entry.id # q.entry.id}}

\* lookupOpenAIModel for an id that is not listed, with no allowlist: the
\* model it belongs to, and this model's context length.
lookupOpenAIModel(models, name) ==
  LET found == findModel(models, name)
  IN IF found # {} THEN models[Least(found)].id ELSE parseVariantSelection(models, name).id

(***************************************************************************)
(* Catalogs whose ids mean one thing.  Listing and resolution take this of *)
(* Cursor's catalog without a check: each compares strings, and the first  *)
(* match counts.                                                           *)
(***************************************************************************)
WellTyped(models) ==
  /\ DOMAIN models \subseteq Nat
  /\ \A i \in DOMAIN models :
       /\ models[i].id # <<>> /\ Bases(models[i]) \subseteq Seq(STRING)
       /\ DOMAIN models[i].parameters \subseteq Nat /\ DOMAIN models[i].variants \subseteq Nat
       /\ \A p \in DOMAIN models[i].parameters : models[i].parameters[p].id \in STRING

\* No two models share an id or an alias, and no alias is "auto".
NamesDiffer(models) ==
  /\ \A i, j \in DOMAIN models : Bases(models[i]) \cap Bases(models[j]) # {} => i = j
  /\ \A i \in DOMAIN models : <<"auto">> \notin Range(models[i].aliases)

\* No id or alias is a slug of another one; but a model may have its own Fast
\* slug as an alias.
NoNameIsSlug(models) ==
  \A i \in DOMAIN models : \A name \in Bases(models[i]) : \A c \in Candidates(models, name) :
    /\ c[1] = i /\ name # models[i].id
    /\ hasFastParam(models[i]) /\ c[2] = Len(name) - 1 /\ name[Len(name)] = "fast"

\* A value is one token, which stands for this value only; Fast is boolean.
TokensDiffer(model) ==
  /\ \A i \in DOMAIN model.parameters :
       \A value \in Range(model.parameters[i].values) \ {True, False} :
         /\ value \in Seq(STRING) /\ Len(value) = 1
         /\ Decode(model, value[1]) = [id |-> model.parameters[i].id, value |-> value]
  /\ \A i \in ParamAt(model, "fast") : True \in Range(model.parameters[i].values)

\* Variants set the parameters that the default one sets, to declared values.
VariantsAgree(model) ==
  \A v \in DOMAIN model.variants :
    LET params == model.variants[v].params IN
    /\ DOMAIN params = DOMAIN DefaultParams(model)
    /\ \A p \in DOMAIN params :
         \E i \in ParamAt(model, p) : params[p] \in Range(model.parameters[i].values)

Unambiguous(models) ==
  /\ WellTyped(models) /\ NamesDiffer(models) /\ NoNameIsSlug(models)
  /\ \A i \in DOMAIN models : TokensDiffer(models[i]) /\ VariantsAgree(models[i])
=============================================================================
