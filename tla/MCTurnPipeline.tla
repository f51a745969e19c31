--------------------------- MODULE MCTurnPipeline ---------------------------
(***************************************************************************)
(* TurnPipeline on small catalogs: a model "m" with one to three           *)
(* parameters in the shapes Cursor uses, beside a model whose id continues *)
(* the first one's.                                                        *)
(***************************************************************************)
EXTENDS TurnPipeline, FiniteSets, SequencesExt

Fast == [id |-> "fast", values |-> <<False, True>>]
Thinking == [id |-> "thinking", values |-> <<False, True>>]
Reasoning == [id |-> "reasoning", values |-> <<<<"low">>, <<"high">>>>]
Context == [id |-> "context", values |-> <<<<"300k">>, <<"1m">>>>]

ParameterLists ==
  {<<>>, <<Fast>>, <<Fast, Reasoning>>, <<Context, Fast>>, <<Thinking, Context>>,
   <<Reasoning, Thinking, Fast>>}

\* Every way to give each parameter one of its values.
Assignments(parameters) ==
  {f \in [{parameters[i].id : i \in DOMAIN parameters} -> {True, False, <<"low">>, <<"high">>, <<"300k">>, <<"1m">>}] :
     \A i \in DOMAIN parameters : f[parameters[i].id] \in Range(parameters[i].values)}

Distance(f, g) == Cardinality({p \in DOMAIN f : f[p] # g[p]})

\* None declared; the default alone; with its neighbours; all of them.
VariantLists(parameters) ==
  {<<>>} \cup UNION {
    LET all == Assignments(parameters) IN
    {<<[default |-> TRUE, params |-> d]>>
       \o [i \in 1 .. Cardinality({f \in all : Distance(f, d) \in 1 .. n}) |->
             [default |-> FALSE,
              params |-> SetToSeq({f \in all : Distance(f, d) \in 1 .. n})[i]]] :
     n \in {0, 1, 3}} : d \in Assignments(parameters)}

AliasLists == {<<>>, <<<<"alias">>>>, <<<<"m", "fast">>, <<"alias">>>>}

Mini == [id |-> <<"m", "mini">>, aliases |-> <<>>, parameters |-> <<Reasoning>>,
         variants |-> <<[default |-> TRUE, params |-> [p \in {"reasoning"} |-> <<"low">>]],
                        [default |-> FALSE, params |-> [p \in {"reasoning"} |-> <<"high">>]]>>]

MCCatalogs ==
  UNION {{<<[id |-> <<"m">>, aliases |-> a, parameters |-> p, variants |-> v], Mini>> :
            a \in AliasLists, v \in VariantLists(p)} : p \in ParameterLists}

MCDefaultModel == <<"m">>
=============================================================================
