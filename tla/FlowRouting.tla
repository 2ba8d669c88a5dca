----------------------------- MODULE FlowRouting -----------------------------
(***************************************************************************)
(* The pure functions that turn the chunk graph into Attack Flow objects:  *)
(* attack_operators.py and attack_conditions.py.  The order of the lists   *)
(* they return is abstracted: a flow is a function from a chunk to the set *)
(* of its successors (precedes_ids).                                       *)
(*                                                                         *)
(* An operator is named by its geometry (_operator_id hashes exactly       *)
(* that): its role, the chunks that feed it, the chunks it leads to.       *)
(***************************************************************************)
EXTENDS Naturals, SequencesExt

EmptyFunction == [x \in {} |-> x]

\* What the steps of a flow lead to from S, S included: after as many rounds as
\* there are chunks nothing more is found.
After(flow, S) == UNION {flow[c] : c \in S \cap DOMAIN flow}

Reach(flow, S) ==
    LET all == S \cup UNION Range(flow)
        found[k \in 0 .. Cardinality(all)] ==
            IF k = 0 THEN S
            ELSE LET before == found[k - 1] IN before \cup After(flow, before)
    IN  found[Cardinality(all)]

(***************************************************************************)
(* splice_absent: bridge the flow around the chunks that are gone.         *)
(***************************************************************************)
\* _resolve: the surviving chunks met first on every way out of the absent t.
Absent(flow, present)     == [c \in DOMAIN flow \ present |-> flow[c] \ present]
Nearest(flow, present, t) == present \cap After(flow, Reach(Absent(flow, present), {t}))

\* Mutant of SpliceAbsent: a successor is kept only if it survived.
SpliceOneDeep(flow, present) ==
    [c \in DOMAIN flow \cap present |->
        (flow[c] \cap present) \cup
        (UNION {flow[t] \cap present : t \in (flow[c] \ present) \cap DOMAIN flow}
            \ {c})]

SpliceAbsent(flow, present) ==
    [c \in DOMAIN flow \cap present |->
        ((flow[c] \cap present) \cup
         UNION {Nearest(flow, present, t) : t \in flow[c] \ present})
            \ {c}]

(***************************************************************************)
(* infer_operators and extract_conditions.                                 *)
(***************************************************************************)
Anchor(op) ==
    CHOOSE c \in IF op.role = "converge" THEN op.outputs ELSE op.inputs : TRUE

Succs(flow) == [c \in DOMAIN flow |-> flow[c] \cap DOMAIN flow]

Convergences(flow) ==
    LET preds == [c \in DOMAIN flow |-> {p \in DOMAIN flow : c \in flow[p]}]
    IN  {[role |-> "converge", inputs |-> preds[c], outputs |-> {c}] :
            c \in {d \in DOMAIN flow : Cardinality(preds[d]) >= 2}}

Branches(flow, conditioned) ==
    {[role |-> "branch", inputs |-> {c}, outputs |-> Succs(flow)[c]] :
        c \in {d \in DOMAIN flow \ conditioned : Cardinality(Succs(flow)[d]) >= 2}}

\* The geometry's default (AND or OR, by role and chain labels) is one value,
\* "default"; an existing entry of the same geometry lends its kind.
InferOperators(flow, isSequential, existing, conditioned) ==
    IF ~isSequential THEN EmptyFunction
    ELSE [op \in Convergences(flow) \cup Branches(flow, conditioned) |->
            [kind    |-> IF op \in DOMAIN existing THEN existing[op].kind
                         ELSE "default",
             outputs |-> op.outputs,
             whole   |-> TRUE]]

NoCondition == [on_true |-> {}, on_false |-> {}]
Targets(cond) == cond.on_true \cup cond.on_false

ExtractConditions(pre, isSequential) ==
    IF ~isSequential THEN EmptyFunction
    ELSE [c \in {d \in DOMAIN pre : Targets(pre[d]) # {}} |-> pre[c]]

(***************************************************************************)
(* The objects of the bundle.                                              *)
(***************************************************************************)
\* build_attack_operator_sdos: the effect_refs of every operator that is
\* emitted; a branch needs two of them, a convergence its anchor.
OperatorSdos(operators, procs) ==
    LET effects == [op \in DOMAIN operators |-> operators[op].outputs \cap procs]
    IN  Restrict(effects,
            {op \in DOMAIN operators :
                Cardinality(effects[op]) >= IF op.role = "branch" THEN 2 ELSE 1})

\* build_attack_condition_sdos: the refs of every condition that resolves.
ConditionSdos(conditions, procs) ==
    LET refs == [c \in DOMAIN conditions |-> Targets(conditions[c]) \cap procs]
    IN  Restrict(refs, {c \in DOMAIN conditions : refs[c] # {}})

\* Nodes of the bundle's graph; operators are named by role and anchor.
Proc(c)  == <<"procedure", c>>
OpNode(op) == <<op.role, Anchor(op)>>
CondNode(c) == <<"condition", c>>

\* The hops of one flow edge: by the source's condition or branch, and by the
\* target's convergence.
Hops(a, b, nodes, conditioned) ==
    LET out == IF a \in conditioned THEN CondNode(a)
               ELSE IF <<"branch", a>> \in nodes THEN <<"branch", a>>
               ELSE Proc(a)
        in  == IF <<"converge", b>> \in nodes THEN <<"converge", b>> ELSE Proc(b)
    IN  {<<Proc(a), out>>, <<out, in>>, <<in, Proc(b)>>}
        \ {<<Proc(a), Proc(a)>>, <<Proc(b), Proc(b)>>}

\* route_precedes_through_operators over the bridged flow.
RoutePrecedes(flow, ops, conds, procs) ==
    LET spliced == SpliceAbsent(flow, procs)
        nodes   == {OpNode(op) : op \in DOMAIN ops}
    IN  UNION {UNION {Hops(a, b, nodes, DOMAIN conds) : b \in spliced[a]}
                   : a \in DOMAIN spliced}

(***************************************************************************)
(* Reference definitions, for properties: what order a graph asserts.      *)
(***************************************************************************)
\* a comes before b, directly or not, for two different members of S.
OrderOn(flow, S) ==
    UNION {{<<a, b>> : b \in (Reach(flow, {a}) \cap S) \ {a}} : a \in S}

Graph(edges) ==
    [n \in {e[1] : e \in edges} |-> {e[2] : e \in {f \in edges : f[1] = n}}]

FlowEdges(flow) == UNION {{<<c, t>> : t \in flow[c]} : c \in DOMAIN flow}

=============================================================================
