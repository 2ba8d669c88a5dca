------------------------------ MODULE ChunkFlow ------------------------------
(***************************************************************************)
(* The flow of procedures on its way through one run: chunk_behaviors      *)
(* proposes it, the analyst edits it at gate_chunks, discards and reorders *)
(* drafts at gate_1, normalize infers operators and conditions, gate_2     *)
(* removes rows of the preview, and serialize_stix routes what is left     *)
(* into the bundle's precedes relationships.                               *)
(*                                                                         *)
(* Each action is one node of the graph or one submission.  PipelineGraph  *)
(* has the nodes this module leaves out; none of them touches the flow.    *)
(***************************************************************************)
EXTENDS FlowRouting, FiniteSets, TLC

CONSTANT Scopes   \* the instances explored, each a record of bounds

\* n, passes: chunks the chunker emits, chunking passes; gate, detected, flags:
\* whether the chunk gate is enabled, and the sequentiality that extraction may
\* have set and a review may submit; strays, roots: predecessors that are not
\* earlier chunks, chunks marked as the root of a chain; decisions, edges, added,
\* overrides, conditions: the size of one chunk review; discards, rejects,
\* reorders: drafts discarded, rejected and given other predecessors in one
\* gate_1 review; rows: precedes rows removed at gate_2; omitted: procedures left
\* out for having no technique.
ScopeRecord(sc) ==
    /\ {sc.n, sc.passes, sc.strays, sc.roots, sc.decisions, sc.edges,
        sc.overrides, sc.conditions, sc.discards, sc.rejects, sc.reorders, sc.rows,
        sc.omitted} \subseteq Nat
    /\ sc.added \in {0, 1}
    /\ sc.gate \in BOOLEAN
    /\ sc.detected \subseteq BOOLEAN
    /\ "detected" \in sc.flags /\ sc.flags \subseteq {"detected", "on", "off"}

ASSUME ScopesAssumption == \A sc \in Scopes : ScopeRecord(sc)

VARIABLES
    scope,            \* the bounds of this behaviour, chosen once
    pc,               \* the node that runs next, or the submission awaited
    pass,             \* chunking passes so far
    chunks,           \* state.chunks, by chunk_id
    review,           \* state.chunk_reviews
    isSequential,     \* state.is_sequential
    chunkOperators,   \* state.chunk_operators
    chunkConditions,  \* state.chunk_conditions
    correctionLog,    \* state.chunk_correction_log
    drafts,           \* the sequencing of state.drafts, by chunk_id
    approved,         \* gate1_approved_draft_ids, by chunk_id
    preview,          \* the precedes rows of state.relationship_preview
    removedRows,      \* the precedes rows of gate2_removed_rel_ids
    bundle            \* the flow objects of the bundle

chunkVars == <<chunks, chunkOperators, chunkConditions, correctionLog>>
laterVars == <<drafts, approved, preview, removedRows, bundle>>
vars == <<scope, pc, pass, chunkVars, review, isSequential, laterVars>>

\* Chunk ids: the chunker's hash of index and text, the same on each pass, and
\* a fresh one for a chunk the analyst adds.
Emitted == 1 .. scope.n
Added(p) == scope.n + p

AtMost(k, S) == {T \in SUBSET S : Cardinality(T) <= k}

Flow(cs) == [c \in DOMAIN cs |-> cs[c].succ]
Seqs(S, fs) == {fs[c].seq : c \in S}

\* A text is the set of original texts it holds; 0 is the analyst's wording.
Rewritten == {0}

(***************************************************************************)
(* chunk_behaviors: the model's reply and _finalize_chunks.                *)
(***************************************************************************)
\* Predecessors are taken as emitted.  PREDECESSOR RULE asks for earlier chunks;
\* a reply may also name a later chunk, the chunk itself, or (0) none at all.
Ordered == {f \in [Emitted -> SUBSET Emitted] : \A c \in Emitted : f[c] \subseteq 1 .. c - 1}
Stray   == {x \in Emitted \X (0 .. scope.n) : x[2] \notin 1 .. x[1] - 1}

RawPredecessors ==
    UNION {{[c \in Emitted |-> f[c] \cup {x[2] : x \in {y \in S : y[1] = c}}] :
               f \in Ordered} : S \in AtMost(scope.strays, Stray)}

\* The connectivity backstop: a chunk that neither has nor is a predecessor is
\* linked to the one before it, in sequential sources.
LinkOrphans(raw, roots) ==
    LET referenced == UNION {raw[c] : c \in Emitted}
    IN  [c \in Emitted |->
            IF /\ isSequential /\ c > 1 /\ c \notin roots \cup referenced
               /\ raw[c] = {}
            THEN {c - 1} ELSE raw[c]]

\* The forward edges invert the indices that are known.  No precondition gets this
\* far: _postprocess_raw_chunks leaves the field out.
FinalizeChunks(raw, roots) ==
    LET preds == LinkOrphans(raw, roots)
    IN  [c \in Emitted |->
            [seq |-> c, text |-> {c}, root |-> c \in roots, preds |-> preds[c],
             succ |-> {d \in Emitted : c \in preds[d]}, pre |-> NoCondition]]

NoReview == [decisions |-> <<>>, edges |-> <<>>, added |-> 0, overrides |-> {},
             conditions |-> <<>>, flag |-> "detected", reject |-> FALSE]

ChunkBehaviors ==
    /\ pc = "chunk_behaviors"
    /\ \E raw \in RawPredecessors, roots \in AtMost(scope.roots, Emitted) :
          chunks' = FinalizeChunks(raw, roots)
    /\ pass' = pass + 1
    /\ pc' = IF scope.gate THEN "review_chunks" ELSE "gate_chunks"
    /\ UNCHANGED <<scope, review, isSequential, chunkOperators, chunkConditions,
                   correctionLog, laterVars>>

(***************************************************************************)
(* POST chunks/submit.                                                     *)
(***************************************************************************)
Decisions(ids) ==
    [chunk : ids, action : {"drop", "edit"}, with : {{}}]
    \cup {d \in [chunk : ids, action : {"merge"}, with : SUBSET ids \ {{}}] :
            d.chunk \notin d.with}

\* The ids of the operators the review page shows.
ShownOperators ==
    DOMAIN InferOperators(Flow(chunks), isSequential, chunkOperators,
                          DOMAIN chunkConditions)

ConditionEdits(ids) ==
    [chunk : ids, action : {"set"}, on_true : SUBSET ids, on_false : SUBSET ids]
    \cup [chunk : ids, action : {"clear"}, on_true : {{}}, on_false : {{}}]

\* The canvas draws no edge from a chunk to itself (handleConnect); a rejection
\* carries nothing but the flag.
ChunkReviews ==
    LET ids == DOMAIN chunks
    IN  [decisions  : {s \in BoundedSeq(Decisions(ids), scope.decisions) :
                         \A i, j \in DOMAIN s : i # j => s[i].chunk # s[j].chunk},
         edges      : BoundedSeq({e \in [action : {"add", "remove"}, from : ids, to : ids] :
                                     e.action = "add" => e.from # e.to},
                                 scope.edges),
         added      : 0 .. scope.added,
         overrides  : AtMost(scope.overrides, ShownOperators),
         conditions : BoundedSeq(ConditionEdits(ids), scope.conditions),
         flag       : scope.flags,
         reject     : {FALSE}]
        \cup IF pass < scope.passes
             THEN {[NoReview EXCEPT !.reject = TRUE, !.flag = f] : f \in scope.flags}
             ELSE {}

SubmitChunkReview ==
    /\ pc = "review_chunks"
    /\ review' \in ChunkReviews
    /\ pc' = "gate_chunks"
    /\ UNCHANGED <<scope, pass, isSequential, chunkVars, laterVars>>

(***************************************************************************)
(* gate_chunks.                                                            *)
(***************************************************************************)
\* Mutant of MergedText: the survivor keeps its own words.
SurvivorText(survivor, absorbed, cs) == cs[survivor].text

MergedText(survivor, absorbed, cs) ==
    UNION {cs[c].text : c \in absorbed \cup {survivor}}

\* A merge becomes an edit of the survivor, with the texts of all of them, and
\* the removal of the absorbed.  Merges are worked off in the order of the
\* submission, over the other decisions: on each chunk the last one stands.
ExpandMerges(decisions, cs) ==
    LET merges      == {i \in DOMAIN decisions : decisions[i].action = "merge"}
        absorbed(i) == (decisions[i].with \cap DOMAIN cs) \ {decisions[i].chunk}
        named(i)    == {decisions[i].chunk} \cup absorbed(i)
        own(c)      == CHOOSE i \in DOMAIN decisions : decisions[i].chunk = c
        last(c)     == Max({i \in merges : c \in named(i)})
    IN  [c \in UNION {named(i) : i \in DOMAIN decisions} |->
            IF \A i \in merges : c \notin named(i)
            THEN [action |-> decisions[own(c)].action, text |-> Rewritten]
            ELSE IF c = decisions[last(c)].chunk
                 THEN [action |-> "edit", text |-> MergedText(c, absorbed(last(c)), cs)]
                 ELSE [action |-> "drop", text |-> {}]]

\* The chunks that stay, edited, and the ones the analyst adds.
Kept(map, cs, added) ==
    LET stay == DOMAIN cs \ {c \in DOMAIN map : map[c].action = "drop"}
        new  == IF added = 0 THEN {} ELSE {Added(pass)}
        next == IF stay = {} THEN 1 ELSE Max(Seqs(stay, cs)) + 1
    IN  [c \in stay \cup new |->
            IF c \in new
            THEN [seq |-> next, text |-> {c}, root |-> FALSE,
                  preds |-> {}, succ |-> {}, pre |-> NoCondition]
            ELSE IF c \in DOMAIN map THEN [cs[c] EXCEPT !.text = map[c].text]
            ELSE cs[c]]

\* Mutant of Bridge: the drops sever the chain.
BridgeNothing(kept, cs) ==
    [c \in DOMAIN kept |-> [kept[c] EXCEPT !.succ = @ \cap DOMAIN kept]]

\* The rewiring around the dropped chunks, with the edges they had.
Bridge(kept, cs) ==
    LET dropped == DOMAIN cs \ DOMAIN kept
        before  == [c \in DOMAIN kept \cup dropped |->
                       IF c \in dropped THEN cs[c].succ ELSE kept[c].succ]
        spliced == SpliceAbsent(before, DOMAIN kept)
    IN  IF dropped = {} THEN kept
        ELSE [c \in DOMAIN kept |-> [kept[c] EXCEPT !.succ = spliced[c]]]

\* Edge mutations in order, so that the last one of an edge stands; an add needs
\* its target present, a removal does not.
MutateEdges(edges, kept) ==
    LET heeded(c, t) == {i \in DOMAIN edges :
                            /\ edges[i].from = c /\ edges[i].to = t
                            /\ edges[i].action = "remove" \/ t \in DOMAIN kept}
    IN  [c \in DOMAIN kept |->
            [kept[c] EXCEPT !.succ =
                {t \in @ \cup DOMAIN kept :
                    IF heeded(c, t) = {} THEN t \in @
                    ELSE edges[Max(heeded(c, t))].action = "add"}]]

\* _sync_predecessor_indices.
SyncPredecessors(cs) ==
    [c \in DOMAIN cs |->
        [cs[c] EXCEPT !.preds = Seqs({p \in DOMAIN cs : c \in cs[p].succ}, cs)]]

\* Mutant of ReviewedChunks: the copies are synced before the edges change.
ReviewedChunksSyncedEarly ==
    MutateEdges(review.edges,
        SyncPredecessors(
            Bridge(Kept(ExpandMerges(review.decisions, chunks), chunks, review.added),
                   chunks)))

ReviewedChunks ==
    SyncPredecessors(
        MutateEdges(review.edges,
            Bridge(Kept(ExpandMerges(review.decisions, chunks), chunks, review.added),
                   chunks)))

\* Kinds are stored under the operator's id; a new entry holds nothing else.
OverriddenOperators ==
    [op \in review.overrides |->
        IF op \in DOMAIN chunkOperators
        THEN [chunkOperators[op] EXCEPT !.kind = "XOR"]
        ELSE [kind |-> "XOR", outputs |-> {}, whole |-> FALSE]] @@ chunkOperators

\* Condition edits are stored as submitted.
EditedConditions ==
    LET Edit(map, e) ==
            IF e.action = "clear" THEN Restrict(map, DOMAIN map \ {e.chunk})
            ELSE (e.chunk :> [on_true |-> e.on_true, on_false |-> e.on_false]) @@ map
    IN  FoldLeft(Edit, chunkConditions, review.conditions)

\* _sequentiality_override.
Overridden(flag) == IF flag = "detected" THEN isSequential ELSE flag = "on"

\* What this pass adds to the durable ledger of corrections.
Corrections(map) ==
    {<<pass, IF map[c].action = "drop" THEN "remove" ELSE "edit", c>> :
        c \in DOMAIN map \cap DOMAIN chunks}
    \cup IF review.added = 0 THEN {} ELSE {<<pass, "analyst_added", Added(pass)>>}

\* Path 1: the gate is disabled; everything is approved as it is.
GateChunksAuto ==
    /\ pc = "gate_chunks" /\ ~scope.gate
    /\ pc' = "draft_procedures"
    /\ UNCHANGED <<scope, pass, chunkVars, review, isSequential, laterVars>>

\* Path 2: back to the chunker.
GateChunksReject ==
    /\ pc = "gate_chunks" /\ scope.gate /\ review.reject
    /\ isSequential' = Overridden(review.flag)
    /\ correctionLog' = correctionLog \cup {<<pass, "wholesale_reject", 0>>}
    /\ review' = NoReview
    /\ pc' = "chunk_behaviors"
    /\ UNCHANGED <<scope, pass, chunks, chunkOperators, chunkConditions, laterVars>>

\* Mutant of GateChunksApprove: the ledger starts again with each pass.
GateChunksApproveAfresh ==
    /\ pc = "gate_chunks" /\ scope.gate /\ ~review.reject
    /\ chunks' = ReviewedChunks
    /\ chunkOperators' = OverriddenOperators
    /\ chunkConditions' = EditedConditions
    /\ isSequential' = Overridden(review.flag)
    /\ correctionLog' = Corrections(ExpandMerges(review.decisions, chunks))
    /\ review' = NoReview
    /\ pc' = "draft_procedures"
    /\ UNCHANGED <<scope, pass, laterVars>>

\* Path 3: approve, with the edits.
GateChunksApprove ==
    /\ pc = "gate_chunks" /\ scope.gate /\ ~review.reject
    /\ chunks' = ReviewedChunks
    /\ chunkOperators' = OverriddenOperators
    /\ chunkConditions' = EditedConditions
    /\ isSequential' = Overridden(review.flag)
    /\ correctionLog' = correctionLog
           \cup Corrections(ExpandMerges(review.decisions, chunks))
    /\ review' = NoReview
    /\ pc' = "draft_procedures"
    /\ UNCHANGED <<scope, pass, laterVars>>

(***************************************************************************)
(* draft_procedures and gate_1.                                            *)
(***************************************************************************)
\* One draft for each chunk, with the chunk's sequencing.
DraftProcedures ==
    /\ pc = "draft_procedures"
    /\ drafts' = [c \in DOMAIN chunks |->
                    [seq |-> chunks[c].seq, preds |-> chunks[c].preds,
                     root |-> chunks[c].root]]
    /\ pc' = "gate_1"
    /\ UNCHANGED <<scope, pass, chunkVars, review, isSequential, approved, preview,
                   removedRows, bundle>>

\* Predecessors as the mirror takes them: of approved drafts, never oneself.
CleanPreds(c, ds, ok) == (ds[c].preds \cap Seqs(ok, ds)) \ {ds[c].seq}

\* _mirror_sequencing_onto_chunks: a chunk without an approved draft is left as
\* it is, and the others are linked among themselves only.
MirrorSequencing(cs, ds, ok) ==
    [c \in DOMAIN cs |->
        IF c \notin ok THEN cs[c]
        ELSE [cs[c] EXCEPT
                !.seq   = ds[c].seq,
                !.preds = CleanPreds(c, ds, ok),
                !.succ  = {d \in ok : ds[c].seq \in CleanPreds(d, ds, ok)}]]

\* The analyst discards, rejects and edits drafts; what is left is approved.
\* The flow editor's renumbering is abstracted: an edit names predecessors.
Gate1(discarded, rejected, boundary, edits) ==
    LET ok    == DOMAIN drafts \ (discarded \cup rejected)
        after == [c \in DOMAIN drafts |->
                    IF c \in DOMAIN edits THEN [drafts[c] EXCEPT !.preds = edits[c]]
                    ELSE drafts[c]]
    IN  /\ drafts' = after
        /\ approved' = ok
        /\ chunks' = IF edits = EmptyFunction THEN chunks
                     ELSE MirrorSequencing(chunks, after, ok)
        /\ pc' = CASE rejected = {} -> "normalize"
                   [] rejected # {} /\ boundary -> "chunk_behaviors"
                   [] OTHER -> "draft_procedures"
        /\ UNCHANGED <<scope, pass, chunkOperators, chunkConditions, correctionLog,
                       review, isSequential, preview, removedRows, bundle>>

SubmitGate1 ==
    /\ pc = "gate_1"
    /\ \E discarded \in AtMost(scope.discards, DOMAIN drafts) :
       \E rejected \in AtMost(scope.rejects, DOMAIN drafts \ discarded) :
       \E boundary \in IF rejected # {} /\ pass < scope.passes THEN BOOLEAN ELSE {FALSE} :
       \E edited \in AtMost(scope.reorders, DOMAIN drafts \ (discarded \cup rejected)) :
       \E edits \in [edited -> SUBSET Seqs(DOMAIN drafts, drafts)] :
            Gate1(discarded, rejected, boundary, edits)

(***************************************************************************)
(* normalize and gate_2.                                                   *)
(***************************************************************************)
\* _derive_relationship_preview, its precedes rows.
PreviewRows ==
    {e \in approved \X approved : drafts[e[1]].seq \in drafts[e[2]].preds}

Preconditions == [c \in DOMAIN chunks |-> chunks[c].pre]

\* Nothing is written when no draft was approved.
Normalize ==
    /\ pc = "normalize"
    /\ IF approved = {}
       THEN UNCHANGED <<preview, chunkConditions, chunkOperators>>
       ELSE /\ preview' = PreviewRows
            /\ chunkConditions' = ExtractConditions(Preconditions, isSequential)
            /\ chunkOperators' = InferOperators(Flow(chunks), isSequential,
                                     chunkOperators, DOMAIN chunkConditions')
    /\ pc' = "gate_2"
    /\ UNCHANGED <<scope, pass, chunks, correctionLog, review, isSequential, drafts,
                   approved, removedRows, bundle>>

\* Row by row, or the batch approval; an edited row removes its original.
Gate2Approve ==
    /\ pc = "gate_2"
    /\ removedRows' \in AtMost(scope.rows, preview)
    /\ pc' = "serialize_stix"
    /\ UNCHANGED <<scope, pass, chunkVars, review, isSequential, drafts, approved,
                   preview, bundle>>

\* The batch rejection.
Gate2Reject ==
    /\ pc = "gate_2"
    /\ removedRows' = preview
    /\ pc' = "normalize"
    /\ UNCHANGED <<scope, pass, chunkVars, review, isSequential, drafts, approved,
                   preview, bundle>>

(***************************************************************************)
(* serialize_stix.                                                         *)
(***************************************************************************)
\* _prune_removed_precedes, on the chunk graph.
PrunedFlow ==
    [c \in DOMAIN chunks |-> {t \in chunks[c].succ : <<c, t>> \notin removedRows}]

\* Mutant of PrunedOperators: the operators keep the outputs that were removed.
UnprunedOperators == chunkOperators

\* _prune_removed_precedes, on the operators: only a branch loses outputs.
PrunedOperators ==
    [op \in DOMAIN chunkOperators |->
        IF op.role # "branch" THEN chunkOperators[op]
        ELSE [chunkOperators[op] EXCEPT
                !.outputs = {t \in @ : <<Anchor(op), t>> \notin removedRows}]]

NoBundle == [procs |-> {}, starts |-> {}, ops |-> EmptyFunction,
             conds |-> EmptyFunction, edges |-> {}]

\* _build_attack_flow: the marked chain roots, or else what no draft of the
\* bundle lists in its effect_refs (_resolve_sequencing has put there the rows
\* of the preview).
StartRefs(procs) ==
    LET marked   == {c \in procs : drafts[c].root}
        targeted == {e[2] : e \in {f \in PreviewRows : f[1] \in procs}}
    IN  IF Cardinality(procs) < 2 THEN {}
        ELSE IF marked # {} THEN marked ELSE procs \ targeted

\* Procedures without a technique are omitted first.
Serialized(procs) ==
    LET ops   == OperatorSdos(PrunedOperators, procs)
        conds == ConditionSdos(chunkConditions, procs)
    IN  [procs |-> procs, starts |-> StartRefs(procs), ops |-> ops, conds |-> conds,
         edges |-> IF isSequential THEN RoutePrecedes(PrunedFlow, ops, conds, procs)
                   ELSE {}]

\* An operator entry that is only a kind has no output list: a KeyError.
SerializeStix ==
    /\ pc = "serialize_stix"
    /\ IF \E op \in DOMAIN chunkOperators : ~chunkOperators[op].whole
       THEN pc' = "failed" /\ UNCHANGED bundle
       ELSE /\ pc' = "done"
            /\ \E omitted \in AtMost(scope.omitted, approved) :
                  bundle' = Serialized(approved \ omitted)
    /\ UNCHANGED <<scope, pass, chunkVars, review, isSequential, drafts, approved,
                   preview, removedRows>>

Init ==
    /\ scope \in Scopes
    /\ pc = "chunk_behaviors" /\ pass = 0
    /\ chunks = EmptyFunction
    /\ review = NoReview
    /\ isSequential \in scope.detected
    /\ chunkOperators = EmptyFunction /\ chunkConditions = EmptyFunction
    /\ correctionLog = {}
    /\ drafts = EmptyFunction /\ approved = {}
    /\ preview = {} /\ removedRows = {}
    /\ bundle = NoBundle

Next ==
    \/ ChunkBehaviors
    \/ SubmitChunkReview
    \/ GateChunksAuto \/ GateChunksReject \/ GateChunksApprove
    \/ DraftProcedures
    \/ SubmitGate1
    \/ Normalize
    \/ Gate2Approve \/ Gate2Reject
    \/ SerializeStix

Spec == Init /\ [][Next]_vars

(***************************************************************************)
(* Properties that hold.                                                   *)
(***************************************************************************)
\* The two copies of the flow agree whenever the chunk gate lets go of it:
\* predecessor_indices, which drafts and reviews read, and precedes_ids, which
\* the bundle is routed from, name the same edges, and none leads to a chunk that
\* is gone (_sync_predecessor_indices, gates.py:107-142).
GateLeavesOneGraph ==
    [][(pc = "gate_chunks" /\ pc' = "draft_procedures") =>
          \A c \in DOMAIN chunks' :
             chunks'[c].succ =
                 {d \in DOMAIN chunks' : chunks'[c].seq \in chunks'[d].preds}]_vars

\* Dropping and merging chunks, in whatever number and arrangement, leaves the
\* order of the chunks that stay exactly as it was (gates.py:442-475).
GateKeepsOrder ==
    [][(pc = "gate_chunks" /\ pc' = "draft_procedures" /\ review.edges = <<>>) =>
          LET both == DOMAIN chunks \cap DOMAIN chunks'
          IN  OrderOn(Flow(chunks'), both) = OrderOn(Flow(chunks), both)]_vars

Merges ==
    {d \in {review.decisions[i] : i \in DOMAIN review.decisions} : d.action = "merge"}
Absorbed == UNION {d.with : d \in Merges}
Decided == {review.decisions[i].chunk : i \in DOMAIN review.decisions}

\* The merges of a review do not touch each other or another decision.
PlainMerges ==
    /\ Absorbed \cap Decided = {}
    /\ \A d, e \in Merges : d # e => d.with \cap e.with = {}

\* A merge loses no text and doubles none: each chunk the analyst neither
\* dropped nor reworded is found, whole, in exactly one chunk of the result.
MergeKeepsText ==
    [][(pc = "gate_chunks" /\ pc' = "draft_procedures" /\ PlainMerges) =>
          \A c \in DOMAIN chunks \ (Decided \ {d.chunk : d \in Merges}) :
             \E k \in DOMAIN chunks' :
                {l \in DOMAIN chunks' : chunks[c].text \subseteq chunks'[l].text} = {k}]_vars

\* Every difference the gate makes to the chunks stands in the durable ledger,
\* and no pass, however the runs loop, erases what an earlier one recorded.
LedgerExplainsTheDiff ==
    [][/\ correctionLog \subseteq correctionLog'
       /\ (pc = "gate_chunks" /\ pc' = "draft_procedures") =>
             /\ \A c \in DOMAIN chunks \ DOMAIN chunks' :
                   <<pass, "remove", c>> \in correctionLog'
             /\ \A c \in DOMAIN chunks' \ DOMAIN chunks :
                   <<pass, "analyst_added", c>> \in correctionLog'
             /\ \A c \in DOMAIN chunks \cap DOMAIN chunks' :
                   chunks[c].text # chunks'[c].text =>
                      <<pass, "edit", c>> \in correctionLog']_vars

\* The bundle's precedes relationships, read through operators and conditions
\* and around the procedures that are missing, say about its procedures what
\* the chunk graph says less the rows removed at gate_2: nothing severed,
\* nothing invented.  A catalog source ships no flow at all, whatever flow the
\* chunker found and the analyst drew.
FlowIsKept ==
    (pc = "done") =>
       LET procs == {Proc(c) : c \in bundle.procs}
       IN  IF isSequential
           THEN {<<e[1][2], e[2][2]>> : e \in OrderOn(Graph(bundle.edges), procs)}
                   = OrderOn(PrunedFlow, bundle.procs)
           ELSE /\ bundle.edges = {}
                /\ DOMAIN bundle.ops = {} /\ DOMAIN bundle.conds = {}

\* A branch operator whose anchor is in the bundle leads to all the other
\* procedures it lists as its effects, each itself or the convergence in front of
\* it, also after removals at gate_2 and omissions, and when a chunk of the branch
\* lists itself or an earlier one (attack_operators.py:214-258, 397-458).
LeadsTo(op, t) ==
    \/ <<OpNode(op), Proc(t)>> \in bundle.edges
    \/ {<<OpNode(op), <<"converge", t>>>>, <<<<"converge", t>>, Proc(t)>>}
          \subseteq bundle.edges

BranchReachesItsEffects ==
    (pc = "done") =>
       \A op \in DOMAIN bundle.ops :
          (op.role = "branch" /\ Anchor(op) \in bundle.procs) =>
             \A t \in bundle.ops[op] \ {Anchor(op)} : LeadsTo(op, t)

(***************************************************************************)
(* What the repository says and the code does not do.                      *)
(***************************************************************************)
\* state.py:853: chunk_conditions is "Mutated by: gate_chunks (analyst
\* description / partition overrides)": what the analyst set is still there
\* when normalize has run, if it names successors of its chunk.
ConditionEditsSurvive ==
    [][(pc = "normalize" /\ isSequential /\ approved # {}) =>
          \A c \in DOMAIN chunkConditions \cap DOMAIN chunks :
             LET set == Targets(chunkConditions[c])
             IN  (set # {} /\ set \subseteq chunks[c].succ) =>
                    /\ c \in DOMAIN chunkConditions'
                    /\ chunkConditions'[c] = chunkConditions[c]]_vars

\* normalization.py:441: the preview shows exactly the reviewable edges the
\* serializer will ship; the logical procedure to procedure ones.
PreviewMatchesSerializer ==
    (pc = "gate_2" /\ isSequential /\ approved # {}) =>
       preview = FlowEdges(SpliceAbsent(Flow(chunks), approved))

\* state.py:843: every operator entry has a role, an anchor, inputs and outputs;
\* the serializer relies on it.
SerializeSucceeds == pc # "failed"

\* attack_operators.py:346, of each forward edge A->B: "If A is a branch point
\* only: emit A_proc -> op_branch (once) and op_branch -> B_proc".  A chunk the
\* chunker listed as its own predecessor stays among the effects of its branch, and
\* splice_absent draws no edge to it.
BranchReachesAllEffects ==
    (pc = "done") =>
       \A op \in DOMAIN bundle.ops :
          (op.role = "branch" /\ Anchor(op) \in bundle.procs) =>
             \A t \in bundle.ops[op] : LeadsTo(op, t)

=============================================================================
