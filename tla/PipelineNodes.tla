---------------------------- MODULE PipelineNodes ----------------------------
(***************************************************************************)
(* The sixteen nodes of the extraction graph as functions on the           *)
(* checkpointed channels (graph/state.py, PipelineState), and the          *)
(* conditional edges of graph/pipeline.py.                                 *)
(*                                                                         *)
(* A channel keeps what the edges and the gates tell apart: which decision *)
(* an analyst left in it, whether a list is empty, and for guidance and    *)
(* derived artifacts the ATTEMPT (the POST /run) that wrote it, 0 meaning  *)
(* never.  The attempt itself is a ghost field.  Entities, chunk texts,    *)
(* prompts and STIX objects are abstracted away.                           *)
(***************************************************************************)
EXTENDS Naturals

CONSTANTS
    GateChoices,    \* the sets of gates a run may be started with enabled
    MaxAttempts     \* bound: how many times POST /run is accepted

Gates == {"gate_0", "gate_chunks", "gate_1", "gate_2"}

ASSUME GatesAssumption == GateChoices \subseteq SUBSET Gates
ASSUME AttemptsAssumption == MaxAttempts \in Nat \ {0}

Workers == {"parse_and_validate", "extract_figures", "classify_sections",
            "extract_entities", "chunk_behaviors", "extract_techniques",
            "draft_procedures", "normalize", "serialize_stix",
            "validate_bundle", "distribute", "synthesize_feedback"}

Nodes == Workers \cup Gates
End == "__end__"

Attempts == 0 .. MaxAttempts

\* The status a gate node leaves behind, PipelineStatus.RESUMING_FROM_GATE_*.
Resuming == [gate_0      |-> "resuming_from_gate_0",
             gate_chunks |-> "resuming_from_gate_chunks",
             gate_1      |-> "resuming_from_gate_1",
             gate_2      |-> "resuming_from_gate_2"]

\* The gate registry: the node a submission is written "as", so that the gate
\* is the next node to run.
Predecessor == [gate_0      |-> "extract_entities",
                gate_chunks |-> "chunk_behaviors",
                gate_1      |-> "draft_procedures",
                gate_2      |-> "normalize"]

\* The statuses a node writes on the channel "status".
NodeStatuses ==
    {"parsing", "extracting_figures", "classifying_sections",
     "extracting_entities", "chunking", "extracting_techniques", "drafting",
     "normalizing", "serializing", "completed", "failed"}
    \cup {Resuming[g] : g \in Gates}

(***************************************************************************)
(* The channels.                                                           *)
(***************************************************************************)
Values == [
    attempt       : Attempts,        \* ghost: the POST /run last merged in
    gates         : SUBSET Gates,    \* gates_enabled: the gates that are on
    status        : NodeStatuses,
    error         : BOOLEAN,         \* an error text is set
    gate0Reviews  : BOOLEAN,         \* a submission waits for gate_0
    chunkReviews  : {"none", "approve", "reject"},
    gate1Reviews  : {"none", "approve", "boundary", "technique"},
    gate2Review   : {"none", "approve", "reject"},     \* batch decision
    gate2Reviews  : BOOLEAN,         \* per-relationship decisions
    chunksRouting : {"none", "chunk_behaviors"},
    gate1Routing  : {"none", "chunk_behaviors", "extract_techniques"},
    gate2Approved : BOOLEAN,
    bundleFailed  : BOOLEAN,         \* bundle_validation_failed
    bundleValid   : BOOLEAN,         \* all(validation_results)
    chunks        : BOOLEAN,         \* the list is not empty
    drafts        : BOOLEAN,
    approved      : BOOLEAN,         \* gate1_approved_draft_ids
    chunkRerun    : Attempts,        \* chunk_rerun_feedback
    chunkFeedback : Attempts,
    techRerun     : Attempts,        \* technique_rerun_feedback
    overrides     : Attempts,        \* previous_technique_overrides
    entities      : Attempts,
    preview       : Attempts,        \* relationship_preview
    written       : Attempts]        \* objects_written

\* A thread no run has touched: every channel absent.
NoValues == [
    attempt |-> 0, gates |-> {}, status |-> "parsing", error |-> FALSE,
    gate0Reviews |-> FALSE, chunkReviews |-> "none", gate1Reviews |-> "none",
    gate2Review |-> "none", gate2Reviews |-> FALSE,
    chunksRouting |-> "none", gate1Routing |-> "none", gate2Approved |-> FALSE,
    bundleFailed |-> FALSE, bundleValid |-> FALSE,
    chunks |-> FALSE, drafts |-> FALSE, approved |-> FALSE,
    chunkRerun |-> 0, chunkFeedback |-> 0, techRerun |-> 0, overrides |-> 0,
    entities |-> 0, preview |-> 0, written |-> 0]

\* Mutant of InitialState: a channel that has to be reset is left out.
InitialStateKeepsGuidance(v, gates) ==
    [v EXCEPT !.attempt = @ + 1, !.gates = gates, !.status = "parsing",
              !.error = FALSE]

\* POST /run merges initial_state over whatever the thread's checkpoint holds:
\* a channel it does not name keeps the value of the attempt before.
InitialState(v, gates) ==
    [v EXCEPT !.attempt = @ + 1, !.gates = gates, !.status = "parsing",
              !.error = FALSE, !.techRerun = 0]

(***************************************************************************)
(* Nodes.  Each operator is the set of channel values the node may return. *)
(***************************************************************************)
\* An outcome that the abstracted data decides.
Either == BOOLEAN

\* The soft failure of a node that catches its own exceptions.
SoftFail(v) == [v EXCEPT !.status = "failed", !.error = TRUE]

ParseAndValidate(v) == {[v EXCEPT !.status = "parsing"], SoftFail(v)}

ExtractFigures(v) == {[v EXCEPT !.status = "extracting_figures"]}

ClassifySections(v) == {[v EXCEPT !.status = "classifying_sections"]}

ExtractEntities(v) ==
    LET w == [v EXCEPT !.entities = v.attempt]
    IN  {[w EXCEPT !.status = "extracting_entities"], SoftFail(w)}

\* Guidance is cleared only by the pass that succeeds with it.
ChunkBehaviors(v) ==
    {[v EXCEPT !.status = "chunking", !.chunks = some,
               !.chunkFeedback = 0, !.chunkRerun = 0] : some \in Either}
    \cup {[SoftFail(v) EXCEPT !.chunks = FALSE]}

\* Mutant of DraftProcedures: the overrides outlive the drafts they served.
DraftProceduresKeepsOverrides(v) ==
    IF v.chunks
    THEN {[v EXCEPT !.status = "drafting", !.drafts = some] : some \in Either}
         \cup {[SoftFail(v) EXCEPT !.drafts = FALSE]}
    ELSE {[v EXCEPT !.status = "drafting", !.drafts = FALSE]}

\* With no chunks the node returns before it reads the guidance.
ExtractTechniques(v) ==
    IF v.chunks
    THEN {[v EXCEPT !.status = "extracting_techniques", !.techRerun = 0],
          SoftFail(v)}
    ELSE {[v EXCEPT !.status = "extracting_techniques"]}

DraftProcedures(v) ==
    IF v.chunks
    THEN {[v EXCEPT !.status = "drafting", !.drafts = some, !.overrides = 0] :
             some \in Either}
         \cup {[SoftFail(v) EXCEPT !.drafts = FALSE]}
    ELSE {[v EXCEPT !.status = "drafting", !.drafts = FALSE]}

\* With nothing approved the preview of an earlier pass stays in place.
Normalize(v) ==
    {[v EXCEPT !.status = "normalizing",
               !.preview = IF v.approved THEN v.attempt ELSE @]}

SerializeStix(v) ==
    {[v EXCEPT !.status = "serializing", !.bundleValid = ok] : ok \in Either}

ValidateBundle(v) ==
    {[v EXCEPT !.status = "serializing", !.bundleFailed = FALSE],
     [SoftFail(v) EXCEPT !.bundleFailed = TRUE]}

\* An invalid bundle and a failed graph write are both soft failures.
Distribute(v) ==
    LET w == [v EXCEPT !.written = v.attempt]
    IN  {SoftFail(w)}
        \cup (IF v.bundleValid THEN {[w EXCEPT !.status = "completed"]} ELSE {})

\* Mutant of SynthesizeFeedback: the status of distribute is overwritten.
SynthesizeFeedbackCompletes(v) == {[v EXCEPT !.status = "completed"]}

SynthesizeFeedback(v) ==
    {[v EXCEPT !.status = IF v.status = "failed" THEN "failed" ELSE "completed"]}

(***************************************************************************)
(* Gate nodes.  A disabled gate approves everything and leaves the         *)
(* submission channels alone; an enabled one consumes its submission.      *)
(***************************************************************************)
Gate0(v) ==
    {[v EXCEPT !.status = Resuming["gate_0"],
               !.gate0Reviews = ("gate_0" \notin v.gates) /\ @]}

\* Mutant of GateChunks: switched off, the gate leaves its routing alone.
GateChunksKeepsRouting(v) ==
    LET w == [v EXCEPT !.status = Resuming["gate_chunks"]]
    IN  IF "gate_chunks" \notin v.gates THEN {w}
        ELSE IF v.chunkReviews = "reject"
        THEN {[w EXCEPT !.chunkReviews = "none",
                        !.chunksRouting = "chunk_behaviors",
                        !.chunkRerun = v.attempt]}
        ELSE {[w EXCEPT !.chunkReviews = "none", !.chunksRouting = "none",
                        !.chunks = some] : some \in Either}

\* Approving may drop every chunk or add the first one.
GateChunks(v) ==
    LET w == [v EXCEPT !.status = Resuming["gate_chunks"]]
    IN  IF "gate_chunks" \notin v.gates
        THEN {[w EXCEPT !.chunksRouting = "none"]}
        ELSE IF v.chunkReviews = "reject"
        THEN {[w EXCEPT !.chunkReviews = "none",
                        !.chunksRouting = "chunk_behaviors",
                        !.chunkRerun = v.attempt]}
        ELSE {[w EXCEPT !.chunkReviews = "none", !.chunksRouting = "none",
                        !.chunks = some] : some \in Either}

\* _compute_rejection_routing: a boundary reject outranks every other one, and
\* a review that names no draft of this pass rejects nothing.
RejectionRouting(v) ==
    CASE v.drafts /\ v.gate1Reviews = "boundary"  -> "chunk_behaviors"
      [] v.drafts /\ v.gate1Reviews = "technique" -> "extract_techniques"
      [] OTHER -> "none"

\* The submitted reviews applied.  A boundary reject hands the corrected bounds
\* to the chunker and the technique decisions it keeps to the drafts redone from
\* them; a technique reject hands its notes to the extractor.
Gate1Reviewed(v, approves, keeps) ==
    LET r         == RejectionRouting(v)
        rechunk   == r = "chunk_behaviors"
        reextract == r = "extract_techniques"
    IN  [v EXCEPT !.status = Resuming["gate_1"], !.gate1Routing = r,
                  !.gate1Reviews  = "none",
                  !.approved      = approves,
                  !.techRerun     = IF reextract THEN v.attempt ELSE v.techRerun,
                  !.chunkFeedback = IF rechunk THEN v.attempt ELSE v.chunkFeedback,
                  !.overrides     = IF rechunk
                                    THEN IF keeps THEN v.attempt ELSE 0
                                    ELSE v.overrides]

\* Whether a review can approve a draft: only one of this pass.
Approvals(v) == {FALSE, v.drafts}

Gate1(v) ==
    IF "gate_1" \in v.gates
    THEN {Gate1Reviewed(v, approves, keeps) :
              approves \in Approvals(v), keeps \in Either}
    ELSE {[v EXCEPT !.status = Resuming["gate_1"], !.gate1Routing = "none",
                    !.approved = v.drafts]}

\* Mutant of Gate2: the reviews stay in place for the next visit.
Gate2KeepsReviews(v) ==
    {[v EXCEPT !.status = Resuming["gate_2"],
               !.gate2Approved = \/ "gate_2" \notin v.gates
                                 \/ v.gate2Reviews
                                 \/ v.gate2Review = "approve"]}

\* Per-relationship reviews win over a batch decision and always approve.
Gate2(v) ==
    LET w == [v EXCEPT !.status = Resuming["gate_2"]]
    IN  IF "gate_2" \notin v.gates THEN {[w EXCEPT !.gate2Approved = TRUE]}
        ELSE IF v.gate2Reviews
        THEN {[w EXCEPT !.gate2Approved = TRUE, !.gate2Reviews = FALSE]}
        ELSE {[w EXCEPT !.gate2Approved = (v.gate2Review = "approve")]}

\* What running a node may leave in the channels.
Effect(n, v) ==
    CASE n = "parse_and_validate"  -> ParseAndValidate(v)
      [] n = "extract_figures"     -> ExtractFigures(v)
      [] n = "classify_sections"   -> ClassifySections(v)
      [] n = "extract_entities"    -> ExtractEntities(v)
      [] n = "gate_0"              -> Gate0(v)
      [] n = "chunk_behaviors"     -> ChunkBehaviors(v)
      [] n = "gate_chunks"         -> GateChunks(v)
      [] n = "extract_techniques"  -> ExtractTechniques(v)
      [] n = "draft_procedures"    -> DraftProcedures(v)
      [] n = "gate_1"              -> Gate1(v)
      [] n = "normalize"           -> Normalize(v)
      [] n = "gate_2"              -> Gate2(v)
      [] n = "serialize_stix"      -> SerializeStix(v)
      [] n = "validate_bundle"     -> ValidateBundle(v)
      [] n = "distribute"          -> Distribute(v)
      [] n = "synthesize_feedback" -> SynthesizeFeedback(v)

(***************************************************************************)
(* Edges: the routers of graph/pipeline.py and the plain edges between.    *)
(***************************************************************************)
\* Mutants of the routers: a failed status is not looked at, a rejected
\* bundle is serialized.
RouteEvenFailed(next, v) == next
RouteAfterGate2Always(v) == "serialize_stix"

RouteAfterParse(v) == IF v.status = "failed" THEN End ELSE "extract_figures"

RouteUnlessFailed(next, v) == IF v.status = "failed" THEN End ELSE next

RouteAfterChunkBehaviors(v) ==
    IF v.status = "failed" THEN End ELSE "gate_chunks"

RouteAfterGateChunks(v) ==
    IF v.chunksRouting = "chunk_behaviors"
    THEN "chunk_behaviors" ELSE "extract_techniques"

RouteAfterGate1(v) ==
    IF v.gate1Routing = "none" THEN "normalize" ELSE v.gate1Routing

RouteAfterGate2(v) == IF v.gate2Approved THEN "serialize_stix" ELSE "normalize"

RouteAfterValidate(v) == IF v.bundleFailed THEN End ELSE "distribute"

Route(n, v) ==
    CASE n = "parse_and_validate"  -> RouteAfterParse(v)
      [] n = "extract_figures"     -> "classify_sections"
      [] n = "classify_sections"   -> "extract_entities"
      [] n = "extract_entities"    -> RouteUnlessFailed("gate_0", v)
      [] n = "gate_0"              -> "chunk_behaviors"
      [] n = "chunk_behaviors"     -> RouteAfterChunkBehaviors(v)
      [] n = "gate_chunks"         -> RouteAfterGateChunks(v)
      [] n = "extract_techniques"  -> RouteUnlessFailed("draft_procedures", v)
      [] n = "draft_procedures"    -> RouteUnlessFailed("gate_1", v)
      [] n = "gate_1"              -> RouteAfterGate1(v)
      [] n = "normalize"           -> "gate_2"
      [] n = "gate_2"              -> RouteAfterGate2(v)
      [] n = "serialize_stix"      -> "validate_bundle"
      [] n = "validate_bundle"     -> RouteAfterValidate(v)
      [] n = "distribute"          -> "synthesize_feedback"
      [] n = "synthesize_feedback" -> End

(***************************************************************************)
(* Decisions an analyst (or the unattended reviewer) can submit at a gate, *)
(* and the channel each one is written to.                                 *)
(***************************************************************************)
Decisions == [gate_0      |-> {"approve"},
              gate_chunks |-> {"approve", "reject"},
              gate_1      |-> {"approve", "boundary", "technique"},
              gate_2      |-> {"approve", "reject", "per_relationship"}]

Submit(g, d, v) ==
    CASE g = "gate_0"      -> [v EXCEPT !.gate0Reviews = TRUE]
      [] g = "gate_chunks" -> [v EXCEPT !.chunkReviews = d]
      [] g = "gate_1"      -> [v EXCEPT !.gate1Reviews = d]
      [] g = "gate_2" /\ d = "per_relationship" -> [v EXCEPT !.gate2Reviews = TRUE]
      [] OTHER             -> [v EXCEPT !.gate2Review = d]

=============================================================================
