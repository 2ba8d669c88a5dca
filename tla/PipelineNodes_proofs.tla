------------------------ MODULE PipelineNodes_proofs ------------------------
(***************************************************************************)
(* What the proofs about the graph and about its runner need to know of    *)
(* the sixteen nodes: a contract per node says what running it leaves in   *)
(* the channels, for any channels and any number of attempts.  The         *)
(* inductions read only the contracts and the routers, never a node's      *)
(* definition.                                                             *)
(***************************************************************************)
EXTENDS PipelineNodes, TLAPS

-----------------------------------------------------------------------------
(***************************************************************************)
(* Contracts.                                                              *)
(***************************************************************************)
\* The run a node works for, and what no node but gate_2 may consume.
SameRun(v, w) ==
    /\ w \in Values
    /\ w.attempt = v.attempt
    /\ w.gates = v.gates

SameGuidance(v, w) ==
    /\ w.chunkRerun = v.chunkRerun
    /\ w.chunkFeedback = v.chunkFeedback
    /\ w.techRerun = v.techRerun
    /\ w.overrides = v.overrides

\* A worker that touches no review and no guidance.
Quiet(v, w) ==
    /\ SameRun(v, w)
    /\ SameGuidance(v, w)
    /\ w.gate2Reviews = v.gate2Reviews
    /\ w.chunks = v.chunks

\* The statuses a node writes are statuses, and a gate's is not a final one.
LEMMA Statuses ==
    /\ \A g \in Gates : Resuming[g] \in NodeStatuses /\ Resuming[g] \notin {"failed", "completed"}
    /\ {"parsing", "extracting_figures", "classifying_sections",
        "extracting_entities", "chunking", "extracting_techniques", "drafting",
        "normalizing", "serializing", "completed", "failed"}
           \subseteq NodeStatuses
BY DEF NodeStatuses, Resuming, Gates

\* "Never written" is an attempt.
LEMMA ZeroAttempt == 0 \in Attempts
BY AttemptsAssumption DEF Attempts

\* A soft failure keeps everything but the status.
LEMMA SoftFailQuiet ==
    ASSUME NEW v \in Values
    PROVE  Quiet(v, SoftFail(v)) /\ SoftFail(v).status = "failed"
BY Statuses DEF Quiet, SameRun, SameGuidance, SoftFail, Values

\* parse_and_validate leaves the run and its guidance as they are.
LEMMA ParseQuiet ==
    ASSUME NEW v \in Values, NEW w \in ParseAndValidate(v)
    PROVE  Quiet(v, w) /\ w.status # "completed"
BY SoftFailQuiet, Statuses
   DEF ParseAndValidate, Quiet, SameRun, SameGuidance, Values

\* So does extract_figures, which never fails the run.
LEMMA FiguresQuiet ==
    ASSUME NEW v \in Values, NEW w \in ExtractFigures(v)
    PROVE  Quiet(v, w) /\ w.status \notin {"failed", "completed"}
BY Statuses DEF ExtractFigures, Quiet, SameRun, SameGuidance, Values

\* So does classify_sections, which never fails it either.
LEMMA SectionsQuiet ==
    ASSUME NEW v \in Values, NEW w \in ClassifySections(v)
    PROVE  Quiet(v, w) /\ w.status \notin {"failed", "completed"}
BY Statuses DEF ClassifySections, Quiet, SameRun, SameGuidance, Values

\* So does extract_entities, which may fail it.
LEMMA EntitiesQuiet ==
    ASSUME NEW v \in Values, NEW w \in ExtractEntities(v)
    PROVE  Quiet(v, w) /\ w.status # "completed"
<1> DEFINE x == [v EXCEPT !.entities = v.attempt]
<1>1. Quiet(v, x) /\ x \in Values
  BY DEF Quiet, SameRun, SameGuidance, Values
<1>2. CASE w = [x EXCEPT !.status = "extracting_entities"]
  BY <1>1, <1>2, Statuses DEF Quiet, SameRun, SameGuidance, Values
<1>3. CASE w = SoftFail(x)
  BY <1>1, <1>3, SoftFailQuiet DEF Quiet, SameRun, SameGuidance
<1> QED
  BY <1>2, <1>3 DEF ExtractEntities

\* normalize touches neither the run nor its guidance, and cannot fail softly.
LEMMA NormalizeQuiet ==
    ASSUME NEW v \in Values, NEW w \in Normalize(v)
    PROVE  Quiet(v, w) /\ w.status \notin {"failed", "completed"}
BY Statuses DEF Normalize, Quiet, SameRun, SameGuidance, Values

\* Nor does or can serialize_stix.
LEMMA SerializeQuiet ==
    ASSUME NEW v \in Values, NEW w \in SerializeStix(v)
    PROVE  Quiet(v, w) /\ w.status \notin {"failed", "completed"}
<1>1. PICK ok \in Either :
          w = [v EXCEPT !.status = "serializing", !.bundleValid = ok]
  BY DEF SerializeStix
<1>2. ok \in BOOLEAN
  BY DEF Either
<1> QED
  BY <1>1, <1>2, Statuses DEF Quiet, SameRun, SameGuidance, Values

\* validate_bundle fails the run only with the flag its router reads.
LEMMA ValidateQuiet ==
    ASSUME NEW v \in Values, NEW w \in ValidateBundle(v)
    PROVE  /\ Quiet(v, w) /\ w.status # "completed"
           /\ w.status = "failed" => w.bundleFailed
<1>1. CASE w = [v EXCEPT !.status = "serializing", !.bundleFailed = FALSE]
  BY <1>1, Statuses DEF Quiet, SameRun, SameGuidance, Values
<1>2. CASE w = [SoftFail(v) EXCEPT !.bundleFailed = TRUE]
  <2> DEFINE x == SoftFail(v)
  <2>1. Quiet(v, x) /\ x.status = "failed" /\ w = [x EXCEPT !.bundleFailed = TRUE]
    BY <1>2, SoftFailQuiet
  <2> HIDE DEF x
  <2> QED
    BY <2>1 DEF Quiet, SameRun, SameGuidance, Values
<1> QED
  BY <1>1, <1>2 DEF ValidateBundle

\* distribute may fail the run and touches no guidance.
LEMMA DistributeQuiet ==
    ASSUME NEW v \in Values, NEW w \in Distribute(v)
    PROVE  Quiet(v, w)
<1> DEFINE x == [v EXCEPT !.written = v.attempt]
<1>1. Quiet(v, x) /\ x \in Values
  BY DEF Quiet, SameRun, SameGuidance, Values
<1>2. CASE w = [x EXCEPT !.status = "completed"]
  BY <1>1, <1>2, Statuses DEF Quiet, SameRun, SameGuidance, Values
<1>3. CASE w = SoftFail(x)
  BY <1>1, <1>3, SoftFailQuiet DEF Quiet, SameRun, SameGuidance
<1>4. w = [x EXCEPT !.status = "completed"] \/ w = SoftFail(x)
  BY DEF Distribute
<1> QED
  BY <1>2, <1>3, <1>4

\* synthesize_feedback keeps a failure a failure.
LEMMA SynthesizeQuiet ==
    ASSUME NEW v \in Values, NEW w \in SynthesizeFeedback(v)
    PROVE  Quiet(v, w) /\ (v.status = "failed" => w.status = "failed")
<1> DEFINE st == IF v.status = "failed" THEN "failed" ELSE "completed"
<1>1. w = [v EXCEPT !.status = st]
  BY DEF SynthesizeFeedback
<1>2. st \in NodeStatuses /\ (v.status = "failed" => st = "failed")
  BY Statuses
<1> HIDE DEF st
<1> QED
  BY <1>1, <1>2 DEF Quiet, SameRun, SameGuidance, Values

\* The chunker consumes both kinds of rechunk guidance unless it fails.
LEMMA ChunksContract ==
    ASSUME NEW v \in Values, NEW w \in ChunkBehaviors(v)
    PROVE  /\ SameRun(v, w) /\ w.status # "completed"
           /\ w.gate2Reviews = v.gate2Reviews
           /\ w.techRerun = v.techRerun
           /\ w.status # "failed" => w.chunkRerun = 0 /\ w.chunkFeedback = 0
<1>1. CASE \E some \in Either :
               w = [v EXCEPT !.status = "chunking", !.chunks = some,
                             !.chunkFeedback = 0, !.chunkRerun = 0]
  <2>1. PICK some \in Either :
               w = [v EXCEPT !.status = "chunking", !.chunks = some,
                             !.chunkFeedback = 0, !.chunkRerun = 0]
    BY <1>1
  <2>2. some \in BOOLEAN
    BY DEF Either
  <2> QED
    BY <2>1, <2>2, Statuses, ZeroAttempt DEF SameRun, Values
<1>2. CASE w = [SoftFail(v) EXCEPT !.chunks = FALSE]
  <2> DEFINE x == SoftFail(v)
  <2>1. Quiet(v, x) /\ x.status = "failed" /\ w = [x EXCEPT !.chunks = FALSE]
    BY <1>2, SoftFailQuiet
  <2> HIDE DEF x
  <2> QED
    BY <2>1 DEF Quiet, SameRun, SameGuidance, Values
<1> QED
  BY <1>1, <1>2 DEF ChunkBehaviors

\* The extractor consumes its guidance unless it fails or has no chunk.
LEMMA TechniquesContract ==
    ASSUME NEW v \in Values, NEW w \in ExtractTechniques(v)
    PROVE  /\ SameRun(v, w) /\ w.status # "completed"
           /\ w.gate2Reviews = v.gate2Reviews
           /\ w.chunks = v.chunks
           /\ w.chunkRerun = v.chunkRerun /\ w.chunkFeedback = v.chunkFeedback
           /\ w.techRerun \in {0, v.techRerun}
           /\ w.status # "failed" /\ w.chunks => w.techRerun = 0
<1>1. CASE w = [v EXCEPT !.status = "extracting_techniques", !.techRerun = 0]
  BY <1>1, Statuses, ZeroAttempt DEF SameRun, Values
<1>2. CASE ~v.chunks /\ w = [v EXCEPT !.status = "extracting_techniques"]
  BY <1>2, Statuses DEF SameRun, Values
<1>3. CASE w = SoftFail(v)
  BY <1>3, SoftFailQuiet DEF Quiet, SameGuidance, SameRun
<1> QED
  BY <1>1, <1>2, <1>3 DEF ExtractTechniques

\* Drafting consumes the technique overrides unless it fails or has no chunk.
LEMMA DraftsContract ==
    ASSUME NEW v \in Values, NEW w \in DraftProcedures(v)
    PROVE  /\ SameRun(v, w) /\ w.status # "completed"
           /\ w.gate2Reviews = v.gate2Reviews
           /\ w.chunks = v.chunks
           /\ w.chunkRerun = v.chunkRerun /\ w.chunkFeedback = v.chunkFeedback
           /\ w.techRerun = v.techRerun
           /\ w.status # "failed" /\ w.chunks => w.overrides = 0
<1>1. CASE \E some \in Either :
               w = [v EXCEPT !.status = "drafting", !.drafts = some,
                             !.overrides = 0]
  <2>1. PICK some \in Either :
               w = [v EXCEPT !.status = "drafting", !.drafts = some,
                             !.overrides = 0]
    BY <1>1
  <2>2. some \in BOOLEAN
    BY DEF Either
  <2> QED
    BY <2>1, <2>2, Statuses, ZeroAttempt DEF SameRun, Values
<1>2. CASE w = [SoftFail(v) EXCEPT !.drafts = FALSE]
  <2> DEFINE x == SoftFail(v)
  <2>1. Quiet(v, x) /\ x.status = "failed" /\ w = [x EXCEPT !.drafts = FALSE]
    BY <1>2, SoftFailQuiet
  <2> HIDE DEF x
  <2> QED
    BY <2>1 DEF Quiet, SameRun, SameGuidance, Values
<1>3. CASE ~v.chunks /\ w = [v EXCEPT !.status = "drafting", !.drafts = FALSE]
  BY <1>3, Statuses DEF SameRun, Values
<1> QED
  BY <1>1, <1>2, <1>3 DEF DraftProcedures

\* Gate 0 always hands over to the chunker.
LEMMA Gate0Contract ==
    ASSUME NEW v \in Values, NEW w \in Gate0(v)
    PROVE  Quiet(v, w) /\ w.status \notin {"failed", "completed"}
<1> DEFINE st == Resuming["gate_0"]
           pending == ("gate_0" \notin v.gates) /\ v.gate0Reviews
<1>1. w = [v EXCEPT !.status = st, !.gate0Reviews = pending]
  BY DEF Gate0
<1>2. st \in NodeStatuses /\ st \notin {"failed", "completed"}
  BY Statuses DEF Gates
<1>3. pending \in BOOLEAN
  BY DEF Values
<1> HIDE DEF st, pending
<1> QED
  BY <1>1, <1>2, <1>3 DEF Quiet, SameRun, SameGuidance, Values

\* The chunk gate routes back exactly on a reject it was switched on to see, and
\* asks for a rerun only then.
LEMMA GateChunksContract ==
    ASSUME NEW v \in Values, NEW w \in GateChunks(v)
    PROVE  /\ SameRun(v, w)
           /\ w.gate2Reviews = v.gate2Reviews
           /\ w.status \notin {"failed", "completed"}
           /\ w.chunkFeedback = v.chunkFeedback /\ w.techRerun = v.techRerun
           /\ "gate_chunks" \in v.gates /\ v.chunkReviews = "reject"
              => w.chunksRouting = "chunk_behaviors"
           /\ "gate_chunks" \notin v.gates \/ v.chunkReviews # "reject"
              => w.chunksRouting = "none" /\ w.chunkRerun = v.chunkRerun
<1> DEFINE st == Resuming["gate_chunks"]
           x  == [v EXCEPT !.status = st]
<1>1. st \in NodeStatuses /\ st \notin {"failed", "completed"}
  BY Statuses DEF Gates
<1> HIDE DEF st
<1>2. Quiet(v, x) /\ x \in Values /\ x.status = st
  BY <1>1 DEF Quiet, SameRun, SameGuidance, Values
<1> USE DEF Quiet, SameRun, SameGuidance
<1>3. CASE "gate_chunks" \notin v.gates
  <2>1. w = [x EXCEPT !.chunksRouting = "none"]
    BY <1>3 DEF GateChunks, st
  <2> HIDE DEF x
  <2> QED
    BY <2>1, <1>1, <1>2, <1>3 DEF Values
<1>4. CASE "gate_chunks" \in v.gates /\ v.chunkReviews = "reject"
  <2>1. w = [x EXCEPT !.chunkReviews = "none",
                      !.chunksRouting = "chunk_behaviors",
                      !.chunkRerun = v.attempt]
    BY <1>4 DEF GateChunks, st
  <2>2. v.attempt \in Attempts
    BY DEF Values
  <2> HIDE DEF x
  <2> QED
    BY <2>1, <2>2, <1>1, <1>2, <1>4 DEF Values
<1>5. CASE "gate_chunks" \in v.gates /\ v.chunkReviews # "reject"
  <2>1. PICK some \in Either :
            w = [x EXCEPT !.chunkReviews = "none", !.chunksRouting = "none",
                          !.chunks = some]
    BY <1>5 DEF GateChunks, st
  <2>2. some \in BOOLEAN
    BY DEF Either
  <2> HIDE DEF x
  <2> QED
    BY <2>1, <2>2, <1>1, <1>2, <1>5 DEF Values
<1> QED
  BY <1>3, <1>4, <1>5

\* A rejection at the procedure gate goes to one of two nodes, or names none.
LEMMA RoutingValues ==
    ASSUME NEW v
    PROVE  RejectionRouting(v) \in {"none", "chunk_behaviors", "extract_techniques"}
BY DEF RejectionRouting

\* The update the procedure gate makes keeps the channels in their types.
LEMMA Gate1Record ==
    ASSUME NEW v \in Values, NEW st \in NodeStatuses,
           NEW r \in {"none", "chunk_behaviors", "extract_techniques"},
           NEW a \in BOOLEAN,
           NEW t \in Attempts, NEW c \in Attempts, NEW o \in Attempts
    PROVE  [v EXCEPT !.status = st, !.gate1Routing = r,
                     !.gate1Reviews = "none", !.approved = a,
                     !.techRerun = t, !.chunkFeedback = c, !.overrides = o]
               \in Values
BY DEF Values

\* The procedure gate routes where its reviews ask, writes rechunk guidance only
\* on its way to the chunker and stamps guidance with the current attempt.
LEMMA Gate1Contract ==
    ASSUME NEW v \in Values, NEW w \in Gate1(v)
    PROVE  /\ SameRun(v, w)
           /\ w.gate2Reviews = v.gate2Reviews
           /\ w.status \notin {"failed", "completed"}
           /\ w.chunkRerun = v.chunkRerun
           /\ w.techRerun \in {v.techRerun, v.attempt}
           /\ w.gate1Routing \in {"none", "chunk_behaviors", "extract_techniques"}
           /\ w.gate1Routing # "chunk_behaviors"
              => w.chunkFeedback = v.chunkFeedback
           /\ "gate_1" \in v.gates => w.gate1Routing = RejectionRouting(v)
           /\ "gate_1" \notin v.gates => w.gate1Routing = "none"
<1> DEFINE st == Resuming["gate_1"]
           r  == RejectionRouting(v)
<1>1. st \in NodeStatuses /\ st \notin {"failed", "completed"}
  BY Statuses DEF Gates
<1>2. r \in {"none", "chunk_behaviors", "extract_techniques"}
  BY RoutingValues
<1>3. /\ v.drafts \in BOOLEAN /\ v.attempt \in Attempts
      /\ v.techRerun \in Attempts /\ v.chunkFeedback \in Attempts
      /\ v.overrides \in Attempts
  BY DEF Values
<1>4. CASE "gate_1" \notin v.gates
  <2>1. w = [v EXCEPT !.status = st, !.gate1Routing = "none",
                      !.approved = v.drafts]
    BY <1>4 DEF Gate1
  <2> HIDE DEF st
  <2> QED
    BY <2>1, <1>1, <1>3, <1>4 DEF SameRun, Values
<1>5. CASE "gate_1" \in v.gates
  <2>1. PICK a \in Approvals(v), k \in Either : w = Gate1Reviewed(v, a, k)
    BY <1>5 DEF Gate1
  <2>2. a \in BOOLEAN
    BY <1>3 DEF Approvals
  <2> DEFINE t == IF r = "extract_techniques" THEN v.attempt ELSE v.techRerun
             c == IF r = "chunk_behaviors" THEN v.attempt ELSE v.chunkFeedback
             o == IF r = "chunk_behaviors"
                  THEN IF k THEN v.attempt ELSE 0 ELSE v.overrides
  <2>3. t \in {v.techRerun, v.attempt}
    OBVIOUS
  <2>4. r # "chunk_behaviors" => c = v.chunkFeedback
    OBVIOUS
  <2>5. t \in Attempts /\ c \in Attempts /\ o \in Attempts
    BY <1>3, ZeroAttempt
  <2>6. w = [v EXCEPT !.status = st, !.gate1Routing = r,
                      !.gate1Reviews = "none", !.approved = a,
                      !.techRerun = t, !.chunkFeedback = c, !.overrides = o]
    BY <2>1 DEF Gate1Reviewed
  <2> HIDE DEF st, r, t, c, o
  <2>7. w \in Values
    BY <2>2, <2>5, <2>6, <1>1, <1>2, Gate1Record
  <2>8. /\ w.attempt = v.attempt /\ w.gates = v.gates
        /\ w.gate2Reviews = v.gate2Reviews
        /\ w.status = st /\ w.chunkRerun = v.chunkRerun
        /\ w.techRerun = t /\ w.gate1Routing = r /\ w.chunkFeedback = c
    BY <2>6 DEF Values
  <2> QED
    BY <2>3, <2>4, <2>7, <2>8, <1>1, <1>2, <1>5 DEF r, SameRun
<1> QED
  BY <1>4, <1>5

\* The relationship gate approves exactly what it was asked to, and consumes a
\* per-relationship submission.
LEMMA Gate2Contract ==
    ASSUME NEW v \in Values, NEW w \in Gate2(v)
    PROVE  /\ SameRun(v, w)
           /\ SameGuidance(v, w)
           /\ w.status \notin {"failed", "completed"}
           /\ w.gate2Reviews => v.gate2Reviews /\ "gate_2" \notin v.gates
           /\ "gate_2" \notin v.gates \/ v.gate2Reviews \/ v.gate2Review = "approve"
              => w.gate2Approved
           /\ "gate_2" \in v.gates /\ ~v.gate2Reviews /\ v.gate2Review # "approve"
              => ~w.gate2Approved
<1> DEFINE st == Resuming["gate_2"]
           x  == [v EXCEPT !.status = st]
<1>1. st \in NodeStatuses /\ st \notin {"failed", "completed"}
  BY Statuses DEF Gates
<1> HIDE DEF st
<1>2. Quiet(v, x) /\ x \in Values /\ x.status = st
  BY <1>1 DEF Quiet, SameRun, SameGuidance, Values
<1> USE DEF Quiet, SameRun, SameGuidance
<1>3. CASE "gate_2" \notin v.gates
  <2>1. w = [x EXCEPT !.gate2Approved = TRUE]
    BY <1>3 DEF Gate2, st
  <2> HIDE DEF x
  <2> QED
    BY <2>1, <1>1, <1>2, <1>3 DEF Values
<1>4. CASE "gate_2" \in v.gates /\ v.gate2Reviews
  <2>1. w = [x EXCEPT !.gate2Approved = TRUE, !.gate2Reviews = FALSE]
    BY <1>4 DEF Gate2, st
  <2> HIDE DEF x
  <2> QED
    BY <2>1, <1>1, <1>2, <1>4 DEF Values
<1>5. CASE "gate_2" \in v.gates /\ ~v.gate2Reviews
  <2> DEFINE ok == v.gate2Review = "approve"
  <2>1. w = [x EXCEPT !.gate2Approved = ok]
    BY <1>5 DEF Gate2, st
  <2>2. ok \in BOOLEAN
    OBVIOUS
  <2> HIDE DEF x, ok
  <2>3. /\ SameRun(v, w) /\ SameGuidance(v, w) /\ w.status \notin {"failed", "completed"}
        /\ w.gate2Reviews = v.gate2Reviews /\ w.gate2Approved = ok
    BY <2>1, <2>2, <1>1, <1>2 DEF Values
  <2> QED
    BY <2>3, <1>5 DEF ok
<1> QED
  BY <1>3, <1>4, <1>5

-----------------------------------------------------------------------------
(***************************************************************************)
(* Start and submissions.                                                  *)
(***************************************************************************)
\* A thread no run has touched is a state of the channels.
LEMMA NoValuesTyped == NoValues \in Values
BY ZeroAttempt, Statuses DEF NoValues, Values

\* The initial state merged over a checkpoint keeps the channels in their types.
LEMMA InitialStateRecord ==
    ASSUME NEW v \in Values, NEW k \in Attempts, NEW gs \in SUBSET Gates,
           NEW st \in NodeStatuses, NEW z \in Attempts
    PROVE  [v EXCEPT !.attempt = k, !.gates = gs, !.status = st,
                     !.error = FALSE, !.techRerun = z] \in Values
BY DEF Values

\* A started attempt begins without technique guidance and not failed.
LEMMA InitialStateContract ==
    ASSUME NEW v \in Values, NEW gates \in GateChoices, v.attempt < MaxAttempts
    PROVE  LET w == InitialState(v, gates)
           IN  /\ w \in Values
               /\ w.attempt = v.attempt + 1
               /\ w.status = "parsing"
               /\ w.techRerun = 0
               /\ w.gate2Reviews = v.gate2Reviews
<1> DEFINE k == v.attempt + 1
<1>1. k \in Attempts
  BY AttemptsAssumption DEF Values, Attempts
<1>2. gates \in SUBSET Gates
  BY GatesAssumption
<1>3. InitialState(v, gates) =
          [v EXCEPT !.attempt = k, !.gates = gates, !.status = "parsing",
                    !.error = FALSE, !.techRerun = 0]
  BY DEF InitialState
<1>4. "parsing" \in NodeStatuses
  BY Statuses
<1> HIDE DEF k
<1>5. InitialState(v, gates) \in Values
  <2>1. [v EXCEPT !.attempt = k, !.gates = gates, !.status = "parsing",
                  !.error = FALSE, !.techRerun = 0] \in Values
    BY <1>1, <1>2, <1>4, ZeroAttempt, InitialStateRecord
  <2> QED
    BY <2>1, <1>3
<1>6. /\ InitialState(v, gates).attempt = k
      /\ InitialState(v, gates).status = "parsing"
      /\ InitialState(v, gates).techRerun = 0
      /\ InitialState(v, gates).gate2Reviews = v.gate2Reviews
  BY <1>3 DEF Values
<1> QED
  BY <1>5, <1>6 DEF k

\* A submission fills the channel of its gate and changes nothing else.
LEMMA SubmitContract ==
    ASSUME NEW v \in Values, NEW g \in Gates, NEW d \in Decisions[g]
    PROVE  LET w == Submit(g, d, v)
           IN  /\ SameRun(v, w)
               /\ SameGuidance(v, w)
               /\ w.status = v.status /\ w.chunks = v.chunks /\ w.drafts = v.drafts
               /\ g = "gate_chunks" => w.chunkReviews = d
               /\ g = "gate_1" => w.gate1Reviews = d
               /\ g = "gate_2" /\ d = "per_relationship" => w.gate2Reviews
               /\ g = "gate_2" /\ d # "per_relationship" => w.gate2Review = d
               /\ g # "gate_2" \/ d # "per_relationship"
                      => w.gate2Reviews = v.gate2Reviews
<1> USE DEF SameRun, SameGuidance
<1>1. CASE g = "gate_0"
  <2>1. Submit(g, d, v) = [v EXCEPT !.gate0Reviews = TRUE]
    BY <1>1 DEF Submit
  <2> QED
    BY <2>1, <1>1 DEF Values
<1>2. CASE g = "gate_chunks"
  <2>1. Submit(g, d, v) = [v EXCEPT !.chunkReviews = d]
    BY <1>2 DEF Submit
  <2>2. d \in {"approve", "reject"}
    BY <1>2 DEF Decisions
  <2> QED
    BY <2>1, <2>2, <1>2 DEF Values
<1>3. CASE g = "gate_1"
  <2>1. Submit(g, d, v) = [v EXCEPT !.gate1Reviews = d]
    BY <1>3 DEF Submit
  <2>2. d \in {"approve", "boundary", "technique"}
    BY <1>3 DEF Decisions
  <2> QED
    BY <2>1, <2>2, <1>3 DEF Values
<1>4. CASE g = "gate_2" /\ d = "per_relationship"
  <2>1. Submit(g, d, v) = [v EXCEPT !.gate2Reviews = TRUE]
    BY <1>4 DEF Submit
  <2> QED
    BY <2>1, <1>4 DEF Values
<1>5. CASE g = "gate_2" /\ d # "per_relationship"
  <2>1. Submit(g, d, v) = [v EXCEPT !.gate2Review = d]
    BY <1>5 DEF Submit
  <2>2. d \in {"approve", "reject"}
    BY <1>5 DEF Decisions
  <2> QED
    BY <2>1, <2>2, <1>5 DEF Values
<1> QED
  BY <1>1, <1>2, <1>3, <1>4, <1>5 DEF Gates

-----------------------------------------------------------------------------
(***************************************************************************)
(* A whole step: node and edge.                                            *)
(***************************************************************************)
\* What a checkpoint with channels v and n next never contradicts: work goes on
\* only from a status that is not final, and "completed" is the status of a run
\* that has written its graph.
Sound(v, n) ==
    /\ v \in Values /\ n \in Nodes \cup {End}
    /\ n \notin {End, "synthesize_feedback"}
           => v.status \notin {"failed", "completed"}
    /\ v.status = "completed" => n \in {End, "synthesize_feedback"}
    /\ v.status = "completed" \/ n = "synthesize_feedback"
           => v.written = v.attempt

\* Before distribute no node claims that the run is complete.
LEMMA WorkIsNotCompletion ==
    ASSUME NEW v \in Values,
           NEW n \in Nodes \ {"distribute", "synthesize_feedback"},
           NEW w \in Effect(n, v)
    PROVE  w.status # "completed"
<1>1. CASE n \in Gates
  BY <1>1, Gate0Contract, GateChunksContract, Gate1Contract, Gate2Contract
     DEF Effect, Gates
<1>2. CASE n \in {"parse_and_validate", "extract_figures", "classify_sections",
                  "extract_entities", "chunk_behaviors"}
  BY <1>2, ParseQuiet, FiguresQuiet, SectionsQuiet, EntitiesQuiet,
     ChunksContract DEF Effect
<1>3. CASE n \in {"extract_techniques", "draft_procedures", "normalize",
                  "serialize_stix", "validate_bundle"}
  BY <1>3, TechniquesContract, DraftsContract, NormalizeQuiet, SerializeQuiet,
     ValidateQuiet DEF Effect
<1> QED
  BY <1>1, <1>2, <1>3 DEF Nodes, Workers

\* Whatever distribute returns belongs to this attempt's graph write, and is
\* final.
LEMMA DistributeWrites ==
    ASSUME NEW v \in Values, NEW w \in Distribute(v)
    PROVE  w.written = w.attempt /\ w.status \in {"failed", "completed"}
<1> DEFINE x == [v EXCEPT !.written = v.attempt]
<1>1. x \in Values /\ x.written = x.attempt
  BY DEF Values
<1>2. w = [x EXCEPT !.status = "completed"] \/ w = SoftFail(x)
  BY DEF Distribute
<1> HIDE DEF x
<1> QED
  BY <1>1, <1>2 DEF SoftFail, Values

\* The feedback synthesis ends with the status distribute left it, a failure or
\* a completion, and writes nothing.
LEMMA SynthesizeEnds ==
    ASSUME NEW v \in Values, NEW w \in SynthesizeFeedback(v)
    PROVE  /\ w.written = v.written
           /\ w.status = IF v.status = "failed" THEN "failed" ELSE "completed"
<1> DEFINE st == IF v.status = "failed" THEN "failed" ELSE "completed"
<1>1. w = [v EXCEPT !.status = st]
  BY DEF SynthesizeFeedback
<1> HIDE DEF st
<1>2. w.written = v.written /\ w.status = st
  BY <1>1 DEF Values
<1> QED
  BY <1>2 DEF st

\* Every node works for the run it was started in.
LEMMA EffectSameRun ==
    ASSUME NEW v \in Values, NEW n \in Nodes, NEW w \in Effect(n, v)
    PROVE  SameRun(v, w)
<1>1. CASE n \in Gates
  BY <1>1, Gate0Contract, GateChunksContract, Gate1Contract, Gate2Contract
     DEF Effect, Gates, Quiet
<1>2. CASE n \in {"parse_and_validate", "extract_figures", "classify_sections",
                  "extract_entities", "chunk_behaviors", "extract_techniques"}
  BY <1>2, ParseQuiet, FiguresQuiet, SectionsQuiet, EntitiesQuiet,
     ChunksContract, TechniquesContract DEF Effect, Quiet
<1>3. CASE n \in {"draft_procedures", "normalize", "serialize_stix",
                  "validate_bundle", "distribute", "synthesize_feedback"}
  BY <1>3, DraftsContract, NormalizeQuiet, SerializeQuiet, ValidateQuiet,
     DistributeQuiet, SynthesizeQuiet DEF Effect, Quiet
<1> QED
  BY <1>1, <1>2, <1>3 DEF Nodes, Workers

\* An edge leads on to more work only from a run that has not failed.
LEMMA EdgeStopsFailures ==
    ASSUME NEW v \in Values,
           NEW n \in Nodes \ {"distribute", "synthesize_feedback"},
           NEW w \in Effect(n, v), w.status = "failed"
    PROVE  Route(n, w) = End
<1>1. CASE n = "validate_bundle"
  BY <1>1, ValidateQuiet DEF Effect, Route, RouteAfterValidate
<1>2. CASE n \in {"gate_0", "gate_chunks", "gate_1", "gate_2"}
  BY <1>2, Gate0Contract, GateChunksContract, Gate1Contract, Gate2Contract
     DEF Effect
<1>3. CASE n \in {"extract_figures", "classify_sections", "normalize",
                  "serialize_stix"}
  BY <1>3, FiguresQuiet, SectionsQuiet, NormalizeQuiet, SerializeQuiet DEF Effect
<1>4. CASE n \in {"parse_and_validate", "extract_entities", "chunk_behaviors",
                  "extract_techniques", "draft_procedures"}
  BY <1>4 DEF Route, RouteAfterParse, RouteUnlessFailed, RouteAfterChunkBehaviors
<1> QED
  BY <1>1, <1>2, <1>3, <1>4 DEF Nodes, Workers, Gates

\* Only distribute leads to the feedback synthesis, and every edge to a node.
LEMMA RouteTyped ==
    ASSUME NEW v \in Values, NEW n \in Nodes, NEW w \in Effect(n, v)
    PROVE  /\ Route(n, w) \in Nodes \cup {End}
           /\ Route(n, w) = "synthesize_feedback" <=> n = "distribute"
           /\ n = "synthesize_feedback" => Route(n, w) = End
<1>1. n = "gate_1" => w.gate1Routing
                          \in {"none", "chunk_behaviors", "extract_techniques"}
  BY Gate1Contract DEF Effect
<1>2. CASE n \in Gates
  BY <1>1, <1>2 DEF Gates, Nodes, Workers, Route, RouteAfterGateChunks,
                    RouteAfterGate1, RouteAfterGate2
<1>3. CASE n \in Workers
  BY <1>3 DEF Gates, Nodes, Workers, Route, RouteAfterParse, RouteUnlessFailed,
              RouteAfterChunkBehaviors, RouteAfterValidate, End
<1> QED
  BY <1>2, <1>3 DEF Nodes

\* A node that runs on a sound checkpoint leaves a sound one, for the same run,
\* and a failed run failed.
LEMMA StepSound ==
    ASSUME NEW v, NEW n \in Nodes, Sound(v, n), NEW w \in Effect(n, v)
    PROVE  /\ SameRun(v, w)
           /\ Sound(w, Route(n, w))
           /\ v.status = "failed" => w.status = "failed"
<1>1. v \in Values
  BY DEF Sound
<1>2. SameRun(v, w)
  BY <1>1, EffectSameRun
<1>3. CASE n \notin {"distribute", "synthesize_feedback"}
  <2>1. w.status # "completed"
    BY <1>1, <1>3, WorkIsNotCompletion
  <2>2. w.status = "failed" => Route(n, w) = End
    BY <1>1, <1>3, EdgeStopsFailures
  <2>3. v.status # "failed"
    BY <1>3 DEF Sound, Nodes, Workers, Gates, End
  <2> QED
    BY <1>1, <1>2, <1>3, <2>1, <2>2, <2>3, RouteTyped DEF Sound, SameRun
<1>4. CASE n = "distribute"
  <2>1. w \in Distribute(v) /\ Route(n, w) = "synthesize_feedback"
    BY <1>4 DEF Effect, Route
  <2>2. v.status # "failed"
    BY <1>4 DEF Sound, End
  <2> QED
    BY <1>1, <1>2, <2>1, <2>2, DistributeWrites
       DEF Sound, SameRun, Nodes, Workers
<1>5. CASE n = "synthesize_feedback"
  <2>1. w \in SynthesizeFeedback(v) /\ Route(n, w) = End
    BY <1>5 DEF Effect, Route
  <2>2. v.written = v.attempt
    BY <1>5 DEF Sound
  <2> QED
    BY <1>1, <1>2, <2>1, <2>2, SynthesizeEnds DEF Sound, SameRun
<1> QED
  BY <1>3, <1>4, <1>5

=============================================================================
