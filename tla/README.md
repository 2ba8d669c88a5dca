# A formal model of the procedure extraction pipeline

The repository turns a threat report into a STIX bundle: a LangGraph graph of
sixteen nodes runs under a FastAPI process, pauses before four review gates,
and mirrors its progress into a Postgres row that a Kanban board polls. This
directory models the parts where the difficult behaviour lives: the graph's
channels and edges across rejections and retries; the runner that several
sessions, detached tasks, an unattended reviewer, exceptions and restarts act
on at once; the flow of procedures, which the chunker, three gates,
normalization and the serializer each rewrite; the calls to the model, with
their cache and their one budget of attempts, as concurrent figures use them;
what becomes of the reviewed entities and drafts as a bundle is assembled and
repaired; the transactions that write it to the graph, with retries and an undo
between any two; and the learned rules that runs read, judge and write at once.

## Inventory

| Part | State | Operations | Interacts through |
|---|---|---|---|
| Extraction graph (`graph/`, `nodes/`) | the checkpointed channels of `PipelineState` and the next node | 16 nodes, 7 routers, pause before each gate | reads the submissions routes write into channels |
| Gate nodes (`nodes/gates.py`) | the channels of each gate | apply, reject, auto-approve, hand guidance to a rerun | routing channels, guidance channels |
| Flow of procedures (`nodes/`) | `chunks`, `chunk_operators`, `chunk_conditions`, the drafts' sequencing, the preview | drop, merge, edit, relink, reorder, remove a row, infer operators, bridge, route | channels of the state, from `chunk_behaviors` to `serialize_stix` |
| Runner (`api/routes/pipeline.py`) | one asyncio task per run, in memory only | launch, cancel, stream and sync, skip, auto-apply, park, fail | graph, row, WebSocket, reviewer |
| Gate routes (`api/routes/gates.py`) | none of their own | fetch what is pending, submit | checkpoint id as token, row, runner |
| Source queue (`services/queue.py`) | the source row: status, error, counts, claim | create, claim, update, clear, delete | board polls it, runner writes it |
| AI reviewer (`services/reviewer/`) | one row per gate visit | review, convert, count visits | called by the runner at a gate |
| WebSocket (`api/routes/ws.py`) | subscribers per thread | connect, broadcast, disconnect | called by the runner |
| LLM adapter (`nodes/llm/llm_adapter.py`) | response cache, shared by all runs | look up, generate, repair, salvage, retry, store | called by seven nodes |
| Figures (`parse.py`, `figure_extraction.py`, `figure_stash.py`) | the stash on disk, the entries of a run | stash, load, fan out behind a semaphore, put back | LLM adapter, `parsed_text` |
| Serializer, validator (`serialization.py`, `bundle_validator.py`) | the bundle and its corrections | assemble, honour gate_2, recover, auto-fix, check | reads every gate's result |
| Distribution (`distribution.py`, `bundle_store.py`, `undo_graph_source.py`) | Neo4j, bundle rows | write in three transactions, store, undo, delete | the catalogue shares the graph |
| Feedback flywheel (`feedback_synthesis.py`, `feedback_patterns.py`, `feedback_examples.py`) | rules, the surfacing ledger, examples, a TTL cache | fetch, enter, score, learn, promote, dismiss | prompts of later runs |
| Board and review panels (`frontend/src`) | open pages and their tokens | run, retry, review, drag | the routes |

What is hard here, and what makes each part correct:

* **Graph.** A retry merges a small initial state over everything the failed
  attempt left; a rejection travels backwards through gates that keep channels.
  Correct means: no work on a failed state, no undone failure, a decision is
  honoured at its own visit only, guidance steers exactly the rerun it was
  written for, nothing ships that was not approved in that very form.
* **Runner and routes.** Only a status string keeps two drivers apart; the row
  is written after the checkpoint; tasks die with the process; gates without an
  analyst are advanced by the runner. Correct means: one driver, a card that
  tells the checkpoint's story, every run comes to rest, bounded automatic
  rewinds, no submission over a checkpoint the analyst has not seen.
* **Flow of procedures.** The graph is kept twice (predecessors by index,
  successors by id) and read by operators, conditions, a preview and a router.
  Correct means: the copies agree, order survives whatever vanishes in between,
  what the analyst edits reaches the bundle and what he removes does not, and
  the bundle says exactly what the last review showed.
* **Reviewer.** A lost count or a failed turn must neither stop the run nor let
  it cycle forever.
* **Adapter and figures.** Refusals, invalid answers and salvaged lists share one
  budget; what is stored is validated again by every later reader; figures end in
  any order. Correct means: a stored row always serves and never changes, the
  Nth picture ends at the Nth placeholder, and no failure keeps the node from
  ending.
* **Serializer and validator.** The preview and the bundle derive the same rows
  twice, by names and by ids; passes repair one list in turn. Correct means: what
  ships is sound as a whole, what the analyst approved ships or is reported,
  what he removed does not ship, no actor is credited with another's work, and
  one round of repairs is enough.
* **Distribution.** Three transactions and a row in another store, retried under
  new ids in a graph the catalogue shares. Correct means: the catalogue is never
  changed, a run that says it completed is whole or says what it lacks, an undo
  leaves nothing, and an ingest that fails leaves no bundle to its retry.
* **Flywheel.** Rows are read before an await and written after it, by several
  runs at once. Correct means: no counter claims more than was judged, nothing
  is judged on machine evidence, and the ledger names every rule a prompt had.
* **WebSocket.** A set of sockets that changes while sends are awaited.

`PROJECT.json` lists each hazard at the line where it bites.

## Modules

* `PipelineNodes` holds no state. It defines the channels (`Values`), each node
  as the set of channel values it may return, each router, and the submissions.
  A channel keeps which decision is in it, whether a list is empty, and, for
  guidance and derived artifacts, the attempt (the `POST /run`) that wrote it.
  A field `attempt` is a ghost: it counts accepted runs.
* `PipelineGraph` drives one thread with one runner: `Start` (run or retry),
  `RunNode`, `SkipDisabled` (the runner resumes past a switched-off gate) and
  `SubmitReview`. `signedOff` and `asked` are ghosts that remember which gates
  approved what is now downstream and what was submitted at this visit. The
  interrupt is `resumed`: a gate runs only once it has been passed.
* `PipelineNodes_proofs` states what each node writes and keeps (the contracts
  both proofs about the graph rest on), `PipelineGraph_proofs` proves the safety
  properties of `PipelineGraph`.
* `SourceCard` is the abstract promise of the board about one source.
* `RunLifecycle` reuses `PipelineNodes` under the real runner: request handlers
  and `stream_with_sync` tasks are processes with a `pc`, a step ends where the
  code awaits. `row` is the source's row, `ckpt` the latest checkpoint, a task
  carries the channels it loaded (as LangGraph does), `page` is a session's
  open review with its checkpoint token. It is shown to implement `SourceCard`
  (`Card` is what the board makes of a row). `RunLifecycle_proofs` proves about it,
  `MCRunLifecycle` adds the symmetry for TLC.
* `FlowRouting` has the pure functions of `attack_operators.py` and
  `attack_conditions.py` on a flow (a function from a chunk to the set of its
  successors): `SpliceAbsent`, `InferOperators`, `ExtractConditions`, the objects
  that are emitted and `RoutePrecedes`. `Reach` is the walk through a flow, in as
  many rounds as there are chunks; `OrderOn` and `Graph`, built from it, are the
  reference definitions the properties compare with.
* `ChunkFlow` follows one run's flow; `MCChunkFlow` has its instances. `chunks`
  holds, for each chunk id, its index, text, root mark, precondition (never
  one, see the divergences) and both copies of its edges; `drafts` the sequencing the drafts inherit; `chunkOperators`,
  `chunkConditions`, `preview`, `removedRows` and `bundle` the channels of those
  names. `pc` is the next node or the awaited submission. Its actions are
  `ChunkBehaviors`, `SubmitChunkReview`, the three paths of `gate_chunks`,
  `DraftProcedures`, `SubmitGate1` (the submission and the gate in one),
  `Normalize`, the two answers of gate_2 and `SerializeStix`. The nodes between them
  that leave the flow alone are skipped; a technique rerun therefore goes straight
  to `draft_procedures`. `ChunkFlow_proofs` proves about both.
* `LlmAdapter` is `call_llm` as several tasks use it: `cache` holds the rows,
  `call` each invocation's `pc`, key and attempt. `Hit`, `Miss`, `Answered`,
  `Invalid`, `Refused`, `Fails` and `Store` end where the code awaits. An answer
  is its shape, the length of its list and how much of that is malformed: what
  the repairs and the salvage tell apart. It is used by
* `FigureExtraction`, one source's figures: `Parse` leaves a stash or none,
  `Gather` loads it or parses again, `Acquire` takes a slot, `StepFigure` is a
  step of its call, `Place` writes the text; `InvokeOther` is another node on the
  same adapter and `Restart` a crash or a retry. `FigureExtraction_proofs` proves
  about both.
* `BundleRepair` is the validator as functions on a bundle (a set of objects and
  a set of relationships): `Recovered`, the passes in the order of `AutoFixed`,
  and `HardFails`. `BundleAssembly` has the rules by which `normalize` derives
  the preview and `serialize_stix` the bundle, each in its own naming.
  `ReviewedBundle` takes a source through `Gate0`, `Draft`, `Normalize`,
  `ReviewRows` or `RejectBatch`, `Serialize` and `Validate`; `MCReviewedBundle`
  is its instance. `ReviewedBundle_proofs` proves first what the passes do to any
  bundle, then the properties of the whole.
* `GraphStore` is the end of a run: `Prepare`, `WriteNodes`, `WriteRels`,
  `WriteDescribes` and `Store` of any number of sources, with `StoreFails`, a
  failed transaction or a stop between them, `FailLater` (the driver fails the run
  after its distribute has returned), `Retry`, `DeleteBundle` and the two
  statements of the undo script. An object is named by its kind and its attempt,
  since every run makes new ids; only the catalogue's keep one.
  `GraphStore_proofs` proves about it, `MCGraphStore` is its instance.
* `FeedbackLoop` follows the rules through overlapping runs: `ReadCandidates`
  and `ReadPinned` or `FetchHit`, `Review`, `ReadSurfacings`, `Close`, `Learn`,
  `Lookup`, `Commit`, and the failure of each, with `Decide` for the analyst.
  Each action ends where the code awaits; `run[s].held` is what a run read before,
  `run[s].wrote` the answer of its synthesis and `run[s].at` the rule of it that is
  being persisted.
  `FeedbackLoop_proofs` proves about it, `MCFeedbackLoop` has its instances.

Definitions named as a mutant, or marked as a bug of the kind, stand just before
the definition they corrupt; no specification uses them. They show that the
property they belong to can fail.

## What each run checks

| Run | Shows |
|---|---|
| `graph` | 7 properties of one thread, with every gate, two gates and no gate on, two attempts, three rejections: no work after a failure, only signed-off work ships, guidance is fresh and consumed, decisions are honoured, runs settle |
| `lifecycle` | 5 invariants with one session, two driver slots, a retry, an exception anywhere, a deletion anywhere that may fail to flush the thread, two unattended gates and an assisted one: at most one driver, also for a deleted source |
| `lifecycle_crash` | two sessions and a restart at any step: fresh submissions, reviewable gate cards |
| `board` | `RunLifecycle` implements `SourceCard`, liveness included, with gates off, enabled and unattended, and pass counts that may be lost: the cap ends a run that would cycle |
| `flow` | 6 properties of the flow on graphs of up to four chunks, with up to two edges the chunker was told not to draw (of a chunk to itself, backwards, from an unknown index): gates keep the order of what stays and every text once, and leave both copies the same graph; the bundle, read through operators, conditions and bridges, orders its procedures exactly as the chunk graph less the removed rows, and a catalog source ships no flow; the ledger explains every change of every pass |
| `figures` | two images, one slot or two, a call of another node and one restart: rows serve and are final, figures find their place, the node ends |
| `bundle` | two procedures, one listed among its own predecessors, eight entities: any two reviewed, any row of the preview removed, edited or one added, one batch rejection, the catalogue reachable or not: what ships is sound, one round of passes is enough, nothing is lost silently but the row of the procedure that precedes itself, removed rows are gone, attribution is grounded |
| `store` | two sources written at once, two attempts each, two faults, an undo and a deletion anywhere: the catalogue is untouched, a completed run is whole or says so, only broken runs leave what no undo reaches, an undo leaves nothing, a bundle row is left by finished ingests only |
| `feedback` | two overlapping runs, a known rule and one to be learned, answers of the LLM that name either, or one twice, one fault, decision or rerun anywhere: evidence is human, counters stay within it, recurrences within what syntheses wrote after a review, the ledger names all that was shown and is closed |
| `retry_overlap` | violated: Retry lands as soon as the row reads failed, while the failed run still reads its state or synthesizes feedback: two drivers |
| `lost_pause` | violated: a restart between the pause's checkpoint and the row strands the card |
| `removed_entity` | violated: a CVE removed at gate_0 is still referred to by the bundle, which then fails to validate |

Twelve more configurations each check one statement of the repository that TLC
finds violated; they are kept for whoever repairs the code:

| Configuration | Violated | What happens |
|---|---|---|
| `MCRunLifecycle_overlap.cfg` | `SubmitsAreFresh` | two sessions pass the token check together |
| `MCRunLifecycle_shadow.cfg` | `BatchIsNotShadowed` | reviews of a dead run outrank the batch decision of its retry |
| `MCRunLifecycle_deleted.cfg` | `NothingRunsForDeleted` | a source is deleted, its thread is not flushed (best effort, `queue.py:353`), and a page still open at its gate submits: `gates.py` looks at the thread and the token only, and launches a driver for a row that is gone (`queue.py:287` cancels the run so that none "outlives its row") |
| `MCChunkFlow_conditions.cfg` | `ConditionEditsSurvive` | a condition edited at the chunk gate is lost in `normalize` |
| `MCChunkFlow_keyerror.cfg` | `SerializeSucceeds` | an operator override with nothing approved fails the serializer |
| `MCChunkFlow_rows.cfg` | `PreviewMatchesSerializer` | an edge bridged around a discarded draft has no row in the preview |
| `MCChunkFlow_ownbranch.cfg` | `BranchReachesAllEffects` | a branch the chunker lists among its own predecessors keeps itself in its `effect_refs`, and `splice_absent` draws no edge to it (`attack_operators.py:324`; `:346` says of each forward edge that the operator leads to its target) |
| `MCGraphStore_twice.cfg` | `OneBundlePerSource` | an exception after `distribute` stored the row (`api/routes/pipeline.py:382`, `:410`) marks the run failed (`:540`), Retry is accepted (`:81`, `:622`) and stores a second bundle; `models/bundle.py` has no unique constraint on the source |
| `MCReviewedBundle_rollup.cfg` | `RollupsFollowEdges` | a per-procedure row removed at gate_2 leaves the actor's rollup of it (`normalization.py:466` calls the actor edges rollups of the per-procedure ones) |
| `MCReviewedBundle_selfrow.cfg` | `EveryRowIsAccountedFor` | the row of a procedure that precedes itself is previewed and approved, and neither ships nor is recorded as dropped (`normalization.py:441`: the preview shows "exactly the reviewable edges the serializer will ship") |
| `MCFeedbackLoop_occurrences.cfg` | `OccurrencesAreRuns` | one answer names a rule twice, or in other words, and bumps it each time (`models/feedback_pattern.py:158`: "Bumped each time the same pattern recurs across runs") |
| `MCFeedbackLoop_samearticle.cfg` | `ShownIsLedgered` | two sources that hold one article share the cache key, and a hit enters nothing: the second run's ledger names none of the rules it was shown (`feedback_patterns.py:533` says "recorded on every call", line 506 that the key is "distinct-across-sources") |

**Bounds.** `MaxAttempts = 2`: what one attempt leaves for another needs two,
and nothing distinguishes the second handover from the third. `MaxRejects` lets
a rejection follow another (three in `graph`, so that a rejection can pass
through both backward edges and return). `_MAX_GATE_AUTO_SKIPS` and
`_MAX_AUTO_REWIND_PASSES` have the code's values, 12 and 1. Two driver slots are
one more than the code should use. One exception and one restart reach every
step they can interrupt. `visits` and `rewinds` saturate one past the limit,
where the code no longer tells counts apart.

In `MCChunkFlow` the chunker's reply is any set of earlier predecessors for each
of `n` chunks (its prompt asks for a kill chain order) and at most `strays` others,
which nothing in the code refuses: the chunk itself, a later one, or an index no
chunk has. So every acyclic flow of that size occurs, and flows with a cycle. Two
strays close a cycle beside an edge to oneself; most scopes have one. Four chunks are
the smallest flow with two neighbours to lose and one left on either side, and with a
branch that meets again. A behaviour draws one of seven scopes (`Deciding`,
`Straying`, `Linking`, `Bundling`, `Reordering`, `Looping`, `Cataloguing`) at the start, a record that caps how much one review
contains; each raises the caps its cases depend on and leaves the others at
zero. Two passes, in `Looping`, let one pass inherit from another. The violated
configurations use the smallest scopes that show them.

`MCFigureExtraction` has two images because two are what a slot can be contended
for by, and what can be swapped; one document repeats an image, so two calls meet
on one key. One retry per call is the code's `DEFAULT_VALIDATION_RETRIES`.
`MCReviewedBundle` has one entity of each kind the rules treat differently and
two of the one they count (`intrusion-set`: one or several decides attribution). An
analyst may retype the tool and one cluster as malware: the second is what makes the
direction fix turn a relationship the serializer built.
`MCGraphStore` needs two sources for an undo to meet another report, and two
attempts for a retry to meet what broke; two faults let the retry break too.
`MCFeedbackLoop` allows one upset, and five answers of the LLM: none, a rule the table
has, a new one, a new one twice, and a new one before a known one. Two rules of an
answer are what a second lookup needs to meet the first one's row, moved by the other
run or not; that is 3 million states.

**The environment.** `Overlap` lets the handlers of two sessions interleave and
`EagerRetry` lets Retry arrive while the failed run is being torn down. The
passing runs switch both off, and `MCRunLifecycle_overlap.cfg` and
`retry_overlap` show what happens with them on: `OneDriver` and `SubmitsAreFresh` hold under those two
assumptions only. `CHECK_DEADLOCK FALSE` everywhere: a completed or deleted
source, or a finished flow, has nothing left to do.

**Fairness.** A started run is one asyncio task on the event loop: whatever it
can do next it does, so `Run` in `PipelineGraph`, and every handler and every
driver in `RunLifecycle`, is weakly fair; so are the node and each figure's call
in `FigureExtraction`. Model calls are assumed to return or
raise (the SDK clients have timeouts). Analysts are never assumed to act.

**Abstractions.** The read of a state and the write of the row within one status
sync are a single step. WebSocket sends are left out: they swallow their errors
and change nothing else. `PATCH /sources/{id}/status` (dragging a card) is an
operator override that can write any status over a running source; it is listed
as a hazard and not modelled yet. Counts other than entities and objects written
behave like these two. In `ChunkFlow` lists are sets; a text is the set of original texts
it contains, with 0 for wording the analyst typed; an operator's default kind is
one value; procedure names are distinct; the flow editor's renumbering is left
out, so an edit names the predecessors it ends up with; gate_2 adds no row, and a
row edit is the removal of the original (`ReviewedBundle` has added and edited
rows, on one edge of the flow).

In `BundleAssembly` an entity's name is the entity, the other objects of a bundle
are one of each kind, and a flow edge is one `precedes`: routing is `ChunkFlow`'s.
In `GraphStore` a bundle is a report, a procedure, an observable and the
techniques with their detections: one object per way of being owned. In
`FeedbackLoop` a correction is named by the rule it is an instance of, ranking
and the relevance pool are left out (every active rule is surfaced), and a run is
reviewed to the end and scored once per source, however often it was sent back. A
retry after a failed `distribute` learns again: from `Learn` to `Commit` nothing depends
on which source a run is of, so for the recurrences an attempt is one more source, of
which the theorem allows any finite number.

## Divergences without a run

Met while modelling, by TLC on the modules above or by reading where the model
leaves the detail out, besides the runs and configurations listed as violated:

* `api/routes/pipeline.py:683`: a retry resets `technique_rerun_feedback`, though
  `technique_extraction.py:1607` keeps it "so a retry still carries the analyst's
  correction".
* `api/routes/pipeline.py:396`: the first sync of a retry writes the previous
  attempt's counts back (`models/source.py:201`: "latest run").
* `nodes/deterministic/normalization.py:79`: with nothing approved gate_2 opens
  on the preview of the attempt before.
* `nodes/gates.py:320`: merging 2 into 1 and then 3 into 2 in one submission keeps
  chunk 2, whose text is then in two chunks; `MergeKeepsText` therefore speaks of
  merges that do not touch each other.
* `nodes/gates.py:452`: a merge bridges around the absorbed chunk and gives the
  survivor none of its edges (`schemas/api.py:597`: "rewired onto the survivor").
* `nodes/deterministic/attack_conditions.py:80`: targets are not pruned to the
  current successors (`gates.py:523` says they are re-validated here).
* `nodes/deterministic/attack_operators.py:217`: an operator with an unresolved
  input is emitted (line 205 says it is skipped).
* `nodes/deterministic/serialization.py:669`: after a discard, an omission or a
  removed row the start references come from the drafts and no longer match the
  bridged flow; marked roots replace the unmarked ones.
* `nodes/gates.py:1386`, `:1411`: a sequencing edit cuts the way through a draft
  discarded in the same review, and leaves a rejected draft's predecessors in one
  copy of the flow only.
* `nodes/gates.py:822`: a row about an entity whose type was corrected at gate_0
  is keyed by the extracted type in the preview and by the corrected one in the
  serializer, so its removal at gate_2 is ignored; `RemovedRowsAreGone` excepts it.
* `nodes/deterministic/serialization.py:2076`: the builders of relationships go by the
  extracted type. A cluster retyped as malware keeps the cluster's relationships, and
  the direction fix turns "cluster uses procedure" into "procedure uses malware": a row
  the analyst approved ships as another, with a correction that says so (`Repaired`).
* `nodes/llm/chunking.py:1386`: predecessors are taken as emitted, so a chunk may be
  among its own. `normalization.py:637` shows the row and the branch's `effect_refs`
  keep it, but `splice_absent` (`attack_operators.py:324`) leaves it out of the routed
  flow, so it never reaches `bundle_validator.py:599`, which would record a drop
  (`MCReviewedBundle_selfrow.cfg`, `MCChunkFlow_ownbranch.cfg`).
* `nodes/llm/chunking.py:1402`: `_postprocess_raw_chunks` copies every field of a reply
  but `precondition`, so no condition of the chunker's gets as far as `_finalize_chunks`,
  although `attack_conditions.py:5` and `graph/state.py:576` say the chunker emits it. Only
  an analyst's condition exists, and `normalize` drops that (`MCChunkFlow_conditions.cfg`):
  no bundle with a procedure has an attack-condition. `FlowRouting` keeps the routing through
  conditions, and the proofs cover it.
* `nodes/deterministic/bundle_validator.py:319`: the index recovery reads is the
  bundle itself, so it never recovers a reference that dangles.
* `nodes/deterministic/serialization.py:1839`: rows are matched by procedure name,
  so two drafts of one name share a key; the models assume distinct names.
* `nodes/gates.py:1803` says that rows added at gate_2 "are not yet materialized
  as SROs"; the serializer emits them.
* `nodes/deterministic/bundle_validator.py:1081`: a sector that differs from its
  standard value in capitals only is left as it is.
* `services/bundle_store.py`: a source file that cannot be read (`PermissionError`)
  loses the whole bundle row.
* `nodes/deterministic/distribution.py:604`: when the second transaction fails, the
  nodes of the first stay without a DESCRIBES edge, and the undo script, which
  starts from those edges, cannot reach them (`OrphansAreOfBrokenRuns` says that
  nothing else can be orphaned).
* `scripts/undo_graph_source.py:23`: objects "shared" by two reports, which the
  script keeps, never exist, since every run gives its objects new ids.
* `services/feedback_patterns.py:152`: the table has no unique constraint, so two
  runs can insert one rule twice; the next lookup raises and drops the rest of
  that run's rules. Its counters are read before an await, so one of two
  overlapping updates is lost (they never exceed their evidence).
* `services/feedback_patterns.py:522`: a result stored after
  `clear_feedback_cache` stays for its TTL.
* `services/feedback_examples.py:247`: a retry of a source counts its examples again.
* `nodes/llm/feedback_synthesis.py:1234`: the adjudicator may charge a rule for a
  correction of another area; only its fallback compares areas.

## What is proved

`PipelineGraph_proofs` proves, for any set of gate choices, any number of
attempts and any number of rejections:

* `TypeCorrect`, `NoWorkAfterFailureHolds`, `ShippedIsSignedOffHolds`,
  `TechniqueGuidanceIsFreshHolds`, `GuidanceConsumedHolds` (`Spec => []...`);
* the action properties `FailureSticksHolds` and `DecisionHonouredHolds`.

They assume only the three named assumptions on the constants. None of the
properties is inductive alone. `Inv` adds what the argument needs: that the
submission of this visit sits in the channel its gate will read and no other
decision outranks it (`SubmissionRecorded`, `NoStrayReviews`), which gates have
signed off upstream of the next node (`UpstreamSignedOff`), and which guidance
may be pending at each node (`GuidancePending`). Typing lemmas about each node
operator come first, then one lemma per action and conjunct, then `InvHolds`;
the action properties use `Inv` as a state assumption of each step.

`RunLifecycle_proofs` proves, for any number of sessions, driver slots, attempts,
rejections, exceptions and restarts, any modes of the gates and any limits:

* `OneDriverHolds`, `SubmitsAreFreshHolds`, `GateCardIsReviewableHolds` and
  `CompletedIsDoneHolds`, through restarts;
* `CardMatchesThreadHolds`, until the first restart (`lost_pause` shows why);
* `AutoRewindsBoundedHolds` and `NeverStallsHolds`;
* `BoardSafetyHolds`: the safety part of `SourceCard`, step by step.

All of them assume `Serial` (the environment of the passing runs: sessions do not
interleave and Retry waits for the teardown; `MCRunLifecycle_overlap.cfg` and
`retry_overlap` show what happens without). The last two of the limits assume that
`gate_pass_count` does not lose its count (`~CountMayFail`), and `NeverStallsHolds`
that the cap is at least `4 + 3 * MaxAutoRewindPasses`: four gates once, one more
stop for a rewind of the chunk gate, two for one of the procedure gate. That is 7
for the code's limit of 1, and its cap is 12; with a cap of 6 TLC finds a run given
up that was not spinning, so the bound is exact.

The inductive `Inv` says what a driver, the row and the checkpoint owe each other
at every `pc` (`AtWork`), what a row may claim of any checkpoint (`Shown`), what an
open request and page still rely on (`Asked`) and how a source is left
(`Rested`); `Sound` ties a status to the node that is next. `NobodyAsks` is the
hinge: while a driver works the card is at no gate (or gone), no page is current and
no request is open, and `DriverStep` settles the sessions' part for every driver action.
`Limited` counts rewinds against visits. `AllPaced` is the variant behind
`NeverStallsHolds`: resumptions so far, plus gates still ahead (`Left`), plus what
the rewinds still allowed can add (`Allowance`), never exceed `LongestRun`.

`GraphStore_proofs` proves, for any sources, techniques, attempts and faults, all
five invariants of `GraphStore`. `CatalogueUntouched` is inductive with the types
of the ids it speaks of; `RowsAreOfFinishedIngests` needs the types of the jobs
(`RowsInv`): a row belongs to the current attempt of its source, which has completed
or was stopped right after storing it, or to one marked failed after that. It is not
one row per source (`MCGraphStore_twice.cfg`).

`UndoneIsGoneHolds`, `OrphansAreOfBrokenRunsHolds` and `CompletedIsWholeOrSaidHolds`
rest on `StoreInv`, which is inductive beside `CatalogueUntouched`. Its argument is
that the DESCRIBES edges are written last and by their own run only: no report of a
run still writing describes anything, so no undo can begin on it (`Ordered`), a
report that describes anything describes all that is left of its run, so what one
run owns no other does, and the first statement of an undo takes everything but the
report (`Tied`, `Emptied`). `Kept` says, phase by phase, what of its bundle a run has
in the graph, and `Filed` that a completed run has, or had, its row. The one
assumption beside the bounds is `NamesAssumption`: an attempt is not the name of a
technique, as a uuid is not an ATT&CK id; `UndoneIsGone` compares the two.

`FigureExtraction_proofs` proves, for any calls, keys, answers, documents, number
of slots and restarts, `RowsServeHolds`, `RowsAreFinalHolds` and
`FigureInItsPlaceHolds`. The cache part of `Inv` adds to `RowsServe` that a task
about to store holds an answer that validates, which `FinalValidates` shows of
whatever the repairs and the salvage accept; the figure part says that every
waiting figure, running call and settled entry belongs to the picture at its own
place. `CallStepShape` is the one lemma through all the steps of an invocation;
the node's proof and the other nodes' calls both rest on it.

`FeedbackLoop_proofs` proves, for any sources, rules, areas, articles and gates, any
faults, promotions and reruns:

* `EvidenceIsHumanHolds`, `CountersWithinEvidenceHolds` and `LedgerIsClosedHolds`;
* `ShownIsLedgeredHolds`, while no two sources hold the same article
  (`MCFeedbackLoop_samearticle.cfg` shows what happens when two do);
* `OccurrencesAreWrittenHolds`, for finitely many sources and any answers of the LLM.

The inductive `Inv` says what a run holds across its awaits (`Holding`): the rows it
read are still exactly its open rows, its copies of the rules are one to a rule and
no younger than the evidence. Until its surfacings are closed a run has said nothing
(`Unjudged`), so each rule gets at most one outcome of each source: the sources of
its hits and those of its misses are disjoint, and each counter trails the number of
its own (`Counted`). A commit from a stale copy can only take counts back, which is
why updates that are lost do no harm. `LedgerInv` adds that the cache names, under an
article, only what the ledger of that article's source names. `Shared` is the argument
about recurrences: the evidence (a rule the table had, or a place in the answer of a
source's synthesis that has been written) can be shared out among the rows so that no
piece goes to two rows and neither a row's count nor the count a run has read, and will
write back plus one, exceeds the row's share. Two upserts of one row each bring a place
of their own, so the one that overwrites the other only loses a count; a place is
written in the step that counts it, so it is never brought twice. That is a bound by what
was written, not by runs or corrections, neither of which the code keeps to
(`MCFeedbackLoop_occurrences.cfg`).

The first part of `ReviewedBundle_proofs` states, for any bundle in which an id
names things of one type (`IsBundle`), what each pass keeps and brings about:
`FixDirectionEffect`, `DedupEffect`, `DropEffect`, `SyncEffect`, `BackfillEffect`
and `RecomputeEffect`, put together in `AutoFixEffect`. `RecoveryChangesNothing` and
`PassesIdempotent` follow: what the passes leave gives none of them anything to do,
because a relationship that was turned has a source that may be one (`TurnedOnce`)
and no pass changes a type.

The second part proves, for any entities, types, corrections, drafts, flow,
added rows and number of reviews and rejections, all five invariants of the `bundle`
run: `ShippedIsSoundHolds`, `PassesConvergeHolds`, `NothingLostSilentlyHolds` (which
excepts the row of a procedure that precedes itself), `RemovedRowsAreGoneHolds` and
`AttributionGroundedHolds`. `Inv` says that the preview
is of the current entities and drafts, that decisions are about its rows (the loop
through a batch rejection would break this if the decision outlived it) and what the
bundle was made from. `SerializedIsBundle` shows that the serializer's bundles are
bundles; `OfferedSane` follows every builder and says what its relationships have in
common; `BuiltIsWellDirected` concludes that only an entity retyped by the analyst is
ever turned round, and `BuiltIsAccountedFor` that whatever was built ships or is
recorded. A row and what the serializer builds for it agree on the key although the two
sides look up the types apart: keys that were removed are keys of rows, and two rows
about the same things have the same key. What is assumed of the constants is that the
names are told apart, as ids are (`NamesAssumption`), that the flow is between drafts
(`FlowAssumption`), and that drafting resolves techniques of the catalogue and mentions
extracted entities only (`DraftingsAssumption`).

`ChunkFlow_proofs` proves, for any chunks, edges and reviews, any
number of passes and any bounds in `Scopes`, all six properties of the `flow` run:
`GateLeavesOneGraphHolds`, `GateKeepsOrderHolds`, `MergeKeepsTextHolds`,
`LedgerExplainsTheDiffHolds`, `FlowIsKeptHolds` and `BranchReachesItsEffectsHolds`.
`ScopesAssumption` is the only assumption. The argument has three parts.

* The walk. `Reach` is closed under the steps of a finite flow (`ReachIsClosed`,
  which counts: a round that finds nothing new comes before the chunks run out) and
  is the least such set (`ReachIsLeast`). With these two, what is reached around the absent
  chunks is compared as closed sets: `SpliceKeepsOrder` (from `SpliceInventsNothing`
  and `SpliceSeversNothing`) and `RouteKeepsOrder`. Neither assumes that the flow has
  no cycle, which an analyst's edge may close.
* The gate. `MapEntries` says what is left of the submitted decisions once merges are
  expanded: on each chunk the last merge that names it stands, or else its own
  decision. From it follow which chunks stay and with which text (`Edited`), and
  `ReviewedIsFlow` carries that through the bridge and the edge edits to the
  synchronization. `SeqsAreDistinct` is why two copies can agree at all:
  `predecessor_indices` name chunks by sequence, and an added chunk gets a number
  above all that stay.
* The way to the bundle. The inductive `Inv` says that up to the gate the chunks are
  the chunker's (`ChunksAreEmitted`), that approved drafts are drafts of chunks the
  flow has, and that at `serialize_stix` every operator and condition was inferred of
  this flow, so the half entries of the overrides are gone unless nothing was approved
  (`OperatorsAreOfFlow`). The rest is `Shipping`: what the serializer has before it. The
  chunker's reply may name any predecessors, so `BranchReachesItsEffects` speaks of the
  effects of a branch other than its own anchor (`MCChunkFlow_ownbranch.cfg`).

Induction over the natural numbers is used where the library's theorem takes no
operator: `LeastNat` derives from `NatLessThanWellFounded` that a nonempty set of
numbers has a least member, and proofs such as `Climb` and `RoundsExist` look at
the least counterexample.

Model-checked only: `RunsSettle`, `BoardPromise`'s liveness and `NodeSettles`;
liveness under fairness is out of the prover's reach. Every safety property of a
passing run has a theorem.

## Not modelled, and what is left

* The reviewer's tool loop, its prompts and the agreement statistics: what the
  runner sees of them (an outcome, a count) is in `RunLifecycle`. The rest is
  prompt text and arithmetic over recorded turns.
* The candidate pool and pick filters of `extract_techniques`, prompts and field
  post-processing of the LLM nodes: data without state; which channels the nodes
  write, and when, is in `PipelineNodes`.
* The operator's status patch and the claim of a source (`source_queue.py`): the
  patch can write any status at any time, so every card invariant would have to
  except it.
* `ConnectionManager`: its sends swallow their errors and change nothing else.
* Two overlapping undo scripts; the relevance ranking, embeddings and pattern
  edits of the flywheel; a second retry of a source after its feedback is learned.
* Providers' request translation, parsers, schemas, settings, other scripts,
  rendering, and the pure helpers of the frontend (path search, resolution of a
  bundle's names, the flow editor's renumbering).

Worth doing next: the flow editor's renumbering with the gate that reads it; the
order in which lists are kept, which the flow, as sets, leaves out.
