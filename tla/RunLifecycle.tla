---------------------------- MODULE RunLifecycle ----------------------------
(***************************************************************************)
(* The runner around the graph: POST /run and the gate submissions launch  *)
(* detached asyncio tasks (stream_with_sync) that drive one source's       *)
(* thread, mirror its progress into the source's row for the board, let    *)
(* the AI reviewer speak at a gate and park the card there.                *)
(*                                                                         *)
(* One source.  Each request handler and each task is a process; a step    *)
(* ends where the code awaits the database, the checkpointer or a model.   *)
(* The read and the write of one status sync are one step.                 *)
(***************************************************************************)
EXTENDS PipelineNodes, FiniteSets

CONSTANTS
    Analysts,             \* browser sessions on this source
    Tasks,                \* slots for driver tasks alive at once
    AssistGates,          \* gates in mode "assist"
    AutoGates,            \* gates in mode "auto"
    MaxGateAutoSkips,     \* _MAX_GATE_AUTO_SKIPS
    MaxAutoRewindPasses,  \* _MAX_AUTO_REWIND_PASSES
    CountMayFail,         \* gate_pass_count may lose its count and return 0
    Overlap,              \* requests of two sessions may interleave
    EagerRetry,           \* Retry may be pressed before a failed run is torn down
    MaxRejects,           \* bound: human decisions that send work back
    MaxRaises,            \* bound: exceptions that escape the stream
    MaxCrashes            \* bound: restarts of the API process

ASSUME ModesAssumption ==
    /\ AssistGates \subseteq Gates /\ AutoGates \subseteq Gates
    /\ AssistGates \cap AutoGates = {}
ASSUME LimitsAssumption ==
    {MaxGateAutoSkips, MaxAutoRewindPasses, MaxRejects, MaxRaises, MaxCrashes}
        \subseteq Nat
ASSUME SwitchesAssumption == {CountMayFail, Overlap, EagerRetry} \subseteq BOOLEAN

VARIABLES
    row,      \* the source's row in Postgres, what the board shows
    ckpt,     \* the latest checkpoint of its thread
    tasks,    \* the stream_with_sync tasks alive in the API process
    reqs,     \* each session's request in progress
    page,     \* each session's open review page and its checkpoint token
    visits,   \* the reviewer's turns recorded per gate, saturated
    rewinds,  \* ghost: unattended rewinds per gate since its turns were last
              \* cleared, saturated
    spent     \* how much of each bound is used up

vars == <<row, ckpt, tasks, reqs, page, visits, rewinds, spent>>

(***************************************************************************)
(* Statuses.                                                               *)
(***************************************************************************)
Reviewing == [gate_0      |-> "reviewing_entities",
              gate_chunks |-> "reviewing_chunks",
              gate_1      |-> "reviewing_procedures",
              gate_2      |-> "reviewing_bundle"]

\* Mutant of NodeToStatus: "Complete" while the feedback synthesis runs.
NodeToStatusWithoutFeedback ==
    [n \in {"extract_figures", "classify_sections", "distribute"} |->
        CASE n = "extract_figures"   -> "extracting_figures"
          [] n = "classify_sections" -> "classifying_sections"
          [] n = "distribute"        -> "distributing"]

NodeToStatus ==
    [extract_figures     |-> "extracting_figures",
     classify_sections   |-> "classifying_sections",
     extract_entities    |-> "extracting_entities",
     chunk_behaviors     |-> "chunking",
     extract_techniques  |-> "extracting_techniques",
     draft_procedures    |-> "drafting",
     normalize           |-> "normalizing",
     serialize_stix      |-> "serializing",
     distribute          |-> "distributing",
     synthesize_feedback |-> "synthesizing_feedback"]

\* _displayed_status: what RUNS, not what just finished; a resuming status and
\* a failure survive.
Displayed(v, next) ==
    IF v.status \in {Resuming[g] : g \in Gates} \cup {"failed"} THEN v.status
    ELSE IF next \in DOMAIN NodeToStatus THEN NodeToStatus[next]
    ELSE v.status

\* Mutant of RestartableStatuses: a card in progress can be started again.
RestartableInProgress == {"queued", "failed", "parsing", "chunking"}

RestartableStatuses == {"queued", "failed"}

(***************************************************************************)
(* State.                                                                  *)
(***************************************************************************)
NoThread == [vals |-> NoValues, next |-> End]
NoTask   == [pc |-> "idle", input |-> "resume", gates |-> {},
             vals |-> NoValues, next |-> End, skips |-> 0]
NoReq    == [pc |-> "idle", decision |-> "none"]
NoPage   == [gate |-> "none", fresh |-> FALSE]
NewRow   == [exists |-> TRUE, status |-> "queued", error |-> FALSE,
             entities |-> 0, written |-> 0]

AllDecisions == UNION {Decisions[g] : g \in Gates}
Rejections   == {"reject", "boundary", "technique"}

Init ==
    /\ row = NewRow
    /\ ckpt = NoThread
    /\ tasks = [t \in Tasks |-> NoTask]
    /\ reqs = [a \in Analysts |-> NoReq]
    /\ page = [a \in Analysts |-> NoPage]
    /\ visits = [g \in Gates |-> 0]
    /\ rewinds = [g \in Gates |-> 0]
    /\ spent = [rejects |-> 0, raises |-> 0, crashes |-> 0]

Live == {t \in Tasks : tasks[t].pc # "idle"}

\* update_status: nothing to update once the row is gone; an error is written
\* when one is passed and never erased.
UpdateStatus(status, error) ==
    row' = IF row.exists
           THEN [row EXCEPT !.status = status, !.error = @ \/ error]
           ELSE row

\* ... and with run_counts: a count of a stage that wrote no channel is NULL.
UpdateStatusAndCounts(status, error, v) ==
    row' = IF row.exists
           THEN [row EXCEPT !.status = status, !.error = @ \/ error,
                            !.entities = v.entities, !.written = v.written]
           ELSE row

\* Every checkpoint gets a fresh id: the tokens of all open pages are stale.
WriteCheckpoint(v, next) ==
    /\ ckpt' = [vals |-> v, next |-> next]
    /\ page' = [a \in Analysts |-> [page[a] EXCEPT !.fresh = FALSE]]

\* launch_pipeline_task
Launch(input, gates) ==
    \E t \in Tasks \ Live :
        tasks' = [tasks EXCEPT ![t] =
                     [NoTask EXCEPT !.pc = "open", !.input = input,
                                    !.gates = gates]]

\* One more, up to one past the rewind limit.
Counted(n) == IF n > MaxAutoRewindPasses THEN n ELSE n + 1

(***************************************************************************)
(* Requests.  A handler's awaits split it where another process can run.   *)
(***************************************************************************)
MayRequest(a) == /\ reqs[a].pc = "idle"
                 /\ Overlap \/ \A b \in Analysts : reqs[b].pc = "idle"

\* start_pipeline reads the row and checks its status ...
RequestRun(a) ==
    /\ MayRequest(a)
    /\ row.exists
    /\ row.status \in RestartableStatuses
    /\ row.status = "failed" => EagerRetry \/ Live = {}
    /\ ckpt.vals.attempt < MaxAttempts
    /\ reqs' = [reqs EXCEPT ![a].pc = "start"]
    /\ UNCHANGED <<row, ckpt, tasks, page, visits, rewinds, spent>>

\* ... clears the badge and the counts, writes "parsing" and launches.
StartRun(a, gates) ==
    /\ reqs[a].pc = "start"
    /\ row' = IF row.exists THEN [NewRow EXCEPT !.status = "parsing"] ELSE row
    /\ Launch("fresh", gates)
    /\ reqs' = [reqs EXCEPT ![a] = NoReq]
    /\ UNCHANGED <<ckpt, page, visits, rewinds, spent>>

\* The board offers Review on a card at a gate; the panel fetches what is
\* pending with the id of the checkpoint it was read from.
OpenReview(a) ==
    /\ MayRequest(a)
    /\ row.status \in Gates
    /\ ckpt.next = row.status
    /\ page' = [page EXCEPT ![a] = [gate |-> row.status, fresh |-> TRUE]]
    /\ UNCHANGED <<row, ckpt, tasks, reqs, visits, rewinds, spent>>

\* A rejection names a draft of this pass, so an empty gate_1 offers none.
Offered(g, v) ==
    IF g = "gate_1" /\ ~v.drafts THEN {"approve"} ELSE Decisions[g]

\* Mutant of RequestSubmit: the checkpoint token is not compared.
RequestStaleSubmit(a, d) ==
    /\ MayRequest(a)
    /\ page[a].gate \in Gates
    /\ ckpt.next = page[a].gate
    /\ d \in Offered(page[a].gate, ckpt.vals)
    /\ d \in Rejections => spent.rejects < MaxRejects
    /\ reqs' = [reqs EXCEPT ![a] = [pc |-> "write", decision |-> d]]
    /\ spent' = IF d \in Rejections THEN [spent EXCEPT !.rejects = @ + 1] ELSE spent
    /\ UNCHANGED <<row, ckpt, tasks, page, visits, rewinds>>

\* submit_*: the thread must be at the gate and the token must be current
\* (at_gate, _check_checkpoint); a stale page gets a 409 and nothing happens.
\* Nobody asks whether the row is still there.
RequestSubmit(a, d) ==
    /\ MayRequest(a)
    /\ page[a].gate \in Gates
    /\ ckpt.next = page[a].gate
    /\ page[a].fresh
    /\ d \in Offered(page[a].gate, ckpt.vals)
    /\ d \in Rejections => spent.rejects < MaxRejects
    /\ reqs' = [reqs EXCEPT ![a] = [pc |-> "write", decision |-> d]]
    /\ spent' = IF d \in Rejections THEN [spent EXCEPT !.rejects = @ + 1] ELSE spent
    /\ UNCHANGED <<row, ckpt, tasks, page, visits, rewinds>>

\* aupdate_state as the gate's predecessor, on whatever is the latest checkpoint.
SubmitAs(g, d) ==
    LET v == Submit(g, d, ckpt.vals)
    IN  WriteCheckpoint(v, Route(Predecessor[g], v))

WriteSubmission(a) ==
    /\ reqs[a].pc = "write"
    /\ SubmitAs(page[a].gate, reqs[a].decision)
    /\ reqs' = [reqs EXCEPT ![a].pc = "flip"]
    /\ UNCHANGED <<row, tasks, visits, rewinds, spent>>

\* Mutant of FlipAndResume: the card stays at the gate while the run goes on.
ResumeWithoutFlip(a) ==
    /\ reqs[a].pc = "flip"
    /\ Launch("resume", {})
    /\ reqs' = [reqs EXCEPT ![a] = NoReq]
    /\ page' = [page EXCEPT ![a] = NoPage]
    /\ UNCHANGED <<row, ckpt, visits, rewinds, spent>>

\* _flip_to_resuming, then launch without another await.
FlipAndResume(a) ==
    /\ reqs[a].pc = "flip"
    /\ UpdateStatus(Resuming[page[a].gate], FALSE)
    /\ Launch("resume", {})
    /\ reqs' = [reqs EXCEPT ![a] = NoReq]
    /\ page' = [page EXCEPT ![a] = NoPage]
    /\ UNCHANGED <<ckpt, visits, rewinds, spent>>

\* cancel_pipeline_task stops the first task it finds under the source's name.
CancelTask ==
    IF Live = {} THEN UNCHANGED tasks
    ELSE \E t \in Live : tasks' = [tasks EXCEPT ![t] = NoTask]

\* Removing the reviewer's turns is best effort.
ClearTurns ==
    \/ visits' = [g \in Gates |-> 0] /\ rewinds' = [g \in Gates |-> 0]
    \/ UNCHANGED <<visits, rewinds>>

\* Flushing the thread is best effort too; a page open on it stays open, and is
\* as good as before when the thread was not flushed.
FlushThread ==
    \/ /\ ckpt' = NoThread
       /\ page' = [a \in Analysts |-> [page[a] EXCEPT !.fresh = FALSE]]
    \/ UNCHANGED <<ckpt, page>>

\* delete_source
DeleteSource(a) ==
    /\ MayRequest(a)
    /\ row.exists
    /\ CancelTask
    /\ row' = [NewRow EXCEPT !.exists = FALSE]
    /\ ClearTurns
    /\ FlushThread
    /\ UNCHANGED <<reqs, spent>>

(***************************************************************************)
(* The driver, stream_with_sync.                                           *)
(***************************************************************************)
\* Where astream goes after a checkpoint: it halts before a gate and at END.
Onward(next) == IF next \in Gates \cup {End} THEN "ended" ELSE "node"

\* astream(initial_state): merged over the thread's channels, entered at START.
OpenFresh(t) ==
    /\ tasks[t].pc = "open" /\ tasks[t].input = "fresh"
    /\ LET v == InitialState(ckpt.vals, tasks[t].gates)
       IN  /\ WriteCheckpoint(v, "parse_and_validate")
           /\ tasks' = [tasks EXCEPT ![t] =
                  [NoTask EXCEPT !.pc = "node", !.vals = v,
                                 !.next = "parse_and_validate"]]
    /\ UNCHANGED <<row, reqs, visits, rewinds, spent>>

\* astream(None): from the latest checkpoint, past the interrupt before it.
OpenResume(t) ==
    /\ tasks[t].pc = "open" /\ tasks[t].input = "resume"
    /\ tasks' = [tasks EXCEPT ![t] =
           [@ EXCEPT !.pc = IF ckpt.next = End THEN "ended" ELSE "node",
                     !.vals = ckpt.vals, !.next = ckpt.next]]
    /\ UNCHANGED <<row, ckpt, reqs, page, visits, rewinds, spent>>

\* A node runs on the channels the task loaded, not on the latest checkpoint.
RunNode(t) ==
    /\ tasks[t].pc = "node"
    /\ \E v \in Effect(tasks[t].next, tasks[t].vals) :
          LET next == Route(tasks[t].next, v)
          IN  /\ WriteCheckpoint(v, next)
              /\ tasks' = [tasks EXCEPT ![t] =
                     [@ EXCEPT !.pc = "sync", !.vals = v, !.next = next]]
    /\ UNCHANGED <<row, reqs, visits, rewinds, spent>>

\* After every event the latest state is mirrored into the row.
Sync(t) ==
    /\ tasks[t].pc = "sync"
    /\ UpdateStatusAndCounts(Displayed(ckpt.vals, ckpt.next), ckpt.vals.error,
                             ckpt.vals)
    /\ tasks' = [tasks EXCEPT ![t].pc = Onward(tasks[t].next)]
    /\ UNCHANGED <<ckpt, reqs, page, visits, rewinds, spent>>

EndRun(t) ==
    /\ tasks[t].pc = "ended"
    /\ ckpt.next = End
    /\ tasks' = [tasks EXCEPT ![t] = NoTask]
    /\ UNCHANGED <<row, ckpt, reqs, page, visits, rewinds, spent>>

\* The runner advances a gate with nobody watching, up to the cap.
Advanced(t) ==
    [tasks[t] EXCEPT !.pc = IF tasks[t].skips + 1 > MaxGateAutoSkips
                            THEN "stalled" ELSE "open",
                     !.input = "resume", !.skips = @ + 1]

SkipDisabled(t) ==
    /\ tasks[t].pc = "ended"
    /\ ckpt.next \in Gates \ ckpt.vals.gates
    /\ tasks' = [tasks EXCEPT ![t] = Advanced(t)]
    /\ UNCHANGED <<row, ckpt, reqs, page, visits, rewinds, spent>>

\* _fail_stalled
FailStalled(t) ==
    /\ tasks[t].pc = "stalled"
    /\ UpdateStatus("failed", TRUE)
    /\ tasks' = [tasks EXCEPT ![t] = NoTask]
    /\ UNCHANGED <<ckpt, reqs, page, visits, rewinds, spent>>

\* A gate in assist or auto mode is reviewed before the card lands there.
BeginReview(t) ==
    /\ tasks[t].pc = "ended"
    /\ ckpt.next \in ckpt.vals.gates \cap (AssistGates \cup AutoGates)
    /\ UpdateStatus(Reviewing[ckpt.next], FALSE)
    /\ tasks' = [tasks EXCEPT ![t] = [@ EXCEPT !.pc = "review",
                                               !.vals = ckpt.vals,
                                               !.next = ckpt.next]]
    /\ UNCHANGED <<ckpt, reqs, page, visits, rewinds, spent>>

\* run_reviewer never raises, and records its turn whether it succeeds or not.
\* Assist mode, a failed reviewer and an unattended decision that converts to
\* nothing or may not rewind all fall through to a person.
HandOver(t) ==
    /\ tasks[t].pc = "review"
    /\ visits' = [visits EXCEPT ![tasks[t].next] = Counted(@)]
    /\ tasks' = [tasks EXCEPT ![t].pc = "park"]
    /\ UNCHANGED <<row, ckpt, reqs, page, rewinds, spent>>

\* What build_auto_submission can make of a recommendation.
AutoDecisions(g, v) ==
    IF g = "gate_2" THEN {"per_relationship"} ELSE Offered(g, v)

\* Mutants of RewindAllowed: no limit; the count taken for one of EARLIER visits.
RewindUnlimited(g) == TRUE
RewindCountsEarlier(g) == CountMayFail \/ ~(visits[g] > MaxAutoRewindPasses)

\* visit > _MAX_AUTO_REWIND_PASSES hands over; this visit is already counted.
RewindAllowed(g) ==
    CountMayFail \/ ~(Counted(visits[g]) > MaxAutoRewindPasses)

\* _auto_apply: the decision is converted from the state read at the pause and
\* written on whatever is the latest checkpoint.
AutoApply(t, d) ==
    LET g == tasks[t].next
    IN  /\ tasks[t].pc = "review"
        /\ g \in AutoGates
        /\ d \in AutoDecisions(g, tasks[t].vals)
        /\ d \in Rejections => RewindAllowed(g)
        /\ SubmitAs(g, d)
        /\ visits' = [visits EXCEPT ![g] = Counted(@)]
        /\ rewinds' = IF d \in Rejections
                      THEN [rewinds EXCEPT ![g] = Counted(@)] ELSE rewinds
        /\ tasks' = [tasks EXCEPT ![t] = Advanced(t)]
        /\ UNCHANGED <<row, reqs, spent>>

\* Plain review mode: nothing to wait for before parking.
ReadPause(t) ==
    /\ tasks[t].pc = "ended"
    /\ ckpt.next \notin (Gates \ ckpt.vals.gates) \cup {End}
    /\ ckpt.next \notin AssistGates \cup AutoGates
    /\ tasks' = [tasks EXCEPT ![t] = [@ EXCEPT !.pc = "park",
                                               !.vals = ckpt.vals,
                                               !.next = ckpt.next]]
    /\ UNCHANGED <<row, ckpt, reqs, page, visits, rewinds, spent>>

\* Mutant of Park: the node's own status is written, not the gate's name.
ParkSelfReported(t) ==
    /\ tasks[t].pc = "park"
    /\ UpdateStatusAndCounts(tasks[t].vals.status, FALSE, tasks[t].vals)
    /\ tasks' = [tasks EXCEPT ![t] = NoTask]
    /\ UNCHANGED <<ckpt, reqs, page, visits, rewinds, spent>>

\* The name of the node that is next becomes the status; the task is done.
Park(t) ==
    /\ tasks[t].pc = "park"
    /\ UpdateStatusAndCounts(tasks[t].next, FALSE, tasks[t].vals)
    /\ tasks' = [tasks EXCEPT ![t] = NoTask]
    /\ UNCHANGED <<ckpt, reqs, page, visits, rewinds, spent>>

\* A node, the checkpointer or the database raises anywhere in the stream ...
Raise(t) ==
    /\ tasks[t].pc \in {"node", "sync", "ended", "review", "park"}
    /\ spent.raises < MaxRaises
    /\ spent' = [spent EXCEPT !.raises = @ + 1]
    /\ tasks' = [tasks EXCEPT ![t].pc = "except"]
    /\ UNCHANGED <<row, ckpt, reqs, page, visits, rewinds>>

\* Mutant of MarkFailed: the exception ends the task and nothing else.
SwallowException(t) ==
    /\ tasks[t].pc = "except"
    /\ tasks' = [tasks EXCEPT ![t] = NoTask]
    /\ UNCHANGED <<row, ckpt, reqs, page, visits, rewinds, spent>>

\* ... and the source is marked failed on a fresh session.
MarkFailed(t) ==
    /\ tasks[t].pc = "except"
    /\ UpdateStatus("failed", TRUE)
    /\ tasks' = [tasks EXCEPT ![t] = NoTask]
    /\ UNCHANGED <<ckpt, reqs, page, visits, rewinds, spent>>

\* The API process restarts: tasks and handlers are gone, rows and checkpoints
\* stay, and nothing at startup looks for runs that were cut short.
Restart ==
    /\ spent.crashes < MaxCrashes
    /\ spent' = [spent EXCEPT !.crashes = @ + 1]
    /\ tasks' = [t \in Tasks |-> NoTask]
    /\ reqs' = [a \in Analysts |-> NoReq]
    /\ UNCHANGED <<row, ckpt, page, visits, rewinds>>

-----------------------------------------------------------------------------
Handle(a) ==
    \/ \E gates \in GateChoices : StartRun(a, gates)
    \/ WriteSubmission(a)
    \/ FlipAndResume(a)

Request(a) ==
    \/ RequestRun(a)
    \/ OpenReview(a)
    \/ \E d \in AllDecisions : RequestSubmit(a, d)
    \/ DeleteSource(a)

Drive(t) ==
    \/ OpenFresh(t) \/ OpenResume(t) \/ RunNode(t) \/ Sync(t)
    \/ EndRun(t) \/ SkipDisabled(t) \/ FailStalled(t)
    \/ BeginReview(t) \/ HandOver(t) \/ (\E d \in AllDecisions : AutoApply(t, d))
    \/ ReadPause(t) \/ Park(t) \/ MarkFailed(t)

Next ==
    \/ \E a \in Analysts : Handle(a) \/ Request(a)
    \/ \E t \in Tasks : Drive(t) \/ Raise(t)
    \/ Restart

Spec == Init /\ [][Next]_vars

\* The event loop runs every handler and every task that can go on; nodes and
\* reviewer calls return or raise (the LLM client has its own timeout).
FairSpec == /\ Spec
            /\ \A a \in Analysts : WF_vars(Handle(a))
            /\ \A t \in Tasks : WF_vars(Drive(t))

-----------------------------------------------------------------------------
(***************************************************************************)
(* Properties.                                                             *)
(***************************************************************************)
\* A source mid-flight is never restarted or resumed a second time: two drivers
\* on one thread would write checkpoints from channels that know nothing of
\* each other (_RESTARTABLE_STATUSES, _auto_apply).  A deletion does not change
\* that, though a submission after it may set a driver going again.
OneDriver == Cardinality(Live) <= 1

\* A decision is written over the very checkpoint its analyst was looking at.
SubmitsAreFresh == \A a \in Analysts : reqs[a].pc = "write" => page[a].fresh

\* The card never tells an older story than the checkpoint it was left with:
\* once nobody drives the run, a gate card has that gate pending and enabled,
\* and a pending gate has its card there or on Retry.
Resting == Live = {} /\ \A a \in Analysts : reqs[a].pc = "idle"

CardMatchesThread ==
    Resting /\ row.exists =>
        /\ row.status \in Gates => row.status \in ckpt.vals.gates
        /\ ckpt.next \in ckpt.vals.gates => row.status \in {ckpt.next, "failed"}
        /\ ckpt.next = End /\ ckpt.vals.status = "completed"
               => row.status \in {"completed", "failed"}

\* A card that offers Review has that gate pending in its checkpoint, so the
\* submission cannot be refused, not even after the process was killed between
\* the checkpoint and the row.
GateCardIsReviewable ==
    Resting /\ row.exists /\ row.status \in Gates => ckpt.next = row.status

\* "Complete" is shown for this attempt's graph write and only after the
\* feedback synthesis that follows it.
CompletedIsDone ==
    row.status = "completed" =>
        /\ ckpt.next = End /\ ckpt.vals.status = "completed"
        /\ row.written = ckpt.vals.attempt

\* A legitimate cycle of rejections is never mistaken for a spin.
NeverStalls == \A t \in Tasks : tasks[t].pc # "stalled"

\* Nobody-watching rewinds are limited per gate, over all attempts, as long as
\* the turns that count them are kept.
AutoRewindsBounded == \A g \in Gates : rewinds[g] <= MaxAutoRewindPasses

\* What the board makes of the row.
Card == CASE ~row.exists                           -> "removed"
          [] row.exists /\ row.status \in Gates    -> "waiting"
          [] row.exists /\ row.status \in {"queued", "completed", "failed"}
                                                   -> row.status
          [] OTHER                                 -> "running"

Board == INSTANCE SourceCard WITH card <- Card

\* The board's promise (SourceCard): every run shown as in progress comes to
\* rest, and only a Retry takes a failed card back to work.
BoardPromise == Board!Spec

(***************************************************************************)
(* What the sources say and the code does not do.                          *)
(***************************************************************************)
\* HOW_IT_WORKS.md: a pause is durable, the API process can restart during it.
PauseSurvivesRestart ==
    Resting /\ row.exists /\ ckpt.next \in ckpt.vals.gates
        => row.status \in {ckpt.next, "failed"}

\* queue.py:287 cancels the run of a source before its row goes, so that no task
\* outlives the row; when the thread is not flushed, a page that is still open
\* on it submits and launches one (gates.py looks only at the thread).
NothingRunsForDeleted == ~row.exists => Live = {}

\* gates.py clears gate2_reviews when it consumes them, or a follow-up batch
\* submission would be shadowed by stale decisions; a run that dies between the
\* submission and gate_2 leaves them for the retry.
BatchIsNotShadowed ==
    \A a \in Analysts :
        /\ reqs[a].pc = "flip" /\ page[a].gate = "gate_2"
        /\ reqs[a].decision # "per_relationship"
        => ~ckpt.vals.gate2Reviews

=============================================================================
