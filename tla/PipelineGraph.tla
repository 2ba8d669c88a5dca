---------------------------- MODULE PipelineGraph ----------------------------
(***************************************************************************)
(* One source's thread through the extraction graph, driven by one runner: *)
(* a run is started, nodes run one after the other, the graph pauses       *)
(* before every gate, an analyst submits a decision, and a failed run may  *)
(* be retried over the channels its predecessor left in the checkpoint.    *)
(* Several runners on one thread are the subject of RunLifecycle.          *)
(***************************************************************************)
EXTENDS PipelineNodes

CONSTANT
    MaxRejects      \* bound: decisions that send work back, over all attempts

ASSUME RejectsAssumption == MaxRejects \in Nat

VARIABLES
    vals,       \* the channels of the latest checkpoint
    next,       \* the node to run next, End when there is none
    resumed,    \* the interrupt before `next` has been passed
    asked,      \* ghost: what the analyst submitted at this gate visit
    signedOff,  \* ghost: gates that approved what is now downstream of them
    rejects     \* decisions that sent work back so far (see MaxRejects)

vars == <<vals, next, resumed, asked, signedOff, rejects>>

AllDecisions == UNION {Decisions[g] : g \in Gates}
Rejections   == {"reject", "boundary", "technique"}

TypeOK ==
    /\ vals \in Values
    /\ next \in Nodes \cup {End}
    /\ resumed \in BOOLEAN
    /\ asked \in AllDecisions \cup {"none"}
    /\ signedOff \in SUBSET Gates
    /\ rejects \in 0 .. MaxRejects

Init ==
    /\ vals = NoValues
    /\ next = End
    /\ resumed = FALSE
    /\ asked = "none"
    /\ signedOff = {}
    /\ rejects = 0

\* The gates whose sign-off lapses when a node produces new work.
Reopens(n) ==
    CASE n = "extract_entities"   -> Gates
      [] n = "chunk_behaviors"    -> {"gate_chunks", "gate_1", "gate_2"}
      [] n = "extract_techniques" -> {"gate_1", "gate_2"}
      [] n = "draft_procedures"   -> {"gate_1", "gate_2"}
      [] n = "normalize"          -> {"gate_2"}
      [] OTHER                    -> {}

Approves(n) == n \in Gates /\ (n \in vals.gates => asked \notin Rejections)

\* POST /run: from a queued source, or as the Retry of a failed one.
Start(gates) ==
    /\ next = End
    /\ vals.attempt = 0 \/ vals.status = "failed"
    /\ vals.attempt < MaxAttempts
    /\ vals' = InitialState(vals, gates)
    /\ next' = "parse_and_validate"
    /\ resumed' = FALSE
    /\ asked' = "none"
    /\ UNCHANGED <<signedOff, rejects>>

\* The runner executes one node and follows its edge.
RunNode(n) ==
    /\ next = n
    /\ n \in Gates => resumed
    /\ \E v \in Effect(n, vals) : vals' = v /\ next' = Route(n, v)
    /\ resumed' = FALSE
    /\ asked' = "none"
    /\ signedOff' = (signedOff \ Reopens(n))
                    \cup (IF Approves(n) THEN {n} ELSE {})
    /\ UNCHANGED rejects

\* stream_with_sync resumes past a gate that is switched off.
SkipDisabled(g) ==
    /\ next = g
    /\ g \notin vals.gates
    /\ ~resumed
    /\ resumed' = TRUE
    /\ UNCHANGED <<vals, next, asked, signedOff, rejects>>

\* A rejection names a draft of this pass, so an empty gate_1 offers none.
Offered(g) ==
    IF g = "gate_1" /\ ~vals.drafts THEN {"approve"} ELSE Decisions[g]

\* A submission is written as the gate's predecessor and the run resumed.
SubmitReview(g, d) ==
    /\ next = g
    /\ g \in vals.gates
    /\ ~resumed
    /\ d \in Offered(g)
    /\ d \in Rejections => rejects < MaxRejects
    /\ vals' = Submit(g, d, vals)
    /\ next' = Route(Predecessor[g], vals')
    /\ resumed' = TRUE
    /\ asked' = d
    /\ rejects' = IF d \in Rejections THEN rejects + 1 ELSE rejects
    /\ UNCHANGED signedOff

Run == \/ \E n \in Nodes : RunNode(n)
       \/ \E g \in Gates : SkipDisabled(g)

Analyst == \/ \E gates \in GateChoices : Start(gates)
           \/ \E g \in Gates, d \in AllDecisions : SubmitReview(g, d)

Next == Run \/ Analyst

Spec == Init /\ [][Next]_vars

\* A started run is one asyncio task: whatever it can do next, it does.
FairSpec == Spec /\ WF_vars(Run)

-----------------------------------------------------------------------------
(***************************************************************************)
(* Properties.                                                             *)
(***************************************************************************)
Shipping == {"serialize_stix", "validate_bundle", "distribute"}

\* A run that a node marked failed goes no further: no worker and no gate ever
\* runs on a failed state, so no gate can offer an Approve button on the empty
\* output of a failed extraction.  Only the feedback synthesis after distribute
\* sees one.  (route_after_parse, route_unless_failed and their siblings.)
NoWorkAfterFailure ==
    next \notin {End, "synthesize_feedback"} => vals.status # "failed"

\* A failure sticks: until the analyst retries, no node (a gate's resuming
\* status, the feedback synthesis that runs after a failed distribute) turns a
\* failed run into anything else.
FailureSticks ==
    [][ vals.status = "failed" /\ vals'.attempt = vals.attempt
        => vals'.status = "failed" ]_vars

\* What is serialized, validated and written to the graph has passed all four
\* gates in the very form that ships: every rejection reopens the gates below
\* the node it returns to, and they are all visited again.
ShippedIsSignedOff == next \in Shipping => signedOff = Gates

\* The edge an analyst's decision asks for.
Target(g, d) ==
    CASE g = "gate_0"      -> "chunk_behaviors"
      [] g = "gate_chunks" -> IF d = "reject" THEN "chunk_behaviors"
                              ELSE "extract_techniques"
      [] g = "gate_1"      -> IF d = "boundary" THEN "chunk_behaviors"
                              ELSE IF d = "technique" THEN "extract_techniques"
                              ELSE "normalize"
      [] g = "gate_2"      -> IF d = "reject" THEN "normalize"
                              ELSE "serialize_stix"

\* A gate acts on the decision submitted at THIS visit, never on one left in
\* its channels by an earlier visit or an earlier attempt.
DecisionHonoured ==
    [][ (next \in vals.gates /\ resumed) => (next' = Target(next, asked)) ]_vars

\* Technique guidance written for one attempt never steers another: run 1's
\* rejections are not injected into run 2's first extraction pass (the reset in
\* start_pipeline's initial_state).
TechniqueGuidanceIsFresh ==
    next = "extract_techniques" => vals.techRerun \in {0, vals.attempt}

\* Guidance steers the reruns it was written for and no later pass: when the
\* procedure gate opens, the rechunk and re-extract guidance of earlier visits
\* and the technique overrides have been consumed, unless there was no chunk
\* left to apply them to.
GuidanceConsumed ==
    next = "gate_1" => /\ vals.chunkRerun = 0
                       /\ vals.chunkFeedback = 0
                       /\ vals.chunks => vals.techRerun = 0 /\ vals.overrides = 0

\* A run left to itself reaches its end or an enabled gate: no rejection left
\* in a channel can make a switched-off gate route backwards forever.
Settled == next = End \/ (next \in vals.gates /\ ~resumed)
RunsSettle == (~Settled) ~> Settled

(***************************************************************************)
(* The inductive invariant behind the safety properties.                   *)
(***************************************************************************)
\* An enabled gate runs with the decision submitted at this visit in the
\* channel it will read, and no other decision outranks it there.
SubmissionRecorded ==
    next \in vals.gates /\ resumed =>
        /\ asked \in Decisions[next]
        /\ next = "gate_chunks" => vals.chunkReviews = asked
        /\ next = "gate_1" => /\ vals.gate1Reviews = asked
                              /\ asked # "approve" => vals.drafts
        /\ next = "gate_2" => \/ asked = "per_relationship" /\ vals.gate2Reviews
                              \/ vals.gate2Review = asked /\ ~vals.gate2Reviews

\* Per-relationship reviews are never left behind for another visit.
NoStrayReviews ==
    vals.gate2Reviews => next = "gate_2" /\ resumed /\ next \in vals.gates

AfterGate1 == {"normalize", "gate_2"} \cup Shipping
AfterGateChunks ==
    {"extract_techniques", "draft_procedures", "gate_1"} \cup AfterGate1
AfterGate0 == {"chunk_behaviors", "gate_chunks"} \cup AfterGateChunks

\* Every gate upstream of the next node has approved what that node reads.
UpstreamSignedOff ==
    /\ next \in AfterGate0      => "gate_0" \in signedOff
    /\ next \in AfterGateChunks => "gate_chunks" \in signedOff
    /\ next \in AfterGate1      => "gate_1" \in signedOff
    /\ next \in Shipping        => "gate_2" \in signedOff

\* Which guidance may still be pending at each node.
GuidancePending ==
    /\ next # End => vals.techRerun \in {0, vals.attempt}
    /\ next \in {"gate_chunks", "extract_techniques", "draft_procedures", "gate_1"}
           => vals.chunkRerun = 0 /\ vals.chunkFeedback = 0
    /\ next \in {"draft_procedures", "gate_1"} /\ vals.chunks
           => vals.techRerun = 0
    /\ next = "gate_1" /\ vals.chunks => vals.overrides = 0

Inv ==
    /\ TypeOK
    /\ NoWorkAfterFailure
    /\ SubmissionRecorded
    /\ NoStrayReviews
    /\ UpstreamSignedOff
    /\ GuidancePending

=============================================================================
