------------------------ MODULE PipelineGraph_proofs ------------------------
(***************************************************************************)
(* The safety properties of PipelineGraph for every choice of gates, every *)
(* number of attempts and every number of rejections.                      *)
(*                                                                         *)
(* The induction reads the contracts of the nodes (PipelineNodes_proofs)   *)
(* and the routers, never a node's definition.                             *)
(***************************************************************************)
EXTENDS PipelineGraph, PipelineNodes_proofs

-----------------------------------------------------------------------------
(***************************************************************************)
(* The induction.                                                          *)
(***************************************************************************)
\* The initial states satisfy the invariant.
LEMMA InvInit == Init => Inv
<1> SUFFICES ASSUME Init PROVE Inv
  OBVIOUS
<1>1. TypeOK
  <2>1. 0 \in 0 .. MaxRejects
    BY RejectsAssumption
  <2>2. vals \in Values
    BY NoValuesTyped DEF Init
  <2> QED
    BY <2>1, <2>2 DEF Init, TypeOK
<1>2. NoWorkAfterFailure /\ SubmissionRecorded /\ UpstreamSignedOff
  BY DEF Init, NoWorkAfterFailure, SubmissionRecorded, UpstreamSignedOff, End,
         AfterGate0, AfterGateChunks, AfterGate1, Shipping, NoValues
<1>3. NoStrayReviews /\ GuidancePending
  BY DEF Init, NoStrayReviews, GuidancePending, End, NoValues
<1> QED
  BY <1>1, <1>2, <1>3 DEF Inv

\* A start clears the status and the technique guidance and enters the graph
\* upstream of every gate.
LEMMA InvStart ==
    ASSUME Inv, NEW gates \in GateChoices, Start(gates)
    PROVE  Inv'
<1>1. /\ vals' \in Values /\ vals'.status = "parsing" /\ vals'.techRerun = 0
      /\ vals'.gate2Reviews = vals.gate2Reviews
  BY InitialStateContract DEF Start, Inv, TypeOK
<1>2. /\ next = End /\ next' = "parse_and_validate" /\ resumed' = FALSE
      /\ asked' = "none" /\ UNCHANGED <<signedOff, rejects>>
  BY DEF Start
<1>3. TypeOK'
  BY <1>1, <1>2 DEF Inv, TypeOK, Nodes, Workers
<1>4. ~vals'.gate2Reviews
  BY <1>1, <1>2 DEF Inv, NoStrayReviews, End
<1>5. NoWorkAfterFailure' /\ SubmissionRecorded' /\ NoStrayReviews'
  BY <1>1, <1>2, <1>4 DEF NoWorkAfterFailure, SubmissionRecorded, NoStrayReviews
<1>6. UpstreamSignedOff' /\ GuidancePending'
  BY <1>1, <1>2 DEF UpstreamSignedOff, GuidancePending, AfterGate0,
                    AfterGateChunks, AfterGate1, Shipping
<1> QED
  BY <1>3, <1>5, <1>6 DEF Inv

\* Skipping a switched-off gate only passes its interrupt.
LEMMA InvSkip ==
    ASSUME Inv, NEW g \in Gates, SkipDisabled(g)
    PROVE  Inv'
BY DEF SkipDisabled, Inv, TypeOK, NoWorkAfterFailure, SubmissionRecorded,
       NoStrayReviews, UpstreamSignedOff, GuidancePending

\* A submission leaves its gate next, with the decision where the gate reads it.
LEMMA InvSubmit ==
    ASSUME Inv, NEW g \in Gates, NEW d \in AllDecisions, SubmitReview(g, d)
    PROVE  Inv'
<1>1. /\ next = g /\ g \in vals.gates /\ ~resumed /\ resumed' = TRUE
      /\ asked' = d /\ vals' = Submit(g, d, vals)
      /\ next' = Route(Predecessor[g], vals') /\ signedOff' = signedOff
      /\ d \in Offered(g)
  BY DEF SubmitReview
<1>2. d \in Decisions[g]
  BY <1>1 DEF Offered, Decisions, Gates
<1>3. vals \in Values /\ vals.status # "failed" /\ ~vals.gate2Reviews
  BY <1>1 DEF Inv, TypeOK, NoWorkAfterFailure, NoStrayReviews, Gates, End
<1>4. /\ SameRun(vals, vals') /\ SameGuidance(vals, vals')
      /\ vals'.status = vals.status /\ vals'.chunks = vals.chunks
      /\ vals'.drafts = vals.drafts
      /\ g = "gate_chunks" => vals'.chunkReviews = d
      /\ g = "gate_1" => vals'.gate1Reviews = d
      /\ g = "gate_2" /\ d = "per_relationship" => vals'.gate2Reviews
      /\ g = "gate_2" /\ d # "per_relationship" => vals'.gate2Review = d
      /\ g # "gate_2" \/ d # "per_relationship"
             => vals'.gate2Reviews = vals.gate2Reviews
  BY <1>1, <1>2, <1>3, SubmitContract
<1>5. next' = g
  BY <1>1, <1>3, <1>4 DEF Route, Predecessor, Gates, RouteUnlessFailed,
                          RouteAfterChunkBehaviors
<1>6. rejects' \in 0 .. MaxRejects
  BY RejectsAssumption DEF SubmitReview, Inv, TypeOK
<1>7. TypeOK'
  BY <1>1, <1>4, <1>5, <1>6 DEF Inv, TypeOK, SameRun, Nodes
<1>8. NoWorkAfterFailure' /\ UpstreamSignedOff'
  BY <1>1, <1>3, <1>4, <1>5 DEF Inv, NoWorkAfterFailure, UpstreamSignedOff
<1>9. GuidancePending'
  BY <1>1, <1>4, <1>5 DEF Inv, GuidancePending, SameRun, SameGuidance
<1>10. g = "gate_1" /\ d # "approve" => vals.drafts
  BY <1>1 DEF Offered
<1>11. SubmissionRecorded'
  BY <1>1, <1>2, <1>3, <1>4, <1>5, <1>10 DEF SubmissionRecorded
<1>12. NoStrayReviews'
  BY <1>1, <1>3, <1>4, <1>5 DEF NoStrayReviews, SameRun
<1> QED
  BY <1>7, <1>8, <1>9, <1>11, <1>12 DEF Inv

\* What is left to show of a node once the runner's bookkeeping is discharged.
LEMMA RunNodeRest ==
    ASSUME Inv, NEW n \in Nodes, RunNode(n),
           SameRun(vals, vals'), ~vals'.gate2Reviews, next' \in Nodes \cup {End},
           NoWorkAfterFailure', UpstreamSignedOff', GuidancePending'
    PROVE  Inv'
<1>1. resumed' = FALSE /\ asked' = "none" /\ rejects' = rejects
  BY DEF RunNode
<1>2. signedOff' \in SUBSET Gates
  BY DEF RunNode, Inv, TypeOK, Approves
<1>3. TypeOK'
  BY <1>1, <1>2 DEF Inv, TypeOK, SameRun
<1>4. SubmissionRecorded' /\ NoStrayReviews'
  BY <1>1 DEF SubmissionRecorded, NoStrayReviews
<1> QED
  BY <1>3, <1>4 DEF Inv

\* A worker returns what its contract says, and moves along its edges.
LEMMA InvWorker ==
    ASSUME Inv, NEW n \in Workers, RunNode(n)
    PROVE  Inv'
<1>1. /\ vals \in Values /\ ~vals.gate2Reviews /\ next = n
      /\ n # "synthesize_feedback" => vals.status # "failed"
  BY DEF Inv, TypeOK, NoStrayReviews, NoWorkAfterFailure, RunNode, Workers, End
<1>2. /\ vals' \in Effect(n, vals) /\ next' = Route(n, vals')
      /\ signedOff' = signedOff \ Reopens(n)
  BY DEF RunNode, Approves, Workers, Gates
<1>3. UpstreamSignedOff /\ GuidancePending
  BY DEF Inv
<1>4. n \in Nodes
  BY DEF Nodes
<1>5. CASE n = "parse_and_validate"
  <2>1. vals' \in ParseAndValidate(vals)
    BY <1>2, <1>5 DEF Effect
  <2>2. next' = Route("parse_and_validate", vals')
    BY <1>2, <1>5
  <2>3. NoWorkAfterFailure' /\ next' \in Nodes \cup {End}
    BY <1>1, <1>5, <2>1, <2>2, ParseQuiet
       DEF Route, RouteAfterParse, NoWorkAfterFailure, Nodes, Workers, Gates, End
  <2>4. UpstreamSignedOff'
    BY <1>1, <1>2, <1>3, <1>5, <2>1, <2>2
       DEF UpstreamSignedOff, Route, RouteAfterParse, Reopens, End, AfterGate0, AfterGateChunks, AfterGate1, Shipping
  <2>5. SameRun(vals, vals') /\ ~vals'.gate2Reviews
    BY <1>1, <2>1, ParseQuiet DEF Quiet
  <2>6. GuidancePending'
    BY <1>1, <1>3, <1>5, <2>1, <2>2, <2>5, ParseQuiet
       DEF GuidancePending, Route, RouteAfterParse, SameRun, End, Quiet, SameGuidance
  <2> QED
    BY <1>4, <2>3, <2>4, <2>5, <2>6, RunNodeRest
<1>6. CASE n = "extract_figures"
  <2>1. vals' \in ExtractFigures(vals)
    BY <1>2, <1>6 DEF Effect
  <2>2. next' = Route("extract_figures", vals')
    BY <1>2, <1>6
  <2>3. NoWorkAfterFailure' /\ next' \in Nodes \cup {End}
    BY <1>1, <1>6, <2>1, <2>2, FiguresQuiet
       DEF Route, NoWorkAfterFailure, Nodes, Workers, Gates, End
  <2>4. UpstreamSignedOff'
    BY <1>1, <1>2, <1>3, <1>6, <2>1, <2>2
       DEF UpstreamSignedOff, Route, Reopens, End, AfterGate0, AfterGateChunks, AfterGate1, Shipping
  <2>5. SameRun(vals, vals') /\ ~vals'.gate2Reviews
    BY <1>1, <2>1, FiguresQuiet DEF Quiet
  <2>6. GuidancePending'
    BY <1>1, <1>3, <1>6, <2>1, <2>2, <2>5, FiguresQuiet
       DEF GuidancePending, Route, SameRun, End, Quiet, SameGuidance
  <2> QED
    BY <1>4, <2>3, <2>4, <2>5, <2>6, RunNodeRest
<1>7. CASE n = "classify_sections"
  <2>1. vals' \in ClassifySections(vals)
    BY <1>2, <1>7 DEF Effect
  <2>2. next' = Route("classify_sections", vals')
    BY <1>2, <1>7
  <2>3. NoWorkAfterFailure' /\ next' \in Nodes \cup {End}
    BY <1>1, <1>7, <2>1, <2>2, SectionsQuiet
       DEF Route, NoWorkAfterFailure, Nodes, Workers, Gates, End
  <2>4. UpstreamSignedOff'
    BY <1>1, <1>2, <1>3, <1>7, <2>1, <2>2
       DEF UpstreamSignedOff, Route, Reopens, End, AfterGate0, AfterGateChunks, AfterGate1, Shipping
  <2>5. SameRun(vals, vals') /\ ~vals'.gate2Reviews
    BY <1>1, <2>1, SectionsQuiet DEF Quiet
  <2>6. GuidancePending'
    BY <1>1, <1>3, <1>7, <2>1, <2>2, <2>5, SectionsQuiet
       DEF GuidancePending, Route, SameRun, End, Quiet, SameGuidance
  <2> QED
    BY <1>4, <2>3, <2>4, <2>5, <2>6, RunNodeRest
<1>8. CASE n = "extract_entities"
  <2>1. vals' \in ExtractEntities(vals)
    BY <1>2, <1>8 DEF Effect
  <2>2. next' = Route("extract_entities", vals')
    BY <1>2, <1>8
  <2>3. NoWorkAfterFailure' /\ next' \in Nodes \cup {End}
    BY <1>1, <1>8, <2>1, <2>2, EntitiesQuiet
       DEF Route, RouteUnlessFailed, NoWorkAfterFailure, Nodes, Workers, Gates, End
  <2>4. UpstreamSignedOff'
    BY <1>1, <1>2, <1>3, <1>8, <2>1, <2>2
       DEF UpstreamSignedOff, Route, RouteUnlessFailed, Reopens, End, AfterGate0, AfterGateChunks, AfterGate1, Shipping
  <2>5. SameRun(vals, vals') /\ ~vals'.gate2Reviews
    BY <1>1, <2>1, EntitiesQuiet DEF Quiet
  <2>6. GuidancePending'
    BY <1>1, <1>3, <1>8, <2>1, <2>2, <2>5, EntitiesQuiet
       DEF GuidancePending, Route, RouteUnlessFailed, SameRun, End, Quiet, SameGuidance
  <2> QED
    BY <1>4, <2>3, <2>4, <2>5, <2>6, RunNodeRest
<1>9. CASE n = "chunk_behaviors"
  <2>1. vals' \in ChunkBehaviors(vals)
    BY <1>2, <1>9 DEF Effect
  <2>2. next' = Route("chunk_behaviors", vals')
    BY <1>2, <1>9
  <2>3. NoWorkAfterFailure' /\ next' \in Nodes \cup {End}
    BY <1>1, <1>9, <2>1, <2>2, ChunksContract
       DEF Route, RouteAfterChunkBehaviors, NoWorkAfterFailure, Nodes, Workers, Gates, End
  <2>4. UpstreamSignedOff'
    BY <1>1, <1>2, <1>3, <1>9, <2>1, <2>2
       DEF UpstreamSignedOff, Route, RouteAfterChunkBehaviors, Reopens, End, AfterGate0, AfterGateChunks, AfterGate1, Shipping
  <2>5. SameRun(vals, vals') /\ ~vals'.gate2Reviews
    BY <1>1, <2>1, ChunksContract
  <2>6. GuidancePending'
    BY <1>1, <1>3, <1>9, <2>1, <2>2, <2>5, ChunksContract
       DEF GuidancePending, Route, RouteAfterChunkBehaviors, SameRun, End
  <2> QED
    BY <1>4, <2>3, <2>4, <2>5, <2>6, RunNodeRest
<1>10. CASE n = "extract_techniques"
  <2>1. vals' \in ExtractTechniques(vals)
    BY <1>2, <1>10 DEF Effect
  <2>2. next' = Route("extract_techniques", vals')
    BY <1>2, <1>10
  <2>3. NoWorkAfterFailure' /\ next' \in Nodes \cup {End}
    BY <1>1, <1>10, <2>1, <2>2, TechniquesContract
       DEF Route, RouteUnlessFailed, NoWorkAfterFailure, Nodes, Workers, Gates, End
  <2>4. UpstreamSignedOff'
    BY <1>1, <1>2, <1>3, <1>10, <2>1, <2>2
       DEF UpstreamSignedOff, Route, RouteUnlessFailed, Reopens, End, AfterGate0, AfterGateChunks, AfterGate1, Shipping
  <2>5. SameRun(vals, vals') /\ ~vals'.gate2Reviews
    BY <1>1, <2>1, TechniquesContract
  <2>6. GuidancePending'
    BY <1>1, <1>3, <1>10, <2>1, <2>2, <2>5, TechniquesContract
       DEF GuidancePending, Route, RouteUnlessFailed, SameRun, End
  <2> QED
    BY <1>4, <2>3, <2>4, <2>5, <2>6, RunNodeRest
<1>11. CASE n = "draft_procedures"
  <2>1. vals' \in DraftProcedures(vals)
    BY <1>2, <1>11 DEF Effect
  <2>2. next' = Route("draft_procedures", vals')
    BY <1>2, <1>11
  <2>3. NoWorkAfterFailure' /\ next' \in Nodes \cup {End}
    BY <1>1, <1>11, <2>1, <2>2, DraftsContract
       DEF Route, RouteUnlessFailed, NoWorkAfterFailure, Nodes, Workers, Gates, End
  <2>4. UpstreamSignedOff'
    BY <1>1, <1>2, <1>3, <1>11, <2>1, <2>2
       DEF UpstreamSignedOff, Route, RouteUnlessFailed, Reopens, End, AfterGate0, AfterGateChunks, AfterGate1, Shipping
  <2>5. SameRun(vals, vals') /\ ~vals'.gate2Reviews
    BY <1>1, <2>1, DraftsContract
  <2>6. GuidancePending'
    BY <1>1, <1>3, <1>11, <2>1, <2>2, <2>5, DraftsContract
       DEF GuidancePending, Route, RouteUnlessFailed, SameRun, End
  <2> QED
    BY <1>4, <2>3, <2>4, <2>5, <2>6, RunNodeRest
<1>12. CASE n = "normalize"
  <2>1. vals' \in Normalize(vals)
    BY <1>2, <1>12 DEF Effect
  <2>2. next' = Route("normalize", vals')
    BY <1>2, <1>12
  <2>3. NoWorkAfterFailure' /\ next' \in Nodes \cup {End}
    BY <1>1, <1>12, <2>1, <2>2, NormalizeQuiet
       DEF Route, NoWorkAfterFailure, Nodes, Workers, Gates, End
  <2>4. UpstreamSignedOff'
    BY <1>1, <1>2, <1>3, <1>12, <2>1, <2>2
       DEF UpstreamSignedOff, Route, Reopens, End, AfterGate0, AfterGateChunks, AfterGate1, Shipping
  <2>5. SameRun(vals, vals') /\ ~vals'.gate2Reviews
    BY <1>1, <2>1, NormalizeQuiet DEF Quiet
  <2>6. GuidancePending'
    BY <1>1, <1>3, <1>12, <2>1, <2>2, <2>5, NormalizeQuiet
       DEF GuidancePending, Route, SameRun, End, Quiet, SameGuidance
  <2> QED
    BY <1>4, <2>3, <2>4, <2>5, <2>6, RunNodeRest
<1>13. CASE n = "serialize_stix"
  <2>1. vals' \in SerializeStix(vals)
    BY <1>2, <1>13 DEF Effect
  <2>2. next' = Route("serialize_stix", vals')
    BY <1>2, <1>13
  <2>3. NoWorkAfterFailure' /\ next' \in Nodes \cup {End}
    BY <1>1, <1>13, <2>1, <2>2, SerializeQuiet
       DEF Route, NoWorkAfterFailure, Nodes, Workers, Gates, End
  <2>4. UpstreamSignedOff'
    BY <1>1, <1>2, <1>3, <1>13, <2>1, <2>2
       DEF UpstreamSignedOff, Route, Reopens, End, AfterGate0, AfterGateChunks, AfterGate1, Shipping
  <2>5. SameRun(vals, vals') /\ ~vals'.gate2Reviews
    BY <1>1, <2>1, SerializeQuiet DEF Quiet
  <2>6. GuidancePending'
    BY <1>1, <1>3, <1>13, <2>1, <2>2, <2>5, SerializeQuiet
       DEF GuidancePending, Route, SameRun, End, Quiet, SameGuidance
  <2> QED
    BY <1>4, <2>3, <2>4, <2>5, <2>6, RunNodeRest
<1>14. CASE n = "validate_bundle"
  <2>1. vals' \in ValidateBundle(vals)
    BY <1>2, <1>14 DEF Effect
  <2>2. next' = Route("validate_bundle", vals')
    BY <1>2, <1>14
  <2>3. NoWorkAfterFailure' /\ next' \in Nodes \cup {End}
    BY <1>1, <1>14, <2>1, <2>2, ValidateQuiet
       DEF Route, RouteAfterValidate, NoWorkAfterFailure, Nodes, Workers, Gates, End
  <2>4. UpstreamSignedOff'
    BY <1>1, <1>2, <1>3, <1>14, <2>1, <2>2
       DEF UpstreamSignedOff, Route, RouteAfterValidate, Reopens, End, AfterGate0, AfterGateChunks, AfterGate1, Shipping
  <2>5. SameRun(vals, vals') /\ ~vals'.gate2Reviews
    BY <1>1, <2>1, ValidateQuiet DEF Quiet
  <2>6. GuidancePending'
    BY <1>1, <1>3, <1>14, <2>1, <2>2, <2>5, ValidateQuiet
       DEF GuidancePending, Route, RouteAfterValidate, SameRun, End, Quiet, SameGuidance
  <2> QED
    BY <1>4, <2>3, <2>4, <2>5, <2>6, RunNodeRest
<1>15. CASE n = "distribute"
  <2>1. vals' \in Distribute(vals)
    BY <1>2, <1>15 DEF Effect
  <2>2. next' = Route("distribute", vals')
    BY <1>2, <1>15
  <2>3. NoWorkAfterFailure' /\ next' \in Nodes \cup {End}
    BY <1>1, <1>15, <2>1, <2>2, DistributeQuiet
       DEF Route, NoWorkAfterFailure, Nodes, Workers, Gates, End
  <2>4. UpstreamSignedOff'
    BY <1>1, <1>2, <1>3, <1>15, <2>1, <2>2
       DEF UpstreamSignedOff, Route, Reopens, End, AfterGate0, AfterGateChunks, AfterGate1, Shipping
  <2>5. SameRun(vals, vals') /\ ~vals'.gate2Reviews
    BY <1>1, <2>1, DistributeQuiet DEF Quiet
  <2>6. GuidancePending'
    BY <1>1, <1>3, <1>15, <2>1, <2>2, <2>5, DistributeQuiet
       DEF GuidancePending, Route, SameRun, End, Quiet, SameGuidance
  <2> QED
    BY <1>4, <2>3, <2>4, <2>5, <2>6, RunNodeRest
<1>16. CASE n = "synthesize_feedback"
  <2>1. vals' \in SynthesizeFeedback(vals)
    BY <1>2, <1>16 DEF Effect
  <2>2. next' = Route("synthesize_feedback", vals')
    BY <1>2, <1>16
  <2>3. NoWorkAfterFailure' /\ next' \in Nodes \cup {End}
    BY <1>1, <1>16, <2>1, <2>2, SynthesizeQuiet
       DEF Route, NoWorkAfterFailure, Nodes, Workers, Gates, End
  <2>4. UpstreamSignedOff'
    BY <1>1, <1>2, <1>3, <1>16, <2>1, <2>2
       DEF UpstreamSignedOff, Route, Reopens, End, AfterGate0, AfterGateChunks, AfterGate1, Shipping
  <2>5. SameRun(vals, vals') /\ ~vals'.gate2Reviews
    BY <1>1, <2>1, SynthesizeQuiet DEF Quiet
  <2>6. GuidancePending'
    BY <1>1, <1>3, <1>16, <2>1, <2>2, <2>5, SynthesizeQuiet
       DEF GuidancePending, Route, SameRun, End, Quiet, SameGuidance
  <2> QED
    BY <1>4, <2>3, <2>4, <2>5, <2>6, RunNodeRest
<1> QED
  BY <1>5, <1>6, <1>7, <1>8, <1>9, <1>10, <1>11, <1>12, <1>13, <1>14, <1>15,
     <1>16 DEF Workers

\* A gate returns what its contract says; going forward it has signed off.
LEMMA InvGate ==
    ASSUME Inv, NEW g \in Gates, RunNode(g)
    PROVE  Inv'
<1>1. /\ vals \in Values /\ next = g /\ resumed /\ vals.status # "failed"
      /\ vals.gate2Reviews => g = "gate_2" /\ g \in vals.gates
  BY DEF Inv, TypeOK, NoStrayReviews, NoWorkAfterFailure, RunNode, Gates, End
<1>2. vals' \in Effect(g, vals) /\ next' = Route(g, vals')
  BY DEF RunNode
<1>3. UpstreamSignedOff /\ GuidancePending
  BY DEF Inv
<1>4. g \in Nodes
  BY DEF Nodes
<1>5. signedOff \subseteq signedOff'
  BY DEF RunNode, Reopens, Gates
<1>6. g \notin vals.gates \/ asked \notin Rejections => g \in signedOff'
  BY DEF RunNode, Approves
<1>7. g \in vals.gates => /\ asked \in Decisions[g]
                          /\ g = "gate_chunks" => vals.chunkReviews = asked
                          /\ g = "gate_1" => /\ vals.gate1Reviews = asked
                                             /\ asked # "approve" => vals.drafts
                          /\ g = "gate_2" =>
                               \/ asked = "per_relationship" /\ vals.gate2Reviews
                               \/ vals.gate2Review = asked /\ ~vals.gate2Reviews
  BY <1>1 DEF Inv, SubmissionRecorded
<1>8. CASE g = "gate_0"
  <2>1. vals' \in Gate0(vals) /\ next' = "chunk_behaviors"
    BY <1>2, <1>8 DEF Effect, Route
  <2>2. Quiet(vals, vals') /\ vals'.status # "failed"
    BY <1>1, <2>1, Gate0Contract
  <2>3. "gate_0" \in signedOff'
    BY <1>6, <1>7, <1>8 DEF Decisions, Rejections
  <2>4. NoWorkAfterFailure' /\ UpstreamSignedOff' /\ GuidancePending'
    BY <1>1, <1>3, <1>8, <2>1, <2>2, <2>3
       DEF NoWorkAfterFailure, UpstreamSignedOff, GuidancePending, Quiet,
           SameRun, SameGuidance, End, AfterGate0, AfterGateChunks, AfterGate1,
           Shipping
  <2>5. ~vals'.gate2Reviews /\ SameRun(vals, vals')
    BY <1>1, <1>8, <2>2 DEF Quiet
  <2> QED
    BY <1>4, <2>1, <2>4, <2>5, RunNodeRest DEF Nodes, Workers
<1>9. CASE g = "gate_chunks"
  <2>1. vals' \in GateChunks(vals) /\ next' = RouteAfterGateChunks(vals')
    BY <1>2, <1>9 DEF Effect, Route
  <2>2. /\ SameRun(vals, vals') /\ vals'.gate2Reviews = vals.gate2Reviews
        /\ vals'.status # "failed"
        /\ vals'.chunkFeedback = vals.chunkFeedback
        /\ vals'.techRerun = vals.techRerun
        /\ "gate_chunks" \in vals.gates /\ vals.chunkReviews = "reject"
           => vals'.chunksRouting = "chunk_behaviors"
        /\ "gate_chunks" \notin vals.gates \/ vals.chunkReviews # "reject"
           => vals'.chunksRouting = "none" /\ vals'.chunkRerun = vals.chunkRerun
    BY <1>1, <2>1, GateChunksContract
  <2>3. next' = "chunk_behaviors" \/ next' = "extract_techniques"
    BY <2>1 DEF RouteAfterGateChunks
  <2>4. next' = "extract_techniques" =>
            /\ "gate_chunks" \in signedOff'
            /\ vals'.chunkRerun = vals.chunkRerun
    BY <1>6, <1>7, <1>9, <2>1, <2>2
       DEF RouteAfterGateChunks, Decisions, Rejections
  <2>5. NoWorkAfterFailure' /\ next' \in Nodes
    BY <2>2, <2>3 DEF NoWorkAfterFailure, Nodes, Workers
  <2>6. UpstreamSignedOff'
    BY <1>1, <1>3, <1>5, <1>9, <2>3, <2>4
       DEF UpstreamSignedOff, AfterGate0, AfterGateChunks, AfterGate1, Shipping
  <2>7. GuidancePending'
    BY <1>1, <1>3, <1>9, <2>2, <2>3, <2>4 DEF GuidancePending, SameRun, End
  <2>8. ~vals'.gate2Reviews
    BY <1>1, <1>9, <2>2
  <2> QED
    BY <1>4, <2>2, <2>5, <2>6, <2>7, <2>8, RunNodeRest
<1>10. CASE g = "gate_1"
  <2>1. vals' \in Gate1(vals) /\ next' = RouteAfterGate1(vals')
    BY <1>2, <1>10 DEF Effect, Route
  <2>2. /\ SameRun(vals, vals') /\ vals'.gate2Reviews = vals.gate2Reviews
        /\ vals'.status # "failed" /\ vals'.chunkRerun = vals.chunkRerun
        /\ vals'.techRerun \in {vals.techRerun, vals.attempt}
        /\ vals'.gate1Routing
               \in {"none", "chunk_behaviors", "extract_techniques"}
        /\ vals'.gate1Routing # "chunk_behaviors"
           => vals'.chunkFeedback = vals.chunkFeedback
        /\ "gate_1" \in vals.gates => vals'.gate1Routing = RejectionRouting(vals)
        /\ "gate_1" \notin vals.gates => vals'.gate1Routing = "none"
    BY <1>1, <2>1, Gate1Contract
  <2>3. /\ next' \in {"normalize", "chunk_behaviors", "extract_techniques"}
        /\ next' # "chunk_behaviors" => vals'.chunkFeedback = vals.chunkFeedback
    BY <2>1, <2>2 DEF RouteAfterGate1
  <2>4. next' = "normalize" => "gate_1" \in signedOff'
    BY <1>6, <1>7, <1>10, <2>1, <2>2
       DEF RouteAfterGate1, RejectionRouting, Decisions, Rejections
  <2>5. NoWorkAfterFailure' /\ next' \in Nodes
    BY <2>2, <2>3 DEF NoWorkAfterFailure, Nodes, Workers
  <2>6. UpstreamSignedOff'
    BY <1>1, <1>3, <1>5, <1>10, <2>3, <2>4
       DEF UpstreamSignedOff, AfterGate0, AfterGateChunks, AfterGate1, Shipping
  <2>7. GuidancePending'
    BY <1>1, <1>3, <1>10, <2>2, <2>3 DEF GuidancePending, SameRun, End
  <2>8. ~vals'.gate2Reviews
    BY <1>1, <1>10, <2>2
  <2> QED
    BY <1>4, <2>2, <2>5, <2>6, <2>7, <2>8, RunNodeRest
<1>11. CASE g = "gate_2"
  <2>1. vals' \in Gate2(vals) /\ next' = RouteAfterGate2(vals')
    BY <1>2, <1>11 DEF Effect, Route
  <2>2. /\ SameRun(vals, vals') /\ SameGuidance(vals, vals')
        /\ vals'.status # "failed"
        /\ vals'.gate2Reviews => vals.gate2Reviews /\ "gate_2" \notin vals.gates
        /\ "gate_2" \in vals.gates /\ ~vals.gate2Reviews
           /\ vals.gate2Review # "approve" => ~vals'.gate2Approved
    BY <1>1, <2>1, Gate2Contract
  <2>3. next' \in {"normalize", "serialize_stix"}
    BY <2>1 DEF RouteAfterGate2
  <2>4. next' = "serialize_stix" => "gate_2" \in signedOff'
    BY <1>6, <1>7, <1>11, <2>1, <2>2 DEF RouteAfterGate2, Decisions, Rejections
  <2>5. NoWorkAfterFailure' /\ next' \in Nodes
    BY <2>2, <2>3 DEF NoWorkAfterFailure, Nodes, Workers
  <2>6. UpstreamSignedOff'
    BY <1>1, <1>3, <1>5, <1>11, <2>3, <2>4
       DEF UpstreamSignedOff, AfterGate0, AfterGateChunks, AfterGate1, Shipping
  <2>7. GuidancePending'
    BY <1>1, <1>3, <1>11, <2>2, <2>3
       DEF GuidancePending, SameRun, SameGuidance, End
  <2>8. ~vals'.gate2Reviews
    BY <1>1, <1>11, <2>2
  <2> QED
    BY <1>4, <2>2, <2>5, <2>6, <2>7, <2>8, RunNodeRest
<1> QED
  BY <1>8, <1>9, <1>10, <1>11 DEF Gates

-----------------------------------------------------------------------------
(***************************************************************************)
(* The theorems.                                                           *)
(***************************************************************************)
\* The invariant is inductive: every start, node, skip and submission keeps it.
THEOREM InvHolds == Spec => []Inv
<1>1. Inv /\ [Next]_vars => Inv'
  <2> SUFFICES ASSUME Inv, [Next]_vars PROVE Inv'
    OBVIOUS
  <2>1. CASE UNCHANGED vars
    BY <2>1 DEF vars, Inv, TypeOK, NoWorkAfterFailure, SubmissionRecorded,
                NoStrayReviews, UpstreamSignedOff, GuidancePending
  <2>2. CASE \E n \in Nodes : RunNode(n)
    BY <2>2, InvWorker, InvGate DEF Nodes
  <2>3. CASE \E g \in Gates : SkipDisabled(g)
    BY <2>3, InvSkip
  <2>4. CASE \E gates \in GateChoices : Start(gates)
    BY <2>4, InvStart
  <2>5. CASE \E g \in Gates, d \in AllDecisions : SubmitReview(g, d)
    BY <2>5, InvSubmit
  <2> QED
    BY <2>1, <2>2, <2>3, <2>4, <2>5 DEF Next, Run, Analyst
<1> QED
  BY <1>1, InvInit, PTL DEF Spec

\* The channels, the program counter and the ghosts keep their types.
THEOREM TypeCorrect == Spec => []TypeOK
<1>1. Inv => TypeOK
  BY DEF Inv
<1> QED
  BY <1>1, InvHolds, PTL

\* No node and no gate runs on a failed state (but the feedback synthesis).
THEOREM NoWorkAfterFailureHolds == Spec => []NoWorkAfterFailure
<1>1. Inv => NoWorkAfterFailure
  BY DEF Inv
<1> QED
  BY <1>1, InvHolds, PTL

\* What is serialized, validated and written has passed all four gates, under
\* any number of rejections and retries.
THEOREM ShippedIsSignedOffHolds == Spec => []ShippedIsSignedOff
<1>1. Inv => ShippedIsSignedOff
  <2> SUFFICES ASSUME Inv, next \in Shipping PROVE signedOff = Gates
    BY DEF ShippedIsSignedOff
  <2>1. /\ next \in AfterGate1 /\ next \in AfterGateChunks /\ next \in AfterGate0
    BY DEF AfterGate0, AfterGateChunks, AfterGate1
  <2>2. Gates \subseteq signedOff
    BY <2>1 DEF Inv, UpstreamSignedOff, Gates
  <2> QED
    BY <2>2 DEF Inv, TypeOK
<1> QED
  BY <1>1, InvHolds, PTL

\* Technique guidance of one attempt never reaches another one's extraction.
THEOREM TechniqueGuidanceIsFreshHolds == Spec => []TechniqueGuidanceIsFresh
<1>1. Inv => TechniqueGuidanceIsFresh
  BY DEF Inv, GuidancePending, TechniqueGuidanceIsFresh, End
<1> QED
  BY <1>1, InvHolds, PTL

\* The procedure gate opens on consumed guidance.
THEOREM GuidanceConsumedHolds == Spec => []GuidanceConsumed
<1>1. Inv => GuidanceConsumed
  BY DEF Inv, GuidancePending, GuidanceConsumed
<1> QED
  BY <1>1, InvHolds, PTL

\* A failed run stays failed until the analyst retries it.
THEOREM FailureSticksHolds == Spec => FailureSticks
<1> DEFINE Sticks == vals.status = "failed" /\ vals'.attempt = vals.attempt
                     => vals'.status = "failed"
<1>1. Inv /\ [Next]_vars => [Sticks]_vars
  <2> SUFFICES ASSUME Inv, Next, vals.status = "failed",
                      vals'.attempt = vals.attempt
               PROVE  vals'.status = "failed"
    OBVIOUS
  <2>1. vals \in Values /\ next \in {End, "synthesize_feedback"}
    BY DEF Inv, TypeOK, NoWorkAfterFailure
  <2>2. ASSUME NEW n \in Nodes, RunNode(n) PROVE vals'.status = "failed"
    <3>1. n = "synthesize_feedback"
      BY <2>1, <2>2 DEF RunNode, Nodes, Workers, Gates, End
    <3>2. vals' \in SynthesizeFeedback(vals)
      BY <2>2, <3>1 DEF RunNode, Effect
    <3> QED
      BY <2>1, <3>2, SynthesizeQuiet
  <2>3. ASSUME NEW g \in Gates, SkipDisabled(g) PROVE vals'.status = "failed"
    BY <2>3 DEF SkipDisabled
  <2>4. ASSUME NEW gates \in GateChoices, Start(gates) PROVE FALSE
    <3>1. vals'.attempt = vals.attempt + 1
      BY <2>1, <2>4, InitialStateContract DEF Start
    <3> QED
      BY <2>1, <3>1, AttemptsAssumption DEF Values, Attempts
  <2>5. ASSUME NEW g \in Gates, NEW d \in AllDecisions, SubmitReview(g, d)
        PROVE  FALSE
    BY <2>1, <2>5 DEF SubmitReview, Gates, End
  <2> QED
    BY <2>2, <2>3, <2>4, <2>5 DEF Next, Run, Analyst
<1> QED
  BY <1>1, InvHolds, PTL DEF Spec, FailureSticks

\* A gate takes the edge of the decision submitted at this very visit.
THEOREM DecisionHonouredHolds == Spec => DecisionHonoured
<1> DEFINE Honours == (next \in vals.gates /\ resumed)
                      => (next' = Target(next, asked))
<1>1. Inv /\ [Next]_vars => [Honours]_vars
  <2> SUFFICES ASSUME Inv, Next, next \in vals.gates, resumed
               PROVE  next' = Target(next, asked)
    OBVIOUS
  <2>1. vals \in Values /\ next \in Gates /\ next # End
    BY DEF Inv, TypeOK, Values, Gates, End
  <2>2. /\ asked \in Decisions[next]
        /\ next = "gate_chunks" => vals.chunkReviews = asked
        /\ next = "gate_1" => /\ vals.gate1Reviews = asked
                              /\ asked # "approve" => vals.drafts
        /\ next = "gate_2" => \/ asked = "per_relationship" /\ vals.gate2Reviews
                              \/ vals.gate2Review = asked /\ ~vals.gate2Reviews
    BY DEF Inv, SubmissionRecorded
  <2>3. vals' \in Effect(next, vals) /\ next' = Route(next, vals')
    BY <2>1 DEF Next, Run, Analyst, RunNode, SkipDisabled, Start, SubmitReview
  <2>4. CASE next = "gate_0"
    BY <2>3, <2>4 DEF Route, Target
  <2>5. CASE next = "gate_chunks"
    <3>1. vals' \in GateChunks(vals) /\ next' = RouteAfterGateChunks(vals')
      BY <2>3, <2>5 DEF Effect, Route
    <3>2. IF asked = "reject" THEN vals'.chunksRouting = "chunk_behaviors"
                              ELSE vals'.chunksRouting = "none"
      BY <2>1, <2>2, <2>5, <3>1, GateChunksContract
    <3> QED
      BY <2>5, <3>1, <3>2 DEF RouteAfterGateChunks, Target
  <2>6. CASE next = "gate_1"
    <3>1. vals' \in Gate1(vals) /\ next' = RouteAfterGate1(vals')
      BY <2>3, <2>6 DEF Effect, Route
    <3>2. vals'.gate1Routing = RejectionRouting(vals)
      BY <2>1, <2>6, <3>1, Gate1Contract
    <3>3. asked \in {"approve", "boundary", "technique"}
      BY <2>2, <2>6 DEF Decisions
    <3> QED
      BY <2>2, <2>6, <3>1, <3>2, <3>3
         DEF RouteAfterGate1, RejectionRouting, Target
  <2>7. CASE next = "gate_2"
    <3>1. vals' \in Gate2(vals) /\ next' = RouteAfterGate2(vals')
      BY <2>3, <2>7 DEF Effect, Route
    <3>2. /\ vals.gate2Reviews \/ vals.gate2Review = "approve"
             => vals'.gate2Approved
          /\ ~vals.gate2Reviews /\ vals.gate2Review # "approve"
             => ~vals'.gate2Approved
      BY <2>1, <2>7, <3>1, Gate2Contract
    <3>3. asked \in {"approve", "reject", "per_relationship"}
      BY <2>2, <2>7 DEF Decisions
    <3>4. CASE asked = "reject"
      <4>1. ~vals.gate2Reviews /\ vals.gate2Review = "reject"
        BY <2>2, <2>7, <3>4
      <4> QED
        BY <2>7, <3>1, <3>2, <3>4, <4>1 DEF RouteAfterGate2, Target
    <3>5. CASE asked # "reject"
      <4>1. vals.gate2Reviews \/ vals.gate2Review = "approve"
        BY <2>1, <2>2, <2>7, <3>3, <3>5 DEF Values
      <4> QED
        BY <2>7, <3>1, <3>2, <3>5, <4>1 DEF RouteAfterGate2, Target
    <3> QED
      BY <3>4, <3>5
  <2> QED
    BY <2>1, <2>4, <2>5, <2>6, <2>7 DEF Gates
<1> QED
  BY <1>1, InvHolds, PTL DEF Spec, DecisionHonoured

=============================================================================
