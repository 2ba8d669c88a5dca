-------------------------- MODULE GraphStore_proofs --------------------------
(***************************************************************************)
(* The invariants of GraphStore for every set of sources and techniques,   *)
(* every number of retries and every number of faults.  CatalogueUntouched *)
(* is inductive as it stands; the rows of a source need RowsInv, and what  *)
(* undo reaches and a completed run leaves need StoreInv.                  *)
(***************************************************************************)
EXTENDS GraphStore, TLAPS

\* What a bundle gives the graph never has a catalogue id: the statements skip
\* the catalogue's nodes and the edges inside it.
LEMMA NodeQueriesAreOwn ==
    \A a, ts : \A o \in NodeQueries(a, ts) : o \notin CatalogueIds
BY DEF NodeQueries, CatalogueIds

\* No relationship the pipeline asks for runs between two catalogue objects.
LEMMA RelQueriesLeaveCatalogue ==
    \A a, ts : \A r \in RelQueries(a, ts) :
        ~(r[1] \in CatalogueIds /\ r[2] \in CatalogueIds)
BY DEF RelQueries, CatalogueIds

\* A report is never an object of the catalogue.
LEMMA ReportsAreOwn == \A a : Own("report", a) \notin CatalogueIds
BY DEF Own, CatalogueIds, CatalogueOwned

\* Removing nodes that are not the catalogue's leaves the catalogue alone.
LEMMA DetachKeepsCatalogue ==
    ASSUME CatalogueUntouched, UNCHANGED loaded,
           NEW gone, \A i \in gone : i \notin loaded, Detach(gone)
    PROVE  CatalogueUntouched'
<1>1. DOMAIN nodes' = DOMAIN nodes \ gone
  BY DEF Detach
<1>2. \A i \in DOMAIN nodes' : nodes'[i] = nodes[i]
  BY DEF Detach
<1>3. edges' \subseteq edges
  BY DEF Detach
<1> QED
  BY <1>1, <1>2, <1>3 DEF CatalogueUntouched

\* No ingest, failure, retry or undo changes what is ATT&CK's (distribute and
\* undo_graph_source).
THEOREM CatalogueUntouchedHolds == Spec => []CatalogueUntouched
<1>1. Init => CatalogueUntouched
  <2> SUFFICES ASSUME Init PROVE CatalogueUntouched
    OBVIOUS
  <2>1. PICK ts \in SUBSET Techniques : loaded = [kind : CatalogueOwned, of : ts]
    BY DEF Init
  <2>2. loaded \subseteq CatalogueIds
    BY <2>1 DEF CatalogueIds
  <2> QED
    BY <2>2 DEF Init, CatalogueUntouched
<1>2. CatalogueUntouched /\ [Next]_vars => CatalogueUntouched'
  <2> SUFFICES ASSUME CatalogueUntouched, [Next]_vars PROVE CatalogueUntouched'
    OBVIOUS
  <2>1. ASSUME UNCHANGED <<loaded, nodes, edges>> PROVE CatalogueUntouched'
    BY <2>1 DEF CatalogueUntouched
  <2>2. ASSUME NEW s \in Sources, WriteNodes(s) PROVE CatalogueUntouched'
    <3> DEFINE asked == NodeQueries(Attempt(s), job[s].ts)
    <3>1. \A o \in asked : o \notin CatalogueIds
      BY NodeQueriesAreOwn
    <3>2. /\ UNCHANGED <<loaded, edges>>
          /\ DOMAIN nodes' = DOMAIN nodes \cup asked
          /\ \A i \in DOMAIN nodes : nodes'[i] = nodes[i]
      BY <2>2 DEF WriteNodes
    <3> HIDE DEF asked
    <3> QED
      BY <3>1, <3>2 DEF CatalogueUntouched
  <2>3. ASSUME NEW s \in Sources, WriteRels(s) PROVE CatalogueUntouched'
    <3> DEFINE asked == RelQueries(Attempt(s), job[s].ts)
    <3>1. \A r \in asked : ~(r[1] \in CatalogueIds /\ r[2] \in CatalogueIds)
      BY RelQueriesLeaveCatalogue
    <3>2. UNCHANGED <<loaded, nodes>> /\ edges' \subseteq edges \cup asked
      BY <2>3 DEF WriteRels
    <3> HIDE DEF asked
    <3> QED
      BY <3>1, <3>2 DEF CatalogueUntouched
  <2>4. ASSUME NEW a \in Attempts, UndoContents(a) PROVE CatalogueUntouched'
    <3>1. \A i \in Owned(a) : i \notin loaded
      BY DEF Owned, CatalogueUntouched
    <3>2. UNCHANGED loaded /\ Detach(Owned(a))
      BY <2>4 DEF UndoContents
    <3> QED
      BY <3>1, <3>2, DetachKeepsCatalogue
  <2>5. ASSUME UndoReport PROVE CatalogueUntouched'
    <3>1. UNCHANGED loaded /\ Detach({Own("report", undo.a)})
      BY <2>5 DEF UndoReport
    <3>2. \A i \in {Own("report", undo.a)} : i \notin loaded
      BY ReportsAreOwn DEF CatalogueUntouched
    <3> QED
      BY <3>1, <3>2, DetachKeepsCatalogue
  <2>6. CASE UNCHANGED vars
    BY <2>1, <2>6 DEF vars
  <2>7. ASSUME NEW s \in Sources,
               \/ Refuse(s) \/ Prepare(s) \/ WriteDescribes(s) \/ WriteFails(s)
               \/ Store(s) \/ StoreFails(s) \/ FailLater(s) \/ Stop(s) \/ Retry(s)
        PROVE  CatalogueUntouched'
    BY <2>1, <2>7 DEF Refuse, Prepare, WriteDescribes, WriteFails, Store,
                      StoreFails, FailLater, Stop, Retry, graph
  <2>8. ASSUME NEW a \in Attempts, DeleteBundle(a) PROVE CatalogueUntouched'
    BY <2>1, <2>8 DEF DeleteBundle, graph
  <2> QED
    BY <2>2, <2>3, <2>4, <2>5, <2>6, <2>7, <2>8 DEF Next
<1> QED
  BY <1>1, <1>2, PTL DEF Spec

-----------------------------------------------------------------------------
Phases == {"idle", "nodes", "rels", "describes", "store",
           "completed", "empty", "failed", "stopped"}
Job == [n : 1..MaxAttempts, pc : Phases, ts : SUBSET Techniques, said : BOOLEAN,
        late : SUBSET (1..MaxAttempts)]

\* The rows of a source are those of its current attempt, which has ended, and of
\* attempts that failed after their ingest.
RowsInv ==
    /\ job \in [Sources -> Job]
    /\ rows \subseteq Attempts
    /\ RowsAreOfFinishedIngests

\* A step that leaves the rows alone and moves a source that has none of the
\* current attempt, or marks that attempt, keeps the rows as they should be.
LEMMA OtherJobsKeepRows ==
    ASSUME RowsInv, NEW s \in Sources, NEW j \in Job,
           job[s].pc \notin Ended \/ job[s].n \in j.late,
           job[s].late \subseteq j.late,
           job' = [job EXCEPT ![s] = j], rows' \subseteq rows
    PROVE  RowsInv'
<1>1. job' \in [Sources -> Job] /\ job'[s] = j
  BY DEF RowsInv
<1>2. rows' \subseteq Attempts
  BY DEF RowsInv
<1>3. ASSUME NEW a \in rows'
      PROVE  a[2] \in job'[a[1]].late \/ (a = Attempt(a[1])' /\ job'[a[1]].pc \in Ended)
  <2>1. /\ a[1] \in Sources
        /\ a[2] \in job[a[1]].late \/ (a = Attempt(a[1]) /\ job[a[1]].pc \in Ended)
    BY DEF RowsInv, RowsAreOfFinishedIngests, Attempts
  <2>2. CASE a[1] # s
    <3>1. job'[a[1]] = job[a[1]]
      BY <2>1, <2>2 DEF RowsInv
    <3> QED
      BY <2>1, <3>1 DEF Attempt
  <2>3. CASE a[1] = s
    <3>1. a[2] \in job[s].late \/ (a[2] = job[s].n /\ job[s].pc \in Ended)
      BY <2>1, <2>3 DEF Attempt
    <3> QED
      BY <1>1, <2>3, <3>1
  <2> QED
    BY <2>2, <2>3
<1> QED
  BY <1>1, <1>2, <1>3 DEF RowsInv, RowsAreOfFinishedIngests

\* The step that stores a row completes the run of that source.
LEMMA StoringKeepsRows ==
    ASSUME RowsInv, NEW s \in Sources, NEW j \in Job, job[s].pc \notin Ended,
           job' = [job EXCEPT ![s] = j],
           j.n = job[s].n, j.late = job[s].late, j.pc \in Ended,
           rows' \subseteq rows \cup {Attempt(s)}
    PROVE  RowsInv'
<1>1. job' \in [Sources -> Job] /\ job'[s] = j
  BY DEF RowsInv
<1>2. rows' \subseteq Attempts
  <2>1. job[s] \in Job /\ rows \subseteq Attempts
    BY DEF RowsInv
  <2>2. job[s].n \in 1..MaxAttempts
    BY <2>1 DEF Job
  <2>3. Attempt(s) \in Attempts
    BY <2>2 DEF Attempt, Attempts
  <2> QED
    BY <2>1, <2>3
<1>3. ASSUME NEW a \in rows'
      PROVE  a[2] \in job'[a[1]].late \/ (a = Attempt(a[1])' /\ job'[a[1]].pc \in Ended)
  <2>1. CASE a = Attempt(s)
    BY <1>1, <2>1 DEF Attempt
  <2>2. CASE a \in rows
    <3>1. /\ a[1] \in Sources
          /\ a[2] \in job[a[1]].late \/ (a = Attempt(a[1]) /\ job[a[1]].pc \in Ended)
      BY <2>2 DEF RowsInv, RowsAreOfFinishedIngests, Attempts
    <3>2. CASE a[1] # s
      <4>1. job'[a[1]] = job[a[1]]
        BY <3>1, <3>2 DEF RowsInv
      <4> QED
        BY <3>1, <4>1 DEF Attempt
    <3>3. CASE a[1] = s
      BY <1>1, <3>1, <3>3
    <3> QED
      BY <3>2, <3>3
  <2> QED
    BY <2>1, <2>2
<1> QED
  BY <1>1, <1>2, <1>3 DEF RowsInv, RowsAreOfFinishedIngests

\* A retry begins with a well-formed job.
LEMMA FreshIsJob == ASSUME NEW n \in 1..MaxAttempts PROVE Fresh(n) \in Job
<1>1. /\ {} \in SUBSET Techniques /\ {} \in SUBSET (1..MaxAttempts)
      /\ FALSE \in BOOLEAN /\ "idle" \in Phases
  BY DEF Phases
<1> QED
  BY <1>1 DEF Fresh, Job

\* Every field a step sets keeps the record of a source a Job.
LEMMA JobMoves ==
    ASSUME NEW j \in Job, NEW pc \in Phases
    PROVE  /\ [j EXCEPT !.pc = pc] \in Job
           /\ [j EXCEPT !.pc = pc, !.said = TRUE] \in Job
           /\ \A b \in BOOLEAN : [j EXCEPT !.pc = pc, !.said = b] \in Job
           /\ \A ts \in SUBSET Techniques : [j EXCEPT !.ts = ts, !.pc = pc] \in Job
BY DEF Job

\* However often a source is retried, and wherever a write fails or the process
\* stops, only an ingest that finished leaves a stored bundle (save_bundle).
THEOREM RowsAreOfFinishedIngestsHolds == Spec => []RowsAreOfFinishedIngests
<1>1. Init => RowsInv
  <2> SUFFICES ASSUME Init PROVE RowsInv
    OBVIOUS
  <2>1. 1 \in 1..MaxAttempts
    BY BoundsAssumption
  <2>2. Fresh(1) \in Job
    BY <2>1, FreshIsJob
  <2> QED
    BY <2>2 DEF Init, RowsInv, RowsAreOfFinishedIngests
<1>2. RowsInv /\ [Next]_vars => RowsInv'
  <2> SUFFICES ASSUME RowsInv, [Next]_vars PROVE RowsInv'
    OBVIOUS
  <2>1. ASSUME UNCHANGED job, rows' \subseteq rows PROVE RowsInv'
    BY <2>1 DEF RowsInv, RowsAreOfFinishedIngests, Attempt
  <2>2. \A s \in Sources : job[s] \in Job
    BY DEF RowsInv
  <2>3. ASSUME NEW s \in Sources, NEW pc \in Phases, Goto(s, pc),
               UNCHANGED rows, job[s].pc \notin Ended
        PROVE  RowsInv'
    <3>1. job' = [job EXCEPT ![s] = [job[s] EXCEPT !.pc = pc]]
      BY <2>3 DEF Goto
    <3>2. [job[s] EXCEPT !.pc = pc] \in Job /\ [job[s] EXCEPT !.pc = pc].late = job[s].late
      BY <2>2, JobMoves DEF Job
    <3> QED
      BY <2>3, <3>1, <3>2, OtherJobsKeepRows
  <2>4. ASSUME NEW s \in Sources, Prepare(s) PROVE RowsInv'
    <3>1. PICK ts \in SUBSET Techniques :
             job' = [job EXCEPT ![s].ts = ts,
                                ![s].pc = IF enabled THEN "nodes" ELSE "store"]
      BY <2>4 DEF Prepare
    <3>2. PICK pc \in Phases : pc = IF enabled THEN "nodes" ELSE "store"
      BY DEF Phases
    <3>5. job' = [job EXCEPT ![s] = [job[s] EXCEPT !.ts = ts, !.pc = pc]]
      BY <3>1, <3>2 DEF RowsInv
    <3>3. /\ [job[s] EXCEPT !.ts = ts, !.pc = pc] \in Job
          /\ [job[s] EXCEPT !.ts = ts, !.pc = pc].late = job[s].late
      BY <2>2, JobMoves DEF Job
    <3>4. UNCHANGED rows /\ job[s].pc \notin Ended
      BY <2>4 DEF Prepare, Ended
    <3> QED
      BY <3>5, <3>3, <3>4, OtherJobsKeepRows
  <2>5. ASSUME NEW s \in Sources, NEW pc \in Phases, NEW x \in BOOLEAN,
               job' = [job EXCEPT ![s].pc = pc, ![s].said = x],
               UNCHANGED rows, job[s].pc \notin Ended
        PROVE RowsInv'
    <3>1. job' = [job EXCEPT ![s] = [job[s] EXCEPT !.pc = pc, !.said = x]]
      BY <2>5 DEF RowsInv
    <3>2. /\ [job[s] EXCEPT !.pc = pc, !.said = x] \in Job
          /\ [job[s] EXCEPT !.pc = pc, !.said = x].late = job[s].late
      BY <2>2, JobMoves DEF Job
    <3> QED
      BY <2>5, <3>1, <3>2, OtherJobsKeepRows
  <2>13. ASSUME NEW s \in Sources, WriteRels(s) PROVE RowsInv'
    <3> DEFINE asked == RelQueries(Attempt(s), job[s].ts)
               landed == {r \in asked : r[1] \in DOMAIN nodes /\ r[2] \in DOMAIN nodes}
               x == job[s].said \/ landed # asked
    <3>1. x \in BOOLEAN /\ "describes" \in Phases
      BY DEF Phases
    <3>2. job' = [job EXCEPT ![s].pc = "describes", ![s].said = x]
      BY <2>13 DEF WriteRels
    <3>3. UNCHANGED rows /\ job[s].pc \notin Ended
      BY <2>13 DEF WriteRels, Ended
    <3> HIDE DEF x
    <3> QED
      BY <3>1, <3>2, <3>3, <2>5
  <2>14. ASSUME NEW s \in Sources, WriteDescribes(s) PROVE RowsInv'
    <3> DEFINE asked == DescribesQueries(Attempt(s), job[s].ts)
               landed == {d \in asked : /\ Own("report", d[1]) \in DOMAIN nodes
                                        /\ d[2] \in DOMAIN nodes}
               x == job[s].said \/ landed # asked
    <3>1. x \in BOOLEAN /\ "store" \in Phases
      BY DEF Phases
    <3>2. job' = [job EXCEPT ![s].pc = "store", ![s].said = x]
      BY <2>14 DEF WriteDescribes
    <3>3. UNCHANGED rows /\ job[s].pc \notin Ended
      BY <2>14 DEF WriteDescribes, Ended
    <3> HIDE DEF x
    <3> QED
      BY <3>1, <3>2, <3>3, <2>5
  <2>6. ASSUME NEW s \in Sources, Store(s) PROVE RowsInv'
    <3> DEFINE j == [job[s] EXCEPT !.pc = "completed"]
    <3>1. job' = [job EXCEPT ![s] = j] /\ rows' \subseteq rows \cup {Attempt(s)}
      BY <2>6 DEF Store, Goto
    <3>2. j \in Job
      <4>1. "completed" \in Phases
        BY DEF Phases
      <4> QED
        BY <2>2, <4>1, JobMoves
    <3>3. /\ j.n = job[s].n /\ j.late = job[s].late
          /\ j.pc \in Ended /\ job[s].pc \notin Ended
      BY <2>2, <2>6 DEF Store, Job, Ended
    <3> HIDE DEF j
    <3> QED
      BY <3>1, <3>2, <3>3, StoringKeepsRows
  <2>7. ASSUME NEW s \in Sources, StoreFails(s) PROVE RowsInv'
    <3> DEFINE j == [job[s] EXCEPT !.pc = "completed", !.said = TRUE]
    <3>1. job' = [job EXCEPT ![s] = j] /\ rows' \subseteq rows \cup {Attempt(s)}
      BY <2>7 DEF StoreFails
    <3>2. j \in Job
      <4>1. "completed" \in Phases
        BY DEF Phases
      <4> QED
        BY <2>2, <4>1, JobMoves
    <3>3. /\ j.n = job[s].n /\ j.late = job[s].late
          /\ j.pc \in Ended /\ job[s].pc \notin Ended
      BY <2>2, <2>7 DEF StoreFails, Job, Ended
    <3> HIDE DEF j
    <3> QED
      BY <3>1, <3>2, <3>3, StoringKeepsRows
  <2>8. ASSUME NEW s \in Sources, Retry(s) PROVE RowsInv'
    <3>1. job[s].n + 1 \in 1..MaxAttempts
      BY <2>2, <2>8, BoundsAssumption DEF Retry, Job
    <3> DEFINE j == [Fresh(job[s].n + 1) EXCEPT !.late = job[s].late]
    <3>2. j \in Job /\ j.late = job[s].late
      <4>1. Fresh(job[s].n + 1) \in Job /\ job[s].late \in SUBSET (1..MaxAttempts)
        BY <2>2, <3>1, FreshIsJob DEF Job
      <4> QED
        BY <4>1 DEF Job
    <3>3. /\ job' = [job EXCEPT ![s] = j] /\ UNCHANGED rows
          /\ job[s].pc \notin Ended
      BY <2>8 DEF Retry, Ended
    <3> HIDE DEF j
    <3> QED
      BY <3>2, <3>3, OtherJobsKeepRows
  <2>16. ASSUME NEW s \in Sources, FailLater(s) PROVE RowsInv'
    <3> DEFINE j == [job[s] EXCEPT !.pc = "failed", !.late = @ \cup {job[s].n}]
    <3>1. job' = [job EXCEPT ![s] = j] /\ UNCHANGED rows
      BY <2>2, <2>16 DEF FailLater, RowsInv
    <3>2. j \in Job /\ job[s].n \in j.late /\ job[s].late \subseteq j.late
      <4>1. job[s] \in Job /\ "failed" \in Phases
        BY <2>2 DEF Phases
      <4> QED
        BY <4>1 DEF Job
    <3> HIDE DEF j
    <3> QED
      BY <3>1, <3>2, OtherJobsKeepRows
  <2>15. ASSUME NEW s \in Sources, Stop(s) PROVE RowsInv'
    <3> DEFINE j == [job[s] EXCEPT !.pc = "stopped"]
    <3>1. job' = [job EXCEPT ![s] = j] /\ rows' \subseteq rows \cup {Attempt(s)}
      BY <2>15 DEF Stop, Goto
    <3>2. j \in Job
      <4>1. "stopped" \in Phases
        BY DEF Phases
      <4> QED
        BY <2>2, <4>1, JobMoves
    <3>3. /\ j.n = job[s].n /\ j.late = job[s].late
          /\ j.pc \in Ended /\ job[s].pc \notin Ended
      BY <2>2, <2>15 DEF Stop, Job, Ended
    <3> HIDE DEF j
    <3> QED
      BY <3>1, <3>2, <3>3, StoringKeepsRows
  <2>9. ASSUME NEW s \in Sources, Refuse(s) \/ WriteNodes(s) \/ WriteFails(s)
        PROVE RowsInv'
    <3>1. UNCHANGED rows /\ job[s].pc \notin Ended
      BY <2>9 DEF Refuse, WriteNodes, WriteFails, Ended
    <3>2. "failed" \in Phases /\ "empty" \in Phases /\ "rels" \in Phases
      BY DEF Phases
    <3>3. Goto(s, "failed") \/ Goto(s, "empty") \/ Goto(s, "rels")
      BY <2>9 DEF Refuse, WriteNodes, WriteFails
    <3> QED
      BY <2>3, <3>1, <3>2, <3>3
  <2>10. ASSUME NEW a \in Attempts, DeleteBundle(a) \/ UndoContents(a) PROVE RowsInv'
    BY <2>1, <2>10 DEF DeleteBundle, UndoContents
  <2>11. CASE UndoReport
    BY <2>1, <2>11 DEF UndoReport
  <2>12. CASE UNCHANGED vars
    BY <2>1, <2>12 DEF vars
  <2> QED
    BY <2>4, <2>6, <2>7, <2>8, <2>9, <2>10, <2>11, <2>12, <2>13, <2>14,
       <2>15, <2>16 DEF Next
<1>3. RowsInv => RowsAreOfFinishedIngests
  BY DEF RowsInv
<1> QED
  BY <1>1, <1>2, <1>3, PTL DEF Spec

-----------------------------------------------------------------------------
(***************************************************************************)
(* What undo can reach, and what a completed run left.                     *)
(***************************************************************************)
\* How far the ingest of attempt a is: it has written its nodes, it writes no
\* more, it is the attempt whose provenance was just written.
Reached(a) ==
    \/ a[2] < job[a[1]].n
    \/ a[2] = job[a[1]].n /\ job[a[1]].pc \notin {"idle", "empty", "nodes"}
Past(a) ==
    \/ a[2] < job[a[1]].n
    \/ a[2] = job[a[1]].n /\ job[a[1]].pc \notin {"idle", "nodes", "rels", "describes"}
Provenanced(a) ==
    \/ a[2] = job[a[1]].n /\ job[a[1]].pc \in {"store", "completed"}
    \/ a[2] \in job[a[1]].late

\* Undone, or about to be.
Withdrawn(a) == a \in undone \/ (undo.pc = "report" /\ undo.a = a)

Typed ==
    /\ job \in [Sources -> Job]
    /\ DOMAIN nodes \subseteq Ids
    /\ describes \subseteq Attempts \X Ids
    /\ undone \subseteq Attempts
    /\ undo.pc = "report" => undo.a \in Attempts
    /\ \A s \in Sources : \A m \in job[s].late :
          m < job[s].n \/ (m = job[s].n /\ job[s].pc = "failed")

\* Nothing dangles, a run describes its own objects and the catalogue's, and
\* never the report itself.
Tied ==
    /\ \A i \in DOMAIN nodes : i.kind \in OwnKinds => nodes[i] = "pipeline"
    /\ \A e \in edges : e[1] \in DOMAIN nodes /\ e[2] \in DOMAIN nodes
    /\ \A d \in describes : /\ d[2] \in DOMAIN nodes /\ d[2].kind # "report"
                            /\ Own("report", d[1]) \in DOMAIN nodes
                            /\ d[2].kind \in OwnKinds => d[2].of = d[1]

\* What a run owns is written before its provenance, and a report that
\* describes anything describes all that is left of its run.
Ordered ==
    /\ \A s \in Sources : job[s].pc \in {"nodes", "rels", "describes"} => enabled
    /\ \A i \in DOMAIN nodes : i.kind \in OwnKinds => Reached(i.of)
    /\ \A d \in describes : Past(d[1])
    /\ \A i \in DOMAIN nodes :
          i.kind \in OwnKinds \ {"report"} /\ (DescribedBy(i.of) # {} \/ Provenanced(i.of))
          => <<i.of, i>> \in describes

\* An undo finds a finished ingest, and leaves it its report, then nothing.
Emptied ==
    /\ undo.pc = "report" =>
          /\ Past(undo.a)
          /\ \A i \in DOMAIN nodes :
                i.kind \in OwnKinds /\ i.of = undo.a => i.kind = "report"
    /\ \A a \in undone : /\ Past(a)
                         /\ \A i \in DOMAIN nodes : i.kind \in OwnKinds => i.of # a

\* What a run has written so far is still there, unless it was undone.
Kept(s) ==
    LET a == Attempt(s)  ts == job[s].ts
    IN  enabled /\ ~Withdrawn(a) =>
          /\ job[s].pc \in {"rels", "describes", "store", "completed"}
               => NodeQueries(a, ts) \subseteq DOMAIN nodes
          /\ job[s].pc \in {"describes", "store", "completed"} /\ ~job[s].said
               => RelQueries(a, ts) \subseteq edges
          /\ job[s].pc \in {"store", "completed"} /\ ~job[s].said
               => DescribesQueries(a, ts) \subseteq describes

Filed ==
    \A s \in Sources : job[s].pc = "completed" /\ ~job[s].said
                           => Attempt(s) \in rows \cup discarded

StoreInv ==
    Typed /\ Tied /\ Ordered /\ Emptied /\ (\A s \in Sources : Kept(s)) /\ Filed

\* A step of a job: to the next phase, to a failure after its ingest, or to the
\* next attempt.
Later(j, k) ==
    \/ k.n = j.n + 1 /\ k.pc = "idle" /\ k.late = j.late
    \/ /\ k.n = j.n /\ j.pc # "failed"
       /\ j.pc \notin {"idle", "empty", "nodes"} => k.pc \notin {"idle", "empty", "nodes"}
       /\ j.pc \notin {"idle", "nodes", "rels", "describes"}
            => k.pc \notin {"idle", "nodes", "rels", "describes"}
       /\ k.pc \in {"store", "completed"} => j.pc \in {"idle", "describes", "store"}
       /\ \/ k.late = j.late
          \/ /\ k.late = j.late \cup {j.n} /\ k.pc = "failed"
             /\ j.pc \in {"completed", "empty"}

\* An object is its kind and its owner, and the catalogue's kinds are not a run's.
LEMMA Naming ==
    /\ \A k, a : Own(k, a).kind = k /\ Own(k, a).of = a
    /\ \A k \in OwnKinds, a \in Attempts : Own(k, a) \in Ids
    /\ \A i \in Ids : i.kind \in OwnKinds => i.of \in Attempts /\ i = Own(i.kind, i.of)
    /\ \A i \in Ids : i.kind \notin OwnKinds => i \in CatalogueIds
    /\ \A i \in CatalogueIds : i.kind \notin OwnKinds /\ i.of \in Techniques /\ i \in Ids
    /\ \A t \in Techniques : Technique(t) \in CatalogueIds /\ Detection(t) \in CatalogueIds
BY DEF Own, Ids, OwnIds, CatalogueIds, OwnKinds, CatalogueOwned, Technique, Detection

\* A bundle has one object of each of the run's kinds, ties them only to each
\* other and to the catalogue, and its report describes all but itself.
LEMMA BundleContents ==
    ASSUME NEW a \in Attempts, NEW ts \in SUBSET Techniques
    PROVE  /\ NodeQueries(a, ts) = {Own(k, a) : k \in OwnKinds}
           /\ \A r \in RelQueries(a, ts) :
                 /\ r[1] \in Ids /\ (r[1].kind \in OwnKinds => r[1].of = a)
                 /\ r[2] \in Ids /\ (r[2].kind \in OwnKinds => r[2].of = a)
           /\ DescribesQueries(a, ts) \subseteq Attempts \X Ids
           /\ \A d \in DescribesQueries(a, ts) :
                 /\ d[1] = a /\ d[2].kind # "report"
                 /\ d[2].kind \in OwnKinds => d[2].of = a
           /\ \A k \in OwnKinds \ {"report"} :
                 <<a, Own(k, a)>> \in DescribesQueries(a, ts)
<1>1. \A o \in Objects(a, ts) :
         (\E k \in OwnKinds : o = Own(k, a)) \/ o \in CatalogueIds
  <2> SUFFICES ASSUME NEW o \in Objects(a, ts)
               PROVE  (\E k \in OwnKinds : o = Own(k, a)) \/ o \in CatalogueIds
    OBVIOUS
  <2>1. CASE \E k \in OwnKinds : o = Own(k, a)
    BY <2>1
  <2>2. CASE \E t \in ts : o = Technique(t) \/ o = Detection(t)
    BY <2>2, Naming
  <2> QED
    BY <2>1, <2>2 DEF Objects
<1>2. \A k \in OwnKinds : Own(k, a) \in Objects(a, ts)
  BY DEF Objects
<1>3. \A i \in CatalogueIds : i.kind \in CatalogueOwned
  BY DEF CatalogueIds
<1>4. \A k \in OwnKinds : k \notin CatalogueOwned
  BY DEF OwnKinds, CatalogueOwned
<1>5. NodeQueries(a, ts) = {Own(k, a) : k \in OwnKinds}
  BY <1>1, <1>2, <1>3, <1>4, Naming DEF NodeQueries
<1>6. ASSUME NEW r \in RelQueries(a, ts)
      PROVE  /\ r[1] \in Ids /\ (r[1].kind \in OwnKinds => r[1].of = a)
             /\ r[2] \in Ids /\ (r[2].kind \in OwnKinds => r[2].of = a)
  <2>1. "x-procedure" \in OwnKinds /\ "domain-name" \in OwnKinds
    BY DEF OwnKinds
  <2>2. \E x, y : /\ r = <<x, y>>
                  /\ x \in CatalogueIds \/ \E k \in OwnKinds : x = Own(k, a)
                  /\ y \in CatalogueIds \/ \E k \in OwnKinds : y = Own(k, a)
    BY <2>1, Naming DEF RelQueries, Relationships
  <2> QED
    BY <2>2, Naming
<1>7. \A o \in ObjectRefs(a, ts) :
         o \in Ids /\ o.kind # "report" /\ (o.kind \in OwnKinds => o.of = a)
  <2> SUFFICES ASSUME NEW o \in ObjectRefs(a, ts)
               PROVE  o \in Ids /\ o.kind # "report" /\ (o.kind \in OwnKinds => o.of = a)
    OBVIOUS
  <2>1. o \in Objects(a, ts) /\ o # Own("report", a)
    BY DEF ObjectRefs
  <2>2. "report" \in OwnKinds
    BY DEF OwnKinds
  <2>3. CASE o \in CatalogueIds
    BY <2>2, <2>3, Naming
  <2>4. CASE \E k \in OwnKinds : o = Own(k, a)
    BY <2>1, <2>4, Naming
  <2> QED
    BY <1>1, <2>1, <2>3, <2>4
<1>8. \A k \in OwnKinds \ {"report"} : Own(k, a) \in ObjectRefs(a, ts)
  <2>1. \A k : k # "report" => Own(k, a) # Own("report", a)
    BY Naming
  <2> QED
    BY <1>2, <2>1 DEF ObjectRefs
<1> QED
  BY <1>5, <1>6, <1>7, <1>8 DEF DescribesQueries

\* What a report describes, and who describes an object.
LEMMA Describing ==
    ASSUME describes \subseteq Attempts \X Ids
    PROVE  /\ \A a, i : i \in DescribedBy(a) <=> <<a, i>> \in describes
           /\ \A a, i : a \in Describers(i) <=> <<a, i>> \in describes
           /\ \A d \in describes : /\ d = <<d[1], d[2]>> /\ d[1] \in Attempts
                                   /\ d[2] \in Ids /\ d[2] \in DescribedBy(d[1])
BY DEF DescribedBy, Describers

\* An ingest only goes forward, and comes to its row past its provenance, or
\* without having written at all.
LEMMA OnlyForward ==
    ASSUME job \in [Sources -> Job], NEW s \in Sources, NEW j \in Job,
           job' = [job EXCEPT ![s] = j], Later(job[s], j), NEW a \in Attempts
    PROVE  /\ Reached(a) => Reached(a)'
           /\ Past(a) => Past(a)'
           /\ Provenanced(a)' => \/ Provenanced(a)
                                 \/ ~Reached(a)
                                 \/ (a = Attempt(s) /\ job[s].pc = "describes"
                                     /\ j.pc \in {"store", "completed"})
<1>1. a[1] \in Sources /\ a[2] \in Nat /\ a = <<a[1], a[2]>>
  BY BoundsAssumption DEF Attempts
<1>2. job[s] \in Job /\ job[s].n \in Nat /\ j.n \in Nat
  BY BoundsAssumption DEF Job
<1>3. job'[a[1]] = IF a[1] = s THEN j ELSE job[a[1]]
  BY <1>1
<1>4. CASE a[1] # s
  BY <1>3, <1>4 DEF Reached, Past, Provenanced
<1>5. CASE a[1] = s
  <2>1. job'[a[1]] = j /\ job[a[1]] = job[s]
    BY <1>3, <1>5
  <2>2. CASE j.n = job[s].n + 1 /\ j.pc = "idle"
    <3>1. j.late = job[s].late
      BY <1>2, <2>2 DEF Later
    <3> QED
      BY <1>1, <1>2, <2>1, <2>2, <3>1 DEF Reached, Past, Provenanced
  <2>3. CASE ~(j.n = job[s].n + 1 /\ j.pc = "idle")
    <3>1. (Reached(a) => Reached(a)') /\ (Past(a) => Past(a)')
      BY <1>1, <1>2, <2>1, <2>3 DEF Later, Reached, Past
    <3>2. ASSUME Provenanced(a)'
          PROVE  \/ Provenanced(a)
                 \/ ~Reached(a)
                 \/ (a = Attempt(s) /\ job[s].pc = "describes"
                                   /\ j.pc \in {"store", "completed"})
      <4>1. \/ a[2] = j.n /\ j.pc \in {"store", "completed"}
            \/ a[2] \in j.late
        BY <2>1, <3>2 DEF Provenanced
      <4>2. CASE a[2] \in j.late
        <5>1. a[2] \in job[s].late \/ (a[2] = job[s].n /\ job[s].pc \in {"completed", "empty"})
          BY <2>3, <4>2 DEF Later
        <5> QED
          BY <1>1, <1>2, <2>1, <5>1 DEF Provenanced, Reached
      <4>3. CASE a[2] = j.n /\ j.pc \in {"store", "completed"}
        <5>1. a[2] = job[s].n /\ job[s].pc \in {"idle", "describes", "store"}
          BY <1>2, <2>3, <4>3 DEF Later
        <5>2. CASE job[s].pc = "store"
          BY <2>1, <5>1, <5>2 DEF Provenanced
        <5>3. CASE job[s].pc = "idle"
          BY <1>1, <1>2, <2>1, <5>1, <5>3 DEF Reached
        <5>4. CASE job[s].pc = "describes"
          BY <1>1, <1>5, <4>3, <5>1, <5>4 DEF Attempt
        <5> QED
          BY <5>1, <5>2, <5>3, <5>4
      <4> QED
        BY <4>1, <4>2, <4>3
    <3> QED
      BY <3>1, <3>2
  <2> QED
    BY <2>2, <2>3
<1> QED
  BY <1>4, <1>5

\* What the ingest of one source leaves to the others.
LEMMA IngestStep ==
    ASSUME StoreInv, NEW s \in Sources, NEW j \in Job,
           job' = [job EXCEPT ![s] = j], Later(job[s], j),
           UNCHANGED <<enabled, undo, undone>>,
           DOMAIN nodes \subseteq DOMAIN nodes', DOMAIN nodes' \subseteq Ids,
           edges \subseteq edges', describes \subseteq describes',
           describes' \subseteq Attempts \X Ids,
           rows \cup discarded \subseteq rows' \cup discarded',
           Tied', Ordered', Emptied', Kept(s)',
           j.pc = "completed" /\ ~j.said => Attempt(s) \in rows' \cup discarded'
    PROVE  StoreInv'
<1>1. Typed'
  <2>1. /\ job \in [Sources -> Job] /\ job'[s] = j /\ job' \in [Sources -> Job]
        /\ undone \subseteq Attempts /\ (undo.pc = "report" => undo.a \in Attempts)
    BY DEF StoreInv, Typed
  <2>2. job[s].n \in Nat
    BY <2>1, BoundsAssumption DEF Job
  <2>3. ASSUME NEW u \in Sources, NEW m \in job'[u].late
        PROVE  m < job'[u].n \/ (m = job'[u].n /\ job'[u].pc = "failed")
    <3>1. \A l \in job[u].late : l < job[u].n \/ (l = job[u].n /\ job[u].pc = "failed")
      BY DEF StoreInv, Typed
    <3>2. CASE u # s
      BY <2>1, <2>3, <3>1, <3>2
    <3>3. CASE u = s
      <4>1. m \in Nat
        BY <2>1, <2>3, BoundsAssumption DEF Job
      <4> QED
        BY <2>1, <2>2, <2>3, <3>1, <3>3, <4>1 DEF Later
    <3> QED
      BY <3>2, <3>3
  <2> QED
    BY <2>1, <2>3 DEF Typed
<1>2. job \in [Sources -> Job] /\ job'[s] = j
  BY DEF StoreInv, Typed
<1>3. ASSUME NEW u \in Sources, u # s PROVE Kept(u)'
  <2>1. job'[u] = job[u] /\ Attempt(u)' = Attempt(u)
    BY <1>2, <1>3 DEF Attempt
  <2>2. Kept(u)
    BY DEF StoreInv
  <2> QED
    BY <2>1, <2>2 DEF Kept, Withdrawn
<1>4. Filed'
  <2> SUFFICES ASSUME NEW u \in Sources, job'[u].pc = "completed", ~job'[u].said
               PROVE  Attempt(u)' \in rows' \cup discarded'
    BY DEF Filed
  <2>1. CASE u = s
    <3>1. j.n = job[s].n
      BY <1>2, <2>1 DEF Later
    <3> QED
      BY <1>2, <2>1, <3>1 DEF Attempt
  <2>2. CASE u # s
    BY <1>2, <2>2 DEF Attempt, StoreInv, Filed
  <2> QED
    BY <2>1, <2>2
<1> QED
  BY <1>1, <1>3, <1>4 DEF StoreInv

\* While nodes and provenance stay, an ingest that goes forward keeps the order.
LEMMA GraphOrder ==
    ASSUME Ordered, DOMAIN nodes \subseteq Ids, describes \subseteq Attempts \X Ids,
           UNCHANGED <<nodes, describes>>,
           \A u \in Sources : job'[u].pc \in {"nodes", "rels", "describes"} => enabled',
           \A a \in Attempts : /\ Reached(a) => Reached(a)'
                               /\ Past(a) => Past(a)'
                               /\ Provenanced(a)' => Provenanced(a) \/ ~Reached(a)
    PROVE  Ordered'
<1>1. \A i \in DOMAIN nodes : i.kind \in OwnKinds => i.of \in Attempts
  BY Naming
<1>2. \A i \in DOMAIN nodes : i.kind \in OwnKinds => Reached(i.of) /\ Reached(i.of)'
  BY <1>1 DEF Ordered
<1>3. \A d \in describes : Past(d[1])'
  BY DEF Ordered
<1>4. ASSUME NEW i \in DOMAIN nodes, i.kind \in OwnKinds \ {"report"},
             DescribedBy(i.of) # {} \/ Provenanced(i.of)'
      PROVE  <<i.of, i>> \in describes
  <2>1. i.of \in Attempts /\ Reached(i.of)
    BY <1>1, <1>2, <1>4
  <2>2. DescribedBy(i.of) # {} \/ Provenanced(i.of)
    BY <1>4, <2>1
  <2> QED
    BY <1>4, <2>2 DEF Ordered
<1>5. \A a : DescribedBy(a)' = DescribedBy(a)
  BY DEF DescribedBy
<1>6. DOMAIN nodes' = DOMAIN nodes /\ describes' = describes
  OBVIOUS
<1> QED
  BY <1>2, <1>3, <1>4, <1>5, <1>6 DEF Ordered

\* A step that leaves the graph to itself.
LEMMA QuietStep ==
    ASSUME StoreInv, NEW s \in Sources, NEW j \in Job,
           job' = [job EXCEPT ![s] = j], Later(job[s], j),
           job[s].pc # "describes" \/ j.pc \notin {"store", "completed"},
           j.pc \in {"nodes", "rels", "describes"} => enabled,
           UNCHANGED <<enabled, nodes, edges, describes, undo, undone>>,
           rows \cup discarded \subseteq rows' \cup discarded',
           Kept(s)',
           j.pc = "completed" /\ ~j.said => Attempt(s) \in rows' \cup discarded'
    PROVE  StoreInv'
<1>1. /\ job \in [Sources -> Job] /\ DOMAIN nodes \subseteq Ids
      /\ describes \subseteq Attempts \X Ids /\ undone \subseteq Attempts
      /\ undo.pc = "report" => undo.a \in Attempts
      /\ Tied /\ Ordered /\ Emptied
  BY DEF StoreInv, Typed
<1>2. \A a \in Attempts : /\ Reached(a) => Reached(a)'
                          /\ Past(a) => Past(a)'
                          /\ Provenanced(a)' => Provenanced(a) \/ ~Reached(a)
  <2> SUFFICES ASSUME NEW a \in Attempts
               PROVE  /\ Reached(a) => Reached(a)'
                      /\ Past(a) => Past(a)'
                      /\ Provenanced(a)' => Provenanced(a) \/ ~Reached(a)
    OBVIOUS
  <2>1. /\ Reached(a) => Reached(a)'
        /\ Past(a) => Past(a)'
        /\ Provenanced(a)' => \/ Provenanced(a)
                              \/ ~Reached(a)
                              \/ (a = Attempt(s) /\ job[s].pc = "describes"
                                                  /\ j.pc \in {"store", "completed"})
    BY <1>1, OnlyForward
  <2> QED
    BY <2>1
<1>3. Tied'
  BY <1>1 DEF Tied
<1>6. Ordered'
  <2>1. \A u \in Sources : job'[u].pc \in {"nodes", "rels", "describes"} => enabled'
    BY <1>1 DEF Ordered
  <2> QED
    BY <1>1, <1>2, <2>1, GraphOrder
<1>7. Emptied'
  BY <1>1, <1>2 DEF Emptied
<1> QED
  BY <1>1, <1>3, <1>6, <1>7, IngestStep

\* What an ingest that is still writing starts from: nobody undoes it.
LEMMA IngestFacts ==
    ASSUME StoreInv, NEW s \in Sources
    PROVE  /\ job \in [Sources -> Job] /\ job[s] \in Job
           /\ Attempt(s) \in Attempts /\ job[s].ts \in SUBSET Techniques
           /\ DOMAIN nodes \subseteq Ids /\ describes \subseteq Attempts \X Ids
           /\ Tied /\ Ordered /\ Emptied /\ Kept(s)
           /\ job[s].pc \in {"nodes", "rels", "describes"} =>
                 /\ enabled
                 /\ ~Past(Attempt(s))
                 /\ ~Withdrawn(Attempt(s))
                 /\ DescribedBy(Attempt(s)) = {}
<1>1. /\ job \in [Sources -> Job] /\ job[s] \in Job
      /\ DOMAIN nodes \subseteq Ids /\ describes \subseteq Attempts \X Ids
      /\ Tied /\ Ordered /\ Emptied /\ Kept(s)
  BY DEF StoreInv, Typed
<1>2. job[s].n \in 1..MaxAttempts /\ job[s].n \in Nat /\ job[s].ts \in SUBSET Techniques
  BY <1>1, BoundsAssumption DEF Job
<1>3. Attempt(s) \in Attempts
  BY <1>2 DEF Attempt, Attempts
<1>4. ASSUME job[s].pc \in {"nodes", "rels", "describes"}
      PROVE  /\ enabled
             /\ ~Past(Attempt(s))
             /\ ~Withdrawn(Attempt(s))
             /\ DescribedBy(Attempt(s)) = {}
  <2>1. enabled
    BY <1>1, <1>4 DEF Ordered
  <2>2. ~Past(Attempt(s))
    BY <1>2, <1>4 DEF Past, Attempt
  <2>3. ~Withdrawn(Attempt(s))
    BY <1>1, <2>2 DEF Withdrawn, Emptied
  <2>4. DescribedBy(Attempt(s)) = {}
    BY <1>1, <2>2 DEF Ordered, DescribedBy
  <2> QED
    BY <2>1, <2>2, <2>3, <2>4
<1> QED
  BY <1>1, <1>2, <1>3, <1>4

\* The nodes of a run come before its provenance, and before any undo of it.
LEMMA StoreWriteNodes ==
    ASSUME StoreInv, NEW s \in Sources, WriteNodes(s)
    PROVE  StoreInv'
<1> DEFINE a == Attempt(s)
           own == {Own(k, a) : k \in OwnKinds}
           j == [job[s] EXCEPT !.pc = "rels"]
<1>1. /\ job[s].pc = "nodes" /\ job' = [job EXCEPT ![s] = j]
      /\ nodes' = [i \in DOMAIN nodes \cup NodeQueries(a, job[s].ts) |->
                      IF i \in DOMAIN nodes THEN nodes[i] ELSE "pipeline"]
      /\ UNCHANGED <<enabled, edges, describes, rows, undo, undone, discarded>>
  BY DEF WriteNodes, Goto
<1>2. /\ job[s] \in Job /\ a \in Attempts /\ job[s].ts \in SUBSET Techniques
      /\ DOMAIN nodes \subseteq Ids /\ describes \subseteq Attempts \X Ids
      /\ Tied /\ Ordered /\ Emptied /\ job \in [Sources -> Job]
      /\ enabled /\ ~Past(a) /\ DescribedBy(a) = {}
  BY <1>1, IngestFacts
<1>3. /\ j \in Job /\ j.n = job[s].n /\ j.pc = "rels" /\ j.ts = job[s].ts
      /\ j.late = job[s].late
      /\ Later(job[s], j)
  BY <1>1, <1>2 DEF Job, Later, Phases
<1>4. NodeQueries(a, job[s].ts) = own
  BY <1>2, BundleContents
<1>5. /\ DOMAIN nodes' = DOMAIN nodes \cup own
      /\ \A i \in DOMAIN nodes : nodes'[i] = nodes[i]
      /\ \A i \in own \ DOMAIN nodes : nodes'[i] = "pipeline"
  BY <1>1, <1>4
<1>6. \A i \in own : i \in Ids /\ i.of = a /\ i.kind \in OwnKinds
  BY <1>2, Naming
<1> HIDE DEF j, own
<1>7. Attempt(s)' = a /\ job'[s] = j
  BY <1>1, <1>2, <1>3 DEF Attempt
<1>8. Tied'
  BY <1>1, <1>2, <1>5 DEF Tied
<1>9. Ordered'
  <2>1. \A u \in Sources : job'[u].pc \in {"nodes", "rels", "describes"} => enabled'
    BY <1>1, <1>2
  <2>2. \A i \in DOMAIN nodes : i.kind \in OwnKinds => i.of \in Attempts
    BY <1>2, Naming
  <2>3. \A b \in Attempts : /\ Reached(b) => Reached(b)'
                            /\ Past(b) => Past(b)'
                            /\ Provenanced(b)' => Provenanced(b) \/ ~Reached(b)
    BY <1>1, <1>2, <1>3, OnlyForward
  <2>4. \A b \in Attempts : b = a => Reached(b)' /\ ~Provenanced(b)'
    <3>1. job[s].n \notin j.late
      BY <1>1, <1>2, <1>3, BoundsAssumption DEF StoreInv, Typed, Job
    <3> QED
      BY <1>3, <1>7, <3>1 DEF Reached, Provenanced, Attempt
  <2>5. \A i \in DOMAIN nodes' : i.kind \in OwnKinds => Reached(i.of)'
    BY <1>2, <1>5, <1>6, <2>2, <2>3, <2>4 DEF Ordered
  <2>6. \A d \in describes' : Past(d[1])'
    BY <1>1, <1>2, <2>3 DEF Ordered
  <2>7. ASSUME NEW i \in DOMAIN nodes', i.kind \in OwnKinds \ {"report"},
               DescribedBy(i.of) # {} \/ Provenanced(i.of)'
        PROVE  <<i.of, i>> \in describes
    <3>1. i.of # a
      BY <1>2, <1>5, <1>6, <2>2, <2>4, <2>7
    <3>2. i \in DOMAIN nodes /\ i.of \in Attempts
      BY <1>5, <1>6, <2>2, <2>7, <3>1
    <3>3. Reached(i.of)
      BY <1>2, <2>7, <3>2 DEF Ordered
    <3>4. DescribedBy(i.of) # {} \/ Provenanced(i.of)
      BY <2>3, <2>7, <3>2, <3>3
    <3> QED
      BY <1>2, <2>7, <3>2, <3>4 DEF Ordered
  <2>8. \A b : DescribedBy(b)' = DescribedBy(b)
    BY <1>1 DEF DescribedBy
  <2> QED
    BY <1>1, <2>1, <2>5, <2>6, <2>7, <2>8 DEF Ordered
<1>10. Emptied'
  <2>1. \A b \in Attempts : Past(b) => Past(b)'
    BY <1>1, <1>2, <1>3, OnlyForward
  <2>2. undone \subseteq Attempts /\ (undo.pc = "report" => undo.a \in Attempts)
    BY DEF StoreInv, Typed
  <2> QED
    BY <1>1, <1>2, <1>5, <1>6, <2>1, <2>2 DEF Emptied
<1>11. Kept(s)'
  BY <1>3, <1>4, <1>5, <1>7 DEF Kept
<1>12. DOMAIN nodes' \subseteq Ids
  BY <1>2, <1>5, <1>6
<1> QED
  BY <1>1, <1>2, <1>3, <1>5, <1>8, <1>9, <1>10, <1>11, <1>12, IngestStep

\* A relationship that lands has both its ends in the graph; one that does not
\* is said.
LEMMA StoreWriteRels ==
    ASSUME StoreInv, NEW s \in Sources, WriteRels(s)
    PROVE  StoreInv'
<1> DEFINE a == Attempt(s)
           asked == RelQueries(a, job[s].ts)
           landed == {r \in asked : r[1] \in DOMAIN nodes /\ r[2] \in DOMAIN nodes}
           x == job[s].said \/ landed # asked
           j == [job[s] EXCEPT !.pc = "describes", !.said = x]
<1>1. /\ job[s].pc = "rels" /\ edges' = edges \cup landed
      /\ job' = [job EXCEPT ![s].pc = "describes", ![s].said = x]
      /\ UNCHANGED <<enabled, nodes, describes, rows, undo, undone, discarded>>
  BY DEF WriteRels
<1>2. /\ job[s] \in Job /\ a \in Attempts /\ job[s].ts \in SUBSET Techniques
      /\ DOMAIN nodes \subseteq Ids /\ describes \subseteq Attempts \X Ids
      /\ Tied /\ Ordered /\ Emptied /\ Kept(s) /\ job \in [Sources -> Job]
      /\ enabled /\ ~Past(a) /\ ~Withdrawn(a)
  BY <1>1, IngestFacts
<1>3. x \in BOOLEAN /\ (x = FALSE => landed = asked)
  BY <1>2 DEF Job
<1>4. NodeQueries(a, job[s].ts) \subseteq DOMAIN nodes
  BY <1>1, <1>2 DEF Kept
<1> HIDE DEF x
<1>5. job' = [job EXCEPT ![s] = j]
  BY <1>1, <1>2
<1>6. /\ j \in Job /\ j.n = job[s].n /\ j.pc = "describes" /\ j.ts = job[s].ts
      /\ j.said = x /\ Later(job[s], j)
  BY <1>1, <1>2, <1>3 DEF Job, Later, Phases
<1> HIDE DEF j
<1>7. Attempt(s)' = a /\ job'[s] = j
  BY <1>2, <1>5, <1>6 DEF Attempt
<1>8. Tied'
  BY <1>1, <1>2 DEF Tied
<1>9. \A b \in Attempts : /\ Reached(b) => Reached(b)'
                          /\ Past(b) => Past(b)'
                          /\ Provenanced(b)' => Provenanced(b) \/ ~Reached(b)
  BY <1>1, <1>2, <1>5, <1>6, OnlyForward
<1>10. Ordered'
  BY <1>1, <1>2, <1>9, GraphOrder
<1>11. Emptied'
  BY <1>1, <1>2, <1>9 DEF Emptied, StoreInv, Typed
<1>12. Kept(s)'
  BY <1>1, <1>2, <1>3, <1>4, <1>6, <1>7 DEF Kept
<1> QED
  BY <1>1, <1>2, <1>5, <1>6, <1>8, <1>10, <1>11, <1>12, IngestStep

\* The provenance of a run reaches all it owns, since nobody could undo it yet.
LEMMA StoreWriteDescribes ==
    ASSUME StoreInv, NEW s \in Sources, WriteDescribes(s)
    PROVE  StoreInv'
<1> DEFINE a == Attempt(s)
           asked == DescribesQueries(a, job[s].ts)
           landed == {d \in asked : /\ Own("report", d[1]) \in DOMAIN nodes
                                    /\ d[2] \in DOMAIN nodes}
           x == job[s].said \/ landed # asked
           j == [job[s] EXCEPT !.pc = "store", !.said = x]
<1>1. /\ job[s].pc = "describes" /\ describes' = describes \cup landed
      /\ job' = [job EXCEPT ![s].pc = "store", ![s].said = x]
      /\ UNCHANGED <<enabled, nodes, edges, rows, undo, undone, discarded>>
  BY DEF WriteDescribes
<1>2. /\ job[s] \in Job /\ a \in Attempts /\ job[s].ts \in SUBSET Techniques
      /\ DOMAIN nodes \subseteq Ids /\ describes \subseteq Attempts \X Ids
      /\ Tied /\ Ordered /\ Emptied /\ Kept(s) /\ job \in [Sources -> Job]
      /\ enabled /\ ~Past(a) /\ ~Withdrawn(a) /\ DescribedBy(a) = {}
  BY <1>1, IngestFacts
<1>3. x \in BOOLEAN /\ (x = FALSE => landed = asked /\ ~job[s].said)
  BY <1>2 DEF Job
<1>4. /\ NodeQueries(a, job[s].ts) \subseteq DOMAIN nodes
      /\ ~job[s].said => RelQueries(a, job[s].ts) \subseteq edges
  BY <1>1, <1>2 DEF Kept
<1> HIDE DEF x
<1>5. job' = [job EXCEPT ![s] = j]
  BY <1>1, <1>2
<1>6. /\ j \in Job /\ j.n = job[s].n /\ j.pc = "store" /\ j.ts = job[s].ts
      /\ j.said = x /\ Later(job[s], j)
  BY <1>1, <1>2, <1>3 DEF Job, Later, Phases
<1> HIDE DEF j
<1>7. Attempt(s)' = a /\ job'[s] = j
  BY <1>2, <1>5, <1>6 DEF Attempt
<1>8. /\ asked \subseteq Attempts \X Ids
      /\ \A d \in asked : /\ d[1] = a /\ d[2].kind # "report"
                          /\ d[2].kind \in OwnKinds => d[2].of = a
      /\ \A k \in OwnKinds \ {"report"} : <<a, Own(k, a)>> \in asked
      /\ Own("report", a) \in DOMAIN nodes
  <2>1. "report" \in OwnKinds
    BY DEF OwnKinds
  <2> QED
    BY <1>2, <1>4, <2>1, BundleContents
<1>9. \A b \in Attempts :
         /\ Reached(b) => Reached(b)'
         /\ Past(b) => Past(b)'
         /\ Provenanced(b)' => Provenanced(b) \/ ~Reached(b) \/ b = a
  BY <1>1, <1>2, <1>5, <1>6, OnlyForward
<1>10. \A b \in Attempts : b = a => Past(b)'
  BY <1>6, <1>7 DEF Past, Attempt
<1>11. Tied'
  BY <1>1, <1>2, <1>8 DEF Tied
<1>12. \A i \in DOMAIN nodes : i.kind \in OwnKinds => i.of \in Attempts /\ i = Own(i.kind, i.of)
  BY <1>2, Naming
<1>13. Ordered'
  <2>1. \A u \in Sources : job'[u].pc \in {"nodes", "rels", "describes"} => enabled'
    BY <1>1, <1>2
  <2>2. \A i \in DOMAIN nodes' : i.kind \in OwnKinds => Reached(i.of)'
    BY <1>1, <1>2, <1>9, <1>12 DEF Ordered
  <2>3. \A d \in describes' : Past(d[1])'
    <3>1. \A d \in describes : d[1] \in Attempts /\ Past(d[1])
      BY <1>2, Describing DEF Ordered
    <3> QED
      BY <1>1, <1>2, <1>8, <1>9, <1>10, <3>1
  <2>4. ASSUME NEW i \in DOMAIN nodes', i.kind \in OwnKinds \ {"report"},
               DescribedBy(i.of)' # {} \/ Provenanced(i.of)'
        PROVE  <<i.of, i>> \in describes'
    <3>1. i \in DOMAIN nodes /\ i.of \in Attempts /\ i = Own(i.kind, i.of)
      BY <1>1, <1>12, <2>4
    <3>2. CASE i.of = a
      <4>1. <<a, i>> \in asked
        BY <1>8, <2>4, <3>1, <3>2
      <4>2. <<a, i>> \in landed
        BY <1>8, <3>1, <4>1
      <4> QED
        BY <1>1, <3>2, <4>2
    <3>3. CASE i.of # a
      <4>1. DescribedBy(i.of)' = DescribedBy(i.of)
        BY <1>1, <1>8, <3>3 DEF DescribedBy
      <4>2. Reached(i.of)
        BY <1>2, <2>4, <3>1 DEF Ordered
      <4>3. DescribedBy(i.of) # {} \/ Provenanced(i.of)
        BY <1>9, <2>4, <3>1, <3>3, <4>1, <4>2
      <4> QED
        BY <1>1, <1>2, <2>4, <3>1, <4>3 DEF Ordered
    <3> QED
      BY <3>2, <3>3
  <2> QED
    BY <2>1, <2>2, <2>3, <2>4 DEF Ordered
<1>14. Emptied'
  BY <1>1, <1>2, <1>9 DEF Emptied, StoreInv, Typed
<1>15. Kept(s)'
  <2>1. x = FALSE => asked \subseteq describes'
    BY <1>1, <1>3
  <2> QED
    BY <1>1, <1>2, <1>3, <1>4, <1>6, <1>7, <2>1 DEF Kept
<1>16. describes' \subseteq Attempts \X Ids
  BY <1>1, <1>2, <1>8
<1> QED
  BY <1>1, <1>2, <1>5, <1>6, <1>11, <1>13, <1>14, <1>15, <1>16, IngestStep

\* Refusing, preparing, failing, storing, stopping and retrying leave the graph.
LEMMA StoreQuiet ==
    ASSUME StoreInv, NEW s \in Sources,
           \/ Refuse(s)
           \/ Prepare(s)
           \/ WriteFails(s)
           \/ Store(s)
           \/ StoreFails(s)
           \/ FailLater(s)
           \/ Stop(s)
           \/ Retry(s)
    PROVE  StoreInv'
<1>1. /\ job[s] \in Job /\ job \in [Sources -> Job] /\ Kept(s)
      /\ job[s].n \in Nat
  <2>1. /\ job[s] \in Job /\ job \in [Sources -> Job] /\ Kept(s)
    BY IngestFacts
  <2> QED
    BY <2>1, BoundsAssumption DEF Job
<1>2. UNCHANGED <<enabled, nodes, edges, describes, undo, undone>>
  BY DEF Refuse, Prepare, WriteFails, Store, StoreFails, FailLater, Stop, Retry, graph
<1>3. CASE Prepare(s)
  <2>1. PICK ts \in SUBSET Techniques :
           /\ job[s].pc = "idle"
           /\ job' = [job EXCEPT ![s].ts = ts,
                                 ![s].pc = IF enabled THEN "nodes" ELSE "store"]
           /\ UNCHANGED <<rows, discarded>>
    BY <1>3 DEF Prepare
  <2> DEFINE p == IF enabled THEN "nodes" ELSE "store"
             j == [job[s] EXCEPT !.ts = ts, !.pc = p]
  <2>2. job' = [job EXCEPT ![s] = j]
    BY <1>1, <2>1
  <2>3. p \in {"nodes", "store"} /\ (p = "nodes" => enabled) /\ (enabled => p = "nodes")
    OBVIOUS
  <2> HIDE DEF p
  <2>4. j \in Job /\ j.pc = p /\ Later(job[s], j)
    BY <1>1, <2>1, <2>3 DEF Job, Later, Phases
  <2> HIDE DEF j
  <2>5. job'[s] = j
    BY <1>1, <2>2
  <2>6. Kept(s)'
    BY <1>2, <2>3, <2>4, <2>5 DEF Kept
  <2> QED
    BY <1>2, <2>1, <2>2, <2>3, <2>4, <2>6, QuietStep
<1>4. CASE Retry(s)
  <2> DEFINE j == [Fresh(job[s].n + 1) EXCEPT !.late = job[s].late]
  <2>1. /\ job' = [job EXCEPT ![s] = j] /\ UNCHANGED <<rows, discarded>>
        /\ job[s].pc = "failed" /\ job[s].n < MaxAttempts
    BY <1>4 DEF Retry
  <2>2. j \in Job
    <3>1. job[s].n + 1 \in 1..MaxAttempts
      BY <1>1, <2>1, BoundsAssumption
    <3>2. Fresh(job[s].n + 1) \in Job /\ job[s].late \in SUBSET (1..MaxAttempts)
      BY <1>1, <3>1, FreshIsJob DEF Job
    <3> QED
      BY <3>2 DEF Job
  <2>3. j.pc = "idle" /\ j.n = job[s].n + 1 /\ j.late = job[s].late
    BY DEF Fresh
  <2> HIDE DEF j
  <2>4. job'[s] = j /\ Later(job[s], j)
    BY <1>1, <2>1, <2>3 DEF Later
  <2>5. Kept(s)'
    BY <2>3, <2>4 DEF Kept
  <2> QED
    BY <1>2, <2>1, <2>2, <2>3, <2>4, <2>5, QuietStep
<1>5. ASSUME NEW p \in {"failed", "empty", "stopped"},
             job' = [job EXCEPT ![s].pc = p],
             job[s].pc \notin {"failed", "empty", "stopped", "completed"},
             p = "empty" => job[s].pc = "idle",
             rows \cup discarded \subseteq rows' \cup discarded'
      PROVE  StoreInv'
  <2> DEFINE j == [job[s] EXCEPT !.pc = p]
  <2>1. j \in Job /\ j.pc = p /\ j.n = job[s].n /\ j.late = job[s].late
    BY <1>1 DEF Job, Phases
  <2>2. job' = [job EXCEPT ![s] = j]
    BY <1>5
  <2> HIDE DEF j
  <2>3. job'[s] = j /\ Later(job[s], j)
    BY <1>1, <1>5, <2>1, <2>2 DEF Later
  <2>4. Kept(s)'
    BY <2>1, <2>3 DEF Kept
  <2> QED
    BY <1>2, <1>5, <2>1, <2>2, <2>3, <2>4, QuietStep
<1>6. CASE Store(s)
  <2> DEFINE j == [job[s] EXCEPT !.pc = "completed"]
  <2>1. /\ job[s].pc = "store" /\ rows' = rows \cup {Attempt(s)}
        /\ job' = [job EXCEPT ![s] = j] /\ discarded' = discarded
    BY <1>6 DEF Store, Goto
  <2>2. /\ j \in Job /\ j.pc = "completed" /\ j.n = job[s].n /\ j.ts = job[s].ts
        /\ j.said = job[s].said /\ j.late = job[s].late
    BY <1>1 DEF Job, Phases
  <2> HIDE DEF j
  <2>3. /\ job'[s] = j /\ Later(job[s], j) /\ Attempt(s)' = Attempt(s)
    BY <1>1, <2>1, <2>2 DEF Later, Attempt
  <2>4. Kept(s)'
    BY <1>1, <1>2, <2>1, <2>2, <2>3 DEF Kept, Withdrawn
  <2> QED
    BY <1>2, <2>1, <2>2, <2>3, <2>4, QuietStep
<1>7. CASE StoreFails(s)
  <2> DEFINE j == [job[s] EXCEPT !.pc = "completed", !.said = TRUE]
  <2>1. /\ job[s].pc = "store" /\ rows \subseteq rows'
        /\ job' = [job EXCEPT ![s] = j] /\ discarded' = discarded
    BY <1>1, <1>7 DEF StoreFails
  <2>2. /\ j \in Job /\ j.pc = "completed" /\ j.n = job[s].n /\ j.ts = job[s].ts
        /\ j.said /\ j.late = job[s].late
    BY <1>1 DEF Job, Phases
  <2> HIDE DEF j
  <2>3. /\ job'[s] = j /\ Later(job[s], j) /\ Attempt(s)' = Attempt(s)
    BY <1>1, <2>1, <2>2 DEF Later, Attempt
  <2>4. Kept(s)'
    BY <1>1, <1>2, <2>1, <2>2, <2>3 DEF Kept, Withdrawn
  <2> QED
    BY <1>2, <2>1, <2>2, <2>3, <2>4, QuietStep
<1>8. CASE Refuse(s) \/ WriteFails(s) \/ Stop(s)
  BY <1>5, <1>8 DEF Refuse, WriteFails, Stop, Goto
<1>9. CASE FailLater(s)
  <2> DEFINE j == [job[s] EXCEPT !.pc = "failed", !.late = @ \cup {job[s].n}]
  <2>1. /\ job' = [job EXCEPT ![s] = j] /\ UNCHANGED <<rows, discarded>>
        /\ job[s].pc \in {"completed", "empty"}
    BY <1>1, <1>9 DEF FailLater
  <2>2. /\ j \in Job /\ j.pc = "failed" /\ j.n = job[s].n
        /\ j.late = job[s].late \cup {job[s].n}
    BY <1>1 DEF Job, Phases
  <2> HIDE DEF j
  <2>3. job'[s] = j /\ Later(job[s], j)
    BY <1>1, <2>1, <2>2 DEF Later
  <2>4. Kept(s)'
    BY <2>2, <2>3 DEF Kept
  <2> QED
    BY <1>2, <2>1, <2>2, <2>3, <2>4, QuietStep
<1> QED
  BY <1>3, <1>4, <1>6, <1>7, <1>8, <1>9

\* Deleting a row moves it to what was discarded.
LEMMA StoreDeleteBundle ==
    ASSUME StoreInv, NEW b \in Attempts, DeleteBundle(b)
    PROVE  StoreInv'
<1>1. /\ UNCHANGED <<enabled, nodes, edges, describes, job, undo, undone>>
      /\ rows \cup discarded \subseteq rows' \cup discarded'
  BY DEF DeleteBundle, graph
<1>2. Typed' /\ Tied' /\ Emptied' /\ Ordered'
  BY <1>1 DEF StoreInv, Typed, Tied, Emptied, Ordered, Past, Reached, Provenanced,
              DescribedBy
<1>3. \A s \in Sources : Kept(s)'
  BY <1>1 DEF StoreInv, Kept, Withdrawn, Attempt
<1>4. Filed'
  BY <1>1 DEF StoreInv, Filed, Attempt
<1> QED
  BY <1>2, <1>3, <1>4 DEF StoreInv

\* Removing some of what one finished run owns, when all of it goes or has gone
\* but its report, leaves every other run as it was.
LEMMA WithdrawStep ==
    ASSUME StoreInv, NEW b \in Attempts, NEW gone, Detach(gone),
           \A i \in gone : i.kind \in OwnKinds /\ i.of = b,
           \A i \in DOMAIN nodes \ gone :
               i.kind \in OwnKinds \ {"report"} => i.of # b,
           UNCHANGED <<enabled, job, rows, discarded>>,
           undone \subseteq undone', Withdrawn(b)',
           \A a \in Attempts : Withdrawn(a) => Withdrawn(a)',
           undone' \subseteq Attempts, undo'.pc = "report" => undo'.a \in Attempts,
           Emptied'
    PROVE  StoreInv'
<1>1. /\ DOMAIN nodes \subseteq Ids /\ describes \subseteq Attempts \X Ids
      /\ Tied /\ Ordered /\ job \in [Sources -> Job]
  BY DEF StoreInv, Typed
<1>2. /\ DOMAIN nodes' = DOMAIN nodes \ gone
      /\ \A i \in DOMAIN nodes' : nodes'[i] = nodes[i]
      /\ edges' = {e \in edges : e[1] \notin gone /\ e[2] \notin gone}
      /\ describes' = {d \in describes : d[2] \notin gone
                                           /\ Own("report", d[1]) \notin gone}
  BY DEF Detach
<1>3. Typed'
  <2>1. \A s \in Sources : \A m \in job[s].late :
           m < job[s].n \/ (m = job[s].n /\ job[s].pc = "failed")
    BY DEF StoreInv, Typed
  <2> QED
    BY <1>1, <1>2, <2>1 DEF Typed
<1>4. Tied'
  BY <1>1, <1>2 DEF Tied
<1>5. Ordered'
  <2>1. \A u \in Sources : job'[u].pc \in {"nodes", "rels", "describes"} => enabled'
    BY <1>1 DEF Ordered
  <2>2. \A i \in DOMAIN nodes' : i.kind \in OwnKinds => Reached(i.of)'
    BY <1>1, <1>2 DEF Ordered, Reached
  <2>3. \A d \in describes' : Past(d[1])'
    BY <1>1, <1>2 DEF Ordered, Past
  <2>4. ASSUME NEW i \in DOMAIN nodes', i.kind \in OwnKinds \ {"report"},
               DescribedBy(i.of)' # {} \/ Provenanced(i.of)'
        PROVE  <<i.of, i>> \in describes'
    <3>1. i \in DOMAIN nodes \ gone /\ i.of # b
      BY <1>2, <2>4
    <3>2. DescribedBy(i.of) # {} \/ Provenanced(i.of)
      BY <1>2, <2>4 DEF DescribedBy, Provenanced
    <3>3. <<i.of, i>> \in describes
      BY <1>1, <2>4, <3>1, <3>2 DEF Ordered
    <3>4. Own("report", i.of) \notin gone
      BY <3>1, Naming
    <3> QED
      BY <1>2, <3>1, <3>3, <3>4
  <2> QED
    BY <2>1, <2>2, <2>3, <2>4 DEF Ordered
<1>6. ASSUME NEW s \in Sources, NEW a \in Attempts, a = Attempt(s)
      PROVE  Kept(s)'
  <2> DEFINE ts == job[s].ts
  <2>1. job'[s] = job[s] /\ Attempt(s)' = a
    BY <1>6 DEF Attempt
  <2>2. ts \in SUBSET Techniques /\ Kept(s)
    BY IngestFacts
  <2>3. CASE a = b
    BY <2>1, <2>3 DEF Kept
  <2>4. CASE a # b
    <3>1. \A i \in NodeQueries(a, ts) : i \notin gone
      BY <2>2, <2>4, BundleContents, Naming
    <3>2. \A r \in RelQueries(a, ts) : r[1] \notin gone /\ r[2] \notin gone
      BY <2>2, <2>4, BundleContents
    <3>3. \A d \in DescribesQueries(a, ts) :
             d[2] \notin gone /\ Own("report", d[1]) \notin gone
      BY <2>2, <2>4, BundleContents, Naming
    <3>5. CASE Withdrawn(a)
      BY <2>1, <3>5 DEF Kept
    <3>6. CASE ~Withdrawn(a)
      BY <1>2, <1>6, <2>1, <2>2, <3>1, <3>2, <3>3, <3>6 DEF Kept
    <3> QED
      BY <3>5, <3>6
  <2> QED
    BY <2>3, <2>4
<1>8. \A s \in Sources : Kept(s)'
  BY <1>6, IngestFacts
<1>7. Filed'
  BY DEF StoreInv, Filed, Attempt
<1> QED
  BY <1>3, <1>4, <1>5, <1>7, <1>8 DEF StoreInv

\* The first statement of an undo takes every object of its run but the report,
\* and nothing of another run: what it owns it describes, and it alone.
LEMMA StoreUndoContents ==
    ASSUME StoreInv, CatalogueUntouched, NEW b \in Attempts, UndoContents(b)
    PROVE  StoreInv'
<1> DEFINE gone == Owned(b)
<1>1. /\ undo.pc = "idle" /\ DescribedBy(b) # {} /\ Detach(gone)
      /\ undo'.pc = "report" /\ undo'.a = b
      /\ UNCHANGED <<enabled, job, rows, discarded, undone>>
  BY DEF UndoContents
<1>2. /\ DOMAIN nodes \subseteq Ids /\ describes \subseteq Attempts \X Ids
      /\ Tied /\ Ordered /\ Emptied /\ undone \subseteq Attempts
  BY DEF StoreInv, Typed
<1>3. \A i : i \in gone <=> /\ <<b, i>> \in describes
                            /\ nodes[i] = "pipeline"
                            /\ Describers(i) = {b}
  BY <1>2, Describing DEF Owned
<1>4. ASSUME NEW i \in gone PROVE i.kind \in OwnKinds /\ i.of = b
  <2>1. <<b, i>> \in describes /\ nodes[i] = "pipeline"
    BY <1>3, <1>4
  <2>2. i \in DOMAIN nodes /\ i \in Ids
    BY <1>2, <2>1 DEF Tied
  <2>3. i \notin CatalogueIds
    BY <2>1, <2>2 DEF CatalogueUntouched
  <2>4. i.kind \in OwnKinds
    BY <2>2, <2>3, Naming
  <2> QED
    BY <1>2, <2>1, <2>4 DEF Tied
<1>5. ASSUME NEW i \in DOMAIN nodes, i \notin gone, i.kind \in OwnKinds \ {"report"}
      PROVE  i.of # b
  <2> SUFFICES ASSUME i.of = b PROVE FALSE
    OBVIOUS
  <2>1. <<b, i>> \in describes
    BY <1>1, <1>2, <1>5 DEF Ordered
  <2>2. nodes[i] = "pipeline"
    BY <1>2, <1>5 DEF Tied
  <2>3. ASSUME NEW c, c \in Describers(i) PROVE c = b
    <3>1. <<c, i>> \in describes
      BY <1>2, <2>3, Describing
    <3> QED
      BY <1>2, <1>5, <3>1 DEF Tied
  <2>4. Describers(i) = {b}
    BY <1>2, <2>1, <2>3, Describing
  <2> QED
    BY <1>3, <1>5, <2>1, <2>2, <2>4
<1>6. DOMAIN nodes' = DOMAIN nodes \ gone
  BY <1>1 DEF Detach
<1>7. Past(b)
  <2>1. PICK i : <<b, i>> \in describes
    BY <1>1, <1>2, Describing
  <2> QED
    BY <1>2, <2>1 DEF Ordered
<1>8. Emptied'
  <2>1. \A c : Past(c)' <=> Past(c)
    BY <1>1 DEF Past
  <2>2. \A i \in DOMAIN nodes' : i.kind \in OwnKinds /\ i.of = b => i.kind = "report"
    BY <1>5, <1>6
  <2>3. \A c \in undone : /\ Past(c)
                          /\ \A i \in DOMAIN nodes' : i.kind \in OwnKinds => i.of # c
    BY <1>2, <1>6 DEF Emptied
  <2> QED
    BY <1>1, <1>7, <2>1, <2>2, <2>3 DEF Emptied
<1>9. Withdrawn(b)' /\ \A a \in Attempts : Withdrawn(a) => Withdrawn(a)'
  BY <1>1 DEF Withdrawn
<1> HIDE DEF gone
<1> QED
  BY <1>1, <1>2, <1>4, <1>5, <1>8, <1>9, WithdrawStep

\* The second statement takes the report, the last of its run.
LEMMA StoreUndoReport ==
    ASSUME StoreInv, UndoReport
    PROVE  StoreInv'
<1>1. PICK b \in Attempts : b = undo.a
  BY DEF StoreInv, Typed, UndoReport
<1> DEFINE gone == {Own("report", b)}
<1>2. /\ undo.pc = "report" /\ Detach(gone)
      /\ undo'.pc = "idle" /\ undone' = undone \cup {b}
      /\ UNCHANGED <<enabled, job, rows, discarded>>
  BY <1>1 DEF UndoReport
<1>3. /\ DOMAIN nodes \subseteq Ids /\ Emptied /\ undone \subseteq Attempts
  BY DEF StoreInv, Typed
<1>4. \A i \in gone : i.kind \in OwnKinds /\ i.of = b
  BY Naming DEF OwnKinds
<1>5. \A i \in DOMAIN nodes \ gone : i.kind \in OwnKinds => i.of # b
  <2>1. \A i \in DOMAIN nodes : i.kind \in OwnKinds /\ i.of = b => i.kind = "report"
    BY <1>1, <1>2, <1>3 DEF Emptied
  <2> QED
    BY <1>3, <2>1, Naming
<1>6. DOMAIN nodes' = DOMAIN nodes \ gone
  BY <1>2 DEF Detach
<1>7. Emptied'
  <2>1. \A c : Past(c)' <=> Past(c)
    BY <1>2 DEF Past
  <2>2. \A c \in undone : /\ Past(c)
                          /\ \A i \in DOMAIN nodes' : i.kind \in OwnKinds => i.of # c
    BY <1>3, <1>6 DEF Emptied
  <2>3. Past(b) /\ \A i \in DOMAIN nodes' : i.kind \in OwnKinds => i.of # b
    BY <1>1, <1>2, <1>3, <1>5, <1>6 DEF Emptied
  <2> HIDE DEF gone
  <2> QED
    BY <1>2, <2>1, <2>2, <2>3 DEF Emptied
<1>8. Withdrawn(b)' /\ \A a \in Attempts : Withdrawn(a) => Withdrawn(a)'
  BY <1>1, <1>2 DEF Withdrawn
<1> HIDE DEF gone
<1> QED
  BY <1>2, <1>3, <1>4, <1>5, <1>7, <1>8, WithdrawStep

\* Nothing is written, described or undone at first.
LEMMA StoreInit == Init => StoreInv
<1> SUFFICES ASSUME Init PROVE StoreInv
  OBVIOUS
<1>1. loaded \subseteq CatalogueIds /\ DOMAIN nodes = loaded
  <2>1. PICK ts \in SUBSET Techniques : loaded = [kind : CatalogueOwned, of : ts]
    BY DEF Init
  <2> QED
    BY <2>1 DEF Init, CatalogueIds
<1>2. /\ edges = {} /\ describes = {} /\ undone = {} /\ undo.pc = "idle"
      /\ job = [s \in Sources |-> Fresh(1)]
  BY DEF Init
<1>3. Fresh(1) \in Job /\ Fresh(1).pc = "idle"
  BY BoundsAssumption, FreshIsJob DEF Fresh
<1>4. job \in [Sources -> Job] /\ \A s \in Sources : job[s].pc = "idle"
  BY <1>2, <1>3
<1>5. \A i \in DOMAIN nodes : i.kind \notin OwnKinds /\ i \in Ids
  BY <1>1, Naming
<1>8. \A s \in Sources : job[s].late = {}
  BY <1>2 DEF Fresh
<1>6. Typed /\ Tied /\ Ordered /\ Emptied
  BY <1>2, <1>4, <1>5, <1>8 DEF Typed, Tied, Ordered, Emptied
<1>7. (\A s \in Sources : Kept(s)) /\ Filed
  BY <1>4 DEF Kept, Filed
<1> QED
  BY <1>6, <1>7 DEF StoreInv

\* Every step of an ingest, an undo or an analyst keeps what the store promises.
LEMMA StoreNext ==
    ASSUME StoreInv, CatalogueUntouched, [Next]_vars
    PROVE  StoreInv'
<1>1. ASSUME NEW s \in Sources,
             \/ Refuse(s)
             \/ Prepare(s)
             \/ WriteFails(s)
             \/ Store(s)
             \/ StoreFails(s)
             \/ FailLater(s)
             \/ Stop(s)
             \/ Retry(s)
      PROVE  StoreInv'
  BY <1>1, StoreQuiet
<1>2. ASSUME NEW s \in Sources, WriteNodes(s) PROVE StoreInv'
  BY <1>2, StoreWriteNodes
<1>3. ASSUME NEW s \in Sources, WriteRels(s) PROVE StoreInv'
  BY <1>3, StoreWriteRels
<1>4. ASSUME NEW s \in Sources, WriteDescribes(s) PROVE StoreInv'
  BY <1>4, StoreWriteDescribes
<1>5. ASSUME NEW a \in Attempts, DeleteBundle(a) PROVE StoreInv'
  BY <1>5, StoreDeleteBundle
<1>6. ASSUME NEW a \in Attempts, UndoContents(a) PROVE StoreInv'
  BY <1>6, StoreUndoContents
<1>7. CASE UndoReport
  BY <1>7, StoreUndoReport
<1>8. CASE UNCHANGED vars
  BY <1>8 DEF vars, StoreInv, Typed, Tied, Ordered, Emptied, Kept, Filed, Past,
              Reached, Provenanced, DescribedBy, Withdrawn, Attempt
<1> QED
  BY <1>1, <1>2, <1>3, <1>4, <1>5, <1>6, <1>7, <1>8 DEF Next

\* However ingests, failures, retries and undos interleave, a report describes
\* all that is left of its run, and what a run wrote stays until it is undone.
THEOREM StoreInvHolds == Spec => []StoreInv
<1>1. Init => StoreInv
  BY StoreInit
<1>2. StoreInv /\ CatalogueUntouched /\ [Next]_vars => StoreInv'
  BY StoreNext
<1> QED
  BY <1>1, <1>2, CatalogueUntouchedHolds, PTL DEF Spec

\* After undo_graph_source removed a report, no object, relationship or DESCRIBES
\* edge of its run is in the graph, whatever other runs wrote before or since.
THEOREM UndoneIsGoneHolds == Spec => []UndoneIsGone
<1>1. StoreInv => UndoneIsGone
  <2> SUFFICES ASSUME StoreInv, NEW a \in undone
               PROVE  /\ \A i \in DOMAIN nodes : i.of # a
                      /\ \A e \in edges : e[1].of # a /\ e[2].of # a
                      /\ DescribedBy(a) = {}
    BY DEF UndoneIsGone
  <2>1. /\ a \in Attempts /\ DOMAIN nodes \subseteq Ids /\ Tied /\ Emptied
        /\ describes \subseteq Attempts \X Ids
    BY DEF StoreInv, Typed
  <2>2. \A i \in DOMAIN nodes : i.of # a
    <3>1. \A i \in DOMAIN nodes : i.kind \in OwnKinds => i.of # a
      BY <2>1 DEF Emptied
    <3>2. \A i \in DOMAIN nodes : i.kind \notin OwnKinds => i.of \in Techniques
      BY <2>1, Naming
    <3> QED
      BY <2>1, <3>1, <3>2, NamesAssumption
  <2>3. \A e \in edges : e[1].of # a /\ e[2].of # a
    BY <2>1, <2>2 DEF Tied
  <2>4. \A i : <<a, i>> \notin describes
    BY <2>1, <2>2, Naming DEF Tied
  <2> QED
    BY <2>1, <2>2, <2>3, <2>4, Describing
<1> QED
  BY <1>1, StoreInvHolds, PTL

\* Whatever the pipeline wrote and no report describes is the remains of an
\* ingest that failed, was stopped or is still writing: undo reaches the rest.
THEOREM OrphansAreOfBrokenRunsHolds == Spec => []OrphansAreOfBrokenRuns
<1>1. StoreInv /\ CatalogueUntouched => OrphansAreOfBrokenRuns
  <2> SUFFICES ASSUME StoreInv, CatalogueUntouched, NEW i \in DOMAIN nodes,
                      nodes[i] = "pipeline", i.kind # "report", Describers(i) = {}
               PROVE  Broken(i.of)
    BY DEF OrphansAreOfBrokenRuns
  <2>1. /\ DOMAIN nodes \subseteq Ids /\ describes \subseteq Attempts \X Ids
        /\ Ordered /\ job \in [Sources -> Job]
    BY DEF StoreInv, Typed
  <2>2. i.kind \in OwnKinds
    BY <2>1, Naming DEF CatalogueUntouched
  <2>3. i.of \in Attempts /\ Reached(i.of)
    BY <2>1, <2>2, Naming DEF Ordered
  <2>4. <<i.of, i>> \notin describes
    BY <2>1, Describing
  <2>5. ~Provenanced(i.of)
    BY <2>1, <2>2, <2>4 DEF Ordered
  <2>6. i.of[1] \in Sources
    BY <2>3 DEF Attempts
  <2>7. job[i.of[1]].pc \in Phases
    BY <2>1, <2>6 DEF Job
  <2> QED
    BY <2>3, <2>5, <2>7 DEF Reached, Provenanced, Broken, Phases
<1> QED
  BY <1>1, StoreInvHolds, CatalogueUntouchedHolds, PTL

\* A run that completed without a persistence error left its whole bundle in the
\* graph and a row, unless an undo or an analyst took them.
THEOREM CompletedIsWholeOrSaidHolds == Spec => []CompletedIsWholeOrSaid
<1>1. StoreInv => CompletedIsWholeOrSaid
  <2> SUFFICES ASSUME StoreInv, NEW s \in Sources,
                      job[s].pc = "completed", ~job[s].said
               PROVE  /\ Attempt(s) \in rows \cup discarded
                      /\ \/ ~enabled
                         \/ Withdrawn(Attempt(s))
                         \/ Whole(Attempt(s), job[s].ts)
    BY DEF CompletedIsWholeOrSaid, Withdrawn
  <2>1. Kept(s) /\ Filed
    BY DEF StoreInv
  <2> QED
    BY <2>1 DEF Kept, Filed, Whole
<1> QED
  BY <1>1, StoreInvHolds, PTL

=============================================================================
