----------------------------- MODULE GraphStore -----------------------------
(***************************************************************************)
(* The end of a run: distribute() writes the bundle to the graph in three  *)
(* transactions (nodes, relationships, DESCRIBES edges), stores the bundle *)
(* row, and reports.  Beside it the operator undoes a report, an analyst   *)
(* deletes a stored bundle, and the process may stop between two steps.    *)
(* The graph is shared with the ATT&CK catalogue, which it must not change.*)
(*                                                                         *)
(* Every object a run makes has a fresh id (uuid4), so an object is named  *)
(* by its kind and the attempt that made it; only what ATT&CK owns keeps   *)
(* one id across runs.                                                     *)
(***************************************************************************)
EXTENDS Naturals, FiniteSets

CONSTANTS
    Sources,        \* queued sources; a retry is a further attempt on one
    Techniques,     \* ATT&CK techniques the bundles may name
    MaxAttempts,    \* bound: attempts on one source
    MaxFaults       \* bound: failed transactions and stores, stops, late failures

ASSUME BoundsAssumption == MaxAttempts \in Nat \ {0} /\ MaxFaults \in Nat

Attempts == Sources \X (1..MaxAttempts)
\* A run's uuid is never the name of a technique.
ASSUME NamesAssumption == Attempts \cap Techniques = {}

\* Two of the four CATALOGUE_OWNED_TYPES, an end and a start of relationships.
CatalogueOwned == {"attack-pattern", "x-mitre-detection-strategy"}
OwnKinds       == {"report", "x-procedure", "domain-name"}

Own(kind, a)       == [kind |-> kind, of |-> a]
Technique(t)       == [kind |-> "attack-pattern", of |-> t]
Detection(t)       == [kind |-> "x-mitre-detection-strategy", of |-> t]
CatalogueIds       == [kind : CatalogueOwned, of : Techniques]
OwnIds             == [kind : OwnKinds, of : Attempts]
Ids                == CatalogueIds \cup OwnIds

VARIABLES
    loaded,     \* catalogue objects the ATT&CK load put into the graph
    enabled,    \* settings.neo4j_writes_enabled
    nodes,      \* id -> who wrote its properties: "attack" or "pipeline"
    edges,      \* relationships in the graph
    describes,  \* (:Report)-[:DESCRIBES]->(n), as <<attempt, id>>
    rows,       \* CompletedBundle rows, by the attempt that stored them
    job,        \* source -> its current attempt
    undo,       \* the undo script: the report it removes and how far it is
    undone,     \* reports the script has removed
    discarded,  \* rows an analyst deleted
    faults      \* counts what went wrong

vars == <<loaded, enabled, nodes, edges, describes, rows, job, undo, undone, discarded, faults>>
graph == <<nodes, edges, describes>>

\* What the validated bundle of attempt a carries: the objects and relationships
\* serialize_stix makes of one procedure with the techniques ts.
Objects(a, ts) ==
    {Own(k, a) : k \in OwnKinds} \cup {Technique(t) : t \in ts}
                                 \cup {Detection(t) : t \in ts}
Relationships(a, ts) ==
    {<<Own("x-procedure", a), Own("domain-name", a)>>}
        \cup {<<Own("x-procedure", a), Technique(t)>> : t \in ts}
        \cup {<<Detection(t), Technique(t)>> : t \in ts}
\* The report's object_refs: every object but the report itself.
ObjectRefsNoObservables(a, ts) == {o \in Objects(a, ts) : o.kind = "x-procedure"}
ObjectRefs(a, ts) == Objects(a, ts) \ {Own("report", a)}

(***************************************************************************)
(* Building the statements                                                 *)
(***************************************************************************)
\* The catalogue's own nodes are never written.
NodeQueries(a, ts) == {o \in Objects(a, ts) : o.kind \notin CatalogueOwned}

\* An edge inside the catalogue is ATT&CK's; a second copy could not be undone.
RelQueriesAll(a, ts) == Relationships(a, ts)
RelQueries(a, ts) ==
    {r \in Relationships(a, ts) :
        ~(r[1].kind \in CatalogueOwned /\ r[2].kind \in CatalogueOwned)}

DescribesQueries(a, ts) == {<<a, o>> : o \in ObjectRefs(a, ts)}

(***************************************************************************)
(* distribute()                                                            *)
(***************************************************************************)
\* late: the attempts the driver marked failed after their distribute returned.
Fresh(n) == [n |-> n, pc |-> "idle", ts |-> {}, said |-> FALSE, late |-> {}]
Attempt(s) == <<s, job[s].n>>

Init ==
    /\ loaded \in {[kind : CatalogueOwned, of : ts] : ts \in SUBSET Techniques}
    /\ enabled \in BOOLEAN
    /\ nodes = [i \in loaded |-> "attack"]
    /\ edges = {} /\ describes = {} /\ rows = {}
    /\ job = [s \in Sources |-> Fresh(1)]
    /\ undo = [pc |-> "idle", a |-> <<>>]
    /\ undone = {} /\ discarded = {} /\ faults = 0

Goto(s, pc) == job' = [job EXCEPT ![s].pc = pc]

\* A bundle that did not validate fails the run; one with no objects completes
\* it.  Neither writes anything.
Refuse(s) ==
    /\ job[s].pc = "idle"
    /\ Goto(s, "failed") \/ Goto(s, "empty")
    /\ UNCHANGED <<loaded, enabled, graph, rows, undo, undone, discarded, faults>>

\* The statements are built; a dry run goes on as if they had been executed.
Prepare(s) ==
    /\ job[s].pc = "idle"
    /\ \E ts \in SUBSET Techniques :
          job' = [job EXCEPT ![s].ts = ts,
                             ![s].pc = IF enabled THEN "nodes" ELSE "store"]
    /\ UNCHANGED <<loaded, enabled, graph, rows, undo, undone, discarded, faults>>

\* First transaction: MERGE each node; one that exists and is not the pipeline's
\* keeps its properties.
WriteNodes(s) ==
    /\ job[s].pc = "nodes"
    /\ nodes' = [i \in DOMAIN nodes \cup NodeQueries(Attempt(s), job[s].ts) |->
                    IF i \in DOMAIN nodes THEN nodes[i] ELSE "pipeline"]
    /\ Goto(s, "rels")
    /\ UNCHANGED <<loaded, enabled, edges, describes, rows, undo, undone, discarded, faults>>

\* Second transaction: an edge whose endpoints are not both in the graph is
\* dropped; the count of dropped edges becomes a persistence error.
WriteRels(s) ==
    LET asked  == RelQueries(Attempt(s), job[s].ts)
        landed == {r \in asked : r[1] \in DOMAIN nodes /\ r[2] \in DOMAIN nodes}
    IN  /\ job[s].pc = "rels"
        /\ edges' = edges \cup landed
        /\ job' = [job EXCEPT ![s].pc = "describes",
                              ![s].said = @ \/ landed # asked]
        /\ UNCHANGED <<loaded, enabled, nodes, describes, rows, undo, undone, discarded, faults>>

\* Third transaction: the report's provenance, last.
WriteDescribes(s) ==
    LET asked  == DescribesQueries(Attempt(s), job[s].ts)
        landed == {d \in asked : /\ Own("report", d[1]) \in DOMAIN nodes
                                 /\ d[2] \in DOMAIN nodes}
    IN  /\ job[s].pc = "describes"
        /\ describes' = describes \cup landed
        /\ job' = [job EXCEPT ![s].pc = "store",
                              ![s].said = @ \/ landed # asked]
        /\ UNCHANGED <<loaded, enabled, nodes, edges, rows, undo, undone, discarded, faults>>

\* An exception in a transaction rolls that one back, fails the run and leaves
\* the transactions before it committed.
WriteFails(s) ==
    /\ job[s].pc \in {"nodes", "rels", "describes"}
    /\ faults < MaxFaults /\ faults' = faults + 1
    /\ Goto(s, "failed")
    /\ UNCHANGED <<loaded, enabled, graph, rows, undo, undone, discarded>>

\* save_bundle: the row with the source file, or without one that is missing.
Store(s) ==
    /\ job[s].pc = "store"
    /\ rows' = rows \cup {Attempt(s)}
    /\ Goto(s, "completed")
    /\ UNCHANGED <<loaded, enabled, graph, undo, undone, discarded, faults>>

\* A file that cannot be read loses the row; a database error may come before or
\* after the commit.  Neither fails the run: it completes and says so.
StoreFailsTheRun(s) ==
    /\ job[s].pc = "store"
    /\ faults < MaxFaults /\ faults' = faults + 1
    /\ rows' \in {rows, rows \cup {Attempt(s)}}
    /\ Goto(s, "failed")
    /\ UNCHANGED <<loaded, enabled, graph, undo, undone, discarded>>
StoreFailsQuietly(s) ==
    /\ job[s].pc = "store"
    /\ faults < MaxFaults /\ faults' = faults + 1
    /\ rows' \in {rows, rows \cup {Attempt(s)}}
    /\ Goto(s, "completed")
    /\ UNCHANGED <<loaded, enabled, graph, undo, undone, discarded>>
StoreFails(s) ==
    /\ job[s].pc = "store"
    /\ faults < MaxFaults /\ faults' = faults + 1
    /\ rows' \in {rows, rows \cup {Attempt(s)}}
    /\ job' = [job EXCEPT ![s].pc = "completed", ![s].said = TRUE]
    /\ UNCHANGED <<loaded, enabled, graph, undo, undone, discarded>>

\* The process stops inside distribute, before or after the row is committed;
\* nothing resumes the node, and the card is neither queued nor failed.
Stop(s) ==
    /\ job[s].pc \in {"nodes", "rels", "describes", "store"}
    /\ faults < MaxFaults /\ faults' = faults + 1
    /\ \/ UNCHANGED rows
       \/ job[s].pc = "store" /\ rows' = rows \cup {Attempt(s)}
    /\ Goto(s, "stopped")
    /\ UNCHANGED <<loaded, enabled, graph, undo, undone, discarded>>

\* The driver goes on after distribute: reading the state, writing the status,
\* checkpointing the next node.  An exception there marks the run failed too;
\* what distribute wrote and the row it stored stay.
FailLater(s) ==
    /\ job[s].pc \in {"completed", "empty"}
    /\ faults < MaxFaults /\ faults' = faults + 1
    /\ job' = [job EXCEPT ![s].pc = "failed", ![s].late = @ \cup {job[s].n}]
    /\ UNCHANGED <<loaded, enabled, graph, rows, undo, undone, discarded>>

\* Retry runs the source again from the start; its bundle has fresh ids.
Retry(s) ==
    /\ job[s].pc = "failed" /\ job[s].n < MaxAttempts
    /\ job' = [job EXCEPT ![s] = [Fresh(job[s].n + 1) EXCEPT !.late = job[s].late]]
    /\ UNCHANGED <<loaded, enabled, graph, rows, undo, undone, discarded, faults>>

\* The analyst deletes a stored bundle; the graph is left untouched.
DeleteBundle(a) ==
    /\ a \in rows
    /\ rows' = rows \ {a}
    /\ discarded' = discarded \cup {a}
    /\ UNCHANGED <<loaded, enabled, graph, job, undo, undone, faults>>

(***************************************************************************)
(* undo_graph_source.py: one operator, two autocommitted statements        *)
(***************************************************************************)
DescribedBy(a) == {d[2] : d \in {e \in describes : e[1] = a}}
Describers(i)  == {d[1] : d \in {e \in describes : e[2] = i}}

\* DETACH DELETE takes the edges of a node with it.
Detach(gone) ==
    /\ nodes' = [i \in DOMAIN nodes \ gone |-> nodes[i]]
    /\ edges' = {e \in edges : e[1] \notin gone /\ e[2] \notin gone}
    /\ describes' = {d \in describes : d[2] \notin gone /\ Own("report", d[1]) \notin gone}

\* The delete set: what the pipeline created and only this report describes.
Owned(a) == {i \in DescribedBy(a) : nodes[i] = "pipeline" /\ Describers(i) = {a}}

\* The preview refuses a report that describes nothing or is not there.
UndoReportFirst(a) ==
    /\ undo.pc = "idle" /\ enabled
    /\ Own("report", a) \in DOMAIN nodes /\ DescribedBy(a) # {}
    /\ Detach({Own("report", a)})
    /\ undo' = [pc |-> "report", a |-> a]
    /\ UNCHANGED <<loaded, enabled, rows, job, undone, discarded, faults>>
UndoContents(a) ==
    /\ undo.pc = "idle" /\ enabled
    /\ Own("report", a) \in DOMAIN nodes /\ DescribedBy(a) # {}
    /\ Detach(Owned(a))
    /\ undo' = [pc |-> "report", a |-> a]
    /\ UNCHANGED <<loaded, enabled, rows, job, undone, discarded, faults>>

\* The report is not in its own object_refs: it is removed by itself, last.
UndoReport ==
    /\ undo.pc = "report"
    /\ Detach({Own("report", undo.a)})
    /\ undo' = [pc |-> "idle", a |-> <<>>]
    /\ undone' = undone \cup {undo.a}
    /\ UNCHANGED <<loaded, enabled, rows, job, discarded, faults>>

Next ==
    \/ \E s \in Sources :
          \/ Refuse(s) \/ Prepare(s) \/ WriteNodes(s) \/ WriteRels(s)
          \/ WriteDescribes(s) \/ WriteFails(s) \/ Store(s) \/ StoreFails(s)
          \/ FailLater(s) \/ Stop(s) \/ Retry(s)
    \/ \E a \in Attempts : DeleteBundle(a) \/ UndoContents(a)
    \/ UndoReport

Spec == Init /\ [][Next]_vars

(***************************************************************************)
(* Properties                                                              *)
(***************************************************************************)
\* No ingest, failure, retry or undo changes, adds or removes anything that is
\* ATT&CK's: its nodes keep their properties, no other node has a catalogue id,
\* and no relationship the pipeline wrote runs between two of them.
CatalogueUntouched ==
    /\ {i \in DOMAIN nodes : i \in CatalogueIds} = loaded
    /\ \A i \in loaded : nodes[i] = "attack"
    /\ \A e \in edges : ~(e[1] \in CatalogueIds /\ e[2] \in CatalogueIds)

\* A run that says COMPLETED has all of its bundle in the graph and a stored
\* row, unless a persistence error on the card says otherwise, the operator
\* undid the report or is doing so, or an analyst deleted the row.
Whole(a, ts) ==
    /\ NodeQueries(a, ts) \subseteq DOMAIN nodes
    /\ RelQueries(a, ts) \subseteq edges
    /\ DescribesQueries(a, ts) \subseteq describes
CompletedIsWholeOrSaid ==
    \A s \in Sources : LET a == Attempt(s) IN
        (job[s].pc = "completed" /\ ~job[s].said) =>
            /\ a \in rows \cup discarded
            /\ \/ ~enabled
               \/ a \in undone \/ (undo.pc = "report" /\ undo.a = a)
               \/ Whole(a, job[s].ts)

\* The undo script can reach everything the pipeline put into the graph, except
\* what an ingest that failed, stopped or is still writing has left there.  A run
\* that failed after its ingest is not one of them.
Broken(a) == LET s == a[1] IN
    /\ a[2] \notin job[s].late
    /\ \/ a[2] < job[s].n
       \/ a[2] = job[s].n /\ job[s].pc \in {"rels", "describes", "failed", "stopped"}
OrphansAreOfBrokenRuns ==
    \A i \in DOMAIN nodes :
        (nodes[i] = "pipeline" /\ i.kind # "report" /\ Describers(i) = {})
            => Broken(i.of)

\* Once a report is undone nothing of its run is left in the graph: no node, no
\* relationship and no DESCRIBES edge, whatever else was written meanwhile.
UndoneIsGone ==
    \A a \in undone :
        /\ \A i \in DOMAIN nodes : i.of # a
        /\ \A e \in edges : e[1].of # a /\ e[2].of # a
        /\ DescribedBy(a) = {}

\* A row is left only by an attempt that distribute reported completed, or that
\* was stopped right after storing it: an ingest that fails and is retried
\* leaves none, so a source with several bundles had runs that failed later.
Ended == {"completed", "stopped"}
RowsAreOfFinishedIngests ==
    \A a \in rows : \/ a[2] \in job[a[1]].late
                    \/ a = Attempt(a[1]) /\ job[a[1]].pc \in Ended

\* Not true of the code: nothing keeps the bundles of one source from being
\* several, when a run whose row is stored is marked failed and retried.
OneBundlePerSource ==
    \A s \in Sources : Cardinality({a \in rows : a[1] = s}) <= 1

=============================================================================
