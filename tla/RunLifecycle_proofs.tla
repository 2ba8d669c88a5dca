------------------------ MODULE RunLifecycle_proofs ------------------------
(***************************************************************************)
(* The safety properties of RunLifecycle for any number of sessions,       *)
(* driver slots, attempts, rejections, exceptions and restarts, any modes  *)
(* of the gates and any limits.                                            *)
(*                                                                         *)
(* The inductive invariant says what the driver, the row and the           *)
(* checkpoint owe each other at every point of a run (AtWork, Shown), what *)
(* a session's open request and page still rely on (Asked), and how a      *)
(* source is left when nobody drives it (Rested).  A step of a driver and  *)
(* a step of a session each have one lemma that settles everybody else's   *)
(* part, so that an action only answers for what it writes.                *)
(***************************************************************************)
EXTENDS RunLifecycle, PipelineNodes_proofs, FiniteSetTheorems

-----------------------------------------------------------------------------
(***************************************************************************)
(* Types.                                                                  *)
(***************************************************************************)
RowStatuses ==
    {"queued"} \cup Gates \cup NodeStatuses
    \cup {NodeToStatus[n] : n \in DOMAIN NodeToStatus}
    \cup {Reviewing[g] : g \in Gates}

\* A card that shows neither a place to wait nor an end.
AtRest == {"queued", "completed", "failed"} \cup Gates

Rows == [exists : BOOLEAN, status : RowStatuses, error : BOOLEAN,
         entities : Attempts, written : Attempts]

Checkpoints == [vals : Values, next : Nodes \cup {End}]

TaskRecords ==
    [pc : {"idle", "open", "node", "sync", "ended", "review", "park",
           "stalled", "except"},
     input : {"fresh", "resume"}, gates : SUBSET Gates,
     vals : Values, next : Nodes \cup {End}, skips : Nat]

Requests == [pc : {"idle", "start", "write", "flip"},
             decision : AllDecisions \cup {"none"}]

Pages == [gate : Gates \cup {"none"}, fresh : BOOLEAN]

Counters == [rejects : Nat, raises : Nat, crashes : Nat]

TypeOK ==
    /\ row \in Rows
    /\ ckpt \in Checkpoints
    /\ tasks \in [Tasks -> TaskRecords]
    /\ reqs \in [Analysts -> Requests]
    /\ page \in [Analysts -> Pages]
    /\ visits \in [Gates -> Nat]
    /\ rewinds \in [Gates -> Nat]
    /\ spent \in Counters

-----------------------------------------------------------------------------
(***************************************************************************)
(* The inductive invariant.                                                *)
(***************************************************************************)
\* One session at a time asks something of the source, and Retry waits until
\* the failed run is torn down.
Serial ==
    /\ ~Overlap \/ \A a, b \in Analysts : a = b
    /\ ~EagerRetry

Working(t) == tasks[t].pc # "idle"
Free == \A t \in Tasks : ~Working(t)

Sole == \A s, t \in Tasks : Working(s) /\ Working(t) => s = t

\* What a row never claims of the checkpoint, whoever works on it; the row of a
\* deleted source claims nothing.
Shown(r, c) ==
    /\ r.status \notin {"queued"} => r.exists
    /\ r.status \in Gates => r.status = c.next /\ r.status \in c.vals.gates
    /\ r.status = "completed" => /\ c.next = End /\ c.vals.status = "completed"
                                 /\ r.written = c.vals.attempt

\* What a driver k has in hand, the row r and the checkpoint c have in common.
\* The source may be deleted: a page still open on its thread can launch one.
AtWork(k, r, c) ==
    /\ r.exists => r.status \notin Gates \cup {"queued"}
    /\ r.status = "failed" => c.vals.status = "failed"
    /\ k.pc = "open" /\ k.input = "fresh"
           => /\ r.status = "parsing" /\ c.vals.attempt < MaxAttempts
              /\ k.gates \in GateChoices
    /\ (k.pc = "open" /\ k.input = "resume") \/ k.pc = "stalled"
           => c.next \in Gates
    /\ k.pc \in {"node", "sync", "review", "park"}
           => k.vals = c.vals /\ k.next = c.next
    /\ k.pc = "node" => c.next # End
    /\ k.pc = "ended" => /\ c.next \in Gates \cup {End}
                         /\ r.exists /\ c.next = End => r.status = c.vals.status
    /\ k.pc \in {"review", "park"} => c.next \in c.vals.gates

\* What a source without a driver was left with, unless the process was killed.
Rested(r, c) ==
    r.exists =>
        /\ c.next \in c.vals.gates => r.status \in {c.next, "failed"}
        /\ c.next = End /\ c.vals.status = "completed"
               => r.status \in {"completed", "failed"}

\* What a session's request and its open page still rely on.
Asked(a) ==
    /\ reqs[a].pc = "start" => /\ row.exists /\ row.status \in RestartableStatuses
                               /\ Free /\ ckpt.vals.attempt < MaxAttempts
    /\ reqs[a].pc = "write" => /\ page[a].fresh
                               /\ reqs[a].decision \in Decisions[page[a].gate]
    /\ reqs[a].pc = "flip" => \A b \in Analysts : ~page[b].fresh
    /\ reqs[a].pc = "flip" \/ page[a].fresh
           => /\ Free /\ page[a].gate \in Gates /\ ckpt.next = page[a].gate
              /\ row.exists => row.status = page[a].gate

OneRequest ==
    \A a, b \in Analysts : reqs[a].pc # "idle" /\ reqs[b].pc # "idle" => a = b

Inv ==
    /\ TypeOK
    /\ Sound(ckpt.vals, ckpt.next)
    /\ Shown(row, ckpt)
    /\ Sole
    /\ \A t \in Tasks : Working(t) => AtWork(tasks[t], row, ckpt)
    /\ OneRequest
    /\ \A a \in Analysts : Asked(a)
    /\ Free /\ spent.crashes = 0 => Rested(row, ckpt)

-----------------------------------------------------------------------------
(***************************************************************************)
(* Statuses and records.                                                   *)
(***************************************************************************)
\* A gate's name is no status a node or a sync writes.
LEMMA GateNamesAreNotStatuses ==
    /\ \A g \in Gates : g \notin NodeStatuses \cup {"queued"}
    /\ \A g \in Gates : g # End
    /\ "queued" \notin NodeStatuses
    /\ \A g \in Gates : Reviewing[g] \in RowStatuses \ AtRest
    /\ \A g \in Gates : Resuming[g] \in RowStatuses \ AtRest
    /\ \A n \in DOMAIN NodeToStatus : NodeToStatus[n] \in RowStatuses \ AtRest
    /\ {"parsing", "completed", "failed"} \subseteq RowStatuses
<1>1. /\ \A g \in Gates : g \notin NodeStatuses \cup {"queued"} /\ g # End
      /\ "queued" \notin NodeStatuses
  BY DEF Gates, NodeStatuses, Resuming, End
<1>2. \A g \in Gates : Reviewing[g] \in RowStatuses /\ Reviewing[g] \notin AtRest
  BY DEF Gates, Reviewing, RowStatuses, AtRest
<1>3. \A g \in Gates : Resuming[g] \in RowStatuses /\ Resuming[g] \notin AtRest
  BY DEF Gates, Resuming, RowStatuses, NodeStatuses, AtRest
<1>4. \A n \in DOMAIN NodeToStatus : /\ NodeToStatus[n] \in RowStatuses
                                     /\ NodeToStatus[n] \notin AtRest
  <2>1. \A n \in DOMAIN NodeToStatus : NodeToStatus[n] \notin AtRest
    BY DEF Gates, NodeToStatus, AtRest
  <2> QED
    BY <2>1 DEF RowStatuses
<1>5. {"parsing", "completed", "failed"} \subseteq RowStatuses
  BY DEF RowStatuses, NodeStatuses
<1> QED
  BY <1>1, <1>2, <1>3, <1>4, <1>5

\* The board shows what runs next, or the status the channels end with.
LEMMA DisplayedStatus ==
    ASSUME NEW v \in Values, NEW n \in Nodes \cup {End}
    PROVE  /\ Displayed(v, n) \in RowStatuses
           /\ Displayed(v, n) \notin Gates \cup {"queued"}
           /\ Displayed(v, n) = "failed" <=> v.status = "failed"
           /\ n = "synthesize_feedback" => Displayed(v, n) # "completed"
           /\ Displayed(v, n) = "completed" => v.status = "completed"
           /\ n = End => Displayed(v, n) = v.status
<1>1. v.status \in NodeStatuses
  BY DEF Values
<1>2. v.status \in RowStatuses /\ v.status \notin Gates \cup {"queued"}
  BY <1>1, GateNamesAreNotStatuses DEF RowStatuses
<1>3. "synthesize_feedback" \in DOMAIN NodeToStatus /\ End \notin DOMAIN NodeToStatus
  BY DEF NodeToStatus, End
<1>4. \A g \in Gates : Resuming[g] # "completed"
  BY GateNamesAreNotStatuses DEF AtRest
<1>5. CASE v.status \in {Resuming[g] : g \in Gates} \cup {"failed"}
  BY <1>2, <1>4, <1>5 DEF Displayed
<1>6. CASE v.status \notin {Resuming[g] : g \in Gates} \cup {"failed"}
  <2>1. CASE n \in DOMAIN NodeToStatus
    <3>1. Displayed(v, n) = NodeToStatus[n]
      BY <1>6, <2>1 DEF Displayed
    <3>2. NodeToStatus[n] \in RowStatuses /\ NodeToStatus[n] \notin AtRest
      BY <2>1, GateNamesAreNotStatuses
    <3> QED
      BY <1>3, <1>6, <2>1, <3>1, <3>2 DEF AtRest
  <2>2. CASE n \notin DOMAIN NodeToStatus
    <3>1. Displayed(v, n) = v.status
      BY <1>6, <2>2 DEF Displayed
    <3> QED
      BY <1>2, <1>3, <1>6, <2>2, <3>1
  <2> QED
    BY <2>1, <2>2
<1> QED
  BY <1>5, <1>6

\* The records the actions start from are records of their types.
LEMMA InitialRecords ==
    /\ NewRow \in Rows /\ NoThread \in Checkpoints /\ NoTask \in TaskRecords
    /\ NoReq \in Requests /\ NoPage \in Pages
<1>1. NewRow \in Rows
  BY ZeroAttempt DEF NewRow, Rows, RowStatuses
<1>2. NoThread \in Checkpoints
  BY NoValuesTyped DEF NoThread, Checkpoints
<1>3. NoTask \in TaskRecords
  BY NoValuesTyped DEF NoTask, TaskRecords
<1>4. NoReq \in Requests /\ NoPage \in Pages
  BY DEF NoReq, Requests, NoPage, Pages
<1> QED
  BY <1>1, <1>2, <1>3, <1>4

-----------------------------------------------------------------------------
(***************************************************************************)
(* Updates.                                                                *)
(***************************************************************************)
\* A status update writes the status and a sync the counts as well, if the row
\* is still there.
LEMMA StatusUpdates ==
    ASSUME row \in Rows, NEW st \in RowStatuses, NEW err \in BOOLEAN
    PROVE  /\ UpdateStatus(st, err)
              => /\ row' \in Rows /\ row'.exists = row.exists
                 /\ row.exists => row'.status = st /\ row'.written = row.written
                 /\ ~row.exists => row' = row
           /\ \A v \in Values : UpdateStatusAndCounts(st, err, v)
              => /\ row' \in Rows /\ row'.exists = row.exists
                 /\ row.exists => row'.status = st /\ row'.written = v.written
                 /\ ~row.exists => row' = row
<1>1. (row.error \/ err) \in BOOLEAN
  BY DEF Rows
<1>2. ASSUME row.exists, UpdateStatus(st, err)
      PROVE  /\ row' \in Rows /\ row'.exists = row.exists /\ row'.status = st
             /\ row'.written = row.written
  <2> DEFINE b == row.error \/ err
  <2>1. row' = [row EXCEPT !.status = st, !.error = b]
    BY <1>2 DEF UpdateStatus
  <2>2. b \in BOOLEAN
    BY <1>1
  <2> HIDE DEF b
  <2> QED
    BY <2>1, <2>2 DEF Rows
<1>3. ASSUME row.exists, NEW v \in Values, UpdateStatusAndCounts(st, err, v)
      PROVE  /\ row' \in Rows /\ row'.exists = row.exists /\ row'.status = st
             /\ row'.written = v.written
  <2> DEFINE b == row.error \/ err
  <2>1. row' = [row EXCEPT !.status = st, !.error = b,
                           !.entities = v.entities, !.written = v.written]
    BY <1>3 DEF UpdateStatusAndCounts
  <2>2. b \in BOOLEAN
    BY <1>1
  <2>3. v.entities \in Attempts /\ v.written \in Attempts
    BY DEF Values
  <2> HIDE DEF b
  <2> QED
    BY <2>1, <2>2, <2>3 DEF Rows
<1>4. ASSUME ~row.exists
      PROVE  /\ UpdateStatus(st, err) => row' = row
             /\ \A v : UpdateStatusAndCounts(st, err, v) => row' = row
  BY <1>4 DEF UpdateStatus, UpdateStatusAndCounts
<1> QED
  BY <1>2, <1>3, <1>4

\* The row of a deleted source claims nothing, and nothing rests on it.
LEMMA GoneShows ==
    ASSUME NEW r \in Rows, ~r.exists, r.status = "queued", NEW c
    PROVE  Shown(r, c) /\ Rested(r, c)
BY DEF Shown, Rested, Gates

\* A checkpoint keeps every page where it is and makes it stale.
LEMMA Checkpointed ==
    ASSUME page \in [Analysts -> Pages], NEW v \in Values,
           NEW n \in Nodes \cup {End}, WriteCheckpoint(v, n)
    PROVE  /\ ckpt' \in Checkpoints /\ ckpt'.vals = v /\ ckpt'.next = n
           /\ page' \in [Analysts -> Pages]
           /\ \A a \in Analysts : ~page'[a].fresh /\ page'[a].gate = page[a].gate
BY DEF WriteCheckpoint, Checkpoints, Pages

\* A driver goes round once more without a person, up to the cap.
LEMMA TaskAdvanced ==
    ASSUME NEW t \in Tasks, tasks[t] \in TaskRecords
    PROVE  /\ Advanced(t) \in TaskRecords
           /\ Advanced(t).pc \in {"open", "stalled"}
           /\ Advanced(t).pc = "stalled"
              <=> tasks[t].skips + 1 > MaxGateAutoSkips
           /\ Advanced(t).input = "resume"
           /\ Advanced(t).skips = tasks[t].skips + 1
<1> DEFINE p == IF tasks[t].skips + 1 > MaxGateAutoSkips THEN "stalled" ELSE "open"
           s == tasks[t].skips + 1
<1>1. Advanced(t) = [tasks[t] EXCEPT !.pc = p, !.input = "resume", !.skips = s]
  BY DEF Advanced, TaskRecords
<1>2. /\ p \in {"open", "stalled"}
      /\ p = "stalled" <=> tasks[t].skips + 1 > MaxGateAutoSkips
      /\ s \in Nat
  BY DEF TaskRecords
<1> HIDE DEF p
<1>3. /\ Advanced(t) \in TaskRecords /\ Advanced(t).pc = p
      /\ Advanced(t).input = "resume" /\ Advanced(t).skips = s
  BY <1>1, <1>2 DEF TaskRecords
<1> QED
  BY <1>2, <1>3

-----------------------------------------------------------------------------
(***************************************************************************)
(* Who may act.                                                            *)
(***************************************************************************)
\* The drivers the model counts are the tasks at work.
LEMMA LiveIsWorking ==
    /\ \A t : t \in Live <=> t \in Tasks /\ Working(t)
    /\ Live = {} <=> Free
BY DEF Live, Working, Free

\* While a driver works nobody asks for anything and no page is current.
LEMMA NobodyAsks ==
    ASSUME Inv, NEW t \in Tasks, Working(t)
    PROVE  /\ row.exists => row.status \notin Gates \cup {"queued"}
           /\ \A a \in Analysts : reqs[a].pc = "idle" /\ ~page[a].fresh
           /\ \A s \in Tasks \ {t} : ~Working(s)
<1>1. row.exists => row.status \notin Gates \cup {"queued"}
  BY DEF Inv, AtWork
<1>2. ASSUME NEW a \in Analysts PROVE reqs[a].pc = "idle" /\ ~page[a].fresh
  <2>1. ~Free
    BY DEF Free
  <2>2. Asked(a) /\ reqs[a].pc \in {"idle", "start", "write", "flip"}
    BY DEF Inv, TypeOK, Requests
  <2> QED
    BY <2>1, <2>2 DEF Asked
<1>3. \A s \in Tasks \ {t} : ~Working(s)
  BY DEF Inv, Sole
<1> QED
  BY <1>1, <1>2, <1>3

\* A step of a driver settles everything but what it writes.
LEMMA DriverStep ==
    ASSUME Inv, NEW t \in Tasks, Working(t), NEW k \in TaskRecords,
           tasks' = [tasks EXCEPT ![t] = k], reqs' = reqs,
           page' \in [Analysts -> Pages],
           \A a \in Analysts : page'[a].fresh => page[a].fresh,
           row' \in Rows, ckpt' \in Checkpoints,
           visits' \in [Gates -> Nat], rewinds' \in [Gates -> Nat],
           spent' \in Counters, spent'.crashes = spent.crashes,
           Sound(ckpt'.vals, ckpt'.next), Shown(row', ckpt'),
           k.pc # "idle" => AtWork(k, row', ckpt'),
           k.pc = "idle" => Rested(row', ckpt')
    PROVE  Inv'
<1>1. /\ \A a \in Analysts : reqs[a].pc = "idle" /\ ~page[a].fresh
      /\ \A s \in Tasks \ {t} : tasks[s].pc = "idle"
  BY NobodyAsks DEF Working
<1>2. tasks \in [Tasks -> TaskRecords] /\ reqs \in [Analysts -> Requests]
  BY DEF Inv, TypeOK
<1>3. tasks' \in [Tasks -> TaskRecords] /\ tasks'[t] = k
  BY <1>2
<1>4. \A s \in Tasks \ {t} : tasks'[s].pc = "idle"
  BY <1>1, <1>2
<1>5. TypeOK'
  BY <1>2, <1>3 DEF TypeOK
<1>6. Sole'
  BY <1>4 DEF Sole, Working
<1>7. (\A s \in Tasks : Working(s) => AtWork(tasks[s], row, ckpt))'
  BY <1>3, <1>4 DEF Working
<1>8. OneRequest' /\ (\A a \in Analysts : Asked(a))'
  BY <1>1 DEF OneRequest, Asked
<1>9. (Free /\ spent.crashes = 0 => Rested(row, ckpt))'
  BY <1>3 DEF Free, Working
<1> QED
  BY <1>5, <1>6, <1>7, <1>8, <1>9 DEF Inv

-----------------------------------------------------------------------------
(***************************************************************************)
(* The driver's steps.                                                     *)
(***************************************************************************)
\* What every step of a driver starts from.
LEMMA DriverFacts ==
    ASSUME Inv, NEW t \in Tasks, Working(t)
    PROVE  /\ tasks \in [Tasks -> TaskRecords] /\ tasks[t] \in TaskRecords
           /\ AtWork(tasks[t], row, ckpt)
           /\ row \in Rows /\ row.status \in RowStatuses
           /\ ~row.exists => row.status = "queued"
           /\ ckpt \in Checkpoints /\ ckpt.vals \in Values
           /\ ckpt.next \in Nodes \cup {End}
           /\ Sound(ckpt.vals, ckpt.next) /\ Shown(row, ckpt)
           /\ page \in [Analysts -> Pages]
           /\ visits \in [Gates -> Nat] /\ rewinds \in [Gates -> Nat]
           /\ spent \in Counters
<1>1. ~row.exists => row.status = "queued"
  BY DEF Inv, Shown
<1>2. TypeOK /\ AtWork(tasks[t], row, ckpt)
  BY DEF Inv
<1> QED
  BY <1>1, <1>2 DEF Inv, TypeOK, Rows, Checkpoints

\* A fresh run merges its initial state and enters the graph at its first node.
LEMMA InvOpenFresh ==
    ASSUME Inv, NEW t \in Tasks, OpenFresh(t)
    PROVE  Inv'
<1>1. Working(t) /\ tasks[t].pc = "open" /\ tasks[t].input = "fresh"
  BY DEF OpenFresh, Working
<1> DEFINE v == InitialState(ckpt.vals, tasks[t].gates)
           k == [NoTask EXCEPT !.pc = "node", !.vals = v,
                               !.next = "parse_and_validate"]
<1>2. /\ WriteCheckpoint(v, "parse_and_validate")
      /\ tasks' = [tasks EXCEPT ![t] = k]
      /\ UNCHANGED <<row, reqs, visits, rewinds, spent>>
  BY DEF OpenFresh
<1>3. row.status = "parsing" /\ v \in Values /\ v.status = "parsing"
  BY <1>1, DriverFacts, InitialStateContract DEF AtWork
<1> HIDE DEF v
<1>4. /\ k \in TaskRecords /\ k.pc = "node" /\ k.vals = v
      /\ k.next = "parse_and_validate"
  BY <1>3 DEF NoTask, TaskRecords, Nodes, Workers
<1> HIDE DEF k
<1>5. /\ ckpt' \in Checkpoints /\ ckpt'.vals = v
      /\ ckpt'.next = "parse_and_validate"
      /\ page' \in [Analysts -> Pages] /\ \A a \in Analysts : ~page'[a].fresh
  BY <1>1, <1>2, <1>3, DriverFacts, Checkpointed DEF Nodes, Workers
<1>6. Sound(ckpt'.vals, ckpt'.next)
  BY <1>3, <1>5 DEF Sound, Nodes, Workers
<1>7. Shown(row', ckpt') /\ AtWork(k, row', ckpt')
  BY <1>1, <1>2, <1>3, <1>4, <1>5, DriverFacts DEF Shown, AtWork, Gates, End
<1> QED
  BY <1>1, <1>2, <1>4, <1>5, <1>6, <1>7, DriverFacts, DriverStep

\* A resumed run loads the checkpoint it stopped at: the gate is next.
LEMMA InvOpenResume ==
    ASSUME Inv, NEW t \in Tasks, OpenResume(t)
    PROVE  Inv'
<1>1. Working(t) /\ tasks[t].pc = "open" /\ tasks[t].input = "resume"
  BY DEF OpenResume, Working
<1>2. ckpt.next \in Gates /\ ckpt.next # End
  BY <1>1, DriverFacts, GateNamesAreNotStatuses DEF AtWork
<1> DEFINE k == [tasks[t] EXCEPT !.pc = "node", !.vals = ckpt.vals,
                                 !.next = ckpt.next]
<1>3. /\ tasks' = [tasks EXCEPT ![t] = k]
      /\ UNCHANGED <<row, ckpt, reqs, page, visits, rewinds, spent>>
  BY <1>1, <1>2, DriverFacts DEF OpenResume
<1>4. /\ k \in TaskRecords /\ k.pc = "node" /\ k.vals = ckpt.vals
      /\ k.next = ckpt.next
  BY <1>1, DriverFacts DEF TaskRecords
<1> HIDE DEF k
<1>5. AtWork(k, row', ckpt')
  BY <1>1, <1>2, <1>3, <1>4, DriverFacts DEF AtWork
<1> QED
  BY <1>1, <1>3, <1>4, <1>5, DriverFacts, DriverStep

\* A node leaves a sound checkpoint and its driver in possession of it.
LEMMA InvRunNode ==
    ASSUME Inv, NEW t \in Tasks, RunNode(t)
    PROVE  Inv'
<1>1. Working(t) /\ tasks[t].pc = "node"
  BY DEF RunNode, Working
<1>2. /\ tasks[t].vals = ckpt.vals /\ tasks[t].next = ckpt.next
      /\ ckpt.next \in Nodes
  BY <1>1, DriverFacts DEF AtWork
<1>3. PICK v \in Effect(ckpt.next, ckpt.vals) :
          /\ WriteCheckpoint(v, Route(ckpt.next, v))
          /\ tasks' = [tasks EXCEPT ![t] =
                 [@ EXCEPT !.pc = "sync", !.vals = v, !.next = Route(ckpt.next, v)]]
  BY <1>2 DEF RunNode
<1> DEFINE n == Route(ckpt.next, v)
           k == [tasks[t] EXCEPT !.pc = "sync", !.vals = v, !.next = n]
<1>4. UNCHANGED <<row, reqs, visits, rewinds, spent>>
  BY DEF RunNode
<1>5. Sound(v, n) /\ (ckpt.vals.status = "failed" => v.status = "failed")
  BY <1>1, <1>2, DriverFacts, StepSound
<1>6. tasks' = [tasks EXCEPT ![t] = k] /\ WriteCheckpoint(v, n)
  BY <1>1, <1>3, DriverFacts
<1> HIDE DEF n
<1>7. v \in Values /\ n \in Nodes \cup {End}
  BY <1>5 DEF Sound
<1>8. /\ k \in TaskRecords /\ k.pc = "sync" /\ k.vals = v /\ k.next = n
  BY <1>1, <1>7, DriverFacts DEF TaskRecords
<1> HIDE DEF k
<1>9. /\ ckpt' \in Checkpoints /\ ckpt'.vals = v /\ ckpt'.next = n
      /\ page' \in [Analysts -> Pages] /\ \A a \in Analysts : ~page'[a].fresh
  BY <1>1, <1>6, <1>7, DriverFacts, Checkpointed
<1>10. /\ row.exists => row.status \notin Gates \cup {"queued"}
       /\ row.status \notin Gates /\ row.status # "completed"
  BY <1>1, <1>2, DriverFacts DEF AtWork, Shown, Gates
<1>11. Shown(row', ckpt') /\ AtWork(k, row', ckpt')
  BY <1>1, <1>4, <1>5, <1>8, <1>9, <1>10, DriverFacts DEF Shown, AtWork
<1> QED
  BY <1>1, <1>4, <1>5, <1>6, <1>8, <1>9, <1>11, DriverFacts, DriverStep

\* A sync shows what runs next, and the end of a run only as the run left it.
LEMMA InvSync ==
    ASSUME Inv, NEW t \in Tasks, Sync(t)
    PROVE  Inv'
<1>1. Working(t) /\ tasks[t].pc = "sync"
  BY DEF Sync, Working
<1> DEFINE d == Displayed(ckpt.vals, ckpt.next)
           p == Onward(ckpt.next)
           k == [tasks[t] EXCEPT !.pc = p]
<1>2. tasks[t].vals = ckpt.vals /\ tasks[t].next = ckpt.next
  BY <1>1, DriverFacts DEF AtWork
<1>3. /\ UpdateStatusAndCounts(d, ckpt.vals.error, ckpt.vals)
      /\ tasks' = [tasks EXCEPT ![t] = k]
      /\ UNCHANGED <<ckpt, reqs, page, visits, rewinds, spent>>
  BY <1>1, <1>2, DriverFacts DEF Sync
<1>4. /\ d \in RowStatuses /\ d \notin Gates \cup {"queued"}
      /\ d = "failed" => ckpt.vals.status = "failed"
      /\ d = "completed" => ckpt.vals.status = "completed"
                            /\ ckpt.next # "synthesize_feedback"
      /\ ckpt.next = End => d = ckpt.vals.status
  BY <1>1, DriverFacts, DisplayedStatus
<1>5. /\ p \in {"node", "ended"}
      /\ p = "ended" <=> ckpt.next \in Gates \cup {End}
  BY DEF Onward
<1> HIDE DEF d, p
<1>6. ckpt.vals.error \in BOOLEAN
  BY <1>1, DriverFacts DEF Values
<1>7. /\ row' \in Rows
      /\ row.exists => /\ row'.exists /\ row'.status = d
                       /\ row'.written = ckpt.vals.written
      /\ ~row.exists => row' = row
  BY <1>1, <1>3, <1>4, <1>6, DriverFacts, StatusUpdates
<1>8. /\ k \in TaskRecords /\ k.pc = p /\ k.vals = ckpt.vals
      /\ k.next = ckpt.next
  BY <1>1, <1>2, <1>5, DriverFacts DEF TaskRecords
<1> HIDE DEF k
<1>9. Shown(row', ckpt')
  BY <1>1, <1>3, <1>4, <1>7, DriverFacts, GoneShows DEF Shown, Sound
<1>10. AtWork(k, row', ckpt')
  BY <1>1, <1>3, <1>4, <1>5, <1>7, <1>8, DriverFacts DEF AtWork
<1> QED
  BY <1>1, <1>3, <1>5, <1>7, <1>8, <1>9, <1>10, DriverFacts, DriverStep

\* A run that reaches its end is torn down with its last status on the card.
LEMMA InvEndRun ==
    ASSUME Inv, NEW t \in Tasks, EndRun(t)
    PROVE  Inv'
<1>1. Working(t) /\ tasks[t].pc = "ended" /\ ckpt.next = End
  BY DEF EndRun, Working
<1>2. /\ tasks' = [tasks EXCEPT ![t] = NoTask]
      /\ UNCHANGED <<row, ckpt, reqs, page, visits, rewinds, spent>>
  BY DEF EndRun
<1>3. NoTask \in TaskRecords /\ NoTask.pc = "idle"
  BY InitialRecords DEF NoTask
<1>4. /\ End \notin ckpt.vals.gates
      /\ row.exists => row.status = ckpt.vals.status
  BY <1>1, DriverFacts, GateNamesAreNotStatuses DEF Values, AtWork
<1>5. Rested(row', ckpt')
  BY <1>1, <1>2, <1>4 DEF Rested
<1> QED
  BY <1>1, <1>2, <1>3, <1>5, DriverFacts, DriverStep

\* Counting a turn or a rewind stays a number.
LEMMA CountedIsNat ==
    ASSUME NEW f \in [Gates -> Nat], NEW g \in Gates
    PROVE  [f EXCEPT ![g] = Counted(@)] \in [Gates -> Nat]
BY LimitsAssumption DEF Counted

\* A switched-off gate is passed with nobody watching, or the run given up.
LEMMA InvSkipDisabled ==
    ASSUME Inv, NEW t \in Tasks, SkipDisabled(t)
    PROVE  Inv'
<1>1. Working(t) /\ tasks[t].pc = "ended" /\ ckpt.next \in Gates
  BY DEF SkipDisabled, Working
<1> DEFINE k == Advanced(t)
<1>2. /\ tasks' = [tasks EXCEPT ![t] = k]
      /\ UNCHANGED <<row, ckpt, reqs, page, visits, rewinds, spent>>
  BY DEF SkipDisabled
<1>3. k \in TaskRecords /\ k.pc \in {"open", "stalled"} /\ k.input = "resume"
  BY <1>1, DriverFacts, TaskAdvanced
<1> HIDE DEF k
<1>4. AtWork(k, row', ckpt')
  BY <1>1, <1>2, <1>3, DriverFacts DEF AtWork
<1> QED
  BY <1>1, <1>2, <1>3, <1>4, DriverFacts, DriverStep

\* A driver that gives its source up as failed leaves it ready for Retry.
LEMMA InvGiveUp ==
    ASSUME Inv, NEW t \in Tasks, Working(t), UpdateStatus("failed", TRUE),
           tasks' = [tasks EXCEPT ![t] = NoTask],
           UNCHANGED <<ckpt, reqs, page, visits, rewinds, spent>>
    PROVE  Inv'
<1>1. /\ row' \in Rows
      /\ row.exists => row'.exists /\ row'.status = "failed"
      /\ ~row.exists => row' = row
  BY DriverFacts, StatusUpdates, GateNamesAreNotStatuses
<1>2. NoTask \in TaskRecords /\ NoTask.pc = "idle"
  BY InitialRecords DEF NoTask
<1>3. Shown(row', ckpt') /\ Rested(row', ckpt')
  BY <1>1, DriverFacts, GoneShows DEF Shown, Rested, Gates
<1> QED
  BY <1>1, <1>2, <1>3, DriverFacts, DriverStep

\* A gate the reviewer looks at first shows as reviewing, not as waiting.
LEMMA InvBeginReview ==
    ASSUME Inv, NEW t \in Tasks, BeginReview(t)
    PROVE  Inv'
<1>1. /\ Working(t) /\ tasks[t].pc = "ended"
      /\ ckpt.next \in ckpt.vals.gates
  BY DEF BeginReview, Working
<1>2. ckpt.next \in Gates
  BY <1>1, DriverFacts DEF Values
<1> DEFINE k == [tasks[t] EXCEPT !.pc = "review", !.vals = ckpt.vals,
                                 !.next = ckpt.next]
           d == Reviewing[ckpt.next]
<1>3. /\ tasks' = [tasks EXCEPT ![t] = k] /\ UpdateStatus(d, FALSE)
      /\ UNCHANGED <<ckpt, reqs, page, visits, rewinds, spent>>
  BY <1>1, DriverFacts DEF BeginReview
<1>4. /\ k \in TaskRecords /\ k.pc = "review" /\ k.vals = ckpt.vals
      /\ k.next = ckpt.next
  BY <1>1, DriverFacts DEF TaskRecords
<1> HIDE DEF k, d
<1>5. d \in RowStatuses /\ d \notin AtRest
  BY <1>2, GateNamesAreNotStatuses DEF d
<1>6. /\ row' \in Rows
      /\ row.exists => row'.exists /\ row'.status = d
      /\ ~row.exists => row' = row
  BY <1>1, <1>3, <1>5, DriverFacts, StatusUpdates
<1>7. Shown(row', ckpt') /\ AtWork(k, row', ckpt')
  BY <1>1, <1>2, <1>3, <1>4, <1>5, <1>6, DriverFacts, GoneShows
     DEF Shown, AtWork, AtRest
<1> QED
  BY <1>1, <1>3, <1>4, <1>6, <1>7, DriverFacts, DriverStep

\* The reviewer's turn is recorded and the decision left to a person.
LEMMA InvHandOver ==
    ASSUME Inv, NEW t \in Tasks, HandOver(t)
    PROVE  Inv'
<1>1. Working(t) /\ tasks[t].pc = "review"
  BY DEF HandOver, Working
<1>2. /\ tasks[t].vals = ckpt.vals /\ tasks[t].next = ckpt.next
      /\ ckpt.next \in ckpt.vals.gates /\ ckpt.next \in Gates
  BY <1>1, DriverFacts DEF AtWork, Values
<1> DEFINE k == [tasks[t] EXCEPT !.pc = "park"]
<1>3. /\ tasks' = [tasks EXCEPT ![t] = k]
      /\ visits' = [visits EXCEPT ![ckpt.next] = Counted(@)]
      /\ UNCHANGED <<row, ckpt, reqs, page, rewinds, spent>>
  BY <1>2 DEF HandOver
<1>4. visits' \in [Gates -> Nat]
  BY <1>1, <1>2, <1>3, DriverFacts, CountedIsNat
<1>5. k \in TaskRecords /\ k.pc = "park" /\ k.vals = ckpt.vals
      /\ k.next = ckpt.next
  BY <1>1, <1>2, DriverFacts DEF TaskRecords
<1> HIDE DEF k
<1>6. AtWork(k, row', ckpt')
  BY <1>1, <1>2, <1>3, <1>5, DriverFacts DEF AtWork
<1> QED
  BY <1>1, <1>3, <1>4, <1>5, <1>6, DriverFacts, DriverStep

\* A decision submitted at a gate leaves the gate next, for the same run.
LEMMA SubmittedAtGate ==
    ASSUME ckpt \in Checkpoints, Sound(ckpt.vals, ckpt.next),
           page \in [Analysts -> Pages],
           NEW g \in Gates, ckpt.next = g, NEW d \in Decisions[g], SubmitAs(g, d)
    PROVE  /\ ckpt' \in Checkpoints /\ Sound(ckpt'.vals, ckpt'.next)
           /\ ckpt'.next = ckpt.next
           /\ ckpt'.vals = Submit(g, d, ckpt.vals)
           /\ SameRun(ckpt.vals, ckpt'.vals)
           /\ ckpt'.vals.status = ckpt.vals.status
           /\ page' \in [Analysts -> Pages]
           /\ \A a \in Analysts : /\ ~page'[a].fresh
                                  /\ page'[a].gate = page[a].gate
<1> DEFINE v == Submit(g, d, ckpt.vals)
           n == Route(Predecessor[g], v)
<1>1. ckpt.vals \in Values /\ ckpt.vals.status \notin {"failed", "completed"}
  BY DEF Sound, Checkpoints, Gates, End
<1>2. SameRun(ckpt.vals, v) /\ v.status = ckpt.vals.status
  BY <1>1, SubmitContract
<1>3. WriteCheckpoint(v, n)
  BY DEF SubmitAs
<1> HIDE DEF v
<1>4. n = g
  BY <1>1, <1>2 DEF Route, Predecessor, Gates, RouteUnlessFailed,
                    RouteAfterChunkBehaviors
<1> HIDE DEF n
<1>5. v \in Values /\ n \in Nodes \cup {End}
  BY <1>2, <1>4 DEF SameRun, Nodes
<1>6. /\ ckpt' \in Checkpoints /\ ckpt'.vals = v /\ ckpt'.next = n
      /\ page' \in [Analysts -> Pages]
      /\ \A a \in Analysts : ~page'[a].fresh /\ page'[a].gate = page[a].gate
  BY <1>3, <1>5, Checkpointed
<1>7. Sound(ckpt'.vals, ckpt'.next)
  BY <1>1, <1>2, <1>4, <1>5, <1>6 DEF Sound, Gates
<1> QED
  BY <1>2, <1>4, <1>6, <1>7 DEF v

\* What the unattended reviewer may decide is a decision of the gate.
LEMMA AutoDecisionsAreDecisions ==
    ASSUME NEW g \in Gates, NEW v, NEW d \in AutoDecisions(g, v)
    PROVE  d \in Decisions[g]
BY DEF AutoDecisions, Offered, Decisions, Gates

\* The unattended reviewer submits at the gate it reviewed.
LEMMA InvAutoApply ==
    ASSUME Inv, NEW t \in Tasks, NEW d \in AllDecisions, AutoApply(t, d)
    PROVE  Inv'
<1>1. Working(t) /\ tasks[t].pc = "review"
  BY DEF AutoApply, Working
<1> DEFINE g == ckpt.next
           k == Advanced(t)
<1>2. /\ tasks[t].vals = ckpt.vals /\ tasks[t].next = g
      /\ g \in ckpt.vals.gates /\ g \in Gates
  BY <1>1, DriverFacts DEF AtWork, Values
<1>3. /\ d \in AutoDecisions(g, ckpt.vals) /\ SubmitAs(g, d)
      /\ tasks' = [tasks EXCEPT ![t] = k]
      /\ visits' = [visits EXCEPT ![g] = Counted(@)]
      /\ rewinds' = rewinds \/ rewinds' = [rewinds EXCEPT ![g] = Counted(@)]
      /\ UNCHANGED <<row, reqs, spent>>
  BY <1>2 DEF AutoApply
<1>4. visits' \in [Gates -> Nat] /\ rewinds' \in [Gates -> Nat]
  BY <1>1, <1>2, <1>3, DriverFacts, CountedIsNat
<1>5. k \in TaskRecords /\ k.pc \in {"open", "stalled"} /\ k.input = "resume"
  BY <1>1, DriverFacts, TaskAdvanced
<1> HIDE DEF k
<1>6. /\ ckpt' \in Checkpoints /\ Sound(ckpt'.vals, ckpt'.next)
      /\ ckpt'.next = ckpt.next /\ ckpt'.vals.status = ckpt.vals.status
      /\ page' \in [Analysts -> Pages] /\ \A a \in Analysts : ~page'[a].fresh
  BY <1>1, <1>2, <1>3, DriverFacts, SubmittedAtGate, AutoDecisionsAreDecisions
<1>7. Shown(row', ckpt') /\ AtWork(k, row', ckpt')
  BY <1>1, <1>2, <1>3, <1>5, <1>6, DriverFacts, GateNamesAreNotStatuses
     DEF Shown, AtWork
<1> QED
  BY <1>1, <1>3, <1>4, <1>5, <1>6, <1>7, DriverFacts, DriverStep

\* An enabled gate in plain review mode is where the driver will park.
LEMMA InvReadPause ==
    ASSUME Inv, NEW t \in Tasks, ReadPause(t)
    PROVE  Inv'
<1>1. /\ Working(t) /\ tasks[t].pc = "ended"
      /\ ckpt.next \notin (Gates \ ckpt.vals.gates) \cup {End}
  BY DEF ReadPause, Working
<1>2. ckpt.next \in ckpt.vals.gates
  BY <1>1, DriverFacts DEF AtWork
<1> DEFINE k == [tasks[t] EXCEPT !.pc = "park", !.vals = ckpt.vals,
                                 !.next = ckpt.next]
<1>3. /\ tasks' = [tasks EXCEPT ![t] = k]
      /\ UNCHANGED <<row, ckpt, reqs, page, visits, rewinds, spent>>
  BY <1>1, DriverFacts DEF ReadPause
<1>4. k \in TaskRecords /\ k.pc = "park" /\ k.vals = ckpt.vals
      /\ k.next = ckpt.next
  BY <1>1, DriverFacts DEF TaskRecords
<1> HIDE DEF k
<1>5. AtWork(k, row', ckpt')
  BY <1>1, <1>2, <1>3, <1>4, DriverFacts DEF AtWork
<1> QED
  BY <1>1, <1>3, <1>4, <1>5, DriverFacts, DriverStep

\* A parked card waits at the gate its checkpoint stops at.
LEMMA InvPark ==
    ASSUME Inv, NEW t \in Tasks, Park(t)
    PROVE  Inv'
<1>1. Working(t) /\ tasks[t].pc = "park"
  BY DEF Park, Working
<1>2. /\ tasks[t].vals = ckpt.vals /\ tasks[t].next = ckpt.next
      /\ ckpt.next \in ckpt.vals.gates /\ ckpt.next \in Gates
  BY <1>1, DriverFacts DEF AtWork, Values
<1>3. /\ tasks' = [tasks EXCEPT ![t] = NoTask]
      /\ UpdateStatusAndCounts(ckpt.next, FALSE, ckpt.vals)
      /\ UNCHANGED <<ckpt, reqs, page, visits, rewinds, spent>>
  BY <1>2 DEF Park
<1>4. NoTask \in TaskRecords /\ NoTask.pc = "idle"
  BY InitialRecords DEF NoTask
<1>5. ckpt.next \in RowStatuses
  BY <1>2 DEF RowStatuses
<1>6. /\ row' \in Rows
      /\ row.exists => row'.exists /\ row'.status = ckpt.next
      /\ ~row.exists => row' = row
  BY <1>1, <1>3, <1>5, DriverFacts, StatusUpdates
<1>7. Shown(row', ckpt') /\ Rested(row', ckpt')
  BY <1>1, <1>2, <1>3, <1>6, DriverFacts, GoneShows DEF Shown, Rested, Gates, End
<1> QED
  BY <1>1, <1>3, <1>4, <1>6, <1>7, DriverFacts, DriverStep

\* An exception leaves everything as it was, for MarkFailed to finish.
LEMMA InvRaise ==
    ASSUME Inv, NEW t \in Tasks, Raise(t)
    PROVE  Inv'
<1>1. Working(t)
  BY DEF Raise, Working
<1> DEFINE k == [tasks[t] EXCEPT !.pc = "except"]
<1>2. /\ tasks' = [tasks EXCEPT ![t] = k]
      /\ spent' = [spent EXCEPT !.raises = @ + 1]
      /\ UNCHANGED <<row, ckpt, reqs, page, visits, rewinds>>
  BY DEF Raise
<1>3. k \in TaskRecords /\ k.pc = "except"
  BY <1>1, DriverFacts DEF TaskRecords
<1> HIDE DEF k
<1>4. spent' \in Counters /\ spent'.crashes = spent.crashes
  BY <1>1, <1>2, DriverFacts DEF Counters
<1>5. AtWork(k, row', ckpt')
  BY <1>1, <1>2, <1>3, DriverFacts DEF AtWork
<1> QED
  BY <1>1, <1>2, <1>3, <1>4, <1>5, DriverFacts, DriverStep

\* Every step of a driver keeps the invariant.
LEMMA InvDriver ==
    ASSUME Inv, NEW t \in Tasks, Drive(t) \/ Raise(t)
    PROVE  Inv'
<1>1. CASE FailStalled(t) \/ MarkFailed(t)
  BY <1>1, InvGiveUp DEF FailStalled, MarkFailed, Working
<1>2. CASE \E d \in AllDecisions : AutoApply(t, d)
  BY <1>2, InvAutoApply
<1> QED
  BY <1>1, <1>2, InvOpenFresh, InvOpenResume, InvRunNode, InvSync, InvEndRun,
     InvSkipDisabled, InvBeginReview, InvHandOver, InvReadPause, InvPark,
     InvRaise DEF Drive

-----------------------------------------------------------------------------
(***************************************************************************)
(* The sessions' steps.                                                    *)
(***************************************************************************)
\* What every step of a session starts from.
LEMMA SessionFacts ==
    ASSUME Inv
    PROVE  /\ row \in Rows /\ ckpt \in Checkpoints /\ ckpt.vals \in Values
           /\ tasks \in [Tasks -> TaskRecords]
           /\ reqs \in [Analysts -> Requests] /\ page \in [Analysts -> Pages]
           /\ visits \in [Gates -> Nat] /\ rewinds \in [Gates -> Nat]
           /\ spent \in Counters
           /\ Sound(ckpt.vals, ckpt.next) /\ Shown(row, ckpt)
           /\ row.exists /\ row.status \in Gates \cup {"queued"} => Free
           /\ ~row.exists => row.status = "queued"
           /\ Free /\ spent.crashes = 0 => Rested(row, ckpt)
           /\ \A a \in Analysts : Asked(a)
<1>1. row.exists /\ row.status \in Gates \cup {"queued"} => Free
  BY DEF Inv, AtWork, Free
<1>2. ~row.exists => row.status = "queued"
  BY DEF Inv, Shown
<1> QED
  BY <1>1, <1>2 DEF Inv, TypeOK, Checkpoints

\* A session that may ask is the only one with a request.
LEMMA MayRequestAlone ==
    ASSUME Serial, NEW a \in Analysts, MayRequest(a)
    PROVE  \A b \in Analysts : reqs[b].pc = "idle"
BY DEF Serial, MayRequest

\* Run and Retry are accepted only from a source nobody works on.
LEMMA InvRequestRun ==
    ASSUME Serial, Inv, NEW a \in Analysts, RequestRun(a)
    PROVE  Inv'
<1>1. \A b \in Analysts : reqs[b].pc = "idle"
  BY MayRequestAlone DEF RequestRun
<1>2. /\ row.exists /\ row.status \in RestartableStatuses
      /\ ckpt.vals.attempt < MaxAttempts
      /\ reqs' = [reqs EXCEPT ![a].pc = "start"]
      /\ UNCHANGED <<row, ckpt, tasks, page, visits, rewinds, spent>>
  BY DEF RequestRun
<1>3. Free
  BY <1>2, SessionFacts, LiveIsWorking
     DEF RequestRun, Serial, RestartableStatuses
<1>4. /\ reqs' \in [Analysts -> Requests] /\ reqs'[a].pc = "start"
      /\ \A b \in Analysts \ {a} : reqs'[b].pc = "idle"
  BY <1>1, <1>2, SessionFacts DEF Requests
<1>5. TypeOK'
  BY <1>2, <1>4, SessionFacts DEF TypeOK
<1>6. OneRequest' /\ (\A b \in Analysts : Asked(b))'
  BY <1>2, <1>3, <1>4, SessionFacts DEF OneRequest, Asked, Free, Working
<1> QED
  BY <1>2, <1>5, <1>6 DEF Inv, Sole, Working, Free

\* A page opens at the gate the card and the checkpoint agree on.
LEMMA InvOpenReview ==
    ASSUME Serial, Inv, NEW a \in Analysts, OpenReview(a)
    PROVE  Inv'
<1>1. \A b \in Analysts : reqs[b].pc = "idle"
  BY MayRequestAlone DEF OpenReview
<1>2. /\ row.status \in Gates /\ ckpt.next = row.status
      /\ page' = [page EXCEPT ![a] = [gate |-> row.status, fresh |-> TRUE]]
      /\ UNCHANGED <<row, ckpt, tasks, reqs, visits, rewinds, spent>>
  BY DEF OpenReview
<1>3. /\ page' \in [Analysts -> Pages] /\ page'[a].gate = row.status
      /\ \A b \in Analysts \ {a} : page'[b] = page[b]
  BY <1>2, SessionFacts DEF Pages
<1>4. TypeOK'
  BY <1>2, <1>3, SessionFacts DEF TypeOK
<1>5. Free /\ Free'
  BY <1>2, SessionFacts DEF Gates, Free, Working
<1>6. OneRequest' /\ (\A b \in Analysts : Asked(b))'
  BY <1>1, <1>2, <1>3, <1>5, SessionFacts DEF OneRequest, Asked
<1> QED
  BY <1>2, <1>4, <1>6 DEF Inv, Sole, Working, Free

\* What is offered at a gate is a decision of the gate.
LEMMA OfferedAreDecisions ==
    ASSUME NEW g \in Gates, NEW v, NEW d \in Offered(g, v)
    PROVE  d \in Decisions[g] /\ d \in AllDecisions
<1>1. d \in Decisions[g]
  BY DEF Offered, Decisions, Gates
<1> QED
  BY <1>1 DEF AllDecisions

\* A submission is accepted from a current page.
LEMMA InvRequestSubmit ==
    ASSUME Serial, Inv, NEW a \in Analysts, NEW d \in AllDecisions,
           RequestSubmit(a, d)
    PROVE  Inv'
<1>1. \A b \in Analysts : reqs[b].pc = "idle"
  BY MayRequestAlone DEF RequestSubmit
<1>2. /\ page[a].gate \in Gates /\ page[a].fresh
      /\ d \in Offered(page[a].gate, ckpt.vals)
      /\ reqs' = [reqs EXCEPT ![a] = [pc |-> "write", decision |-> d]]
      /\ spent' = spent \/ spent' = [spent EXCEPT !.rejects = @ + 1]
      /\ UNCHANGED <<row, ckpt, tasks, page, visits, rewinds>>
  BY DEF RequestSubmit
<1>3. /\ reqs' \in [Analysts -> Requests] /\ reqs'[a].pc = "write"
      /\ reqs'[a].decision = d
      /\ \A b \in Analysts \ {a} : reqs'[b].pc = "idle"
  BY <1>1, <1>2, SessionFacts DEF Requests
<1>4. spent' \in Counters /\ spent'.crashes = spent.crashes
  BY <1>2, SessionFacts DEF Counters
<1>5. TypeOK'
  BY <1>2, <1>3, <1>4, SessionFacts DEF TypeOK
<1>6. d \in Decisions[page[a].gate]
  BY <1>2, OfferedAreDecisions
<1>7. OneRequest' /\ (\A b \in Analysts : Asked(b))'
  BY <1>1, <1>2, <1>3, <1>6, SessionFacts DEF OneRequest, Asked, Free, Working
<1> QED
  BY <1>2, <1>4, <1>5, <1>7 DEF Inv, Sole, Working, Free

\* A submission is written over the checkpoint its page was read from.
LEMMA InvWriteSubmission ==
    ASSUME Inv, NEW a \in Analysts, WriteSubmission(a)
    PROVE  Inv'
<1> DEFINE g == page[a].gate
           d == reqs[a].decision
<1>1. /\ reqs[a].pc = "write" /\ SubmitAs(g, d)
      /\ reqs' = [reqs EXCEPT ![a].pc = "flip"]
      /\ UNCHANGED <<row, tasks, visits, rewinds, spent>>
  BY DEF WriteSubmission
<1>2. /\ g \in Gates /\ ckpt.next = g /\ d \in Decisions[g] /\ Free
      /\ row.exists => row.status = g
  BY <1>1, SessionFacts DEF Asked
<1>3. row.exists => g \in ckpt.vals.gates
  BY <1>2, SessionFacts DEF Shown
<1>4. /\ ckpt' \in Checkpoints /\ Sound(ckpt'.vals, ckpt'.next)
      /\ ckpt'.next = g /\ ckpt'.vals.gates = ckpt.vals.gates
      /\ page' \in [Analysts -> Pages]
      /\ \A b \in Analysts : ~page'[b].fresh /\ page'[b].gate = page[b].gate
  BY <1>1, <1>2, <1>3, SessionFacts, SubmittedAtGate DEF SameRun
<1>5. /\ reqs' \in [Analysts -> Requests] /\ reqs'[a].pc = "flip"
      /\ \A b \in Analysts \ {a} : reqs'[b].pc = "idle"
  BY <1>1, SessionFacts DEF Requests, Inv, OneRequest
<1>6. TypeOK'
  BY <1>1, <1>4, <1>5, SessionFacts DEF TypeOK
<1>7. OneRequest' /\ (\A b \in Analysts : Asked(b))'
  BY <1>1, <1>2, <1>4, <1>5 DEF OneRequest, Asked, Free, Working
<1>8. Shown(row', ckpt') /\ Rested(row', ckpt')
  BY <1>1, <1>2, <1>3, <1>4, SessionFacts, GoneShows
     DEF Shown, Rested, Gates, End
<1>9. (\A t \in Tasks : Working(t) => AtWork(tasks[t], row, ckpt))' /\ Sole'
  BY <1>1, <1>2 DEF Free, Working, Sole
<1> QED
  BY <1>4, <1>6, <1>7, <1>8, <1>9 DEF Inv

\* A launched driver is alone, when no one was at work and no one asks.
LEMMA InvLaunch ==
    ASSUME Inv, Free, NEW i \in {"fresh", "resume"}, NEW gs \in SUBSET Gates,
           Launch(i, gs), reqs' \in [Analysts -> Requests],
           page' \in [Analysts -> Pages],
           \A b \in Analysts : reqs'[b].pc = "idle" /\ ~page'[b].fresh,
           row' \in Rows, UNCHANGED <<ckpt, visits, rewinds, spent>>,
           Shown(row', ckpt),
           row'.exists => row'.status \notin Gates \cup {"queued", "failed"},
           row'.status # "failed",
           i = "fresh" => /\ row'.status = "parsing"
                          /\ ckpt.vals.attempt < MaxAttempts
                          /\ gs \in GateChoices,
           i = "resume" => ckpt.next \in Gates
    PROVE  Inv'
<1>1. PICK t \in Tasks :
          tasks' = [tasks EXCEPT ![t] =
                       [NoTask EXCEPT !.pc = "open", !.input = i, !.gates = gs]]
  BY DEF Launch
<1> DEFINE k == [NoTask EXCEPT !.pc = "open", !.input = i, !.gates = gs]
<1>2. k \in TaskRecords /\ k.pc = "open" /\ k.input = i /\ k.gates = gs
  BY InitialRecords DEF TaskRecords
<1>3. tasks' = [tasks EXCEPT ![t] = k]
  BY <1>1
<1> HIDE DEF k
<1>4. /\ tasks' \in [Tasks -> TaskRecords] /\ tasks'[t] = k
      /\ \A s \in Tasks \ {t} : tasks'[s].pc = "idle"
  BY <1>2, <1>3, SessionFacts DEF Free, Working
<1>5. TypeOK'
  BY <1>4, SessionFacts DEF TypeOK
<1>6. AtWork(k, row', ckpt')
  BY <1>2 DEF AtWork
<1>7. Sole' /\ (\A s \in Tasks : Working(s) => AtWork(tasks[s], row, ckpt))'
  BY <1>4, <1>6 DEF Sole, Working
<1>8. OneRequest' /\ (\A b \in Analysts : Asked(b))'
  BY DEF OneRequest, Asked
<1>9. ~Free'
  BY <1>2, <1>4 DEF Free, Working
<1> QED
  BY <1>5, <1>7, <1>8, <1>9, SessionFacts DEF Inv

\* Run and Retry launch a driver from a source nobody works on.
LEMMA InvStartRun ==
    ASSUME Inv, NEW a \in Analysts, NEW gates \in GateChoices, StartRun(a, gates)
    PROVE  Inv'
<1>1. /\ reqs[a].pc = "start" /\ Launch("fresh", gates)
      /\ reqs' = [reqs EXCEPT ![a] = NoReq]
      /\ UNCHANGED <<ckpt, page, visits, rewinds, spent>>
  BY DEF StartRun
<1>2. /\ row.exists /\ row.status \in RestartableStatuses /\ Free
      /\ ckpt.vals.attempt < MaxAttempts
  BY <1>1, SessionFacts DEF Asked
<1>3. row' = [NewRow EXCEPT !.status = "parsing"]
  BY <1>2 DEF StartRun
<1>4. row' \in Rows /\ row'.status = "parsing" /\ row'.exists
  BY <1>3, InitialRecords, GateNamesAreNotStatuses DEF Rows, NewRow
<1>5. reqs' \in [Analysts -> Requests] /\ \A b \in Analysts : reqs'[b].pc = "idle"
  BY <1>1, SessionFacts, InitialRecords DEF Inv, OneRequest, NoReq
<1>6. \A b \in Analysts : ~page'[b].fresh
  BY <1>1, <1>2, SessionFacts DEF Asked, RestartableStatuses, Gates
<1>7. Shown(row', ckpt) /\ row'.status \notin Gates \cup {"queued", "failed"}
  BY <1>4 DEF Shown, Gates
<1>8. gates \in SUBSET Gates
  BY GatesAssumption
<1> QED
  BY <1>1, <1>2, <1>4, <1>5, <1>6, <1>7, <1>8, SessionFacts, InvLaunch

\* A submission launches a driver from the gate it was made at.
LEMMA InvFlipAndResume ==
    ASSUME Inv, NEW a \in Analysts, FlipAndResume(a)
    PROVE  Inv'
<1> DEFINE g == page[a].gate
           d == Resuming[g]
<1>1. /\ reqs[a].pc = "flip" /\ Launch("resume", {}) /\ UpdateStatus(d, FALSE)
      /\ reqs' = [reqs EXCEPT ![a] = NoReq] /\ page' = [page EXCEPT ![a] = NoPage]
      /\ UNCHANGED <<ckpt, visits, rewinds, spent>>
  BY DEF FlipAndResume
<1>2. /\ g \in Gates /\ ckpt.next = g /\ Free
      /\ \A b \in Analysts : ~page[b].fresh
  BY <1>1, SessionFacts DEF Asked
<1>3. d \in RowStatuses /\ d \notin AtRest
  BY <1>2, GateNamesAreNotStatuses
<1> HIDE DEF d
<1>4. /\ row' \in Rows
      /\ row.exists => row'.exists /\ row'.status = d
      /\ ~row.exists => row' = row
  BY <1>1, <1>3, SessionFacts, StatusUpdates
<1>5. reqs' \in [Analysts -> Requests] /\ \A b \in Analysts : reqs'[b].pc = "idle"
  BY <1>1, SessionFacts, InitialRecords DEF Inv, OneRequest, NoReq
<1>6. page' \in [Analysts -> Pages] /\ \A b \in Analysts : ~page'[b].fresh
  BY <1>1, <1>2, SessionFacts, InitialRecords DEF NoPage
<1>7. /\ Shown(row', ckpt) /\ row'.status # "failed"
      /\ row'.exists => row'.status \notin Gates \cup {"queued", "failed"}
  BY <1>3, <1>4, SessionFacts, GoneShows DEF Shown, AtRest
<1> QED
  BY <1>1, <1>2, <1>4, <1>5, <1>6, <1>7, InvLaunch

\* Cancelling the first task found cancels every task there is.
LEMMA CancelledIsFree ==
    ASSUME Inv, CancelTask
    PROVE  tasks' \in [Tasks -> TaskRecords] /\ Free'
<1>1. CASE Live = {}
  BY <1>1, SessionFacts, LiveIsWorking DEF CancelTask, Free, Working
<1>2. CASE Live # {}
  <2>1. PICK t \in Live : tasks' = [tasks EXCEPT ![t] = NoTask]
    BY <1>2 DEF CancelTask
  <2>2. t \in Tasks /\ \A s \in Tasks \ {t} : tasks[s].pc = "idle"
    BY LiveIsWorking DEF Inv, Sole, Working
  <2>3. NoTask \in TaskRecords /\ NoTask.pc = "idle"
    BY InitialRecords DEF NoTask
  <2> QED
    BY <2>1, <2>2, <2>3, SessionFacts DEF Free, Working
<1> QED
  BY <1>1, <1>2

\* A deletion leaves no driver, whichever task the cancellation finds; a page
\* that is still current is current for the gate that is still next.
LEMMA InvDeleteSource ==
    ASSUME Serial, Inv, NEW a \in Analysts, DeleteSource(a)
    PROVE  Inv'
<1>1. \A b \in Analysts : reqs[b].pc = "idle"
  BY MayRequestAlone DEF DeleteSource
<1>2. /\ CancelTask /\ row' = [NewRow EXCEPT !.exists = FALSE]
      /\ FlushThread /\ ClearTurns /\ UNCHANGED <<reqs, spent>>
  BY DEF DeleteSource
<1>3. tasks' \in [Tasks -> TaskRecords] /\ Free'
  BY <1>2, CancelledIsFree
<1>4. row' \in Rows /\ ~row'.exists /\ row'.status = "queued"
  BY <1>2, InitialRecords DEF Rows, NewRow
<1>5. ckpt' \in Checkpoints /\ Sound(ckpt'.vals, ckpt'.next)
  <2>1. Sound(NoThread.vals, NoThread.next)
    BY NoValuesTyped DEF Sound, NoThread, NoValues
  <2> QED
    BY <1>2, <2>1, SessionFacts, InitialRecords DEF FlushThread
<1>6. /\ page' \in [Analysts -> Pages]
      /\ \A b \in Analysts :
            page'[b].fresh => /\ page[b].fresh /\ page'[b].gate = page[b].gate
                              /\ ckpt' = ckpt
  <2>1. page \in [Analysts -> Pages]
    BY SessionFacts
  <2>2. CASE page' = [b \in Analysts |-> [page[b] EXCEPT !.fresh = FALSE]]
    BY <2>1, <2>2 DEF Pages
  <2>3. CASE UNCHANGED <<ckpt, page>>
    BY <2>1, <2>3
  <2> QED
    BY <1>2, <2>2, <2>3 DEF FlushThread
<1>7. TypeOK'
  <2>1. visits' \in [Gates -> Nat] /\ rewinds' \in [Gates -> Nat]
    BY <1>2, SessionFacts DEF ClearTurns
  <2> QED
    BY <1>2, <1>3, <1>4, <1>5, <1>6, <2>1, SessionFacts DEF TypeOK
<1>8. Shown(row', ckpt') /\ Rested(row', ckpt')
  BY <1>4 DEF Shown, Rested, Gates
<1>9. Sole' /\ (\A t \in Tasks : Working(t) => AtWork(tasks[t], row, ckpt))'
  BY <1>3 DEF Free, Sole
<1>10. OneRequest' /\ (\A b \in Analysts : Asked(b))'
  <2>1. \A b \in Analysts : reqs'[b].pc = "idle"
    BY <1>1, <1>2
  <2>2. \A b \in Analysts : Asked(b)'
    BY <1>3, <1>4, <1>6, <2>1, SessionFacts DEF Asked
  <2> QED
    BY <2>1, <2>2 DEF OneRequest
<1> QED
  BY <1>5, <1>7, <1>8, <1>9, <1>10 DEF Inv

\* A restart loses the drivers and the requests, and nothing else.
LEMMA InvRestart ==
    ASSUME Inv, Restart
    PROVE  Inv'
<1>1. /\ spent' = [spent EXCEPT !.crashes = @ + 1]
      /\ tasks' = [t \in Tasks |-> NoTask] /\ reqs' = [a \in Analysts |-> NoReq]
      /\ UNCHANGED <<row, ckpt, page, visits, rewinds>>
  BY DEF Restart
<1>2. spent' \in Counters /\ spent'.crashes # 0
  BY <1>1, SessionFacts DEF Counters
<1>3. /\ tasks' \in [Tasks -> TaskRecords] /\ reqs' \in [Analysts -> Requests]
      /\ \A t \in Tasks : tasks'[t].pc = "idle"
      /\ \A a \in Analysts : reqs'[a].pc = "idle"
  BY <1>1, InitialRecords DEF NoTask, NoReq
<1>4. TypeOK'
  BY <1>1, <1>2, <1>3, SessionFacts DEF TypeOK
<1>5. Sole' /\ (\A t \in Tasks : Working(t) => AtWork(tasks[t], row, ckpt))'
  BY <1>3 DEF Sole, Working
<1>6. OneRequest' /\ (\A a \in Analysts : Asked(a))'
  BY <1>1, <1>3, SessionFacts DEF OneRequest, Asked, Free, Working
<1> QED
  BY <1>1, <1>2, <1>4, <1>5, <1>6, SessionFacts DEF Inv

\* A source in the queue, with a thread no run has touched.
LEMMA InvInit ==
    ASSUME Init
    PROVE  Inv
<1>1. row = NewRow /\ ckpt = NoThread
  BY DEF Init
<1>2. /\ \A t \in Tasks : tasks[t].pc = "idle"
      /\ \A a \in Analysts : reqs[a].pc = "idle" /\ ~page[a].fresh
  BY DEF Init, NoTask, NoReq, NoPage
<1>3. TypeOK
  BY InitialRecords DEF Init, TypeOK, Counters
<1>4. Sound(ckpt.vals, ckpt.next)
  BY <1>1, NoValuesTyped DEF Sound, NoThread, NoValues
<1>5. Shown(row, ckpt) /\ Rested(row, ckpt)
  BY <1>1 DEF Shown, Rested, NewRow, NoThread, NoValues, Gates
<1> QED
  BY <1>2, <1>3, <1>4, <1>5 DEF Inv, Sole, Working, OneRequest, Asked

-----------------------------------------------------------------------------
(***************************************************************************)
(* The theorems.                                                           *)
(***************************************************************************)
\* Every step of every session and of every driver, an exception and a restart
\* keep the invariant.
LEMMA InvNext ==
    ASSUME Serial, Inv, [Next]_vars
    PROVE  Inv'
<1>1. CASE UNCHANGED vars
  BY <1>1 DEF vars, Inv, TypeOK, Sole, Working, Free, OneRequest, Asked
<1>2. ASSUME NEW a \in Analysts, Handle(a) PROVE Inv'
  BY <1>2, InvStartRun, InvWriteSubmission, InvFlipAndResume DEF Handle
<1>3. ASSUME NEW a \in Analysts, Request(a) PROVE Inv'
  BY <1>3, InvRequestRun, InvOpenReview, InvRequestSubmit, InvDeleteSource
     DEF Request
<1>4. ASSUME NEW t \in Tasks, Drive(t) \/ Raise(t) PROVE Inv'
  BY <1>4, InvDriver
<1> QED
  BY <1>1, <1>2, <1>3, <1>4, InvRestart DEF Next

\* The invariant holds throughout, however often the process is restarted.
THEOREM InvHolds == ASSUME Serial PROVE Spec => []Inv
<1>1. Init => Inv
  BY InvInit
<1>2. Inv /\ [Next]_vars => Inv'
  BY InvNext
<1> QED
  BY <1>1, <1>2, PTL DEF Spec

\* No two drivers ever work on one thread, not even after the source is deleted.
THEOREM OneDriverHolds == ASSUME Serial PROVE Spec => []OneDriver
<1>1. Inv => OneDriver
  <2> SUFFICES ASSUME Inv PROVE OneDriver
    OBVIOUS
  <2>1. CASE Live = {}
    BY <2>1, FS_EmptySet DEF OneDriver
  <2>2. CASE Live # {}
    <3>1. PICK t \in Tasks : Working(t)
      BY <2>2, LiveIsWorking
    <3>2. Live = {t}
      BY <3>1, NobodyAsks, LiveIsWorking
    <3>3. Cardinality({t}) = 1
      BY FS_Singleton
    <3> QED
      BY <3>2, <3>3 DEF OneDriver
  <2> QED
    BY <2>1, <2>2
<1> QED
  BY <1>1, InvHolds, PTL

\* A decision is written over the checkpoint its analyst was looking at.
THEOREM SubmitsAreFreshHolds == ASSUME Serial PROVE Spec => []SubmitsAreFresh
<1>1. Inv => SubmitsAreFresh
  BY DEF Inv, Asked, SubmitsAreFresh
<1> QED
  BY <1>1, InvHolds, PTL

\* A card that offers Review has that gate pending, even after a restart.
THEOREM GateCardIsReviewableHolds ==
    ASSUME Serial PROVE Spec => []GateCardIsReviewable
<1>1. Inv => GateCardIsReviewable
  BY DEF Inv, Shown, GateCardIsReviewable
<1> QED
  BY <1>1, InvHolds, PTL

\* "Complete" is shown only for a finished run that wrote its graph.
THEOREM CompletedIsDoneHolds == ASSUME Serial PROVE Spec => []CompletedIsDone
<1>1. Inv => CompletedIsDone
  BY DEF Inv, Shown, CompletedIsDone
<1> QED
  BY <1>1, InvHolds, PTL

\* Until the first restart, a source nobody drives shows what its checkpoint
\* holds.
THEOREM CardMatchesThreadHolds ==
    ASSUME Serial PROVE Spec => [](spent.crashes = 0 => CardMatchesThread)
<1>1. Inv => (spent.crashes = 0 => CardMatchesThread)
  BY LiveIsWorking DEF Inv, Shown, Rested, Resting, CardMatchesThread
<1> QED
  BY <1>1, InvHolds, PTL

-----------------------------------------------------------------------------
(***************************************************************************)
(* Limits: the rewinds and the stops of a run nobody watches.              *)
(***************************************************************************)
\* No rewind is forgotten: each one was counted as a visit of its gate.
Limited ==
    \A g \in Gates : rewinds[g] <= MaxAutoRewindPasses /\ rewinds[g] <= visits[g]

\* Only a driver's turn at a gate and a deletion touch the counts.
LEMMA WhoCounts ==
    ASSUME [Next]_vars
    PROVE  \/ UNCHANGED <<visits, rewinds>>
           \/ \E t \in Tasks : HandOver(t) \/ \E d \in AllDecisions : AutoApply(t, d)
           \/ \E a \in Analysts : DeleteSource(a)
<1>1. ASSUME NEW a \in Analysts, Handle(a) PROVE UNCHANGED <<visits, rewinds>>
  BY <1>1 DEF Handle, StartRun, WriteSubmission, FlipAndResume
<1>2. ASSUME NEW a \in Analysts, Request(a)
      PROVE  UNCHANGED <<visits, rewinds>> \/ DeleteSource(a)
  BY <1>2 DEF Request, RequestRun, OpenReview, RequestSubmit
<1>3. ASSUME NEW t \in Tasks, Drive(t) \/ Raise(t)
      PROVE  \/ UNCHANGED <<visits, rewinds>>
             \/ HandOver(t) \/ \E d \in AllDecisions : AutoApply(t, d)
  BY <1>3 DEF Drive, OpenFresh, OpenResume, RunNode, Sync, EndRun, SkipDisabled,
              FailStalled, BeginReview, ReadPause, Park, MarkFailed, Raise
<1>4. Restart => UNCHANGED <<visits, rewinds>>
  BY DEF Restart
<1>5. UNCHANGED vars => UNCHANGED <<visits, rewinds>>
  BY DEF vars
<1> QED
  BY <1>1, <1>2, <1>3, <1>4, <1>5 DEF Next

\* A source that was deleted does not come back.
LEMMA GoneForGood ==
    ASSUME ~row.exists
    PROVE  /\ \A t \in Tasks : Drive(t) \/ Raise(t) => row' = row
           /\ \A a \in Analysts : Handle(a) \/ Request(a) => row' = row
<1>1. ASSUME NEW a \in Analysts, Handle(a) PROVE row' = row
  BY <1>1 DEF Handle, StartRun, WriteSubmission, FlipAndResume, UpdateStatus
<1>2. ASSUME NEW a \in Analysts, Request(a) PROVE row' = row
  BY <1>2 DEF Request, RequestRun, OpenReview, RequestSubmit, DeleteSource
<1>3. ASSUME NEW t \in Tasks, Drive(t) \/ Raise(t) PROVE row' = row
  BY <1>3 DEF Drive, OpenFresh, OpenResume, RunNode, Sync, EndRun, SkipDisabled,
              FailStalled, BeginReview, HandOver, AutoApply, ReadPause, Park,
              MarkFailed, Raise, UpdateStatus, UpdateStatusAndCounts
<1> QED
  BY <1>1, <1>2, <1>3

\* Counting keeps an order that the limit makes strict below it.
LEMMA CountedOrder ==
    ASSUME NEW m \in Nat, NEW n \in Nat
    PROVE  /\ Counted(n) \in Nat /\ n <= Counted(n)
           /\ n <= MaxAutoRewindPasses => Counted(n) = n + 1
           /\ m <= n => Counted(m) <= Counted(n)
BY LimitsAssumption DEF Counted

\* The turn of the reviewer that rewinds is a turn within the limit.
LEMMA LimitedNext ==
    ASSUME ~CountMayFail, Inv, Limited, [Next]_vars
    PROVE  Limited'
<1>1. visits \in [Gates -> Nat] /\ rewinds \in [Gates -> Nat]
  BY SessionFacts
<1>2. CASE UNCHANGED <<visits, rewinds>>
  BY <1>2 DEF Limited
<1>3. ASSUME NEW t \in Tasks, HandOver(t) PROVE Limited'
  <2> DEFINE g == tasks[t].next
  <2>1. visits' = [visits EXCEPT ![g] = Counted(@)] /\ rewinds' = rewinds
    BY <1>3 DEF HandOver
  <2> HIDE DEF g
  <2>2. ASSUME NEW h \in Gates PROVE visits'[h] \in Nat /\ visits[h] <= visits'[h]
    <3>1. /\ visits[h] \in Nat /\ Counted(visits[h]) \in Nat
          /\ visits[h] <= Counted(visits[h])
      BY <1>1, CountedOrder
    <3>2. visits'[h] \in {visits[h], Counted(visits[h])}
      BY <1>1, <2>1
    <3> QED
      BY <3>1, <3>2
  <2> QED
    BY <1>1, <2>1, <2>2 DEF Limited
<1>4. ASSUME NEW t \in Tasks, NEW d \in AllDecisions, AutoApply(t, d)
      PROVE  Limited'
  <2> DEFINE g == tasks[t].next
  <2>1. Working(t) /\ tasks[t].pc = "review"
    BY <1>4 DEF AutoApply, Working
  <2>2. g \in Gates
    BY <2>1, DriverFacts DEF AtWork, Values
  <2>3. /\ d \in Rejections => RewindAllowed(g)
        /\ visits' = [visits EXCEPT ![g] = Counted(@)]
        /\ rewinds' = IF d \in Rejections
                      THEN [rewinds EXCEPT ![g] = Counted(@)] ELSE rewinds
    BY <1>4 DEF AutoApply
  <2>4. d \in Rejections => Counted(visits[g]) <= MaxAutoRewindPasses
    BY <1>1, <2>2, <2>3, CountedOrder, LimitsAssumption DEF RewindAllowed
  <2>5. rewinds[g] <= visits[g] /\ Counted(rewinds[g]) <= Counted(visits[g])
    BY <1>1, <2>2, CountedOrder DEF Limited
  <2> HIDE DEF g
  <2>6. ASSUME NEW h \in Gates
        PROVE  rewinds'[h] <= MaxAutoRewindPasses /\ rewinds'[h] <= visits'[h]
    <3>1. /\ rewinds[h] \in Nat /\ visits[h] \in Nat
          /\ rewinds[h] <= MaxAutoRewindPasses /\ rewinds[h] <= visits[h]
      BY <1>1, <2>2 DEF Limited
    <3>2. CASE h # g
      BY <1>1, <2>2, <2>3, <3>1, <3>2
    <3>3. CASE h = g
      <4>1. visits'[h] = Counted(visits[h]) /\ visits[h] <= Counted(visits[h])
        BY <1>1, <2>2, <2>3, <3>1, <3>3, CountedOrder
      <4>2. Counted(visits[h]) \in Nat /\ Counted(rewinds[h]) \in Nat
        BY <3>1, CountedOrder
      <4>3. rewinds'[h] = IF d \in Rejections THEN Counted(rewinds[h])
                                               ELSE rewinds[h]
        BY <1>1, <2>2, <2>3, <3>3
      <4> QED
        BY <2>4, <2>5, <3>1, <3>3, <4>1, <4>2, <4>3, LimitsAssumption
    <3> QED
      BY <3>2, <3>3
  <2> QED
    BY <2>6 DEF Limited
<1>5. ASSUME NEW a \in Analysts, DeleteSource(a) PROVE Limited'
  BY <1>5, LimitsAssumption DEF DeleteSource, ClearTurns, Limited
<1> QED
  BY <1>2, <1>3, <1>4, <1>5, WhoCounts

\* A source starts without rewinds.
LEMMA LimitedInit == Init => Limited
BY LimitsAssumption DEF Init, Limited

\* Nobody-watching rewinds are limited per gate over all attempts, as long as
\* no pass is lost from the count and the turns are kept.
THEOREM AutoRewindsBoundedHolds ==
    ASSUME Serial, ~CountMayFail PROVE Spec => []AutoRewindsBounded
<1>1. Init => Limited
  BY LimitedInit
<1>2. Inv /\ Limited /\ [Next]_vars => Limited'
  BY LimitedNext
<1>3. Limited => AutoRewindsBounded
  BY DEF Limited, AutoRewindsBounded
<1> QED
  BY <1>1, <1>2, <1>3, InvHolds, PTL DEF Spec

-----------------------------------------------------------------------------
(***************************************************************************)
(* Stops: how often a run is resumed with nobody watching.                 *)
(***************************************************************************)
\* The gates a run still stops at when n is next, if nothing is rejected.
Left(n) ==
    CASE n \in {"parse_and_validate", "extract_figures", "classify_sections",
                "extract_entities", "gate_0"}                         -> 4
      [] n \in {"chunk_behaviors", "gate_chunks"}                     -> 3
      [] n \in {"extract_techniques", "draft_procedures", "gate_1"}   -> 2
      [] n \in {"normalize", "gate_2"}                                -> 1
      [] OTHER                                                        -> 0

\* Where a gate leads, once it runs on the channels v.
LeadsTo(g, v) ==
    CASE g = "gate_0" -> "chunk_behaviors"
      [] g = "gate_chunks" -> IF g \in v.gates /\ v.chunkReviews = "reject"
                              THEN "chunk_behaviors" ELSE "extract_techniques"
      [] g = "gate_1" -> IF g \in v.gates /\ RejectionRouting(v) # "none"
                         THEN RejectionRouting(v) ELSE "normalize"
      [] g = "gate_2" -> IF g \in v.gates /\ ~v.gate2Reviews
                            /\ v.gate2Review # "approve"
                         THEN "normalize" ELSE "serialize_stix"

\* What the rewinds still allowed can add: a chunk rewind one stop, a rewind of
\* the procedure gate at most two.
Allowance ==
    (MaxAutoRewindPasses - rewinds["gate_chunks"])
    + 2 * (MaxAutoRewindPasses - rewinds["gate_1"])

\* Every gate once, and what the rewinds can add.
LongestRun == 4 + 3 * MaxAutoRewindPasses

\* A driver with record k has been resumed less often than its run can stop.
Paced(k, c, allowance) ==
    /\ k.pc # "stalled"
    /\ (k.pc = "open" /\ k.input = "resume") \/ (k.pc = "node" /\ c.next \in Gates)
           => k.skips + Left(LeadsTo(c.next, c.vals)) + allowance <= LongestRun
    /\ k.pc \in {"sync", "ended", "review"} \/ (k.pc = "node" /\ c.next \notin Gates)
           => k.skips + Left(c.next) + allowance <= LongestRun

AllPaced == \A t \in Tasks : Paced(tasks[t], ckpt, Allowance)

\* At most four gates are left to stop at.
LEMMA LeftIsNat == \A n : Left(n) \in 0 .. 4
BY DEF Left

\* A worker's edge never leads back.
LEMMA WorkersMoveOn ==
    ASSUME NEW n \in Workers, NEW w
    PROVE  Left(Route(n, w)) <= Left(n)
<1>1. Left(End) = 0
  BY DEF Left, End
<1>2. CASE n = "parse_and_validate"
  BY <1>1, <1>2 DEF Route, RouteAfterParse, Left
<1>3. CASE n = "extract_figures"
  BY <1>1, <1>3 DEF Route, Left
<1>4. CASE n = "classify_sections"
  BY <1>1, <1>4 DEF Route, Left
<1>5. CASE n = "extract_entities"
  BY <1>1, <1>5 DEF Route, RouteUnlessFailed, Left
<1>6. CASE n = "chunk_behaviors"
  BY <1>1, <1>6 DEF Route, RouteAfterChunkBehaviors, Left
<1>7. CASE n = "extract_techniques"
  BY <1>1, <1>7 DEF Route, RouteUnlessFailed, Left
<1>8. CASE n = "draft_procedures"
  BY <1>1, <1>8 DEF Route, RouteUnlessFailed, Left
<1>9. CASE n = "normalize"
  BY <1>1, <1>9 DEF Route, Left
<1>10. CASE n = "serialize_stix"
  BY <1>1, <1>10 DEF Route, Left
<1>11. CASE n = "validate_bundle"
  BY <1>1, <1>11 DEF Route, RouteAfterValidate, Left
<1>12. CASE n = "distribute"
  BY <1>1, <1>12 DEF Route, Left
<1>13. CASE n = "synthesize_feedback"
  BY <1>1, <1>13 DEF Route, Left
<1> QED
  BY <1>2, <1>3, <1>4, <1>5, <1>6, <1>7, <1>8, <1>9, <1>10, <1>11, <1>12,
     <1>13 DEF Workers

\* A gate leads where its channels ask.
LEMMA GatesLead ==
    ASSUME NEW v \in Values, NEW g \in Gates, NEW w \in Effect(g, v)
    PROVE  Route(g, w) = LeadsTo(g, v)
<1>1. CASE g = "gate_0"
  BY <1>1 DEF Route, LeadsTo
<1>2. CASE g = "gate_chunks"
  BY <1>2, GateChunksContract DEF Effect, Route, RouteAfterGateChunks, LeadsTo
<1>3. CASE g = "gate_1"
  BY <1>3, Gate1Contract DEF Effect, Route, RouteAfterGate1, LeadsTo
<1>4. CASE g = "gate_2"
  <2>1. w \in Gate2(v) /\ Route(g, w) = RouteAfterGate2(w)
    BY <1>4 DEF Effect, Route
  <2>2. CASE "gate_2" \in v.gates /\ ~v.gate2Reviews /\ v.gate2Review # "approve"
    BY <1>4, <2>1, <2>2, Gate2Contract DEF RouteAfterGate2, LeadsTo
  <2>3. CASE ~("gate_2" \in v.gates /\ ~v.gate2Reviews /\ v.gate2Review # "approve")
    BY <1>4, <2>1, <2>3, Gate2Contract DEF RouteAfterGate2, LeadsTo
  <2> QED
    BY <2>2, <2>3
<1> QED
  BY <1>1, <1>2, <1>3, <1>4 DEF Gates

\* A switched-off gate leads on.
LEMMA DisabledLeadsOn ==
    ASSUME NEW v \in Values, NEW g \in Gates \ v.gates
    PROVE  Left(LeadsTo(g, v)) + 1 = Left(g)
BY DEF LeadsTo, Left, Gates

\* So does an approving decision; a rejecting one costs a stop at the chunk
\* gate, and at most two at the procedure gate.
LEMMA DecisionLeads ==
    ASSUME NEW v \in Values, NEW g \in Gates, NEW d \in AutoDecisions(g, v),
           NEW w, w = Submit(g, d, v)
    PROVE  /\ d \notin Rejections => Left(LeadsTo(g, w)) + 1 <= Left(g)
           /\ d \in Rejections => g \in {"gate_chunks", "gate_1"}
           /\ g = "gate_chunks" => Left(LeadsTo(g, w)) <= Left(g)
           /\ g = "gate_1" => Left(LeadsTo(g, w)) <= Left(g) + 1
<1>1. d \in Decisions[g]
  BY AutoDecisionsAreDecisions
<1>2. /\ g = "gate_chunks" => w.chunkReviews = d
      /\ g = "gate_1" => w.gate1Reviews = d
      /\ g = "gate_2" /\ d = "per_relationship" => w.gate2Reviews
  BY <1>1, SubmitContract
<1>3. CASE g = "gate_0"
  BY <1>1, <1>3 DEF LeadsTo, Left, Decisions, Rejections
<1>4. CASE g = "gate_chunks"
  BY <1>1, <1>2, <1>4 DEF LeadsTo, Left, Decisions, Rejections
<1>5. CASE g = "gate_1"
  BY <1>1, <1>2, <1>5
     DEF LeadsTo, Left, Decisions, Rejections, RejectionRouting
<1>6. CASE g = "gate_2"
  BY <1>2, <1>6 DEF LeadsTo, Left, AutoDecisions, Rejections
<1> QED
  BY <1>3, <1>4, <1>5, <1>6 DEF Gates

\* The cap leaves room for the longest run that is not a spin.
CapIsEnough == LongestRun <= MaxGateAutoSkips

\* The allowance is never overdrawn.
LEMMA AllowanceRange ==
    ASSUME Limited, rewinds \in [Gates -> Nat]
    PROVE  /\ Allowance \in Nat /\ Allowance <= 3 * MaxAutoRewindPasses
           /\ LongestRun \in Nat
<1>1. /\ rewinds["gate_chunks"] \in Nat /\ rewinds["gate_1"] \in Nat
      /\ rewinds["gate_chunks"] <= MaxAutoRewindPasses
      /\ rewinds["gate_1"] <= MaxAutoRewindPasses
  BY DEF Limited, Gates
<1> QED
  BY <1>1, LimitsAssumption DEF Allowance, LongestRun

\* A driver's step settles the other drivers: there are none.
LEMMA DriverPaced ==
    ASSUME Inv, NEW t \in Tasks, Working(t), NEW k \in TaskRecords,
           tasks' = [tasks EXCEPT ![t] = k], Paced(k, ckpt', Allowance')
    PROVE  AllPaced'
<1>1. \A s \in Tasks \ {t} : tasks[s].pc = "idle"
  BY NobodyAsks DEF Working
<1>2. tasks'[t] = k /\ \A s \in Tasks \ {t} : tasks'[s].pc = "idle"
  BY <1>1, DriverFacts
<1>3. \A s \in Tasks \ {t} : Paced(tasks'[s], ckpt', Allowance')
  BY <1>2 DEF Paced
<1> QED
  BY <1>2, <1>3 DEF AllPaced

\* A driver that has nothing more to resume is paced.
LEMMA DoneIsPaced ==
    ASSUME NEW k, NEW c, NEW al, k.pc \in {"idle", "park", "except"}
    PROVE  Paced(k, c, al)
BY DEF Paced

\* Advancing past a gate costs one of the stops it had left.
LEMMA AdvancedPaced ==
    ASSUME CapIsEnough, NEW t \in Tasks, tasks[t] \in TaskRecords, NEW c,
           NEW al \in Nat, LongestRun \in Nat,
           tasks[t].skips + 1 + Left(LeadsTo(c.next, c.vals)) + al <= LongestRun
    PROVE  Paced(Advanced(t), c, al)
<1>1. tasks[t].skips \in Nat /\ MaxGateAutoSkips \in Nat
  BY LimitsAssumption DEF TaskRecords
<1>2. Left(LeadsTo(c.next, c.vals)) \in 0 .. 4
  BY LeftIsNat
<1>3. ~(tasks[t].skips + 1 > MaxGateAutoSkips)
  BY <1>1, <1>2 DEF CapIsEnough
<1>4. Advanced(t).pc = "open" /\ Advanced(t).skips = tasks[t].skips + 1
  BY <1>3, TaskAdvanced
<1> QED
  BY <1>4 DEF Paced

\* A fresh run starts with every stop before it and none behind it.
LEMMA PacedOpenFresh ==
    ASSUME Inv, Limited, NEW t \in Tasks, OpenFresh(t)
    PROVE  AllPaced'
<1>1. Working(t) /\ tasks[t].pc = "open" /\ tasks[t].input = "fresh"
  BY DEF OpenFresh, Working
<1> DEFINE v == InitialState(ckpt.vals, tasks[t].gates)
           k == [NoTask EXCEPT !.pc = "node", !.vals = v,
                               !.next = "parse_and_validate"]
<1>2. /\ WriteCheckpoint(v, "parse_and_validate")
      /\ tasks' = [tasks EXCEPT ![t] = k] /\ rewinds' = rewinds
  BY DEF OpenFresh
<1>3. v \in Values
  BY <1>1, DriverFacts, InitialStateContract DEF AtWork
<1> HIDE DEF v
<1>4. k \in TaskRecords /\ k.pc = "node" /\ k.skips = 0
  BY <1>3 DEF NoTask, TaskRecords, Nodes, Workers
<1> HIDE DEF k
<1>5. ckpt'.next = "parse_and_validate"
  BY <1>2 DEF WriteCheckpoint
<1>6. /\ Allowance' = Allowance /\ Allowance \in Nat
      /\ Allowance <= 3 * MaxAutoRewindPasses
  BY <1>1, <1>2, DriverFacts, AllowanceRange DEF Allowance
<1>7. Left(ckpt'.next) = 4 /\ ckpt'.next \notin Gates
  BY <1>5 DEF Left, Gates
<1>8. Paced(k, ckpt', Allowance')
  BY <1>4, <1>6, <1>7, LimitsAssumption DEF Paced, LongestRun
<1> QED
  BY <1>1, <1>2, <1>4, <1>8, DriverPaced

\* A resumed run goes on from the gate it was resumed past.
LEMMA PacedOpenResume ==
    ASSUME Inv, AllPaced, NEW t \in Tasks, OpenResume(t)
    PROVE  AllPaced'
<1>1. Working(t) /\ tasks[t].pc = "open" /\ tasks[t].input = "resume"
  BY DEF OpenResume, Working
<1>2. ckpt.next \in Gates /\ ckpt.next # End
  BY <1>1, DriverFacts, GateNamesAreNotStatuses DEF AtWork
<1> DEFINE k == [tasks[t] EXCEPT !.pc = "node", !.vals = ckpt.vals,
                                 !.next = ckpt.next]
<1>3. tasks' = [tasks EXCEPT ![t] = k] /\ ckpt' = ckpt /\ rewinds' = rewinds
  BY <1>1, <1>2, DriverFacts DEF OpenResume
<1>4. k \in TaskRecords /\ k.pc = "node" /\ k.skips = tasks[t].skips
  BY <1>1, DriverFacts DEF TaskRecords
<1> HIDE DEF k
<1>5. Paced(k, ckpt', Allowance')
  BY <1>1, <1>2, <1>3, <1>4 DEF AllPaced, Paced, Allowance
<1> QED
  BY <1>1, <1>3, <1>4, <1>5, DriverPaced

\* A worker leads no further back than it stands, a gate where its channels ask.
LEMMA PacedRunNode ==
    ASSUME Inv, Limited, AllPaced, NEW t \in Tasks, RunNode(t)
    PROVE  AllPaced'
<1>1. Working(t) /\ tasks[t].pc = "node"
  BY DEF RunNode, Working
<1>2. /\ tasks[t].vals = ckpt.vals /\ tasks[t].next = ckpt.next
      /\ ckpt.next \in Nodes
  BY <1>1, DriverFacts DEF AtWork
<1>3. PICK v \in Effect(ckpt.next, ckpt.vals) :
          /\ WriteCheckpoint(v, Route(ckpt.next, v))
          /\ tasks' = [tasks EXCEPT ![t] =
                 [@ EXCEPT !.pc = "sync", !.vals = v, !.next = Route(ckpt.next, v)]]
  BY <1>2 DEF RunNode
<1> DEFINE n == Route(ckpt.next, v)
           k == [tasks[t] EXCEPT !.pc = "sync", !.vals = v, !.next = n]
<1>4. v \in Values /\ n \in Nodes \cup {End}
  BY <1>1, <1>2, DriverFacts, StepSound DEF Sound
<1>5. tasks' = [tasks EXCEPT ![t] = k] /\ ckpt'.next = n /\ rewinds' = rewinds
  BY <1>1, <1>3, DriverFacts DEF WriteCheckpoint, RunNode
<1>6. IF ckpt.next \in Gates THEN n = LeadsTo(ckpt.next, ckpt.vals)
                             ELSE Left(n) <= Left(ckpt.next)
  BY <1>1, <1>2, DriverFacts, GatesLead, WorkersMoveOn DEF Nodes
<1> HIDE DEF n
<1>7. k \in TaskRecords /\ k.pc = "sync" /\ k.skips = tasks[t].skips
  BY <1>1, <1>4, DriverFacts DEF TaskRecords
<1> HIDE DEF k
<1>8. /\ Allowance' = Allowance /\ Allowance \in Nat /\ LongestRun \in Nat
      /\ tasks[t].skips \in Nat
  BY <1>1, <1>5, DriverFacts, AllowanceRange DEF Allowance, TaskRecords
<1>9. Left(n) \in 0 .. 4 /\ Left(ckpt.next) \in 0 .. 4
  BY LeftIsNat
<1>10. Paced(tasks[t], ckpt, Allowance)
  BY DEF AllPaced
<1>11. Paced(k, ckpt', Allowance')
  <2>1. k.skips + Left(n) + Allowance <= LongestRun
    <3>1. CASE ckpt.next \in Gates
      BY <1>1, <1>6, <1>7, <1>10, <3>1 DEF Paced
    <3>2. CASE ckpt.next \notin Gates
      <4>1. tasks[t].skips + Left(ckpt.next) + Allowance <= LongestRun
        BY <1>1, <1>10, <3>2 DEF Paced
      <4> QED
        BY <1>6, <1>7, <1>8, <1>9, <3>2, <4>1
    <3> QED
      BY <3>1, <3>2
  <2> QED
    BY <1>5, <1>7, <1>8, <2>1 DEF Paced
<1> QED
  BY <1>1, <1>5, <1>7, <1>11, DriverPaced

\* A sync and the start of a review leave the stops as they are.
LEMMA PacedSync ==
    ASSUME Inv, AllPaced, NEW t \in Tasks, Sync(t) \/ BeginReview(t)
    PROVE  AllPaced'
<1>1. Working(t) /\ tasks[t].pc \in {"sync", "ended"}
  BY DEF Sync, BeginReview, Working
<1>2. /\ tasks[t] \in TaskRecords /\ ckpt.next \in Nodes \cup {End}
      /\ ckpt.vals \in Values
      /\ tasks[t].pc = "sync" => tasks[t].next = ckpt.next
  BY <1>1, DriverFacts DEF AtWork
<1>3. PICK k \in TaskRecords :
          /\ tasks' = [tasks EXCEPT ![t] = k] /\ k.skips = tasks[t].skips
          /\ \/ k.pc \in {"ended", "review"}
             \/ k.pc = "node" /\ ckpt.next \notin Gates
  <2>1. CASE Sync(t)
    <3> DEFINE p == Onward(ckpt.next)
               k == [tasks[t] EXCEPT !.pc = p]
    <3>1. tasks[t].next = ckpt.next
      BY <1>2, <2>1 DEF Sync
    <3>2. tasks' = [tasks EXCEPT ![t] = k]
      BY <2>1, <3>1 DEF Sync
    <3>3. p = "ended" \/ (p = "node" /\ ckpt.next \notin Gates)
      BY DEF Onward
    <3> HIDE DEF p
    <3>4. k \in TaskRecords /\ k.pc = p /\ k.skips = tasks[t].skips
      BY <1>2, <3>3 DEF TaskRecords
    <3> QED
      BY <3>2, <3>3, <3>4
  <2>2. CASE BeginReview(t)
    <3> DEFINE k == [tasks[t] EXCEPT !.pc = "review", !.vals = ckpt.vals,
                                     !.next = ckpt.next]
    <3>1. tasks' = [tasks EXCEPT ![t] = k]
      BY <1>1, <2>2, DriverFacts DEF BeginReview
    <3>2. k \in TaskRecords /\ k.pc = "review" /\ k.skips = tasks[t].skips
      BY <1>2 DEF TaskRecords
    <3> QED
      BY <3>1, <3>2
  <2> QED
    BY <2>1, <2>2
<1>4. ckpt' = ckpt /\ Allowance' = Allowance
  BY DEF Sync, BeginReview, Allowance
<1>5. Paced(k, ckpt', Allowance')
  BY <1>1, <1>3, <1>4 DEF AllPaced, Paced
<1> QED
  BY <1>1, <1>3, <1>5, DriverPaced

\* A switched-off gate is passed within the cap.
LEMMA PacedSkipDisabled ==
    ASSUME CapIsEnough, Inv, Limited, AllPaced, NEW t \in Tasks, SkipDisabled(t)
    PROVE  AllPaced'
<1>1. /\ Working(t) /\ tasks[t].pc = "ended"
      /\ ckpt.next \in Gates \ ckpt.vals.gates
      /\ tasks' = [tasks EXCEPT ![t] = Advanced(t)]
      /\ ckpt' = ckpt /\ rewinds' = rewinds
  BY DEF SkipDisabled, Working
<1>2. /\ tasks[t] \in TaskRecords /\ tasks[t].skips \in Nat
      /\ ckpt.vals \in Values
  BY <1>1, DriverFacts DEF TaskRecords
<1>3. Allowance' = Allowance /\ Allowance \in Nat /\ LongestRun \in Nat
  BY <1>1, DriverFacts, AllowanceRange DEF Allowance
<1>4. tasks[t].skips + Left(ckpt.next) + Allowance <= LongestRun
  BY <1>1 DEF AllPaced, Paced
<1>5. Left(LeadsTo(ckpt.next, ckpt.vals)) + 1 = Left(ckpt.next)
  BY <1>1, <1>2, DisabledLeadsOn
<1>6. Left(LeadsTo(ckpt.next, ckpt.vals)) \in 0 .. 4 /\ Left(ckpt.next) \in 0 .. 4
  BY LeftIsNat
<1>7. tasks[t].skips + 1 + Left(LeadsTo(ckpt.next, ckpt.vals)) + Allowance
          <= LongestRun
  BY <1>2, <1>3, <1>4, <1>5, <1>6
<1>8. Paced(Advanced(t), ckpt', Allowance')
  BY <1>1, <1>2, <1>3, <1>7, AdvancedPaced
<1>9. Advanced(t) \in TaskRecords
  BY <1>2, TaskAdvanced
<1> QED
  BY <1>1, <1>8, <1>9, DriverPaced

\* An unattended decision is passed within the cap: an approval leads on, and a
\* rejection uses up what it costs.
LEMMA PacedAutoApply ==
    ASSUME CapIsEnough, Inv, Limited, Limited', AllPaced,
           NEW t \in Tasks, NEW d \in AllDecisions, AutoApply(t, d)
    PROVE  AllPaced'
<1> DEFINE g == ckpt.next
           w == Submit(g, d, ckpt.vals)
<1>1. Working(t) /\ tasks[t].pc = "review"
  BY DEF AutoApply, Working
<1>2. /\ tasks[t].vals = ckpt.vals /\ tasks[t].next = g /\ g \in Gates
      /\ tasks[t] \in TaskRecords /\ tasks[t].skips \in Nat
      /\ ckpt.vals \in Values
  BY <1>1, DriverFacts DEF AtWork, Values, TaskRecords
<1>3. /\ d \in AutoDecisions(g, ckpt.vals) /\ SubmitAs(g, d)
      /\ tasks' = [tasks EXCEPT ![t] = Advanced(t)]
      /\ rewinds' = IF d \in Rejections
                    THEN [rewinds EXCEPT ![g] = Counted(@)] ELSE rewinds
  BY <1>2 DEF AutoApply
<1>4. ckpt'.next = g /\ ckpt'.vals = w
  BY <1>1, <1>2, <1>3, DriverFacts, SubmittedAtGate, AutoDecisionsAreDecisions
<1>5. /\ d \notin Rejections => Left(LeadsTo(g, w)) + 1 <= Left(g)
      /\ d \in Rejections => g \in {"gate_chunks", "gate_1"}
      /\ g = "gate_chunks" => Left(LeadsTo(g, w)) <= Left(g)
      /\ g = "gate_1" => Left(LeadsTo(g, w)) <= Left(g) + 1
  BY <1>2, <1>3, DecisionLeads
<1>6. Left(LeadsTo(g, w)) \in 0 .. 4 /\ Left(g) \in 0 .. 4
  BY LeftIsNat
<1> DEFINE there == Left(LeadsTo(g, w))
           here  == Left(g)
<1> HIDE DEF w, there, here
<1>7. rewinds \in [Gates -> Nat] /\ rewinds' \in [Gates -> Nat]
  BY <1>1, <1>2, <1>3, DriverFacts, CountedIsNat
<1>8. /\ Allowance \in Nat /\ LongestRun \in Nat /\ Allowance' \in Nat
  <2>1. Allowance \in Nat /\ LongestRun \in Nat
    BY <1>7, AllowanceRange
  <2>2. /\ rewinds'["gate_chunks"] \in Nat /\ rewinds'["gate_1"] \in Nat
        /\ rewinds'["gate_chunks"] <= MaxAutoRewindPasses
        /\ rewinds'["gate_1"] <= MaxAutoRewindPasses
    BY <1>7 DEF Limited, Gates
  <2> QED
    BY <2>1, <2>2, LimitsAssumption DEF Allowance
<1>9. tasks[t].skips + here + Allowance <= LongestRun
  BY <1>1 DEF AllPaced, Paced, here
<1>10. tasks[t].skips + 1 + there + Allowance' <= LongestRun
  <2>1. there \in 0 .. 4 /\ here \in 0 .. 4
    BY <1>6 DEF there, here
  <2>2. CASE d \notin Rejections
    <3>1. Allowance' = Allowance
      BY <1>3, <2>2 DEF Allowance
    <3>2. there + 1 <= here
      BY <1>5, <2>2 DEF there, here
    <3> QED
      BY <1>2, <1>8, <1>9, <2>1, <3>1, <3>2
  <2>3. CASE d \in Rejections
    <3>1. /\ "gate_chunks" \in Gates /\ "gate_1" \in Gates
          /\ rewinds["gate_chunks"] \in Nat /\ rewinds["gate_1"] \in Nat
      BY <1>7 DEF Gates
    <3>2. rewinds' = [rewinds EXCEPT ![g] = rewinds[g] + 1]
      <4>1. rewinds[g] \in Nat /\ rewinds[g] <= MaxAutoRewindPasses
        BY <1>2, <1>7 DEF Limited
      <4>2. Counted(rewinds[g]) = rewinds[g] + 1
        BY <4>1, CountedOrder
      <4> QED
        BY <1>3, <2>3, <4>2
    <3>3. CASE g = "gate_chunks"
      <4>1. /\ rewinds'["gate_chunks"] = rewinds["gate_chunks"] + 1
            /\ rewinds'["gate_1"] = rewinds["gate_1"]
        BY <1>7, <3>1, <3>2, <3>3
      <4>2. Allowance' = Allowance - 1
        BY <3>1, <4>1, LimitsAssumption DEF Allowance
      <4>3. there <= here
        BY <1>5, <3>3 DEF there, here
      <4> QED
        BY <1>2, <1>8, <1>9, <2>1, <4>2, <4>3
    <3>4. CASE g = "gate_1"
      <4>1. /\ rewinds'["gate_1"] = rewinds["gate_1"] + 1
            /\ rewinds'["gate_chunks"] = rewinds["gate_chunks"]
        BY <1>7, <3>1, <3>2, <3>4
      <4>2. Allowance' = Allowance - 2
        BY <3>1, <4>1, LimitsAssumption DEF Allowance
      <4>3. there <= here + 1
        BY <1>5, <3>4 DEF there, here
      <4> QED
        BY <1>2, <1>8, <1>9, <2>1, <4>2, <4>3
    <3> QED
      BY <1>5, <2>3, <3>3, <3>4
  <2> QED
    BY <2>2, <2>3
<1>11. Paced(Advanced(t), ckpt', Allowance')
  BY <1>2, <1>4, <1>8, <1>10, AdvancedPaced DEF there
<1>12. Advanced(t) \in TaskRecords
  BY <1>2, TaskAdvanced
<1> QED
  BY <1>1, <1>3, <1>11, <1>12, DriverPaced

\* A driver on its way out, or to the gate it parks at, is resumed no more.
LEMMA PacedLeaving ==
    ASSUME Inv, NEW t \in Tasks,
           EndRun(t) \/ FailStalled(t) \/ HandOver(t) \/ ReadPause(t) \/ Park(t)
               \/ MarkFailed(t) \/ Raise(t)
    PROVE  AllPaced'
<1>1. Working(t)
  BY DEF EndRun, FailStalled, HandOver, ReadPause, Park, MarkFailed, Raise, Working
<1>2. PICK k \in TaskRecords :
          tasks' = [tasks EXCEPT ![t] = k] /\ k.pc \in {"idle", "park", "except"}
  <2>1. CASE EndRun(t) \/ FailStalled(t) \/ Park(t) \/ MarkFailed(t)
    <3>1. NoTask \in TaskRecords /\ NoTask.pc = "idle"
      BY InitialRecords DEF NoTask
    <3> QED
      BY <2>1, <3>1 DEF EndRun, FailStalled, Park, MarkFailed
  <2>2. CASE HandOver(t)
    <3> DEFINE k == [tasks[t] EXCEPT !.pc = "park"]
    <3>1. k \in TaskRecords /\ k.pc = "park"
      BY <1>1, DriverFacts DEF TaskRecords
    <3> QED
      BY <2>2, <3>1 DEF HandOver
  <2>3. CASE ReadPause(t)
    <3> DEFINE k == [tasks[t] EXCEPT !.pc = "park", !.vals = ckpt.vals,
                                     !.next = ckpt.next]
    <3>1. k \in TaskRecords /\ k.pc = "park"
      BY <1>1, DriverFacts DEF TaskRecords
    <3>2. tasks' = [tasks EXCEPT ![t] = k]
      BY <1>1, <2>3, DriverFacts DEF ReadPause
    <3> QED
      BY <3>1, <3>2
  <2>4. CASE Raise(t)
    <3> DEFINE k == [tasks[t] EXCEPT !.pc = "except"]
    <3>1. k \in TaskRecords /\ k.pc = "except"
      BY <1>1, DriverFacts DEF TaskRecords
    <3> QED
      BY <2>4, <3>1 DEF Raise
  <2> QED
    BY <2>1, <2>2, <2>3, <2>4
<1>3. Paced(k, ckpt', Allowance')
  BY <1>2, DoneIsPaced
<1> QED
  BY <1>1, <1>2, <1>3, DriverPaced

\* A session launches a driver that has not been resumed yet.
LEMMA PacedLaunch ==
    ASSUME Inv, Limited, Free, NEW i, NEW gs, Launch(i, gs),
           ckpt' = ckpt, rewinds' = rewinds
    PROVE  AllPaced'
<1> DEFINE k == [NoTask EXCEPT !.pc = "open", !.input = i, !.gates = gs]
<1>1. PICK t \in Tasks : tasks' = [tasks EXCEPT ![t] = k]
  BY DEF Launch
<1>2. k.pc = "open" /\ k.skips = 0
  BY DEF NoTask
<1> HIDE DEF k
<1>3. tasks'[t] = k /\ \A s \in Tasks \ {t} : tasks'[s].pc = "idle"
  BY <1>1, SessionFacts DEF Free, Working
<1>4. /\ Allowance' = Allowance /\ Allowance \in Nat
      /\ Allowance <= 3 * MaxAutoRewindPasses
  BY SessionFacts, AllowanceRange DEF Allowance
<1>5. Left(LeadsTo(ckpt'.next, ckpt'.vals)) \in 0 .. 4
  BY LeftIsNat
<1>6. Paced(k, ckpt', Allowance')
  BY <1>2, <1>4, <1>5, LimitsAssumption DEF Paced, LongestRun
<1> QED
  BY <1>3, <1>6, DoneIsPaced DEF AllPaced

\* Where nobody drives, nobody is resumed.
LEMMA FreeIsPaced == Free' => AllPaced'
BY DEF Free, Working, AllPaced, Paced

\* What a session does leaves the driver's pace alone, or finds nobody driving.
LEMMA PacedSession ==
    ASSUME Serial, Inv, Limited, AllPaced, NEW a \in Analysts,
           Handle(a) \/ Request(a)
    PROVE  AllPaced'
<1>1. ASSUME NEW gates \in GateChoices, StartRun(a, gates) PROVE AllPaced'
  <2>1. Free
    BY <1>1, SessionFacts DEF StartRun, Asked
  <2> QED
    BY <1>1, <2>1, PacedLaunch DEF StartRun
<1>2. CASE WriteSubmission(a)
  <2>1. Free /\ tasks' = tasks
    BY <1>2, SessionFacts DEF WriteSubmission, Asked
  <2>2. Free'
    BY <2>1 DEF Free, Working
  <2> QED
    BY <2>2, FreeIsPaced
<1>3. CASE FlipAndResume(a)
  <2>1. Free
    BY <1>3, SessionFacts DEF FlipAndResume, Asked
  <2> QED
    BY <1>3, <2>1, PacedLaunch DEF FlipAndResume
<1>4. CASE DeleteSource(a)
  BY <1>4, CancelledIsFree, FreeIsPaced DEF DeleteSource
<1>5. CASE RequestRun(a) \/ OpenReview(a) \/ \E d \in AllDecisions : RequestSubmit(a, d)
  <2>1. tasks' = tasks /\ ckpt' = ckpt /\ rewinds' = rewinds
    BY <1>5 DEF RequestRun, OpenReview, RequestSubmit
  <2> QED
    BY <2>1 DEF AllPaced, Paced, Allowance
<1> QED
  BY <1>1, <1>2, <1>3, <1>4, <1>5 DEF Handle, Request

\* Every step keeps the pace.
LEMMA PacedNext ==
    ASSUME Serial, CapIsEnough, Inv, Limited, Limited', AllPaced, [Next]_vars
    PROVE  AllPaced'
<1>1. CASE UNCHANGED vars
  BY <1>1 DEF vars, AllPaced, Paced, Allowance
<1>2. ASSUME NEW t \in Tasks, Drive(t) \/ Raise(t) PROVE AllPaced'
  <2>1. ASSUME NEW d \in AllDecisions, AutoApply(t, d) PROVE AllPaced'
    BY <2>1, PacedAutoApply
  <2> QED
    BY <1>2, <2>1, PacedOpenFresh, PacedOpenResume, PacedRunNode, PacedSync,
       PacedSkipDisabled, PacedLeaving DEF Drive
<1>3. CASE Restart
  <2>1. Free'
    BY <1>3 DEF Restart, Free, Working, NoTask
  <2> QED
    BY <2>1, FreeIsPaced
<1> QED
  BY <1>1, <1>2, <1>3, PacedSession DEF Next

\* A source starts without a driver.
LEMMA PacedInit == Init => AllPaced
BY DEF Init, AllPaced, Paced, NoTask

\* A cycle of rejections that the rewind limit allows is never taken for a
\* spin, as long as the cap leaves room for the longest one.
THEOREM NeverStallsHolds ==
    ASSUME Serial, ~CountMayFail, CapIsEnough PROVE Spec => []NeverStalls
<1>1. Init => Limited /\ AllPaced
  BY LimitedInit, PacedInit
<1>2. Inv /\ Limited /\ [Next]_vars => Limited'
  BY LimitedNext
<1>3. Inv /\ Limited /\ Limited' /\ AllPaced /\ [Next]_vars => AllPaced'
  BY PacedNext
<1>4. AllPaced => NeverStalls
  BY DEF AllPaced, Paced, NeverStalls
<1> QED
  BY <1>1, <1>2, <1>3, <1>4, InvHolds, PTL DEF Spec

-----------------------------------------------------------------------------
(***************************************************************************)
(* The board: a source's card never takes a step the analyst was not       *)
(* promised.                                                               *)
(***************************************************************************)
\* The cards of a row, before and after a step.
LEMMA CardShows ==
    /\ row' = row => Card' = Card
    /\ ~row'.exists => Card' = "removed"
    /\ row.exists =>
         /\ row.status \in Gates => Card = "waiting"
         /\ row.status \in {"queued", "completed", "failed"} => Card = row.status
         /\ row.status \notin AtRest => Card = "running"
    /\ row'.exists =>
         /\ row'.status \in Gates => Card' = "waiting"
         /\ row'.status \in {"queued", "completed", "failed"} => Card' = row'.status
         /\ row'.status \notin AtRest => Card' = "running"
<1>1. \A g \in Gates : g \notin {"queued", "completed", "failed"}
  BY DEF Gates
<1> QED
  BY <1>1 DEF Card, AtRest

\* While a gate is next its driver's card is running.
LEMMA AtGateRuns ==
    ASSUME Inv, NEW t \in Tasks, Working(t), ckpt.next \in Gates
    PROVE  row.exists => row.status \notin AtRest /\ Card = "running"
<1> SUFFICES ASSUME row.exists PROVE row.status \notin AtRest /\ Card = "running"
  OBVIOUS
<1>1. row.status \notin Gates \cup {"queued"}
  BY NobodyAsks
<1>2. row.status # "completed"
  BY DriverFacts, GateNamesAreNotStatuses DEF Shown
<1>3. row.status # "failed"
  <2>1. row.status = "failed" => ckpt.vals.status = "failed"
    BY DriverFacts DEF AtWork
  <2>2. ckpt.vals.status # "failed"
    BY DriverFacts DEF Sound, Gates, End
  <2> QED
    BY <2>1, <2>2
<1> QED
  BY <1>1, <1>2, <1>3, CardShows DEF AtRest

\* A driver takes a card to a gate or to an end, and from an end only to failed.
LEMMA DriverKeepsPromise ==
    ASSUME Inv, NEW t \in Tasks, Drive(t) \/ Raise(t)
    PROVE  Board!Next \/ Card' = Card
<1>1. CASE row' = row
  BY <1>1, CardShows
<1> SUFFICES ASSUME row.exists PROVE Board!Next \/ Card' = Card
  BY <1>1, GoneForGood
<1>2. CASE Sync(t)
  <2> DEFINE d == Displayed(ckpt.vals, ckpt.next)
  <2>1. Working(t)
    BY <1>2 DEF Sync, Working
  <2>2. /\ d \in RowStatuses /\ d \notin Gates \cup {"queued"}
        /\ d = "failed" <=> ckpt.vals.status = "failed"
        /\ ckpt.next = End => d = ckpt.vals.status
    BY <2>1, DriverFacts, DisplayedStatus
  <2>3. /\ row.status \notin Gates \cup {"queued"}
        /\ row.status = "failed" => ckpt.vals.status = "failed"
        /\ row.status = "completed"
             => ckpt.next = End /\ ckpt.vals.status = "completed"
    BY <2>1, DriverFacts DEF AtWork, Shown
  <2>4. UpdateStatusAndCounts(d, ckpt.vals.error, ckpt.vals)
    BY <1>2 DEF Sync
  <2> HIDE DEF d
  <2>5. ckpt.vals.error \in BOOLEAN /\ ckpt.vals \in Values
    BY <2>1, DriverFacts DEF Values
  <2>6. row'.exists /\ row'.status = d
    BY <2>1, <2>2, <2>4, <2>5, DriverFacts, StatusUpdates
  <2>7. CASE row.status \in {"completed", "failed"}
    <3>1. row'.status = row.status
      BY <2>2, <2>3, <2>6, <2>7
    <3> QED
      BY <2>3, <2>6, <2>7, <3>1, CardShows
  <2>8. CASE row.status \notin {"completed", "failed"}
    <3>1. Card = "running"
      BY <2>3, <2>8, CardShows DEF AtRest
    <3>2. Card' \in {"running", "completed", "failed"}
      BY <2>2, <2>6, CardShows DEF AtRest
    <3> QED
      BY <3>1, <3>2 DEF Board!Next, Board!Finish, Board!Fail
  <2> QED
    BY <2>7, <2>8
<1>3. CASE FailStalled(t) \/ MarkFailed(t)
  <2>1. Working(t) /\ UpdateStatus("failed", TRUE)
    BY <1>3 DEF FailStalled, MarkFailed, Working
  <2>2. row'.exists /\ row'.status = "failed"
    BY <2>1, DriverFacts, StatusUpdates, GateNamesAreNotStatuses
  <2>3. Card' = "failed"
    BY <2>2, CardShows
  <2>4. row.status \notin Gates \cup {"queued"}
    BY <2>1, NobodyAsks
  <2>5. Card \in {"running", "completed", "failed"}
    BY <2>4, CardShows DEF AtRest
  <2> QED
    BY <2>3, <2>5 DEF Board!Next, Board!Fail
<1>4. CASE BeginReview(t)
  <2>1. Working(t) /\ ckpt.next \in ckpt.vals.gates
    BY <1>4 DEF BeginReview, Working
  <2>2. ckpt.next \in Gates
    BY <2>1, DriverFacts DEF Values
  <2> DEFINE d == Reviewing[ckpt.next]
  <2>3. UpdateStatus(d, FALSE)
    BY <1>4 DEF BeginReview
  <2>4. d \in RowStatuses /\ d \notin AtRest
    BY <2>2, GateNamesAreNotStatuses
  <2> HIDE DEF d
  <2>5. row'.exists /\ row'.status = d
    BY <2>1, <2>3, <2>4, DriverFacts, StatusUpdates
  <2> QED
    BY <2>1, <2>2, <2>4, <2>5, AtGateRuns, CardShows
<1>5. CASE Park(t)
  <2>1. Working(t) /\ tasks[t].pc = "park"
    BY <1>5 DEF Park, Working
  <2>2. /\ tasks[t].vals = ckpt.vals /\ tasks[t].next = ckpt.next
        /\ ckpt.next \in Gates
    BY <2>1, DriverFacts DEF AtWork, Values
  <2>3. UpdateStatusAndCounts(ckpt.next, FALSE, ckpt.vals)
    BY <1>5, <2>2 DEF Park
  <2>4. ckpt.next \in RowStatuses
    BY <2>2 DEF RowStatuses
  <2>5. row'.exists /\ row'.status = ckpt.next
    BY <2>1, <2>3, <2>4, DriverFacts, StatusUpdates
  <2> QED
    BY <2>1, <2>2, <2>5, AtGateRuns, CardShows DEF Board!Next, Board!Pause
<1>6. row' = row \/ Sync(t) \/ FailStalled(t) \/ MarkFailed(t) \/ BeginReview(t)
        \/ Park(t)
  BY DEF Drive, OpenFresh, OpenResume, RunNode, EndRun, SkipDisabled, HandOver,
         AutoApply, ReadPause, Raise
<1> QED
  BY <1>1, <1>2, <1>3, <1>4, <1>5, <1>6

\* A session starts a run from the queue or after a failure, resumes one that
\* waits, and removes the card.
LEMMA SessionKeepsPromise ==
    ASSUME Inv, NEW a \in Analysts, Handle(a) \/ Request(a)
    PROVE  Board!Next \/ Card' = Card
<1> SUFFICES ASSUME row.exists PROVE Board!Next \/ Card' = Card
  BY GoneForGood, CardShows
<1>1. ASSUME NEW gates \in GateChoices, StartRun(a, gates)
      PROVE  Board!Next
  <2>1. row.exists /\ row.status \in RestartableStatuses
    BY <1>1, SessionFacts DEF StartRun, Asked
  <2>2. row'.exists /\ row'.status = "parsing"
    BY <1>1, <2>1 DEF StartRun, NewRow
  <2>3. "parsing" \notin AtRest
    BY DEF AtRest, Gates
  <2> QED
    BY <2>1, <2>2, <2>3, CardShows DEF RestartableStatuses, Board!Next, Board!Launch
<1>2. CASE FlipAndResume(a)
  <2> DEFINE g == page[a].gate
             d == Resuming[g]
  <2>1. g \in Gates /\ row.status = g /\ UpdateStatus(d, FALSE)
    BY <1>2, SessionFacts DEF FlipAndResume, Asked
  <2>2. row \in Rows
    BY SessionFacts
  <2>3. d \in RowStatuses /\ d \notin AtRest
    BY <2>1, GateNamesAreNotStatuses
  <2> HIDE DEF d
  <2>4. row'.exists /\ row'.status = d
    BY <2>1, <2>2, <2>3, StatusUpdates
  <2> QED
    BY <2>1, <2>2, <2>3, <2>4, CardShows DEF Board!Next, Board!Resume
<1>3. CASE DeleteSource(a)
  <2>1. row.exists /\ ~row'.exists
    BY <1>3 DEF DeleteSource, NewRow
  <2>2. Card # "removed"
    BY <2>1, CardShows DEF AtRest
  <2> QED
    BY <2>1, <2>2, CardShows DEF Board!Next, Board!Remove
<1>4. row' = row \/ FlipAndResume(a) \/ DeleteSource(a)
        \/ \E gates \in GateChoices : StartRun(a, gates)
  BY DEF Handle, Request, WriteSubmission, RequestRun, OpenReview, RequestSubmit
<1> QED
  BY <1>1, <1>2, <1>3, <1>4, CardShows

\* The lifecycle keeps the board's promise: no interleaving of sessions and
\* drivers, no exception and no restart moves a card except as SourceCard says.
\* (That every run comes to rest is a liveness property, checked by TLC only.)
THEOREM BoardSafetyHolds == ASSUME Serial PROVE Spec => Board!Safety
<1>1. Init => Board!Init
  BY DEF Init, NewRow, Card, Board!Init, Gates
<1>2. Inv /\ [Next]_vars => [Board!Next]_Card
  <2> SUFFICES ASSUME Inv, [Next]_vars PROVE Board!Next \/ Card' = Card
    OBVIOUS
  <2>1. UNCHANGED vars \/ Restart => row' = row
    BY DEF vars, Restart
  <2> QED
    BY <2>1, DriverKeepsPromise, SessionKeepsPromise, CardShows DEF Next
<1> QED
  BY <1>1, <1>2, InvHolds, PTL DEF Spec, Board!Safety

=============================================================================
