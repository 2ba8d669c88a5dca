---------------------------- MODULE FeedbackLoop ----------------------------
(***************************************************************************)
(* The feedback flywheel.  LLM nodes of a run put the learned rules into   *)
(* their prompts (a TTL cache in front of the table) and enter each one    *)
(* into the surfacing ledger; when the run is over synthesize_feedback     *)
(* closes the ledger's open rows as hit, miss or unscored, keeps the       *)
(* corrections as examples and lets an LLM write new rules from them.      *)
(* Several runs do this at once, against one database and one cache, with  *)
(* the database read before an await and written after it; an analyst      *)
(* promotes and dismisses rules meanwhile.                                 *)
(*                                                                         *)
(* A correction is named by the rule it is an instance of.                 *)
(***************************************************************************)
EXTENDS Naturals, Sequences, FiniteSetsExt

CONSTANTS
    Sources,        \* sources whose runs overlap
    Rules,          \* rule texts
    TextOf,         \* source -> its article, which the cache fingerprints
    AreaOf,         \* rule -> its category, by the gate area it belongs to
    Attendances,    \* sets of areas whose gates a person may attend in a run
    Fetches,        \* the nodes of a run that fetch rules of these areas, in order
    InitialRules,   \* rules already in the table, active
    Answers,        \* what the LLM of a synthesis may answer: sequences of rules
    MaxUpsets       \* bound: faults, promotions and dismissals, gates that send back

Areas == {AreaOf[r] : r \in Rules}

ASSUME InputsAssumption ==
    /\ InitialRules \subseteq Rules /\ IsFiniteSet(InitialRules)
    /\ Answers \subseteq Seq(Rules)
    /\ MaxUpsets \in Nat

VARIABLES
    pats,       \* FeedbackPattern rows; the index is the id
    surf,       \* FeedbackPatternSurfacing rows
    examples,   \* FeedbackExample rows: correction -> the sources it was kept from
    cache,      \* _RELEVANT_CACHE: <<source, fetch>> -> surfaced ids
    run,        \* source -> where its run is and what it holds across awaits
    upsets      \* counts them

vars == <<pats, surf, examples, cache, run, upsets>>

Open == "open"
NewRow(r) == [rule |-> r, occ |-> 1, hits |-> 0, misses |-> 0, status |-> "active"]

StartRun ==
    [pc |-> "fetch", pass |-> 1, fetch |-> 1, shown |-> {}, attended |-> {},
     denied |-> {}, decisions |-> {}, held |-> {}, rows |-> {}, wrote |-> <<>>, at |-> 1, id |-> 0,
     occ |-> 0, lost |-> FALSE]

Init ==
    /\ \E order \in [1..Cardinality(InitialRules) -> InitialRules] :
          /\ \A r \in InitialRules : \E i \in DOMAIN order : order[i] = r
          /\ pats = [i \in DOMAIN order |-> NewRow(order[i])]
    /\ surf = {} /\ cache = [k \in {} |-> {}]
    /\ examples = [r \in Rules |-> {}]
    /\ run = [s \in Sources |-> StartRun]
    /\ upsets = 0

Upset == upsets < MaxUpsets /\ upsets' = upsets + 1

(***************************************************************************)
(* A fetch: relevant_addendum_cached                                       *)
(***************************************************************************)
KeyOfNode(s)   == <<"any", Fetches[run[s].fetch]>>
CacheKey(s)    == <<TextOf[s], Fetches[run[s].fetch]>>
WithStatus(ss) == {i \in DOMAIN pats : pats[i].status \in ss}

\* A node loads the denylist too, and what it names is tagged for removal.
Denylisted     == {pats[i].rule : i \in WithStatus({"promoted_to_denylist"})}
NextFetch(w)   == [w EXCEPT !.denied = Denylisted, !.held = {},
                            !.pc = IF w.fetch = Len(Fetches) THEN "review" ELSE "fetch",
                            !.fetch = IF w.fetch = Len(Fetches) THEN @ ELSE @ + 1]

\* Within the TTL the text comes from the cache; its surfacings were entered by
\* the miss that filled it.
FetchHit(s) ==
    /\ run[s].pc = "fetch" /\ CacheKey(s) \in DOMAIN cache
    /\ run' = [run EXCEPT ![s] = [NextFetch(run[s]) EXCEPT !.shown = @ \cup cache[CacheKey(s)]]]
    /\ UNCHANGED <<pats, surf, examples, cache, upsets>>

\* The relevance pool is read first, the permanent rules behind another await.
ReadCandidates(s) ==
    /\ run[s].pc = "fetch" /\ CacheKey(s) \notin DOMAIN cache
    /\ run' = [run EXCEPT ![s].pc = "pinned",
                          ![s].held = WithStatus({"active", "promoted_to_denylist"})]
    /\ UNCHANGED <<pats, surf, examples, cache, upsets>>

\* The result is cached and every surfaced rule entered into the ledger.  The
\* rows of a source are read and written by its own run only, so the await
\* between the two is not a step of its own.
Remember(s, ids) ==
    cache' = [k \in DOMAIN cache \cup {CacheKey(s)} |->
                 IF k = CacheKey(s) THEN ids ELSE cache[k]]
ReadPinned(s) ==
    LET ids == run[s].held \cup WithStatus({"promoted_to_prompt"}) IN
    /\ run[s].pc = "pinned"
    /\ Remember(s, ids)
    /\ surf' = surf \cup [s : {s}, node : {Fetches[run[s].fetch]}, pat : ids,
                          pass : {run[s].pass}, outcome : {Open}]
    /\ run' = [run EXCEPT ![s] = [NextFetch(run[s]) EXCEPT !.shown = @ \cup ids]]
    /\ UNCHANGED <<pats, examples, upsets>>

\* The ledger is best-effort: the prompt is shown all the same.
RecordFails(s) ==
    LET ids == run[s].held \cup WithStatus({"promoted_to_prompt"}) IN
    /\ run[s].pc = "pinned" /\ Upset
    /\ Remember(s, ids)
    /\ run' = [run EXCEPT ![s] = [NextFetch(run[s]) EXCEPT !.shown = @ \cup ids, !.lost = TRUE]]
    /\ UNCHANGED <<pats, surf, examples>>

\* A failed read shows no rules, and that is cached too.
ReadFails(s) ==
    /\ run[s].pc \in {"fetch", "pinned"} /\ CacheKey(s) \notin DOMAIN cache
    /\ Upset
    /\ Remember(s, {})
    /\ run' = [run EXCEPT ![s] = NextFetch(run[s])]
    /\ UNCHANGED <<pats, surf, examples>>

(***************************************************************************)
(* The reviews of the run, and what counts as a correction                 *)
(***************************************************************************)
\* A denylisted entity is removed by the machine, whoever attends the gate.
Decisions == [rule : Rules, by : {"review", "denylist"}]

\* A gate sends the run back and its nodes fetch again, within the TTL of what
\* they cached or after it.
Rerun(s) ==
    /\ run[s].pc = "review" /\ Upset
    /\ run' = [run EXCEPT ![s].pc = "fetch", ![s].fetch = 1, ![s].pass = @ + 1]
    /\ \E lapsed \in SUBSET {k \in DOMAIN cache : k[1] = TextOf[s]} :
          cache' = [k \in DOMAIN cache \ lapsed |-> cache[k]]
    /\ UNCHANGED <<pats, surf, examples>>

\* gate_modes and gates_enabled say which gates a person attends.  An unattended
\* gate may still be decided, by the AI reviewer.
Review(s) ==
    /\ run[s].pc = "review"
    /\ \E att \in Attendances, ds \in SUBSET Decisions :
          /\ \A d, e \in ds : d.rule = e.rule => d = e
          /\ \A d \in ds : d.by = "denylist" => d.rule \in run[s].denied
          /\ run' = [run EXCEPT ![s].pc = "score", ![s].attended = att,
                                ![s].decisions = ds]
    /\ UNCHANGED <<pats, surf, examples, cache, upsets>>

DeltasWithDenylist(w) == {d.rule : d \in w.decisions}
Deltas(w) == {d.rule : d \in {e \in w.decisions : e.by # "denylist"}}

(***************************************************************************)
(* _score_surfacings                                                       *)
(***************************************************************************)
IsScoreableAlways(w, r) == TRUE
IsScoreable(w, r) == AreaOf[r] \in w.attended

\* The open rows and their patterns are read; then the adjudicator is awaited.
ReadSurfacings(s) ==
    /\ run[s].pc = "score"
    /\ run' = [run EXCEPT ![s].pc = "close",
                          ![s].rows = {x \in surf : x.s = s /\ x.outcome = Open},
                          ![s].held = {[i |-> i, row |-> pats[i]] :
                              i \in {x.pat : x \in {y \in surf : y.s = s /\ y.outcome = Open}}}]
    /\ UNCHANGED <<pats, surf, examples, cache, upsets>>

\* The adjudicator is given the rules that can be judged and the corrections of
\* their areas, and may charge any of the rules for any of the corrections; with
\* none it is not asked.  When it fails, a rule can only be charged for a
\* correction of its own area, which its keywords or embedding may match.
Judged(w)    == {h \in w.held : IsScoreable(w, h.row.rule)}
Corrected(w) == {AreaOf[r] : r \in Deltas(w)}
Fallback(w)  == {h \in Judged(w) : AreaOf[h.row.rule] \in Corrected(w)}
Attributable(w) ==
    {h.i : h \in IF Fallback(w) = {} THEN {} ELSE Judged(w)}

Outcome(w, h, missed) ==
    IF ~IsScoreable(w, h.row.rule) THEN "unscored"
    ELSE IF h.i \in missed THEN "miss" ELSE "hit"

\* One commit: each pattern counts once for all its rows, from the counters that
\* were read before the await, and every row that was read is closed.
CountPerRow(w, i) == Cardinality({x \in w.rows : x.pat = i})
Count(w, i)       == 1
JudgedRows(w)     == {x \in w.rows : \E h \in Judged(w) : h.i = x.pat}
ClosedRows(w)     == w.rows

Close(s) ==
    LET w == run[s] IN
    /\ w.pc = "close"
    /\ \E missed \in SUBSET Attributable(w) :
          LET out(i) == Outcome(w, CHOOSE h \in w.held : h.i = i, missed)
              was(i) == (CHOOSE h \in w.held : h.i = i).row
              ids    == {h.i : h \in w.held}
          IN  /\ pats' = [i \in DOMAIN pats |->
                    IF i \notin ids \/ out(i) = "unscored" THEN pats[i]
                    ELSE IF out(i) = "miss"
                         THEN [pats[i] EXCEPT !.misses = was(i).misses + Count(w, i)]
                         ELSE [pats[i] EXCEPT !.hits = was(i).hits + Count(w, i)]]
              /\ surf' = (surf \ ClosedRows(w)) \cup
                    {[x EXCEPT !.outcome = out(x.pat)] : x \in ClosedRows(w)}
    /\ run' = [run EXCEPT ![s].pc = "learn", ![s].held = {}, ![s].rows = {}]
    /\ UNCHANGED <<examples, cache, upsets>>

\* Never raises: the rows stay open and the node goes on.
ScoreFails(s) ==
    /\ run[s].pc \in {"score", "close"} /\ Upset
    /\ run' = [run EXCEPT ![s].pc = "learn", ![s].held = {}, ![s].rows = {},
                          ![s].lost = TRUE]
    /\ UNCHANGED <<pats, surf, examples, cache>>

(***************************************************************************)
(* record_examples and the synthesis                                       *)
(***************************************************************************)
\* Without a correction the synthesis is skipped, whether or not anybody
\* reviewed.  Only corrections of gates a person attended become examples.  What
\* the LLM answers is its own: any rules of any area, as many as it likes, one more
\* than once; those below the confidence floor, or too short, are left out.
ExampleAreas  == {"entities", "chunks", "techniques"}
ExamplesOf(w) == {r \in Deltas(w) : AreaOf[r] \in w.attended \cap ExampleAreas}
PersistExamples(s, rows) ==
    examples' = [r \in Rules |->
                    IF r \in rows THEN examples[r] \cup {s} ELSE examples[r]]
Learn(s) ==
    LET w == run[s] IN
    /\ w.pc = "learn"
    /\ \/ PersistExamples(s, ExamplesOf(w)) /\ UNCHANGED upsets
       \/ UNCHANGED examples /\ Deltas(w) # {} /\ Upset    \* record_examples fails
    /\ \E rs \in Answers :
          /\ rs # <<>> => Deltas(w) # {}
          /\ run' = [run EXCEPT ![s].pc = IF rs = <<>> THEN "done" ELSE "lookup",
                                ![s].wrote = rs, ![s].at = 1, ![s].id = 0, ![s].occ = 0]
    /\ UNCHANGED <<pats, surf, cache>>

(***************************************************************************)
(* persist_pattern, once for each rule of the answer: a lookup, an await,  *)
(* a commit                                                                *)
(***************************************************************************)
Exact(r)   == {i \in DOMAIN pats : pats[i].rule = r}
Similar(r) == {i \in DOMAIN pats : pats[i].rule # r /\ AreaOf[pats[i].rule] = AreaOf[r]}

\* One exact row is the row; several raise (scalar_one_or_none) and end the
\* synthesis; with none a near-duplicate of the category may be taken for it.  The
\* session still holds the row it wrote last, and does not read over what it holds.
Counts(w, i) ==
    IF i = 0 THEN {0} ELSE {pats[i].occ} \cup {o \in {w.occ} : i = w.id}
Takes(r) ==
    CASE Cardinality(Exact(r)) = 1 -> Exact(r)
      [] Exact(r) = {}             -> Similar(r) \cup {0}
      [] OTHER                     -> {}
Lookup(s) ==
    LET w == run[s]
        r == w.wrote[w.at]
    IN
    /\ w.pc = "lookup"
    /\ \/ \E i \in Takes(r) : \E o \in Counts(w, i) :
              run' = [run EXCEPT ![s].pc = "commit", ![s].id = i, ![s].occ = o]
       \/ /\ Cardinality(Exact(r)) > 1
          /\ run' = [run EXCEPT ![s].pc = "done", ![s].id = 0, ![s].occ = 0]
    /\ UNCHANGED <<pats, surf, examples, cache, upsets>>

\* A recurrence is counted on the value that was read, whatever the status of
\* the row; else the rule is inserted, active.  The refresh of the row is part of
\* the step.
Commit(s) ==
    LET w    == run[s]
        over == w.at = Len(w.wrote)
    IN
    /\ w.pc = "commit"
    /\ pats' = IF w.id = 0 THEN Append(pats, NewRow(w.wrote[w.at]))
               ELSE [pats EXCEPT ![w.id].occ = w.occ + 1]
    /\ run' = [run EXCEPT ![s].pc = IF over THEN "done" ELSE "lookup",
                          ![s].at = w.at + 1,
                          ![s].id = IF over THEN 0
                                    ELSE IF w.id = 0 THEN Len(pats) + 1 ELSE w.id,
                          ![s].occ = IF over THEN 0 ELSE w.occ + 1]
    /\ UNCHANGED <<surf, examples, cache, upsets>>

\* Any exception: what was committed stays, the rules left are lost.
SynthesisFails(s) ==
    /\ run[s].pc \in {"lookup", "commit"} /\ Upset
    /\ run' = [run EXCEPT ![s].pc = "done", ![s].id = 0, ![s].occ = 0]
    /\ UNCHANGED <<pats, surf, examples, cache>>

\* promote_pattern and dismiss_pattern commit and clear the caches.
Decide(i) ==
    /\ i \in DOMAIN pats /\ Upset
    /\ \E st \in {"promoted_to_prompt", "promoted_to_denylist", "dismissed"} :
          pats' = [pats EXCEPT ![i].status = st]
    /\ cache' = [k \in {} |-> {}]
    /\ UNCHANGED <<surf, examples, run>>

Step(s) ==
    \/ FetchHit(s) \/ ReadCandidates(s) \/ ReadPinned(s) \/ ReadFails(s)
    \/ RecordFails(s) \/ Review(s) \/ ReadSurfacings(s) \/ Close(s)
    \/ ScoreFails(s) \/ Learn(s) \/ Lookup(s) \/ Commit(s) \/ SynthesisFails(s)

Next ==
    \/ \E s \in Sources : Step(s) \/ Rerun(s)
    \/ \E i \in 1..Len(pats) : Decide(i)

Spec == Init /\ [][Next]_vars

(***************************************************************************)
(* Properties                                                              *)
(***************************************************************************)
\* A rule is credited or charged only by a run in which a person attended the
\* gate of its area, and charged only if a gate somebody attended corrected
\* something; no example is kept from a gate nobody attended.
EvidenceIsHuman ==
    \A s \in Sources :
        /\ \A x \in surf :
              (x.s = s /\ x.outcome \in {"hit", "miss"}) =>
                 /\ AreaOf[pats[x.pat].rule] \in run[s].attended
                 /\ x.outcome = "miss" => \E d \in run[s].decisions :
                        d.by = "review" /\ AreaOf[d.rule] \in run[s].attended
        /\ \A r \in Rules : s \in examples[r] => AreaOf[r] \in run[s].attended

\* However many nodes showed a rule, and however runs interleave, its counters
\* never claim more reviews than there were runs that judged it.
CountersWithinEvidence ==
    \A i \in DOMAIN pats :
        pats[i].hits + pats[i].misses <=
            Cardinality({x.s : x \in {y \in surf :
                y.pat = i /\ y.outcome \in {"hit", "miss"}}})

\* However runs that write the same rows interleave, no rule a synthesis wrote is
\* counted twice, in two rows or on a count another run moved meanwhile; and only
\* a run that was corrected in review writes any: the machine's own denylist
\* removals never feed back into the rules they came from.
Recurrences(a) ==
    UNION {{i} \X (1 .. pats[i].occ) : i \in {j \in DOMAIN pats : AreaOf[pats[j].rule] = a}}
Reviewed(s) == \E d \in run[s].decisions : d.by = "review"
WrittenBy(s, a) == {k \in 1 .. (run[s].at - 1) : Reviewed(s) /\ AreaOf[run[s].wrote[k]] = a}
Written(a) == UNION {{s} \X WrittenBy(s, a) : s \in Sources}
OccurrencesAreWritten ==
    \A a \in Areas :
        Cardinality(Recurrences(a)) <=
            Cardinality({r \in InitialRules : AreaOf[r] = a}) + Cardinality(Written(a))

\* "Bumped each time the same pattern recurs across runs"
\* (models/feedback_pattern.py:158): a rule has recurred no more often than there
\* were runs that wrote one of its area.  The code does not keep this: an answer
\* that repeats a rule, or says it in other words, bumps it each time.
OccurrencesAreRuns ==
    \A i \in DOMAIN pats :
        pats[i].occ <= 1 + Cardinality({s \in Sources : WrittenBy(s, AreaOf[pats[i].rule]) # {}})

\* Every rule a prompt of the run carried is in the ledger for its source,
\* unless entering it failed; the cache never serves what nobody recorded.
ShownIsLedgered ==
    \A s \in Sources : ~run[s].lost =>
        \A i \in run[s].shown : \E x \in surf : x.s = s /\ x.pat = i

\* A run that has been scored leaves no open row of its source, its reruns'
\* included, unless the scoring itself failed.
LedgerIsClosed ==
    \A s \in Sources :
        (run[s].pc \in {"learn", "lookup", "commit", "done"} /\ ~run[s].lost)
            => \A x \in surf : x.s = s => x.outcome # Open

=============================================================================
