------------------------- MODULE FeedbackLoop_proofs -------------------------
(***************************************************************************)
(* What the flywheel's evidence rests on, for any sources, rules, areas,   *)
(* texts and gates, any number of faults, promotions and reruns, and any   *)
(* interleaving of the runs over the one database and the one cache.       *)
(***************************************************************************)
EXTENDS FeedbackLoop, FiniteSetTheorems, SequenceTheorems, TLAPS

Statuses == {"active", "promoted_to_prompt", "promoted_to_denylist", "dismissed"}
Row      == [rule : Rules, occ : Nat, hits : Nat, misses : Nat, status : Statuses]
Copy     == [i : Nat, row : Row]
Outcomes == {"open", "hit", "miss", "unscored"}
Entry    == [s : Sources, node : {Fetches[k] : k \in Nat}, pat : Nat, pass : Nat,
             outcome : Outcomes]
Early    == {"fetch", "pinned", "review", "score", "close"}
Scored   == {"learn", "lookup", "commit", "done"}
Work     == [pc : Early \cup Scored, pass : Nat, fetch : Nat, shown : SUBSET Nat,
             attended : Attendances \cup {{}}, denied : SUBSET Rules,
             decisions : SUBSET Decisions, held : SUBSET (Nat \cup Copy),
             rows : SUBSET Entry, wrote : Seq(Rules), at : Nat, id : Nat, occ : Nat,
             lost : BOOLEAN]

\* The sources whose run gave rule i the outcome o.
Graded(i, o) == {x.s : x \in {y \in surf : y.pat = i /\ y.outcome = o}}

Tables ==
    /\ pats \in Seq(Row) /\ surf \subseteq Entry
    /\ examples \in [Rules -> SUBSET Sources]
    /\ run \in [Sources -> Work]
    /\ \A x \in surf : x.pat \in DOMAIN pats
    /\ \A k \in DOMAIN cache : cache[k] \subseteq DOMAIN pats

\* No run gives a rule two outcomes, and a counter is behind its evidence, never
\* ahead: a run that commits a counter it read too early loses counts.
Counted ==
    \A i \in DOMAIN pats :
        /\ IsFiniteSet(Graded(i, "hit")) /\ IsFiniteSet(Graded(i, "miss"))
        /\ Graded(i, "hit") \cap Graded(i, "miss") = {}
        /\ pats[i].hits <= Cardinality(Graded(i, "hit"))
        /\ pats[i].misses <= Cardinality(Graded(i, "miss"))

\* A copy of a rule's row that was taken before an await.
Copied(h) ==
    /\ h.i \in DOMAIN pats /\ h \in Copy
    /\ h.row.rule = pats[h.i].rule
    /\ h.row.hits <= Cardinality(Graded(h.i, "hit"))
    /\ h.row.misses <= Cardinality(Graded(h.i, "miss"))

\* What the run of s holds across its awaits: what it read is still true, or was.
Holding(s, w) ==
    /\ w.pc = "pinned" => w.held \subseteq DOMAIN pats
    /\ w.pc = "close" =>
          /\ w.rows = {x \in surf : x.s = s /\ x.outcome = Open}
          /\ \A h \in w.held : Copied(h)
          /\ \A g, h \in w.held : g.i = h.i => g = h
          /\ \A x \in w.rows : \E h \in w.held : h.i = x.pat
          /\ \A h \in w.held : \E x \in w.rows : h.i = x.pat
    /\ w.pc \in {"lookup", "commit"} =>
          w.id \in {0} \cup DOMAIN pats /\ w.at \in DOMAIN w.wrote

\* Until its surfacings are closed, a run has said nothing of any rule.
Unjudged(s, w) ==
    w.pc \in Early => /\ \A x \in surf : x.s = s => x.outcome = Open
                      /\ \A r \in Rules : s \notin examples[r]

Human(s, w) ==
    /\ \A x \in surf :
          (x.s = s /\ x.outcome \in {"hit", "miss"}) =>
             /\ AreaOf[pats[x.pat].rule] \in w.attended
             /\ x.outcome = "miss" => \E d \in w.decisions :
                    d.by = "review" /\ AreaOf[d.rule] \in w.attended
    /\ \A r \in Rules : s \in examples[r] => AreaOf[r] \in w.attended

Closed(s, w) ==
    w.pc \in Scored /\ ~w.lost => \A x \in surf : x.s = s => x.outcome # Open

RunInv(s, w) == Holding(s, w) /\ Unjudged(s, w) /\ Human(s, w) /\ Closed(s, w)

Inv == Tables /\ Counted /\ \A s \in Sources : RunInv(s, run[s])

-----------------------------------------------------------------------------
\* Who graded a rule only grows while the tables grow and keep the rules' texts;
\* what another run holds or has said stands.
LEMMA OthersUndisturbed ==
    ASSUME Tables, Tables', NEW u \in Sources, NEW w, RunInv(u, w),
           \A i \in DOMAIN pats : i \in DOMAIN pats' /\ pats'[i].rule = pats[i].rule,
           \A i \in DOMAIN pats : \A o \in {"hit", "miss"} :
               Graded(i, o) \subseteq Graded(i, o)' /\ IsFiniteSet(Graded(i, o)'),
           \A x : x.s = u => (x \in surf' <=> x \in surf),
           \A r \in Rules : u \in examples'[r] => u \in examples[r]
    PROVE  RunInv(u, w)'
<1>1. ASSUME NEW i \in DOMAIN pats, NEW o \in {"hit", "miss"}
      PROVE  Cardinality(Graded(i, o)) <= Cardinality(Graded(i, o)')
  BY FS_Subset
<1>2. \A i \in DOMAIN pats, o \in {"hit", "miss"} :
         /\ Cardinality(Graded(i, o)) \in Nat /\ Cardinality(Graded(i, o)') \in Nat
         /\ Cardinality(Graded(i, o)) <= Cardinality(Graded(i, o)')
  BY <1>1, FS_Subset, FS_CardinalityType
<1>3. ASSUME NEW h, Copied(h) PROVE Copied(h)'
  <2>1. h.i \in DOMAIN pats /\ h \in Copy
    BY <1>3 DEF Copied
  <2>2. h.row \in Row
    BY <2>1 DEF Copy
  <2>3. h.row.hits \in Nat /\ h.row.misses \in Nat
    BY <2>2 DEF Row
  <2> QED
    BY <1>2, <1>3, <2>1, <2>3 DEF Copied
<1>4. DOMAIN pats \subseteq DOMAIN pats'
  OBVIOUS
<1>5. Holding(u, w)'
  <2>1. {x \in surf : x.s = u /\ x.outcome = Open} = {x \in surf' : x.s = u /\ x.outcome = Open}
    OBVIOUS
  <2> QED
    BY <1>3, <1>4, <2>1 DEF RunInv, Holding
<1> QED
  BY <1>5 DEF RunInv, Unjudged, Human, Closed, Tables

\* A step of one run leaves the others what they hold and have said.
LEMMA RunStep ==
    ASSUME Inv, Tables', Counted', NEW s \in Sources, NEW k \in Work,
           run' = [run EXCEPT ![s] = k], RunInv(s, k)',
           \A i \in DOMAIN pats : i \in DOMAIN pats' /\ pats'[i].rule = pats[i].rule,
           \A i \in DOMAIN pats : \A o \in {"hit", "miss"} :
               Graded(i, o) \subseteq Graded(i, o)' /\ IsFiniteSet(Graded(i, o)'),
           \A x : x.s # s => (x \in surf' <=> x \in surf),
           \A r \in Rules, u \in Sources \ {s} : u \in examples'[r] => u \in examples[r]
    PROVE  Inv'
<1>1. run \in [Sources -> Work] /\ run'[s] = k
  BY DEF Inv, Tables
<1>2. ASSUME NEW u \in Sources, u # s, NEW w, w = run[u] PROVE RunInv(u, w)'
  <2>1. RunInv(u, w) /\ Tables
    BY <1>2 DEF Inv
  <2>2. \A r \in Rules : u \in examples'[r] => u \in examples[r]
    BY <1>2
  <2> QED
    BY <1>2, <2>1, <2>2, OthersUndisturbed
<1>3. \A u \in Sources \ {s} : run'[u] = run[u]
  BY <1>1
<1>4. ASSUME NEW u \in Sources PROVE RunInv(u, run[u])'
  <2>1. CASE u = s
    BY <1>1, <2>1
  <2>2. CASE u # s
    BY <1>2, <1>3, <2>2
  <2> QED
    BY <2>1, <2>2
<1> QED
  BY <1>4 DEF Inv

\* A step that leaves the tables alone, and decides nothing after the scoring.
LEMMA QuietStep ==
    ASSUME Inv, NEW s \in Sources, NEW w, w = run[s], NEW k \in Work,
           run' = [run EXCEPT ![s] = k], UNCHANGED <<pats, surf, examples>>,
           \A c \in DOMAIN cache' : cache'[c] \subseteq DOMAIN pats,
           w.pc \in Early \/ (k.attended = w.attended /\ k.decisions = w.decisions),
           k.pc \in Early => w.pc \in Early,
           Holding(s, k),
           k.pc \in Scored /\ ~k.lost => w.pc \in Scored /\ ~w.lost
    PROVE  Inv'
<1>1. Tables /\ Counted /\ RunInv(s, w) /\ w \in Work
  BY DEF Inv, Tables
<1>2. Tables'
  BY <1>1 DEF Tables
<1>3. \A i, o : Graded(i, o)' = Graded(i, o)
  BY DEF Graded
<1>4. Counted'
  BY <1>1, <1>3 DEF Counted
<1>5. Holding(s, k)'
  <2>1. \A h : Copied(h)' <=> Copied(h)
    BY <1>3 DEF Copied
  <2> QED
    BY <2>1 DEF Holding
<1>6. Unjudged(s, k)'
  BY <1>1 DEF RunInv, Unjudged
<1>7. Human(s, k)'
  <2>1. CASE w.pc \in Early
    BY <1>1, <2>1 DEF RunInv, Unjudged, Human, Open
  <2>2. CASE k.attended = w.attended /\ k.decisions = w.decisions
    BY <1>1, <2>2 DEF RunInv, Human
  <2> QED
    BY <2>1, <2>2
<1>8. Closed(s, k)'
  BY <1>1 DEF RunInv, Closed
<1>9. \A i \in DOMAIN pats : \A o \in {"hit", "miss"} :
         Graded(i, o) \subseteq Graded(i, o)' /\ IsFiniteSet(Graded(i, o)')
  BY <1>1, <1>3 DEF Counted
<1> QED
  BY <1>2, <1>4, <1>5, <1>6, <1>7, <1>8, <1>9, RunStep DEF RunInv

\* The ids of the table are natural numbers, and its rows are well-formed.
LEMMA PatIds ==
    ASSUME Tables
    PROVE  /\ DOMAIN pats \subseteq Nat
           /\ DOMAIN pats = 1..Len(pats) /\ Len(pats) \in Nat
           /\ \A i \in DOMAIN pats : pats[i] \in Row
           /\ \A ss : WithStatus(ss) \subseteq DOMAIN pats
           /\ Denylisted \subseteq Rules
<1>1. pats \in Seq(Row)
  BY DEF Tables
<1>2. DOMAIN pats = 1..Len(pats) /\ Len(pats) \in Nat
  BY <1>1
<1>3. \A i \in DOMAIN pats : pats[i] \in Row
  BY <1>1, <1>2, ElementOfSeq
<1>4. \A i \in DOMAIN pats : pats[i].rule \in Rules
  BY <1>3 DEF Row
<1>5. \A ss : WithStatus(ss) \subseteq DOMAIN pats
  BY DEF WithStatus
<1> QED
  BY <1>2, <1>3, <1>4, <1>5 DEF Denylisted

\* After a fetch the run fetches again or goes to its review.
LEMMA NextFetchShape ==
    ASSUME Tables, NEW w \in Work, NEW ids \in SUBSET Nat
    PROVE  LET k == [NextFetch(w) EXCEPT !.shown = @ \cup ids]
           IN  /\ NextFetch(w) \in Work /\ NextFetch(w).pc \in {"fetch", "review"}
               /\ NextFetch(w).lost = w.lost /\ NextFetch(w).shown = w.shown
               /\ NextFetch(w).attended = w.attended
               /\ NextFetch(w).decisions = w.decisions /\ NextFetch(w).at = w.at
               /\ k \in Work /\ k.pc \in {"fetch", "review"} /\ k.lost = w.lost
               /\ k.shown = w.shown \cup ids
               /\ k.attended = w.attended /\ k.decisions = w.decisions /\ k.at = w.at
<1> DEFINE p == IF w.fetch = Len(Fetches) THEN "review" ELSE "fetch"
           f == IF w.fetch = Len(Fetches) THEN w.fetch ELSE w.fetch + 1
           d == Denylisted
           n == [w EXCEPT !.denied = d, !.held = {}, !.pc = p, !.fetch = f]
           k == [n EXCEPT !.shown = @ \cup ids]
<1>1. NextFetch(w) = n
  BY DEF NextFetch, Work
<1>2. p \in {"fetch", "review"} /\ f \in Nat /\ d \subseteq Rules
  BY PatIds DEF Work
<1> HIDE DEF p, f, d
<1>3. /\ n \in Work /\ n.pc = p /\ n.lost = w.lost /\ n.shown = w.shown
      /\ n.attended = w.attended /\ n.decisions = w.decisions /\ n.at = w.at
  BY <1>2 DEF Work, Early
<1> HIDE DEF n
<1>4. /\ k \in Work /\ k.pc = n.pc /\ k.lost = n.lost /\ k.shown = n.shown \cup ids
      /\ k.attended = n.attended /\ k.decisions = n.decisions /\ k.at = n.at
  BY <1>3 DEF Work
<1> QED
  BY <1>1, <1>2, <1>3, <1>4

\* Facts about the run that takes a step.
LEMMA RunFacts ==
    ASSUME Inv, NEW s \in Sources
    PROVE  /\ run[s] \in Work /\ RunInv(s, run[s]) /\ Tables /\ Counted
           /\ run \in [Sources -> Work]
           /\ \A c \in DOMAIN cache : cache[c] \subseteq DOMAIN pats
           /\ \A c \in DOMAIN cache : cache[c] \in SUBSET Nat
<1>1. /\ run[s] \in Work /\ RunInv(s, run[s]) /\ Tables /\ Counted
      /\ run \in [Sources -> Work]
      /\ \A c \in DOMAIN cache : cache[c] \subseteq DOMAIN pats
  BY DEF Inv, Tables
<1> QED
  BY <1>1, PatIds

\* A fetch served from the cache.
LEMMA InvFetchHit ==
    ASSUME Inv, NEW s \in Sources, FetchHit(s)
    PROVE  Inv'
<1> DEFINE ids == cache[CacheKey(s)]
<1>1. PICK w \in Work : w = run[s]
  BY RunFacts
<1> DEFINE k == [NextFetch(w) EXCEPT !.shown = @ \cup ids]
<1>2. /\ w.pc = "fetch" /\ run' = [run EXCEPT ![s] = k]
      /\ UNCHANGED <<pats, surf, examples, cache>>
      /\ CacheKey(s) \in DOMAIN cache
  BY <1>1, RunFacts DEF FetchHit
<1>3. /\ k \in Work /\ k.pc \in {"fetch", "review"} /\ k.lost = w.lost
      /\ k.attended = w.attended /\ k.decisions = w.decisions
  BY <1>2, RunFacts, NextFetchShape
<1> HIDE DEF k
<1>4. Holding(s, k)
  BY <1>3 DEF Holding
<1> QED
  BY <1>1, <1>2, <1>3, <1>4, RunFacts, QuietStep DEF Early, Scored

\* The rules read for a prompt are in the table.
LEMMA InvReadCandidates ==
    ASSUME Inv, NEW s \in Sources, ReadCandidates(s)
    PROVE  Inv'
<1>1. PICK w \in Work : w = run[s]
  BY RunFacts
<1> DEFINE ids == WithStatus({"active", "promoted_to_denylist"})
           k == [w EXCEPT !.pc = "pinned", !.held = ids]
<1>2. /\ w.pc = "fetch" /\ run' = [run EXCEPT ![s] = k]
      /\ UNCHANGED <<pats, surf, examples, cache>>
  BY <1>1, RunFacts DEF ReadCandidates
<1>3. ids \subseteq DOMAIN pats /\ ids \subseteq Nat
  BY RunFacts, PatIds
<1> HIDE DEF ids
<1>4. /\ k \in Work /\ k.pc = "pinned" /\ k.lost = w.lost /\ k.held = ids
      /\ k.attended = w.attended /\ k.decisions = w.decisions
  BY <1>3 DEF Work, Early
<1> HIDE DEF k
<1>5. Holding(s, k)
  BY <1>3, <1>4 DEF Holding
<1> QED
  BY <1>1, <1>2, <1>4, <1>5, RunFacts, QuietStep DEF Early, Scored

\* The rules a fetch has read, and a cache that holds them.
LEMMA Fetched ==
    ASSUME Inv, NEW s \in Sources, run[s].pc = "pinned"
    PROVE  LET ids == run[s].held \cup WithStatus({"promoted_to_prompt"})
           IN  ids \subseteq DOMAIN pats /\ ids \in SUBSET Nat
<1>1. run[s].held \subseteq DOMAIN pats
  BY RunFacts DEF RunInv, Holding
<1> QED
  BY <1>1, RunFacts, PatIds

\* What is remembered of the table's rules keeps the cache to them.
LEMMA Remembered ==
    ASSUME Inv, NEW s \in Sources, NEW ids, ids \subseteq DOMAIN pats, Remember(s, ids)
    PROVE  \A c \in DOMAIN cache' : cache'[c] \subseteq DOMAIN pats
BY RunFacts DEF Remember

\* A surfacing that could not be entered marks the run.
LEMMA InvRecordFails ==
    ASSUME Inv, NEW s \in Sources, RecordFails(s)
    PROVE  Inv'
<1>1. PICK w \in Work : w = run[s]
  BY RunFacts
<1> DEFINE ids == run[s].held \cup WithStatus({"promoted_to_prompt"})
           n == [NextFetch(w) EXCEPT !.shown = @ \cup ids]
           k == [NextFetch(w) EXCEPT !.shown = @ \cup ids, !.lost = TRUE]
<1>2. /\ w.pc = "pinned" /\ run' = [run EXCEPT ![s] = k] /\ Remember(s, ids)
      /\ UNCHANGED <<pats, surf, examples>>
  BY <1>1, RunFacts DEF RecordFails
<1>3. ids \subseteq DOMAIN pats /\ ids \in SUBSET Nat
  BY <1>1, <1>2, Fetched
<1> HIDE DEF ids
<1>4. /\ n \in Work /\ n.pc \in {"fetch", "review"}
      /\ n.attended = w.attended /\ n.decisions = w.decisions
      /\ NextFetch(w) \in Work
  BY <1>3, RunFacts, NextFetchShape
<1>5. k = [n EXCEPT !.lost = TRUE]
  BY <1>4 DEF Work
<1> HIDE DEF n, k
<1>6. /\ k \in Work /\ k.pc \in {"fetch", "review"}
      /\ k.attended = w.attended /\ k.decisions = w.decisions
  BY <1>4, <1>5 DEF Work
<1>7. Holding(s, k)
  BY <1>6 DEF Holding
<1>8. \A c \in DOMAIN cache' : cache'[c] \subseteq DOMAIN pats
  BY <1>2, <1>3, Remembered
<1> QED
  BY <1>1, <1>2, <1>6, <1>7, <1>8, QuietStep DEF Early, Scored

\* A failed read shows nothing.
LEMMA InvReadFails ==
    ASSUME Inv, NEW s \in Sources, ReadFails(s)
    PROVE  Inv'
<1>1. PICK w \in Work : w = run[s]
  BY RunFacts
<1> DEFINE k == NextFetch(w)
<1>2. /\ w.pc \in {"fetch", "pinned"} /\ run' = [run EXCEPT ![s] = k] /\ Remember(s, {})
      /\ UNCHANGED <<pats, surf, examples>>
  BY <1>1, RunFacts DEF ReadFails
<1>3. /\ k \in Work /\ k.pc \in {"fetch", "review"} /\ k.lost = w.lost
      /\ k.attended = w.attended /\ k.decisions = w.decisions
  BY RunFacts, NextFetchShape
<1> HIDE DEF k
<1>4. Holding(s, k)
  BY <1>3 DEF Holding
<1>5. \A c \in DOMAIN cache' : cache'[c] \subseteq DOMAIN pats
  <2>1. {} \subseteq DOMAIN pats
    OBVIOUS
  <2> QED
    BY <1>2, <2>1, Remembered
<1> QED
  BY <1>1, <1>2, <1>3, <1>4, <1>5, QuietStep DEF Early, Scored

\* A gate that sends the run back, which has scored nothing yet.
LEMMA InvRerun ==
    ASSUME Inv, NEW s \in Sources, Rerun(s)
    PROVE  Inv'
<1>1. PICK w \in Work : w = run[s]
  BY RunFacts
<1> DEFINE n == w.pass + 1
           k == [w EXCEPT !.pc = "fetch", !.fetch = 1, !.pass = n]
<1>2. /\ w.pc = "review" /\ run' = [run EXCEPT ![s] = k]
      /\ UNCHANGED <<pats, surf, examples>>
  BY <1>1, RunFacts DEF Rerun
<1>3. \A c \in DOMAIN cache' : c \in DOMAIN cache /\ cache'[c] = cache[c]
  BY DEF Rerun
<1>4. /\ k \in Work /\ k.pc = "fetch"
      /\ k.attended = w.attended /\ k.decisions = w.decisions
  <2>1. n \in Nat /\ 1 \in Nat
    BY DEF Work
  <2> HIDE DEF n
  <2> QED
    BY <2>1 DEF Work, Early
<1> HIDE DEF k
<1>5. Holding(s, k)
  BY <1>4 DEF Holding
<1> QED
  BY <1>1, <1>2, <1>3, <1>4, <1>5, RunFacts, QuietStep DEF Early, Scored

\* The review, before which nobody has judged anything.
LEMMA InvReview ==
    ASSUME Inv, NEW s \in Sources, Review(s)
    PROVE  Inv'
<1>1. PICK w \in Work : w = run[s]
  BY RunFacts
<1>2. PICK att \in Attendances, ds \in SUBSET Decisions :
         /\ w.pc = "review"
         /\ run' = [run EXCEPT ![s].pc = "score", ![s].attended = att, ![s].decisions = ds]
         /\ UNCHANGED <<pats, surf, examples, cache>>
  BY <1>1 DEF Review
<1> DEFINE k == [w EXCEPT !.pc = "score", !.attended = att, !.decisions = ds]
<1>3. run' = [run EXCEPT ![s] = k]
  BY <1>1, <1>2, RunFacts
<1>4. k \in Work /\ k.pc = "score"
  BY DEF Work, Early
<1> HIDE DEF k
<1>5. Holding(s, k)
  BY <1>4 DEF Holding
<1> QED
  BY <1>1, <1>2, <1>3, <1>4, <1>5, RunFacts, QuietStep DEF Early, Scored

\* The open rows are read with a copy of their rules.
LEMMA InvReadSurfacings ==
    ASSUME Inv, NEW s \in Sources, ReadSurfacings(s)
    PROVE  Inv'
<1>1. PICK w \in Work : w = run[s]
  BY RunFacts
<1> DEFINE opened == {x \in surf : x.s = s /\ x.outcome = Open}
           copies == {[i |-> i, row |-> pats[i]] : i \in {x.pat : x \in opened}}
           k == [w EXCEPT !.pc = "close", !.rows = opened, !.held = copies]
<1>2. /\ w.pc = "score" /\ run' = [run EXCEPT ![s] = k]
      /\ UNCHANGED <<pats, surf, examples, cache>>
  BY <1>1, RunFacts DEF ReadSurfacings
<1>3. \A h \in copies : Copied(h) /\ h.row = pats[h.i]
  <2>1. ASSUME NEW x \in opened, NEW h, h = [i |-> x.pat, row |-> pats[x.pat]]
        PROVE  Copied(h) /\ h.row = pats[h.i]
    <3>1. x.pat \in DOMAIN pats /\ x.pat \in Nat /\ pats[x.pat] \in Row
      BY RunFacts, PatIds DEF Tables
    <3>2. h \in Copy /\ h.i = x.pat /\ h.row = pats[x.pat]
      BY <2>1, <3>1 DEF Copy
    <3> QED
      BY <3>1, <3>2, RunFacts DEF Copied, Counted
  <2> HIDE DEF opened
  <2> QED
    BY <2>1
<1>4. /\ \A g, h \in copies : g.i = h.i => g = h
      /\ \A x \in opened : \E h \in copies : h.i = x.pat
      /\ \A h \in copies : \E x \in opened : h.i = x.pat
  <2>1. \A h \in copies : \E x \in opened : h = [i |-> x.pat, row |-> pats[x.pat]]
    OBVIOUS
  <2>2. \A x \in opened : [i |-> x.pat, row |-> pats[x.pat]] \in copies
    OBVIOUS
  <2> HIDE DEF opened, copies
  <2>3. ASSUME NEW g \in copies, NEW h \in copies, g.i = h.i PROVE g = h
    <3>1. PICK x \in opened : g = [i |-> x.pat, row |-> pats[x.pat]]
      BY <2>1
    <3>2. PICK y \in opened : h = [i |-> y.pat, row |-> pats[y.pat]]
      BY <2>1
    <3>3. x.pat = y.pat
      BY <2>3, <3>1, <3>2
    <3> QED
      BY <3>1, <3>2, <3>3
  <2>4. \A x \in opened : \E h \in copies : h.i = x.pat
    BY <2>2
  <2>5. \A h \in copies : \E x \in opened : h.i = x.pat
    BY <2>1
  <2> QED
    BY <2>3, <2>4, <2>5
<1>5. opened \in SUBSET Entry
  BY RunFacts DEF Tables
<1>6. copies \in SUBSET (Nat \cup Copy)
  BY <1>3 DEF Copied
<1> HIDE DEF copies
<1>7. /\ k \in Work /\ k.pc = "close" /\ k.rows = opened /\ k.held = copies
      /\ k.attended = w.attended /\ k.decisions = w.decisions
  <2> HIDE DEF opened
  <2> QED
    BY <1>5, <1>6 DEF Work, Early
<1> HIDE DEF k
<1>8. Holding(s, k)
  <2>1. k.rows = {x \in surf : x.s = s /\ x.outcome = Open}
    BY <1>7
  <2> HIDE DEF opened
  <2> QED
    BY <1>3, <1>4, <1>7, <2>1 DEF Holding
<1> QED
  BY <1>1, <1>2, <1>7, <1>8, RunFacts, QuietStep DEF Early, Scored

\* A scoring that fails leaves its rows open, and says so.
LEMMA InvScoreFails ==
    ASSUME Inv, NEW s \in Sources, ScoreFails(s)
    PROVE  Inv'
<1>1. PICK w \in Work : w = run[s]
  BY RunFacts
<1> DEFINE k == [w EXCEPT !.pc = "learn", !.held = {}, !.rows = {}, !.lost = TRUE]
<1>2. /\ w.pc \in {"score", "close"} /\ run' = [run EXCEPT ![s] = k]
      /\ UNCHANGED <<pats, surf, examples, cache>>
  BY <1>1, RunFacts DEF ScoreFails
<1>3. /\ k \in Work /\ k.pc = "learn" /\ k.lost
  BY DEF Work, Scored
<1> HIDE DEF k
<1>4. Holding(s, k)
  BY <1>3 DEF Holding
<1> QED
  BY <1>1, <1>2, <1>3, <1>4, RunFacts, QuietStep DEF Early, Scored

\* A step of the synthesis that leaves the tables alone.
LEMMA InvLookup ==
    ASSUME Inv, NEW s \in Sources, Lookup(s) \/ SynthesisFails(s)
    PROVE  Inv'
<1>1. PICK w \in Work : w = run[s]
  BY RunFacts
<1>2. w.pc \in {"lookup", "commit"} /\ UNCHANGED <<pats, surf, examples, cache>>
  BY <1>1 DEF Lookup, SynthesisFails
<1>3. ASSUME NEW k \in Work, run' = [run EXCEPT ![s] = k], Holding(s, k),
             k.pc \in Scored, k.lost = w.lost, k.attended = w.attended,
             k.decisions = w.decisions
      PROVE  Inv'
  BY <1>1, <1>2, <1>3, RunFacts, QuietStep DEF Early, Scored
<1>4. CASE SynthesisFails(s)
  <2> DEFINE k == [w EXCEPT !.pc = "done", !.id = 0, !.occ = 0]
  <2>1. run' = [run EXCEPT ![s] = k]
    BY <1>1, <1>4, RunFacts DEF SynthesisFails
  <2>2. /\ k \in Work /\ k.pc = "done" /\ k.lost = w.lost
        /\ k.attended = w.attended /\ k.decisions = w.decisions
    BY DEF Work, Scored
  <2> HIDE DEF k
  <2>3. Holding(s, k)
    BY <2>2 DEF Holding
  <2> QED
    BY <1>3, <2>1, <2>2, <2>3 DEF Scored
<1>5. ASSUME w.pc = "lookup", NEW i \in DOMAIN pats \cup {0}, NEW o \in Nat,
             run' = [run EXCEPT ![s].pc = "commit", ![s].id = i, ![s].occ = o]
      PROVE  Inv'
  <2> DEFINE k == [w EXCEPT !.pc = "commit", !.id = i, !.occ = o]
  <2>1. run' = [run EXCEPT ![s] = k]
    BY <1>1, <1>5, RunFacts
  <2>2. i \in Nat
    BY RunFacts, PatIds
  <2>3. /\ k \in Work /\ k.pc = "commit" /\ k.lost = w.lost /\ k.id = i
        /\ k.wrote = w.wrote /\ k.at = w.at
        /\ k.attended = w.attended /\ k.decisions = w.decisions
    BY <2>2 DEF Work, Scored
  <2> HIDE DEF k
  <2>4. w.at \in DOMAIN w.wrote
    BY <1>1, <1>5, RunFacts DEF RunInv, Holding
  <2>5. Holding(s, k)
    BY <2>3, <2>4 DEF Holding
  <2> QED
    BY <1>3, <2>1, <2>3, <2>5 DEF Scored
<1>6. ASSUME run' = [run EXCEPT ![s].pc = "done", ![s].id = 0, ![s].occ = 0] PROVE Inv'
  <2> DEFINE k == [w EXCEPT !.pc = "done", !.id = 0, !.occ = 0]
  <2>1. run' = [run EXCEPT ![s] = k]
    BY <1>1, <1>6, RunFacts
  <2>2. /\ k \in Work /\ k.pc = "done" /\ k.lost = w.lost
        /\ k.attended = w.attended /\ k.decisions = w.decisions
    BY DEF Work, Scored
  <2> HIDE DEF k
  <2>3. Holding(s, k)
    BY <2>2 DEF Holding
  <2> QED
    BY <1>3, <2>1, <2>2, <2>3 DEF Scored
<1>7. CASE Lookup(s)
  <2>1. w.pc = "lookup"
    BY <1>1, <1>7 DEF Lookup
  <2>2. \A r : Takes(r) \subseteq DOMAIN pats \cup {0}
    BY DEF Takes, Exact, Similar
  <2>3. ASSUME NEW i \in DOMAIN pats \cup {0} PROVE Counts(w, i) \subseteq Nat
    <3>1. i # 0 => pats[i].occ \in Nat
      BY RunFacts, PatIds DEF Row
    <3> QED
      BY <3>1 DEF Counts, Work
  <2>4. CASE run' = [run EXCEPT ![s].pc = "done", ![s].id = 0, ![s].occ = 0]
    BY <1>6, <2>4
  <2>5. CASE \E i \in Takes(w.wrote[w.at]) : \E o \in Counts(w, i) :
                run' = [run EXCEPT ![s].pc = "commit", ![s].id = i, ![s].occ = o]
    <3>1. PICK i \in DOMAIN pats \cup {0} : \E o \in Counts(w, i) :
             run' = [run EXCEPT ![s].pc = "commit", ![s].id = i, ![s].occ = o]
      BY <2>2, <2>5
    <3>2. PICK o \in Nat :
             run' = [run EXCEPT ![s].pc = "commit", ![s].id = i, ![s].occ = o]
      BY <2>3, <3>1
    <3> QED
      BY <1>5, <2>1, <3>2
  <2> QED
    BY <1>1, <1>7, <2>4, <2>5 DEF Lookup
<1> QED
  BY <1>4, <1>7

\* The rules a prompt carried enter the ledger, open.
LEMMA InvReadPinned ==
    ASSUME Inv, NEW s \in Sources, ReadPinned(s)
    PROVE  Inv'
<1>1. PICK w \in Work : w = run[s]
  BY RunFacts
<1> DEFINE ids == run[s].held \cup WithStatus({"promoted_to_prompt"})
           new == [s : {s}, node : {Fetches[w.fetch]}, pat : ids, pass : {w.pass},
                   outcome : {Open}]
           m == [NextFetch(w) EXCEPT !.shown = @ \cup ids]
<1>2. /\ w.pc = "pinned" /\ run' = [run EXCEPT ![s] = m] /\ Remember(s, ids)
      /\ surf' = surf \cup new /\ UNCHANGED <<pats, examples>>
  BY <1>1, RunFacts DEF ReadPinned
<1>3. ids \subseteq DOMAIN pats /\ ids \in SUBSET Nat
  BY <1>1, <1>2, Fetched
<1> HIDE DEF ids
<1>4. PICK k \in Work : /\ k.pc \in {"fetch", "review"}
                       /\ run' = [run EXCEPT ![s] = k]
  BY <1>2, <1>3, RunFacts, NextFetchShape
<1> HIDE DEF m
<1>5. \A x \in new : x \in Entry /\ x.s = s /\ x.outcome = Open /\ x.pat \in DOMAIN pats
  <2>1. w.fetch \in Nat /\ w.pass \in Nat
    BY DEF Work
  <2> QED
    BY <1>3, <2>1 DEF Entry, Outcomes, Open
<1> HIDE DEF new
<1>6. /\ Tables /\ Counted /\ RunInv(s, w)
      /\ \A c \in DOMAIN cache' : cache'[c] \subseteq DOMAIN pats
  BY <1>1, <1>2, <1>3, RunFacts, Remembered
<1>7. Tables'
  <2>1. surf' \subseteq Entry /\ \A x \in surf' : x.pat \in DOMAIN pats
    BY <1>2, <1>5, <1>6 DEF Tables
  <2> QED
    BY <1>2, <1>4, <1>6, <2>1 DEF Tables
<1>8. \A i, o : o # Open => Graded(i, o)' = Graded(i, o)
  BY <1>2, <1>5 DEF Graded
<1>9. "hit" # Open /\ "miss" # Open
  BY DEF Open
<1>10. Counted'
  BY <1>2, <1>6, <1>8, <1>9 DEF Counted
<1>11. \A x \in surf' : x.s = s => x.outcome = Open
  BY <1>2, <1>5, <1>6 DEF RunInv, Unjudged, Early
<1>12. \A r \in Rules : s \notin examples'[r]
  BY <1>2, <1>6 DEF RunInv, Unjudged, Early
<1>13. RunInv(s, k)'
  BY <1>4, <1>9, <1>11, <1>12 DEF RunInv, Holding, Unjudged, Human, Closed, Scored, Open
<1>14. \A i \in DOMAIN pats : i \in DOMAIN pats' /\ pats'[i].rule = pats[i].rule
  BY <1>2
<1>15. \A i \in DOMAIN pats : \A o \in {"hit", "miss"} :
          Graded(i, o) \subseteq Graded(i, o)' /\ IsFiniteSet(Graded(i, o)')
  BY <1>6, <1>8, <1>9 DEF Counted
<1>16. \A x : x.s # s => (x \in surf' <=> x \in surf)
  BY <1>2, <1>5
<1> QED
  BY <1>2, <1>4, <1>7, <1>10, <1>13, <1>14, <1>15, <1>16, RunStep

\* The examples of a run are of the areas it attended.
LEMMA InvLearn ==
    ASSUME Inv, NEW s \in Sources, Learn(s)
    PROVE  Inv'
<1>1. PICK w \in Work : w = run[s]
  BY RunFacts
<1>2. /\ w.pc = "learn" /\ UNCHANGED <<pats, surf, cache>>
      /\ PersistExamples(s, ExamplesOf(w)) \/ UNCHANGED examples
  BY <1>1 DEF Learn
<1>3. PICK rs \in Answers :
         run' = [run EXCEPT ![s].pc = IF rs = <<>> THEN "done" ELSE "lookup",
                            ![s].wrote = rs, ![s].at = 1, ![s].id = 0, ![s].occ = 0]
  BY <1>1 DEF Learn
<1> DEFINE p == IF rs = <<>> THEN "done" ELSE "lookup"
           k == [w EXCEPT !.pc = p, !.wrote = rs, !.at = 1, !.id = 0, !.occ = 0]
<1>4. run' = [run EXCEPT ![s] = k]
  BY <1>1, <1>3, RunFacts
<1>5. /\ p \in {"done", "lookup"} /\ rs \in Seq(Rules)
      /\ p = "lookup" => 1 \in DOMAIN rs
  <2>1. rs \in Seq(Rules)
    BY InputsAssumption
  <2>2. rs # <<>> => 1 \in DOMAIN rs
    BY <2>1, EmptySeq
  <2> QED
    BY <2>1, <2>2
<1> HIDE DEF p
<1>6. /\ k \in Work /\ k.pc = p /\ k.pc \in {"done", "lookup"} /\ k.lost = w.lost
      /\ k.wrote = rs /\ k.at = 1 /\ k.id = 0
      /\ k.attended = w.attended /\ k.decisions = w.decisions
  BY <1>5 DEF Work, Scored
<1> HIDE DEF k
<1>7. Tables /\ Counted /\ RunInv(s, w)
  BY <1>1, RunFacts
<1>8. \A r \in Rules : /\ examples'[r] \in SUBSET Sources
                       /\ examples[r] \subseteq examples'[r]
                       /\ \A u \in examples'[r] \ examples[r] :
                             u = s /\ AreaOf[r] \in w.attended
  BY <1>2, <1>7 DEF Tables, PersistExamples, ExamplesOf
<1>9. examples' \in [Rules -> SUBSET Sources]
  BY <1>2, <1>7, <1>8 DEF Tables, PersistExamples
<1>10. Tables'
  BY <1>2, <1>4, <1>6, <1>7, <1>9 DEF Tables
<1>11. \A i, o : Graded(i, o)' = Graded(i, o)
  BY <1>2 DEF Graded
<1>12. Counted'
  BY <1>2, <1>7, <1>11 DEF Counted
<1>13. RunInv(s, k)'
  BY <1>2, <1>5, <1>6, <1>7, <1>8 DEF RunInv, Holding, Unjudged, Human, Closed, Scored, Early
<1>14. \A i \in DOMAIN pats : \A o \in {"hit", "miss"} :
          Graded(i, o) \subseteq Graded(i, o)' /\ IsFiniteSet(Graded(i, o)')
  BY <1>7, <1>11 DEF Counted
<1>15. \A r \in Rules, u \in Sources \ {s} : u \in examples'[r] => u \in examples[r]
  BY <1>8
<1> QED
  BY <1>2, <1>4, <1>6, <1>10, <1>12, <1>13, <1>14, <1>15, RunStep

\* Whoever is charged with a correction, a person made one: the adjudicator is
\* asked only when a gate somebody attended corrected something.
LEMMA MissIsHuman ==
    ASSUME NEW w \in Work, Attributable(w) # {}
    PROVE  \E d \in w.decisions : d.by = "review" /\ AreaOf[d.rule] \in w.attended
<1>1. PICK g \in Judged(w) : AreaOf[g.row.rule] \in Corrected(w)
  BY DEF Attributable, Fallback
<1>2. PICK d \in w.decisions : d.by # "denylist" /\ AreaOf[d.rule] = AreaOf[g.row.rule]
  BY <1>1 DEF Corrected, Deltas
<1>3. AreaOf[g.row.rule] \in w.attended
  BY <1>1 DEF Judged, IsScoreable
<1>4. d.by = "review"
  BY <1>2 DEF Work, Decisions
<1> QED
  BY <1>2, <1>3, <1>4

\* The one commit of a scoring: every row of the run is closed, each rule it
\* judged counts once more than when it was read.
LEMMA InvClose ==
    ASSUME Inv, NEW s \in Sources, Close(s)
    PROVE  Inv'
<1> DEFINE w == run[s]
<1>1. w \in Work
  BY RunFacts
<1>2. Tables /\ Counted /\ RunInv(s, w) /\ w.pc = "close"
  BY RunFacts DEF Close
<1> DEFINE copy(i) == CHOOSE h \in w.held : h.i = i
           ids == {h.i : h \in w.held}
<1>3. PICK missed \in SUBSET Attributable(w) :
         /\ pats' = [i \in DOMAIN pats |->
               IF i \notin ids \/ Outcome(w, copy(i), missed) = "unscored" THEN pats[i]
               ELSE IF Outcome(w, copy(i), missed) = "miss"
                    THEN [pats[i] EXCEPT !.misses = copy(i).row.misses + Count(w, i)]
                    ELSE [pats[i] EXCEPT !.hits = copy(i).row.hits + Count(w, i)]]
         /\ surf' = (surf \ w.rows) \cup
               {[x EXCEPT !.outcome = Outcome(w, copy(x.pat), missed)] : x \in w.rows}
  BY DEF Close, ClosedRows
<1>4. PICK k \in Work :
         /\ run' = [run EXCEPT ![s] = k] /\ UNCHANGED <<examples, cache>>
         /\ k.pc = "learn" /\ k.lost = w.lost
         /\ k.attended = w.attended /\ k.decisions = w.decisions
  <2> DEFINE m == [w EXCEPT !.pc = "learn", !.held = {}, !.rows = {}]
  <2>1. run' = [run EXCEPT ![s] = m] /\ UNCHANGED <<examples, cache>>
    BY RunFacts DEF Close
  <2>2. /\ m \in Work /\ m.pc = "learn" /\ m.lost = w.lost
        /\ m.attended = w.attended /\ m.decisions = w.decisions
    BY <1>1 DEF Work, Scored
  <2> HIDE DEF m
  <2> QED
    BY <2>1, <2>2
<1>5. PICK O : \A i \in ids : O[i] = Outcome(w, copy(i), missed)
  <2> WITNESS [i \in ids |-> Outcome(w, copy(i), missed)]
  <2> QED
    OBVIOUS
<1>6. w.rows = {x \in surf : x.s = s}
  BY <1>2 DEF RunInv, Holding, Unjudged, Early
<1>7. \A i \in ids : copy(i) \in w.held /\ copy(i).i = i /\ Copied(copy(i))
  BY <1>2 DEF RunInv, Holding
<1>8. ids = {x.pat : x \in w.rows}
  BY <1>2 DEF RunInv, Holding
<1> HIDE DEF copy
<1>9. \A i \in ids : /\ O[i] = Outcome(w, copy(i), missed)
                     /\ O[i] \in {"unscored", "hit", "miss"}
  BY <1>5 DEF Outcome
<1>10. /\ \A x \in surf : x.s = s => x.outcome = Open
       /\ \A x : x.s # s => (x \in surf' <=> x \in surf)
       /\ \A x \in surf' : x.s = s =>
             \E y \in surf : y.s = s /\ y.pat = x.pat /\ x.outcome = O[y.pat]
       /\ \A y \in surf : y.s = s =>
             \E x \in surf' : x.s = s /\ x.pat = y.pat /\ x.outcome = O[y.pat]
       /\ surf' \subseteq Entry
  <2>1. ASSUME NEW y \in w.rows, NEW x,
               x = [y EXCEPT !.outcome = Outcome(w, copy(y.pat), missed)]
        PROVE  x \in Entry /\ x.s = s /\ x.pat = y.pat /\ x.outcome = O[y.pat]
    <3>1. y \in Entry /\ y.s = s /\ y.pat \in ids
      BY <1>2, <1>6, <1>8 DEF Tables
    <3>2. x = [y EXCEPT !.outcome = O[y.pat]] /\ O[y.pat] \in Outcomes
      BY <1>9, <2>1, <3>1 DEF Outcomes
    <3> QED
      BY <3>1, <3>2 DEF Entry
  <2>2. \A x \in surf' : \/ x \in surf /\ x.s # s
                         \/ \E y \in w.rows :
                               x = [y EXCEPT !.outcome = Outcome(w, copy(y.pat), missed)]
    BY <1>3, <1>6
  <2>3. \A y \in w.rows :
           [y EXCEPT !.outcome = Outcome(w, copy(y.pat), missed)] \in surf'
    BY <1>3
  <2>4. \A x \in surf : x.s # s => x \in surf'
    BY <1>3, <1>6
  <2>5. \A x \in surf : x.s = s => x.outcome = Open
    BY <1>2 DEF RunInv, Unjudged, Early
  <2>6. \A x : x.s # s => (x \in surf' <=> x \in surf)
    BY <2>1, <2>2, <2>4
  <2>7. \A x \in surf' : x.s = s =>
           \E y \in surf : y.s = s /\ y.pat = x.pat /\ x.outcome = O[y.pat]
    BY <1>6, <2>1, <2>2
  <2>8. \A y \in surf : y.s = s =>
           \E x \in surf' : x.s = s /\ x.pat = y.pat /\ x.outcome = O[y.pat]
    BY <1>6, <2>1, <2>3
  <2>9. surf' \subseteq Entry
    BY <1>2, <2>1, <2>2 DEF Tables
  <2> QED
    BY <2>5, <2>6, <2>7, <2>8, <2>9
<1>11. ASSUME NEW i \in DOMAIN pats, NEW o \in {"hit", "miss"}
       PROVE  /\ s \notin Graded(i, o)
              /\ i \in ids /\ O[i] = o => Graded(i, o)' = Graded(i, o) \cup {s}
              /\ ~(i \in ids /\ O[i] = o) => Graded(i, o)' = Graded(i, o)
  <2>1. i \in ids <=> \E y \in surf : y.s = s /\ y.pat = i
    BY <1>6, <1>8
  <2>2. o # Open
    BY DEF Open
  <2>3. \A t : t \in Graded(i, o) <=> \E x \in surf : x.s = t /\ x.pat = i /\ x.outcome = o
    BY DEF Graded
  <2>4. \A t : t \in Graded(i, o)' <=> \E x \in surf' : x.s = t /\ x.pat = i /\ x.outcome = o
    BY DEF Graded
  <2> HIDE DEF ids
  <2>5. s \notin Graded(i, o)
    BY <1>10, <2>2, <2>3
  <2>6. \A t : t # s => (t \in Graded(i, o)' <=> t \in Graded(i, o))
    BY <1>10, <2>3, <2>4
  <2>7. s \in Graded(i, o)' <=> i \in ids /\ O[i] = o
    BY <1>10, <2>1, <2>4
  <2>8. i \in ids /\ O[i] = o => Graded(i, o)' = Graded(i, o) \cup {s}
    BY <2>6, <2>7
  <2>9. ASSUME ~(i \in ids /\ O[i] = o) PROVE Graded(i, o)' = Graded(i, o)
    <3>1. \A t : t \in Graded(i, o)' <=> t \in Graded(i, o)
      BY <2>5, <2>6, <2>7, <2>9
    <3> QED
      BY <3>1
  <2> QED
    BY <2>5, <2>8, <2>9
<1>12. \A i \in DOMAIN pats :
          /\ pats[i] \in Row
          /\ i \notin ids \/ O[i] = "unscored" => pats'[i] = pats[i]
          /\ i \in ids /\ O[i] = "miss" =>
                pats'[i] = [pats[i] EXCEPT !.misses = copy(i).row.misses + 1]
          /\ i \in ids /\ O[i] = "hit" =>
                pats'[i] = [pats[i] EXCEPT !.hits = copy(i).row.hits + 1]
  <2>1. \A i \in DOMAIN pats : pats[i] \in Row
    BY <1>2, PatIds
  <2>2. ASSUME NEW i \in DOMAIN pats
        PROVE  /\ i \notin ids \/ O[i] = "unscored" => pats'[i] = pats[i]
               /\ i \in ids /\ O[i] = "miss" =>
                     pats'[i] = [pats[i] EXCEPT !.misses = copy(i).row.misses + 1]
               /\ i \in ids /\ O[i] = "hit" =>
                     pats'[i] = [pats[i] EXCEPT !.hits = copy(i).row.hits + 1]
    <3> HIDE DEF ids
    <3> QED
      BY <1>3, <1>9 DEF Count
  <2> QED
    BY <2>1, <2>2
<1>13. ASSUME NEW i \in DOMAIN pats
       PROVE  /\ pats'[i] \in Row /\ pats'[i].rule = pats[i].rule
              /\ IsFiniteSet(Graded(i, "hit")') /\ IsFiniteSet(Graded(i, "miss")')
              /\ Graded(i, "hit") \subseteq Graded(i, "hit")'
              /\ Graded(i, "miss") \subseteq Graded(i, "miss")'
              /\ Graded(i, "hit")' \cap Graded(i, "miss")' = {}
              /\ pats'[i].hits <= Cardinality(Graded(i, "hit")')
              /\ pats'[i].misses <= Cardinality(Graded(i, "miss")')
  <2>1. /\ IsFiniteSet(Graded(i, "hit")) /\ IsFiniteSet(Graded(i, "miss"))
        /\ Graded(i, "hit") \cap Graded(i, "miss") = {}
        /\ pats[i].hits <= Cardinality(Graded(i, "hit"))
        /\ pats[i].misses <= Cardinality(Graded(i, "miss"))
    BY <1>2 DEF Counted
  <2>2. pats[i] \in Row
    BY <1>12
  <2>3. CASE i \notin ids \/ O[i] = "unscored"
    <3>1. /\ Graded(i, "hit")' = Graded(i, "hit") /\ Graded(i, "miss")' = Graded(i, "miss")
      BY <1>11, <2>3
    <3>2. pats'[i] = pats[i]
      BY <1>12, <2>3
    <3> QED
      BY <2>1, <2>2, <3>1, <3>2
  <2> DEFINE c == copy(i).row
  <2>4. ASSUME i \in ids
        PROVE  /\ c \in Row /\ c.hits \in Nat /\ c.misses \in Nat
               /\ c.hits <= Cardinality(Graded(i, "hit"))
               /\ c.misses <= Cardinality(Graded(i, "miss"))
    BY <1>7, <2>4 DEF Copied, Copy, Row
  <2>5. /\ s \notin Graded(i, "hit") /\ s \notin Graded(i, "miss")
        /\ i \in ids /\ O[i] = "hit" => /\ Graded(i, "hit")' = Graded(i, "hit") \cup {s}
                                        /\ Graded(i, "miss")' = Graded(i, "miss")
        /\ i \in ids /\ O[i] = "miss" => /\ Graded(i, "miss")' = Graded(i, "miss") \cup {s}
                                         /\ Graded(i, "hit")' = Graded(i, "hit")
    BY <1>11
  <2>6. /\ IsFiniteSet(Graded(i, "hit") \cup {s})
        /\ IsFiniteSet(Graded(i, "miss") \cup {s})
        /\ Cardinality(Graded(i, "hit") \cup {s}) = Cardinality(Graded(i, "hit")) + 1
        /\ Cardinality(Graded(i, "miss") \cup {s}) = Cardinality(Graded(i, "miss")) + 1
        /\ Cardinality(Graded(i, "hit")) \in Nat /\ Cardinality(Graded(i, "miss")) \in Nat
    BY <2>1, <2>5, FS_AddElement, FS_CardinalityType
  <2>7. CASE i \in ids /\ O[i] = "hit"
    <3>1. pats'[i] = [pats[i] EXCEPT !.hits = c.hits + 1]
      BY <1>12, <2>7
    <3>2. /\ pats'[i] \in Row /\ pats'[i].rule = pats[i].rule
          /\ pats'[i].hits = c.hits + 1 /\ pats'[i].misses = pats[i].misses
      <4>1. c.hits + 1 \in Nat
        BY <2>4, <2>7
      <4> QED
        BY <2>2, <3>1, <4>1 DEF Row
    <3> HIDE DEF c
    <3> QED
      BY <2>1, <2>4, <2>5, <2>6, <2>7, <3>2
  <2>8. CASE i \in ids /\ O[i] = "miss"
    <3>1. pats'[i] = [pats[i] EXCEPT !.misses = c.misses + 1]
      BY <1>12, <2>8
    <3>2. /\ pats'[i] \in Row /\ pats'[i].rule = pats[i].rule
          /\ pats'[i].misses = c.misses + 1 /\ pats'[i].hits = pats[i].hits
      <4>1. c.misses + 1 \in Nat
        BY <2>4, <2>8
      <4> QED
        BY <2>2, <3>1, <4>1 DEF Row
    <3> HIDE DEF c
    <3> QED
      BY <2>1, <2>4, <2>5, <2>6, <2>8, <3>2
  <2> QED
    BY <1>9, <2>3, <2>7, <2>8
<1>14. pats' \in Seq(Row) /\ DOMAIN pats' = DOMAIN pats
  <2>1. pats \in Seq(Row) /\ DOMAIN pats = 1..Len(pats) /\ Len(pats) \in Nat
    BY <1>2, PatIds DEF Tables
  <2>2. pats' = [i \in 1..Len(pats) |-> pats'[i]] /\ DOMAIN pats' = DOMAIN pats
    BY <1>3, <2>1
  <2>3. \A i \in 1..Len(pats) : pats'[i] \in Row
    BY <1>13, <2>1
  <2> HIDE DEF ids
  <2> QED
    BY <2>1, <2>2, <2>3
<1>15. Tables'
  <2>1. \A x \in surf' : x.pat \in DOMAIN pats
    <3>1. \A x \in surf : x.pat \in DOMAIN pats
      BY <1>2 DEF Tables
    <3> QED
      BY <1>10, <3>1
  <2> QED
    BY <1>2, <1>4, <1>10, <1>14, <2>1 DEF Tables
<1>16. Counted'
  BY <1>13, <1>14 DEF Counted
<1>17. Human(s, k)'
  <2>1. ASSUME NEW x \in surf', x.s = s, x.outcome \in {"hit", "miss"}
        PROVE  /\ AreaOf[pats'[x.pat].rule] \in k.attended
               /\ x.outcome = "miss" => \E d \in k.decisions :
                      d.by = "review" /\ AreaOf[d.rule] \in k.attended
    <3>1. PICK y \in surf : y.s = s /\ y.pat = x.pat /\ x.outcome = O[y.pat]
      BY <1>10, <2>1
    <3>2. y.pat \in ids /\ y.pat \in DOMAIN pats
      BY <1>2, <1>6, <1>8, <3>1 DEF Tables
    <3>3. Outcome(w, copy(y.pat), missed) = x.outcome
      BY <1>9, <3>1, <3>2
    <3>4. IsScoreable(w, copy(y.pat).row.rule)
      BY <2>1, <3>3 DEF Outcome
    <3>5. copy(y.pat).row.rule = pats'[x.pat].rule
      BY <1>7, <1>13, <3>1, <3>2 DEF Copied
    <3>6. AreaOf[pats'[x.pat].rule] \in k.attended
      BY <1>4, <3>4, <3>5 DEF IsScoreable
    <3>7. ASSUME x.outcome = "miss" PROVE Attributable(w) # {}
      BY <3>3, <3>4, <3>7 DEF Outcome
    <3> QED
      BY <1>1, <1>4, <3>6, <3>7, MissIsHuman
  <2>2. \A r \in Rules : s \in examples'[r] => AreaOf[r] \in k.attended
    BY <1>2, <1>4 DEF RunInv, Human
  <2> QED
    BY <2>1, <2>2 DEF Human
<1>18. Closed(s, k)'
  <2>1. \A x \in surf' : x.s = s => x.outcome # Open
    <3>1. \A y \in surf : y.s = s => O[y.pat] # Open
      BY <1>6, <1>8, <1>9 DEF Open
    <3> QED
      BY <1>10, <3>1
  <2> QED
    BY <2>1 DEF Closed
<1>19. RunInv(s, k)'
  BY <1>4, <1>17, <1>18 DEF RunInv, Holding, Unjudged, Early
<1>20. \A i \in DOMAIN pats : i \in DOMAIN pats' /\ pats'[i].rule = pats[i].rule
  BY <1>13, <1>14
<1>21. \A i \in DOMAIN pats : \A o \in {"hit", "miss"} :
          Graded(i, o) \subseteq Graded(i, o)' /\ IsFiniteSet(Graded(i, o)')
  BY <1>13
<1> QED
  BY <1>4, <1>10, <1>15, <1>16, <1>19, <1>20, <1>21, RunStep

\* Replacing an element of a sequence.
LEMMA SeqUpdate ==
    ASSUME NEW S, NEW q \in Seq(S), NEW i \in DOMAIN q, NEW e \in S
    PROVE  /\ [q EXCEPT ![i] = e] \in Seq(S)
           /\ DOMAIN [q EXCEPT ![i] = e] = DOMAIN q
           /\ \A j \in DOMAIN q : [q EXCEPT ![i] = e][j] = IF j = i THEN e ELSE q[j]
<1> DEFINE u == [q EXCEPT ![i] = e]
<1>1. Len(q) \in Nat /\ DOMAIN q = 1..Len(q) /\ \A j \in 1..Len(q) : q[j] \in S
  BY ElementOfSeq
<1>2. u = [j \in 1..Len(q) |-> u[j]] /\ \A j \in 1..Len(q) : u[j] \in S
  BY <1>1
<1>3. u \in Seq(S)
  <2> HIDE DEF u
  <2> QED
    BY <1>1, <1>2
<1> QED
  BY <1>3

\* A rule that is written or counted again keeps the text and the evidence of
\* every rule that was there.
LEMMA InvCommit ==
    ASSUME Inv, NEW s \in Sources, Commit(s)
    PROVE  Inv'
<1>1. PICK w \in Work : w = run[s]
  BY RunFacts
<1>2. /\ Tables /\ Counted /\ RunInv(s, w) /\ w.pc = "commit"
      /\ UNCHANGED <<surf, examples, cache>>
  BY <1>1, RunFacts DEF Commit
<1> DEFINE r == w.wrote[w.at]
           over == w.at = Len(w.wrote)
           p == IF over THEN "done" ELSE "lookup"
           i0 == IF over THEN 0 ELSE IF w.id = 0 THEN Len(pats) + 1 ELSE w.id
           o0 == IF over THEN 0 ELSE w.occ + 1
           a0 == w.at + 1
           n == [w EXCEPT !.pc = p, !.at = a0, !.id = i0, !.occ = o0]
<1>3. /\ pats' = IF w.id = 0 THEN Append(pats, NewRow(r))
                 ELSE [pats EXCEPT ![w.id].occ = w.occ + 1]
      /\ run' = [run EXCEPT ![s].pc = p, ![s].at = a0, ![s].id = i0, ![s].occ = o0]
  BY <1>1 DEF Commit
<1>4. run' = [run EXCEPT ![s] = n]
  BY <1>1, <1>3, RunFacts
<1>5. /\ r \in Rules /\ w.id \in {0} \cup DOMAIN pats /\ w.occ \in Nat
      /\ w.at \in Nat /\ a0 \in Nat /\ w.wrote \in Seq(Rules)
      /\ p = "lookup" => a0 \in DOMAIN w.wrote
  BY <1>2, ElementOfSeq DEF RunInv, Holding, Work
<1>6. p \in {"done", "lookup"} /\ i0 \in Nat /\ o0 \in Nat
  BY <1>2, <1>5, PatIds
<1>7. i0 \in {0, w.id, Len(pats) + 1} /\ (i0 = Len(pats) + 1 => w.id = 0 \/ i0 = w.id)
  OBVIOUS
<1> HIDE DEF p, i0, o0, a0, r
<1>8. /\ n \in Work /\ n.pc = p /\ n.pc \in {"done", "lookup"} /\ n.lost = w.lost
       /\ n.attended = w.attended /\ n.decisions = w.decisions
       /\ n.id = i0 /\ n.at = a0 /\ n.wrote = w.wrote
  BY <1>5, <1>6 DEF Work, Scored
<1> HIDE DEF n
<1>9. PICK k \in Work :
         /\ run' = [run EXCEPT ![s] = k]
         /\ k.pc = p /\ k.pc \in {"done", "lookup"} /\ k.lost = w.lost
         /\ k.attended = w.attended /\ k.decisions = w.decisions
         /\ k.id = i0 /\ k.at = a0 /\ k.wrote = w.wrote
  BY <1>4, <1>8
<1>10. /\ pats \in Seq(Row) /\ DOMAIN pats = 1..Len(pats) /\ Len(pats) \in Nat
      /\ \A i \in DOMAIN pats : pats[i] \in Row
  BY <1>2, PatIds DEF Tables
<1>11. NewRow(r) \in Row /\ NewRow(r).hits = 0 /\ NewRow(r).misses = 0
  BY <1>5 DEF NewRow, Row, Statuses
<1>12. /\ pats' \in Seq(Row) /\ DOMAIN pats \subseteq DOMAIN pats'
       /\ \A i \in DOMAIN pats : /\ pats'[i].rule = pats[i].rule
                                 /\ pats'[i].hits = pats[i].hits
                                 /\ pats'[i].misses = pats[i].misses
       /\ \A i \in DOMAIN pats' \ DOMAIN pats : pats'[i].hits = 0 /\ pats'[i].misses = 0
       /\ i0 \in {0} \cup DOMAIN pats'
  <2>1. CASE w.id = 0
    <3> DEFINE row == NewRow(r)
    <3> HIDE DEF row
    <3>1. pats' = Append(pats, row) /\ row \in Row /\ row.hits = 0 /\ row.misses = 0
      BY <1>3, <1>11, <2>1 DEF row
    <3>2. /\ Append(pats, row) \in Seq(Row)
          /\ Len(Append(pats, row)) = Len(pats) + 1
          /\ \A i \in 1..Len(pats) : Append(pats, row)[i] = pats[i]
          /\ Append(pats, row)[Len(pats) + 1] = row
      BY <1>10, <3>1, AppendProperties
    <3>3. DOMAIN pats' = 1..(Len(pats) + 1)
      BY <3>1, <3>2
    <3>4. \A i \in DOMAIN pats' \ DOMAIN pats : i = Len(pats) + 1
      BY <1>10, <3>3
    <3> QED
      BY <1>7, <1>10, <2>1, <3>1, <3>2, <3>3, <3>4
  <2>2. CASE w.id # 0
    <3>1. pats' = [pats EXCEPT ![w.id].occ = w.occ + 1] /\ w.id \in DOMAIN pats
      BY <1>3, <1>5, <2>2
    <3> DEFINE row == [pats[w.id] EXCEPT !.occ = w.occ + 1]
    <3>2. /\ row \in Row /\ row.rule = pats[w.id].rule
          /\ row.hits = pats[w.id].hits /\ row.misses = pats[w.id].misses
      <4>1. w.occ + 1 \in Nat /\ pats[w.id] \in Row
        BY <1>5, <1>10, <3>1
      <4> QED
        BY <4>1 DEF Row
    <3>3. pats' = [pats EXCEPT ![w.id] = row]
      BY <3>1
    <3> HIDE DEF row
    <3>4. /\ DOMAIN pats' = DOMAIN pats /\ pats' \in Seq(Row)
          /\ \A i \in DOMAIN pats : pats'[i] = IF i = w.id THEN row ELSE pats[i]
      BY <1>10, <3>1, <3>2, <3>3, SeqUpdate
    <3>5. i0 \in {0, w.id}
      BY <1>7, <2>2
    <3> QED
      BY <3>1, <3>2, <3>4, <3>5
  <2> QED
    BY <2>1, <2>2
<1>13. Tables'
  BY <1>2, <1>9, <1>12 DEF Tables
<1>14. \A i, o : Graded(i, o)' = Graded(i, o)
  BY <1>2 DEF Graded
<1>15. Counted'
  <2>1. ASSUME NEW i \in DOMAIN pats', i \notin DOMAIN pats, NEW o
        PROVE  Graded(i, o) = {}
    <3>1. \A x \in surf : x.pat # i
      BY <1>2, <2>1 DEF Tables
    <3> QED
      BY <3>1 DEF Graded
  <2>2. IsFiniteSet({}) /\ Cardinality({}) = 0
    BY FS_EmptySet
  <2>3. ASSUME NEW i \in DOMAIN pats'
        PROVE  /\ IsFiniteSet(Graded(i, "hit")) /\ IsFiniteSet(Graded(i, "miss"))
               /\ Graded(i, "hit") \cap Graded(i, "miss") = {}
               /\ pats'[i].hits <= Cardinality(Graded(i, "hit"))
               /\ pats'[i].misses <= Cardinality(Graded(i, "miss"))
    <3>1. CASE i \in DOMAIN pats
      BY <1>2, <1>12, <3>1 DEF Counted
    <3>2. CASE i \notin DOMAIN pats
      <4>1. Graded(i, "hit") = {} /\ Graded(i, "miss") = {}
        BY <2>1, <3>2
      <4>2. pats'[i].hits = 0 /\ pats'[i].misses = 0
        BY <1>12, <3>2
      <4> QED
        BY <2>2, <4>1, <4>2
    <3> QED
      BY <3>1, <3>2
  <2> QED
    BY <1>14, <2>3 DEF Counted
<1>16. RunInv(s, k)'
  <2>1. \A x \in surf : pats'[x.pat].rule = pats[x.pat].rule
    BY <1>2, <1>12 DEF Tables
  <2>2. Holding(s, k)'
    <3>1. k.pc \in {"done", "lookup"} /\ k.id = i0 /\ k.at = a0 /\ k.wrote = w.wrote
      BY <1>9
    <3>2. k.pc = "lookup" => a0 \in DOMAIN w.wrote
      BY <1>5, <1>9
    <3>3. i0 \in {0} \cup DOMAIN pats'
      BY <1>12
    <3> QED
      BY <3>1, <3>2, <3>3 DEF Holding
  <2>3. Unjudged(s, k)' /\ Closed(s, k)'
    BY <1>2, <1>9 DEF RunInv, Unjudged, Closed, Scored, Early
  <2>4. Human(s, k)'
    BY <1>2, <1>9, <2>1 DEF RunInv, Human
  <2> QED
    BY <2>2, <2>3, <2>4 DEF RunInv
<1>17. \A i \in DOMAIN pats : \A o \in {"hit", "miss"} :
          Graded(i, o) \subseteq Graded(i, o)' /\ IsFiniteSet(Graded(i, o)')
  BY <1>2, <1>14 DEF Counted
<1> QED
  BY <1>2, <1>4, <1>9, <1>12, <1>13, <1>15, <1>16, <1>17, RunStep

\* The analyst changes a rule's status, which nothing held depends on.
LEMMA InvDecide ==
    ASSUME Inv, NEW i \in Nat, Decide(i)
    PROVE  Inv'
<1>1. PICK st \in Statuses : /\ i \in DOMAIN pats
                             /\ pats' = [pats EXCEPT ![i].status = st]
                             /\ UNCHANGED <<surf, examples, run>>
                             /\ DOMAIN cache' = {}
  BY DEF Decide, Statuses
<1>2. /\ Tables /\ Counted /\ pats \in Seq(Row) /\ pats[i] \in Row
      /\ \A s \in Sources : RunInv(s, run[s])
  BY <1>1, PatIds DEF Inv, Tables
<1> DEFINE row == [pats[i] EXCEPT !.status = st]
<1>3. /\ row \in Row /\ row.rule = pats[i].rule
      /\ row.hits = pats[i].hits /\ row.misses = pats[i].misses
  BY <1>2 DEF Row
<1>4. pats' = [pats EXCEPT ![i] = row]
  BY <1>1
<1> HIDE DEF row
<1>5. /\ DOMAIN pats' = DOMAIN pats /\ pats' \in Seq(Row)
      /\ \A j \in DOMAIN pats : /\ pats'[j].rule = pats[j].rule
                                /\ pats'[j].hits = pats[j].hits
                                /\ pats'[j].misses = pats[j].misses
  <2>1. /\ DOMAIN pats' = DOMAIN pats /\ pats' \in Seq(Row)
        /\ \A j \in DOMAIN pats : pats'[j] = IF j = i THEN row ELSE pats[j]
    BY <1>1, <1>2, <1>3, <1>4, SeqUpdate
  <2> QED
    BY <1>3, <2>1
<1>6. Tables'
  BY <1>1, <1>2, <1>5 DEF Tables
<1>7. \A j, o : Graded(j, o)' = Graded(j, o)
  BY <1>1 DEF Graded
<1>8. Counted'
  BY <1>2, <1>5, <1>7 DEF Counted
<1>9. \A j \in DOMAIN pats : \A o \in {"hit", "miss"} :
         Graded(j, o) \subseteq Graded(j, o)' /\ IsFiniteSet(Graded(j, o)')
  BY <1>2, <1>7 DEF Counted
<1>10. ASSUME NEW u \in Sources, NEW w, w = run[u] PROVE RunInv(u, w)'
  BY <1>1, <1>2, <1>5, <1>6, <1>9, <1>10, OthersUndisturbed
<1> QED
  BY <1>1, <1>6, <1>8, <1>10 DEF Inv

\* The table starts with the rules of earlier runs, whose counts are nobody's here.
LEMMA InvInit == Init => Inv
<1> SUFFICES ASSUME Init PROVE Inv
  OBVIOUS
<1>1. PICK order \in [1..Cardinality(InitialRules) -> InitialRules] :
         pats = [i \in DOMAIN order |-> NewRow(order[i])]
  BY DEF Init
<1>2. /\ surf = {} /\ DOMAIN cache = {} /\ examples = [r \in Rules |-> {}]
      /\ run = [s \in Sources |-> StartRun]
  BY DEF Init
<1>3. Cardinality(InitialRules) \in Nat
  BY InputsAssumption, FS_CardinalityType
<1>4. \A r \in Rules : NewRow(r) \in Row /\ NewRow(r).hits = 0 /\ NewRow(r).misses = 0
  BY DEF NewRow, Row, Statuses
<1>5. \A i \in DOMAIN pats : /\ pats[i] \in Row
                             /\ pats[i].hits = 0 /\ pats[i].misses = 0
  BY <1>1, <1>4, InputsAssumption
<1>6. pats \in Seq(Row)
  BY <1>1, <1>3, <1>5
<1>7. /\ StartRun \in Work /\ StartRun.pc = "fetch"
  BY DEF StartRun, Work, Early
<1>8. Tables
  BY <1>2, <1>6, <1>7 DEF Tables
<1>9. Counted
  <2>1. \A i : Graded(i, "hit") = {} /\ Graded(i, "miss") = {}
    BY <1>2 DEF Graded
  <2>2. IsFiniteSet({}) /\ Cardinality({}) = 0
    BY FS_EmptySet
  <2>3. ASSUME NEW i \in DOMAIN pats
        PROVE  /\ IsFiniteSet(Graded(i, "hit")) /\ IsFiniteSet(Graded(i, "miss"))
               /\ Graded(i, "hit") \cap Graded(i, "miss") = {}
               /\ pats[i].hits <= Cardinality(Graded(i, "hit"))
               /\ pats[i].misses <= Cardinality(Graded(i, "miss"))
    <3>1. /\ Graded(i, "hit") = {} /\ Graded(i, "miss") = {}
          /\ pats[i].hits = 0 /\ pats[i].misses = 0
      BY <1>5, <2>1
    <3> QED
      BY <2>2, <3>1
  <2> QED
    BY <2>3 DEF Counted
<1>10. ASSUME NEW s \in Sources PROVE RunInv(s, run[s])
  BY <1>2, <1>7, <1>10 DEF RunInv, Holding, Unjudged, Human, Closed, Early, Scored
<1> QED
  BY <1>8, <1>9, <1>10 DEF Inv

\* Every step of a run, and of the analyst beside it, keeps the evidence sound.
LEMMA InvNext == Inv /\ [Next]_vars => Inv'
<1> SUFFICES ASSUME Inv, [Next]_vars PROVE Inv'
  OBVIOUS
<1>1. ASSUME NEW s \in Sources, Step(s) PROVE Inv'
  BY <1>1, InvFetchHit, InvReadCandidates, InvReadPinned, InvReadFails, InvRecordFails,
     InvReview, InvReadSurfacings, InvClose, InvScoreFails, InvLearn, InvLookup,
     InvCommit DEF Step
<1>2. ASSUME NEW s \in Sources, Rerun(s) PROVE Inv'
  BY <1>2, InvRerun
<1>3. ASSUME NEW i \in 1..Len(pats), Decide(i) PROVE Inv'
  <2>1. i \in Nat
    OBVIOUS
  <2> QED
    BY <1>3, <2>1, InvDecide
<1>4. CASE UNCHANGED vars
  <2>1. UNCHANGED <<pats, surf, examples, cache, run>>
    BY <1>4 DEF vars
  <2>2. \A i, o : Graded(i, o)' = Graded(i, o)
    BY <2>1 DEF Graded
  <2>3. Tables' /\ Counted'
    BY <2>1, <2>2 DEF Inv, Tables, Counted
  <2>4. \A h : Copied(h)' <=> Copied(h)
    BY <2>1, <2>2 DEF Copied
  <2>5. ASSUME NEW s \in Sources PROVE RunInv(s, run[s])'
    <3>1. RunInv(s, run[s]) /\ run'[s] = run[s]
      BY <2>1 DEF Inv
    <3> QED
      BY <2>1, <2>4, <3>1 DEF RunInv, Holding, Unjudged, Human, Closed
  <2> QED
    BY <2>3, <2>5 DEF Inv
<1> QED
  BY <1>1, <1>2, <1>3, <1>4 DEF Next

\* The invariant holds of every run of the flywheel.
THEOREM InvHolds == Spec => []Inv
BY InvInit, InvNext, PTL DEF Spec

\* No rule is credited or charged, and no example kept, on the word of a gate
\* nobody attended (_score_surfacings, record_examples).
THEOREM EvidenceIsHumanHolds == Spec => []EvidenceIsHuman
<1>1. Inv => EvidenceIsHuman
  BY DEF Inv, RunInv, Human, EvidenceIsHuman
<1> QED
  BY <1>1, InvHolds, PTL

\* A rule's counters never claim more than one review per run that judged it,
\* whatever counts concurrent scorings lose to each other.
THEOREM CountersWithinEvidenceHolds == Spec => []CountersWithinEvidence
<1>1. Inv => CountersWithinEvidence
  <2> SUFFICES ASSUME Inv, NEW i \in DOMAIN pats
               PROVE  pats[i].hits + pats[i].misses <=
                         Cardinality({x.s : x \in {y \in surf :
                             y.pat = i /\ y.outcome \in {"hit", "miss"}}})
    BY DEF CountersWithinEvidence
  <2> DEFINE H == Graded(i, "hit")
             M == Graded(i, "miss")
  <2>1. /\ IsFiniteSet(H) /\ IsFiniteSet(M) /\ H \cap M = {}
        /\ pats[i].hits <= Cardinality(H) /\ pats[i].misses <= Cardinality(M)
    BY DEF Inv, Counted
  <2>2. pats[i].hits \in Nat /\ pats[i].misses \in Nat
    BY PatIds DEF Inv, Row
  <2>3. {x.s : x \in {y \in surf : y.pat = i /\ y.outcome \in {"hit", "miss"}}} = H \cup M
    BY DEF Graded
  <2> HIDE DEF H, M
  <2>4. /\ Cardinality(H \cup M) = Cardinality(H) + Cardinality(M) - Cardinality(H \cap M)
        /\ Cardinality(H \cap M) = 0
        /\ Cardinality(H) \in Nat /\ Cardinality(M) \in Nat
    BY <2>1, FS_Union, FS_EmptySet, FS_CardinalityType
  <2>5. pats[i].hits + pats[i].misses <= Cardinality(H \cup M)
    BY <2>1, <2>2, <2>4
  <2> QED
    BY <2>3, <2>5
<1> QED
  BY <1>1, InvHolds, PTL

\* A run whose scoring did not fail leaves no open row of its source behind, not
\* even one that a rerun added (_score_surfacings).
THEOREM LedgerIsClosedHolds == Spec => []LedgerIsClosed
<1>1. Inv => LedgerIsClosed
  BY DEF Inv, RunInv, Closed, LedgerIsClosed, Scored
<1> QED
  BY <1>1, InvHolds, PTL

-----------------------------------------------------------------------------
\* The evidence a recurrence of a rule may rest on: the rule was in the table to
\* begin with, or the run of s wrote it, as the k-th of its synthesis's answer.
KnownMark(r)      == <<"known", r, Open>>
WrittenMark(s, k) == <<"written", s, k>>

Marks(a) ==
    {KnownMark(r) : r \in {q \in InitialRules : AreaOf[q] = a}} \cup
    {WrittenMark(c[1], c[2]) : c \in Written(a)}

Writing == {"lookup", "commit"}

\* Only a run that was corrected in review writes, nothing before its synthesis, and
\* the row it counts a recurrence on is one of the rule's area.
Learning(s) ==
    LET w == run[s] IN
    /\ w.pc \in Early \cup {"learn"} => w.at = 1
    /\ w.pc \in Writing => Reviewed(s)
    /\ w.pc = "commit" =>
          /\ w.id = 0 => w.occ = 0
          /\ w.id # 0 => AreaOf[w.wrote[w.at]] = AreaOf[pats[w.id].rule]

\* Evidence shared out among the rows, each piece to one row at most: a row's
\* occurrences are no more than its share, nor is the count a run holds.
Shares(m) ==
    /\ \A i \in DOMAIN pats :
          /\ IsFiniteSet(m[i]) /\ m[i] \subseteq Marks(AreaOf[pats[i].rule])
          /\ pats[i].occ <= Cardinality(m[i])
    /\ \A i, j \in DOMAIN pats : i # j => m[i] \cap m[j] = {}
    /\ \A s \in Sources :
          run[s].pc \in Writing /\ run[s].id # 0 =>
              run[s].occ <= Cardinality(m[run[s].id])

Shared == (\A s \in Sources : Learning(s)) /\ \E m : Shares(m)

\* What was written stays evidence.
LEMMA MarksGrow ==
    ASSUME NEW a, \A u \in Sources : WrittenBy(u, a) \subseteq WrittenBy(u, a)'
    PROVE  Marks(a) \subseteq Marks(a)'
<1>1. Written(a) \subseteq Written(a)'
  BY DEF Written
<1>2. /\ Marks(a) = {KnownMark(r) : r \in {q \in InitialRules : AreaOf[q] = a}}
                       \cup {WrittenMark(c[1], c[2]) : c \in Written(a)}
      /\ Marks(a)' = {KnownMark(r) : r \in {q \in InitialRules : AreaOf[q] = a}}
                       \cup {WrittenMark(c[1], c[2]) : c \in Written(a)'}
  BY DEF Marks, KnownMark, WrittenMark
<1> QED
  BY <1>1, <1>2

\* A run that has the same answer before it, and is no further back in it, has
\* written what it had.
LEMMA WrittenOn ==
    ASSUME NEW s \in Sources, NEW a, run[s].at \in Nat, run'[s].at \in Nat,
           \/ run[s].at = 1
           \/ /\ run[s].at <= run'[s].at /\ run'[s].wrote = run[s].wrote
              /\ run'[s].decisions = run[s].decisions
    PROVE  WrittenBy(s, a) \subseteq WrittenBy(s, a)'
BY DEF WrittenBy, Reviewed

\* A step that keeps every row's text and occurrences keeps every row's share.
LEMMA SharesKept ==
    ASSUME Inv, Shared, NEW s \in Sources, Learning(s)',
           \A u \in Sources \ {s} : run'[u] = run[u],
           DOMAIN pats' = DOMAIN pats,
           \A i \in DOMAIN pats : pats'[i].rule = pats[i].rule /\ pats'[i].occ = pats[i].occ,
           \A a : WrittenBy(s, a) \subseteq WrittenBy(s, a)',
           run'[s].pc \in Writing /\ run'[s].id # 0 =>
               /\ run'[s].id \in DOMAIN pats
               /\ \/ run'[s].occ = pats[run'[s].id].occ
                  \/ /\ run[s].pc \in Writing /\ run'[s].id = run[s].id
                     /\ run'[s].occ = run[s].occ
    PROVE  Shared'
<1>1. PICK m : Shares(m)
  BY DEF Shared
<1>2. \A a : \A u \in Sources : WrittenBy(u, a) \subseteq WrittenBy(u, a)'
  BY DEF WrittenBy, Reviewed
<1>3. \A a : Marks(a) \subseteq Marks(a)'
  BY <1>2, MarksGrow
<1>4. \A u \in Sources : run[u].pc \in Writing => run[u].id \in {0} \cup DOMAIN pats
  BY DEF Inv, RunInv, Holding, Writing
<1>5. Shares(m)'
  <2>1. ASSUME NEW u \in Sources, run'[u].pc \in Writing, run'[u].id # 0
        PROVE  run'[u].occ <= Cardinality(m[run'[u].id])
    <3>1. CASE u = s
      BY <1>1, <2>1, <3>1 DEF Shares
    <3>2. CASE u # s
      BY <1>1, <2>1, <3>2 DEF Shares
    <3> QED
      BY <3>1, <3>2
  <2>2. ASSUME NEW i \in DOMAIN pats PROVE m[i] \subseteq Marks(AreaOf[pats[i].rule])'
    <3>1. /\ m[i] \subseteq Marks(AreaOf[pats[i].rule])
          /\ pats'[i].rule = pats[i].rule
      BY <1>1 DEF Shares
    <3> DEFINE a == AreaOf[pats[i].rule]
    <3>2. AreaOf[pats'[i].rule] = a
      BY <3>1
    <3>3. Marks(a) \subseteq Marks(AreaOf[pats[i].rule])'
      <4>1. ASSUME NEW b, b = a PROVE Marks(b) \subseteq Marks(AreaOf[pats[i].rule])'
        BY <1>3, <3>2, <4>1
      <4> QED
        BY <4>1
    <3> QED
      BY <3>1, <3>3
  <2>3. \A i \in DOMAIN pats' : /\ IsFiniteSet(m[i])
                                /\ pats'[i].occ <= Cardinality(m[i])
    BY <1>1 DEF Shares
  <2>4. \A i, j \in DOMAIN pats' : i # j => m[i] \cap m[j] = {}
    BY <1>1 DEF Shares
  <2> QED
    BY <2>1, <2>2, <2>3, <2>4 DEF Shares
<1>6. ASSUME NEW u \in Sources, u # s PROVE Learning(u)'
  <2>1. Learning(u) /\ run'[u] = run[u]
    BY <1>6 DEF Shared
  <2>2. DOMAIN pats' = DOMAIN pats /\ \A i \in DOMAIN pats : pats'[i].rule = pats[i].rule
    OBVIOUS
  <2> QED
    BY <1>4, <2>1, <2>2 DEF Learning, Writing, Reviewed
<1> QED
  BY <1>5, <1>6 DEF Shared

\* Until a run synthesizes, it has written nothing.
LEMMA SharedEarly ==
    ASSUME Inv, Shared, NEW s \in Sources,
           run[s].pc \in Early, run'[s].pc \in Early \cup {"learn"},
           run'[s].at = run[s].at,
           \A u \in Sources \ {s} : run'[u] = run[u],
           DOMAIN pats' = DOMAIN pats,
           \A i \in DOMAIN pats : pats'[i].rule = pats[i].rule /\ pats'[i].occ = pats[i].occ
    PROVE  Shared'
<1>1. run[s].at = 1 /\ run'[s].pc \notin Writing
  BY DEF Shared, Learning, Early, Writing
<1>2. Learning(s)'
  BY <1>1 DEF Learning, Writing
<1>3. \A a : WrittenBy(s, a) \subseteq WrittenBy(s, a)'
  BY <1>1, WrittenOn
<1> QED
  BY <1>1, <1>2, <1>3, SharesKept

\* The steps before the synthesis: of the rows, only their counters change.
Before(s) ==
    \/ FetchHit(s) \/ ReadCandidates(s) \/ ReadPinned(s) \/ ReadFails(s)
    \/ RecordFails(s) \/ Review(s) \/ ReadSurfacings(s) \/ Close(s)
    \/ ScoreFails(s) \/ Rerun(s)

LEMMA SharedBefore ==
    ASSUME Inv, Shared, NEW s \in Sources, Before(s)
    PROVE  Shared'
<1>1. /\ run \in [Sources -> Work] /\ run[s] \in Work /\ Tables
      /\ \A c \in DOMAIN cache : cache[c] \in SUBSET Nat
  BY RunFacts
<1>2. run[s].pc \in Early
  BY DEF Before, FetchHit, ReadCandidates, ReadPinned, ReadFails, RecordFails, Review,
         ReadSurfacings, Close, ScoreFails, Rerun, Early
<1>3. ASSUME NEW k, run' = [run EXCEPT ![s] = k]
      PROVE  run'[s] = k /\ \A u \in Sources \ {s} : run'[u] = run[u]
  BY <1>1, <1>3
<1>4. ASSUME NEW k, run' = [run EXCEPT ![s] = k], k.pc \in Early, k.at = run[s].at,
             UNCHANGED pats
      PROVE  Shared'
  BY <1>2, <1>3, <1>4, SharedEarly
<1>5. CASE FetchHit(s)
  <2> DEFINE ids == cache[CacheKey(s)]
             k == [NextFetch(run[s]) EXCEPT !.shown = @ \cup ids]
  <2>1. ids \in SUBSET Nat /\ run' = [run EXCEPT ![s] = k] /\ UNCHANGED pats
    BY <1>1, <1>5 DEF FetchHit
  <2>2. k.pc \in {"fetch", "review"} /\ k.at = run[s].at
    BY <1>1, <2>1, NextFetchShape
  <2> HIDE DEF k
  <2> QED
    BY <1>4, <2>1, <2>2 DEF Early
<1>6. CASE ReadPinned(s)
  <2> DEFINE ids == run[s].held \cup WithStatus({"promoted_to_prompt"})
             k == [NextFetch(run[s]) EXCEPT !.shown = @ \cup ids]
  <2>1. run[s].pc = "pinned" /\ run' = [run EXCEPT ![s] = k] /\ UNCHANGED pats
    BY <1>6 DEF ReadPinned
  <2>2. ids \in SUBSET Nat
    BY <2>1, Fetched
  <2>3. k.pc \in {"fetch", "review"} /\ k.at = run[s].at
    BY <1>1, <2>2, NextFetchShape
  <2> HIDE DEF k
  <2> QED
    BY <1>4, <2>1, <2>3 DEF Early
<1>7. CASE RecordFails(s)
  <2> DEFINE ids == run[s].held \cup WithStatus({"promoted_to_prompt"})
             n == NextFetch(run[s])
             k == [n EXCEPT !.shown = @ \cup ids, !.lost = TRUE]
  <2>1. run' = [run EXCEPT ![s] = k] /\ UNCHANGED pats
    BY <1>7 DEF RecordFails
  <2>2. n \in Work /\ n.pc \in {"fetch", "review"} /\ n.at = run[s].at
    BY <1>1, NextFetchShape
  <2> HIDE DEF ids, n
  <2>3. k.pc \in {"fetch", "review"} /\ k.at = run[s].at
    BY <2>2 DEF Work
  <2> HIDE DEF k
  <2> QED
    BY <1>4, <2>1, <2>3 DEF Early
<1>8. CASE ReadFails(s)
  <2>1. run' = [run EXCEPT ![s] = NextFetch(run[s])] /\ UNCHANGED pats
    BY <1>8 DEF ReadFails
  <2>2. NextFetch(run[s]).pc \in {"fetch", "review"} /\ NextFetch(run[s]).at = run[s].at
    BY <1>1, NextFetchShape
  <2> QED
    BY <1>4, <2>1, <2>2 DEF Early
<1>9. CASE ReadCandidates(s) \/ ReadSurfacings(s) \/ ScoreFails(s) \/ Rerun(s)
  <2> DEFINE on == /\ run'[s].pc \in Early \cup {"learn"} /\ run'[s].at = run[s].at
                   /\ UNCHANGED pats /\ \A u \in Sources \ {s} : run'[u] = run[u]
  <2>1. ASSUME ReadCandidates(s) PROVE on
    BY <1>1, <2>1 DEF ReadCandidates, Work, Early
  <2>2. ASSUME ReadSurfacings(s) PROVE on
    BY <1>1, <2>2 DEF ReadSurfacings, Work, Early
  <2>3. ASSUME ScoreFails(s) PROVE on
    BY <1>1, <2>3 DEF ScoreFails, Work
  <2>4. ASSUME Rerun(s) PROVE on
    BY <1>1, <2>4 DEF Rerun, Work, Early
  <2>5. on
    BY <1>9, <2>1, <2>2, <2>3, <2>4
  <2> QED
    BY <1>2, <2>5, SharedEarly
<1>10. CASE Review(s)
  <2>1. PICK att, ds : run' = [run EXCEPT ![s].pc = "score", ![s].attended = att,
                                          ![s].decisions = ds]
    BY <1>10 DEF Review
  <2>2. /\ run'[s].pc = "score" /\ run'[s].at = run[s].at
        /\ \A u \in Sources \ {s} : run'[u] = run[u]
    BY <1>1, <2>1 DEF Work
  <2>3. UNCHANGED pats
    BY <1>10 DEF Review
  <2> QED
    BY <1>2, <2>2, <2>3, SharedEarly DEF Early
<1>11. CASE Close(s)
  <2>1. run' = [run EXCEPT ![s].pc = "learn", ![s].held = {}, ![s].rows = {}]
    BY <1>11 DEF Close
  <2>2. /\ run'[s].pc = "learn" /\ run'[s].at = run[s].at
        /\ \A u \in Sources \ {s} : run'[u] = run[u]
    BY <1>1, <2>1 DEF Work
  <2>3. /\ DOMAIN pats' = DOMAIN pats
        /\ \A i \in DOMAIN pats : pats'[i].rule = pats[i].rule /\ pats'[i].occ = pats[i].occ
    <3> DEFINE w == run[s]
               copy(i) == CHOOSE h \in w.held : h.i = i
               ids == {h.i : h \in w.held}
    <3>1. PICK missed \in SUBSET Attributable(w) :
             pats' = [i \in DOMAIN pats |->
                IF i \notin ids \/ Outcome(w, copy(i), missed) = "unscored" THEN pats[i]
                ELSE IF Outcome(w, copy(i), missed) = "miss"
                     THEN [pats[i] EXCEPT !.misses = copy(i).row.misses + Count(w, i)]
                     ELSE [pats[i] EXCEPT !.hits = copy(i).row.hits + Count(w, i)]]
      BY <1>11 DEF Close
    <3>2. \A i \in DOMAIN pats : pats[i] \in Row
      BY <1>1, PatIds
    <3> HIDE DEF copy, ids
    <3>3. ASSUME NEW i \in DOMAIN pats
          PROVE  \/ pats'[i] = pats[i]
                 \/ \E c : pats'[i] = [pats[i] EXCEPT !.misses = c]
                 \/ \E c : pats'[i] = [pats[i] EXCEPT !.hits = c]
      BY <3>1
    <3> QED
      BY <3>1, <3>2, <3>3 DEF Row
  <2> QED
    BY <1>2, <2>2, <2>3, SharedEarly
<1> QED
  BY <1>5, <1>6, <1>7, <1>8, <1>9, <1>10, <1>11 DEF Before

\* A run that has corrections was corrected in review.
LEMMA DeltasAreReviewed ==
    ASSUME NEW w \in Work, Deltas(w) # {}
    PROVE  \E d \in w.decisions : d.by = "review"
<1>1. PICK d \in w.decisions : d.by # "denylist"
  BY DEF Deltas
<1>2. d \in Decisions
  BY DEF Work
<1> QED
  BY <1>1, <1>2 DEF Decisions

\* The synthesis sets out to write only after a correction.
LEMMA SharedLearn ==
    ASSUME Inv, Shared, NEW s \in Sources, Learn(s)
    PROVE  Shared'
<1>1. run \in [Sources -> Work] /\ run[s] \in Work
  BY RunFacts
<1>2. PICK rs \in Answers :
         /\ rs # <<>> => Deltas(run[s]) # {}
         /\ run' = [run EXCEPT ![s].pc = IF rs = <<>> THEN "done" ELSE "lookup",
                               ![s].wrote = rs, ![s].at = 1, ![s].id = 0, ![s].occ = 0]
  BY DEF Learn
<1>3. run[s].pc = "learn" /\ UNCHANGED pats
  BY DEF Learn
<1>4. /\ run'[s].pc = IF rs = <<>> THEN "done" ELSE "lookup"
      /\ run'[s].at = 1 /\ run'[s].id = 0 /\ run'[s].decisions = run[s].decisions
      /\ \A u \in Sources \ {s} : run'[u] = run[u]
  BY <1>1, <1>2 DEF Work
<1>5. Learning(s)'
  <2>1. run'[s].pc = "lookup" => \E d \in run'[s].decisions : d.by = "review"
    BY <1>1, <1>2, <1>4, DeltasAreReviewed
  <2> QED
    BY <1>4, <2>1 DEF Learning, Reviewed, Writing, Early
<1>6. \A a : WrittenBy(s, a) \subseteq WrittenBy(s, a)'
  <2>1. run[s].at = 1
    BY <1>3 DEF Shared, Learning
  <2> QED
    BY <1>4, <2>1, WrittenOn
<1> QED
  BY <1>3, <1>4, <1>5, <1>6, SharesKept

\* A run that gives up its synthesis keeps what it has written.
LEMMA SharedGivesUp ==
    ASSUME Inv, Shared, NEW s \in Sources, UNCHANGED pats,
           run' = [run EXCEPT ![s].pc = "done", ![s].id = 0, ![s].occ = 0]
    PROVE  Shared'
<1>1. run \in [Sources -> Work] /\ run[s] \in Work
  BY RunFacts
<1>2. /\ run'[s].pc = "done" /\ run'[s].at = run[s].at /\ run[s].at \in Nat
      /\ run'[s].wrote = run[s].wrote /\ run'[s].decisions = run[s].decisions
      /\ \A u \in Sources \ {s} : run'[u] = run[u]
  BY <1>1 DEF Work
<1>3. Learning(s)'
  BY <1>2 DEF Learning, Early, Writing
<1>4. run[s].at <= run'[s].at /\ run'[s].at \in Nat
  BY <1>2
<1>5. \A a : WrittenBy(s, a) \subseteq WrittenBy(s, a)'
  BY <1>2, <1>4, WrittenOn
<1> QED
  BY <1>2, <1>3, <1>5, SharesKept DEF Writing

\* A lookup takes the row of the rule, or one of its area, and reads its count.
LEMMA SharedLookup ==
    ASSUME Inv, Shared, NEW s \in Sources, Lookup(s)
    PROVE  Shared'
<1>1. run \in [Sources -> Work] /\ run[s] \in Work /\ Tables
  BY RunFacts
<1>2. /\ run[s].pc = "lookup" /\ UNCHANGED pats
  BY DEF Lookup
<1>3. Reviewed(s) /\ run[s].at \in Nat
  BY <1>1, <1>2 DEF Shared, Learning, Writing, Work
<1>4. 0 \notin DOMAIN pats
  BY <1>1, PatIds
<1> DEFINE r == run[s].wrote[run[s].at]
<1>5. ASSUME NEW i \in DOMAIN pats \cup {0}, NEW o \in Counts(run[s], i),
             i # 0 => AreaOf[r] = AreaOf[pats[i].rule],
             run' = [run EXCEPT ![s].pc = "commit", ![s].id = i, ![s].occ = o]
      PROVE  Shared'
  <2> DEFINE k == [run[s] EXCEPT !.pc = "commit", !.id = i, !.occ = o]
  <2>1. run' = [run EXCEPT ![s] = k]
    BY <1>1, <1>5
  <2>2. /\ i = 0 => o = 0
        /\ i # 0 => o = pats[i].occ \/ (i = run[s].id /\ o = run[s].occ)
    BY DEF Counts
  <2>3. /\ k.pc = "commit" /\ k.id = i /\ k.occ = o /\ k.wrote = run[s].wrote
        /\ k.at = run[s].at /\ k.decisions = run[s].decisions
    BY <1>1 DEF Work
  <2> HIDE DEF k
  <2>4. run'[s] = k /\ \A u \in Sources \ {s} : run'[u] = run[u]
    BY <1>1, <2>1
  <2>5. Learning(s)'
    BY <1>2, <1>3, <1>5, <2>2, <2>3, <2>4 DEF Learning, Reviewed, Early, Writing
  <2>6. \A a : WrittenBy(s, a) \subseteq WrittenBy(s, a)'
    BY <1>3, <2>3, <2>4, WrittenOn
  <2>7. run'[s].id # 0 =>
           /\ run'[s].id \in DOMAIN pats
           /\ \/ run'[s].occ = pats[run'[s].id].occ
              \/ /\ run[s].pc \in Writing /\ run'[s].id = run[s].id
                 /\ run'[s].occ = run[s].occ
    BY <1>2, <1>5, <2>2, <2>3, <2>4 DEF Writing
  <2> QED
    BY <1>2, <2>4, <2>5, <2>6, <2>7, SharesKept
<1>6. ASSUME run' = [run EXCEPT ![s].pc = "done", ![s].id = 0, ![s].occ = 0] PROVE Shared'
  BY <1>1, <1>2, <1>6, SharedGivesUp
<1>7. \/ \E i \in Takes(r) : \E o \in Counts(run[s], i) :
            run' = [run EXCEPT ![s].pc = "commit", ![s].id = i, ![s].occ = o]
      \/ run' = [run EXCEPT ![s].pc = "done", ![s].id = 0, ![s].occ = 0]
  BY DEF Lookup
<1>8. \A i \in Takes(r) :
         i \in DOMAIN pats \cup {0} /\ (i # 0 => AreaOf[r] = AreaOf[pats[i].rule])
  BY DEF Takes, Exact, Similar
<1> QED
  BY <1>5, <1>6, <1>7, <1>8

\* What a failed synthesis left to write is never written.
LEMMA SharedSynthesisFails ==
    ASSUME Inv, Shared, NEW s \in Sources, SynthesisFails(s)
    PROVE  Shared'
BY SharedGivesUp DEF SynthesisFails

\* A row's status is no evidence.
LEMMA SharedStill ==
    ASSUME Inv, Shared, UNCHANGED run, DOMAIN pats' = DOMAIN pats,
           \A i \in DOMAIN pats : pats'[i].rule = pats[i].rule /\ pats'[i].occ = pats[i].occ
    PROVE  Shared'
<1>1. PICK m : Shares(m)
  BY DEF Shared
<1>2. \A u \in Sources : run[u].pc \in Writing => run[u].id \in {0} \cup DOMAIN pats
  BY DEF Inv, RunInv, Holding, Writing
<1>3. \A a : Marks(a)' = Marks(a)
  BY DEF Marks, KnownMark, WrittenMark, Written, WrittenBy, Reviewed
<1>4. \A i \in DOMAIN pats : Marks(AreaOf[pats[i].rule])' = Marks(AreaOf[pats[i].rule])
  <2>1. ASSUME NEW i \in DOMAIN pats, NEW a, a = AreaOf[pats[i].rule]
        PROVE  Marks(AreaOf[pats[i].rule])' = Marks(a)
    <3>1. AreaOf[pats'[i].rule] = a
      BY <2>1
    <3> QED
      BY <1>3, <3>1 DEF Marks, KnownMark, WrittenMark, Written, WrittenBy, Reviewed
  <2> QED
    BY <2>1
<1>5. Shares(m)'
  BY <1>1, <1>4 DEF Shares
<1>6. ASSUME NEW u \in Sources PROVE Learning(u)'
  BY <1>2, <1>6 DEF Shared, Learning, Writing, Reviewed
<1> QED
  BY <1>5, <1>6 DEF Shared

\* A commit counts one rule, which then is written, on one row: on a count that
\* was read, hence no more than the row's share, or in a row of its own.
LEMMA SharedCommit ==
    ASSUME Inv, Inv', Shared, NEW s \in Sources, Commit(s)
    PROVE  Shared'
<1>1. PICK w \in Work : w = run[s]
  BY RunFacts
<1>2. PICK m : Shares(m)
  BY DEF Shared
<1>3. /\ run \in [Sources -> Work] /\ Tables /\ w.pc = "commit"
      /\ w.id \in {0} \cup DOMAIN pats
  BY <1>1, RunFacts DEF RunInv, Holding, Commit
<1> DEFINE r == w.wrote[w.at]
           over == w.at = Len(w.wrote)
           t == IF w.id = 0 THEN Len(pats) + 1 ELSE w.id
<1>4. /\ w.id = 0 => w.occ = 0
      /\ w.id # 0 => AreaOf[r] = AreaOf[pats[w.id].rule]
      /\ Reviewed(s)
  BY <1>1, <1>3 DEF Shared, Learning, Writing
<1>5. r \in Rules /\ w.at \in Nat \ {0} /\ w.occ \in Nat
  <2>1. w.at \in DOMAIN w.wrote /\ w.wrote \in Seq(Rules)
    BY <1>1, <1>3, RunFacts DEF RunInv, Holding, Work
  <2> QED
    BY <2>1, ElementOfSeq DEF Work
<1>6. /\ pats' = IF w.id = 0 THEN Append(pats, NewRow(r))
                 ELSE [pats EXCEPT ![w.id].occ = w.occ + 1]
      /\ run' = [run EXCEPT ![s].pc = IF over THEN "done" ELSE "lookup",
                            ![s].at = w.at + 1,
                            ![s].id = IF over THEN 0 ELSE t,
                            ![s].occ = IF over THEN 0 ELSE w.occ + 1]
  BY <1>1 DEF Commit
<1>7. /\ run'[s].pc \in {"done", "lookup"} /\ run'[s].at = w.at + 1
      /\ run'[s].pc = "lookup" => run'[s].id = t /\ run'[s].occ = w.occ + 1
      /\ run'[s].decisions = w.decisions /\ run'[s].wrote = w.wrote
      /\ \A u \in Sources \ {s} : run'[u] = run[u]
  <2> HIDE DEF t
  <2> QED
    BY <1>1, <1>3, <1>6 DEF Work
<1> DEFINE e == WrittenMark(s, w.at)
           old == IF w.id = 0 THEN {} ELSE m[w.id]
<1>8. ASSUME NEW a PROVE w.at \notin WrittenBy(s, a)
  BY <1>1, <1>5 DEF WrittenBy
<1>9. ASSUME NEW a, NEW u \in Sources PROVE WrittenBy(u, a) \subseteq WrittenBy(u, a)'
  <2>1. CASE u = s
    BY <1>1, <1>5, <1>7, <2>1, WrittenOn
  <2>2. CASE u # s
    BY <1>7, <2>2 DEF WrittenBy, Reviewed
  <2> QED
    BY <2>1, <2>2
<1>10. ASSUME NEW a PROVE e \notin Marks(a)
  <2>1. ASSUME e \in Marks(a) PROVE FALSE
    <3>1. PICK c \in Written(a) : e = WrittenMark(c[1], c[2])
      BY <2>1 DEF Marks, KnownMark, WrittenMark
    <3>2. PICK u \in Sources : c \in {u} \X WrittenBy(u, a)
      BY DEF Written
    <3>3. c[1] = s /\ c[2] = w.at /\ c[1] = u /\ c[2] \in WrittenBy(u, a)
      BY <3>1, <3>2 DEF WrittenMark
    <3> QED
      BY <1>8, <3>3
  <2> QED
    BY <2>1
<1>11. e \in Marks(AreaOf[r])'
  <2>1. w.at \in WrittenBy(s, AreaOf[r])'
    BY <1>1, <1>4, <1>5, <1>7 DEF WrittenBy, Reviewed
  <2>2. <<s, w.at>> \in Written(AreaOf[r])'
    BY <2>1 DEF Written
  <2> DEFINE c == <<s, w.at>>
  <2>3. WrittenMark(c[1], c[2]) = e
    OBVIOUS
  <2> HIDE DEF e
  <2> QED
    BY <2>2, <2>3 DEF Marks, WrittenMark
<1>12. \A a : Marks(a) \subseteq Marks(a)'
  BY <1>9, MarksGrow
<1>13. /\ DOMAIN pats = 1..Len(pats) /\ Len(pats) \in Nat
       /\ \A i \in DOMAIN pats : pats[i] \in Row
       /\ \A i \in DOMAIN pats' : pats'[i] \in Row
       /\ pats \in Seq(Row)
  <2>1. Tables /\ Tables'
    BY DEF Inv
  <2>2. \A i \in DOMAIN pats' : pats'[i] \in Row
    <3>1. pats' \in Seq(Row)
      BY <2>1 DEF Tables
    <3> QED
      BY <3>1, ElementOfSeq
  <2> QED
    BY <2>1, <2>2, PatIds DEF Tables
<1>14. /\ IsFiniteSet(old) /\ e \notin old /\ old \subseteq Marks(AreaOf[r])
       /\ \A i \in DOMAIN pats : i # t => m[i] \cap old = {}
       /\ w.id # 0 => w.occ <= Cardinality(old) /\ pats[w.id].occ <= Cardinality(old)
  <2>1. CASE w.id = 0
    BY <2>1, FS_EmptySet
  <2>2. CASE w.id # 0
    <3>1. /\ w.id \in DOMAIN pats /\ old = m[w.id] /\ t = w.id
      BY <1>3, <2>2
    <3> QED
      BY <1>1, <1>2, <1>3, <1>4, <1>10, <2>2, <3>1 DEF Shares, Writing
  <2> QED
    BY <2>1, <2>2
<1>15. /\ IsFiniteSet(old \cup {e}) /\ Cardinality(old \cup {e}) = Cardinality(old) + 1
       /\ Cardinality(old) \in Nat
  BY <1>14, FS_AddElement, FS_CardinalityType
<1>16. /\ DOMAIN pats \subseteq DOMAIN pats' /\ t \in DOMAIN pats'
       /\ \A i \in DOMAIN pats' : i # t => i \in DOMAIN pats /\ pats'[i] = pats[i]
       /\ AreaOf[pats'[t].rule] = AreaOf[r]
       /\ pats'[t].occ <= Cardinality(old) + 1
       /\ w.id = 0 => t \notin DOMAIN pats
       /\ t \in DOMAIN pats => pats'[t].rule = pats[t].rule
  <2>1. CASE w.id = 0
    <3> DEFINE row == NewRow(r)
    <3>1. row.rule = r /\ row.occ = 1
      BY DEF NewRow
    <3>2. row \in Row
      BY <1>5 DEF NewRow, Row, Statuses
    <3> HIDE DEF row
    <3>3. /\ Append(pats, row) \in Seq(Row)
          /\ Len(Append(pats, row)) = Len(pats) + 1
          /\ \A i \in 1..Len(pats) : Append(pats, row)[i] = pats[i]
          /\ Append(pats, row)[Len(pats) + 1] = row
      BY <1>13, <3>2, AppendProperties
    <3>4. pats' = Append(pats, row) /\ t = Len(pats) + 1
      BY <1>6, <2>1 DEF row
    <3>5. DOMAIN pats' = 1..(Len(pats) + 1)
      BY <3>3, <3>4
    <3> HIDE DEF t, old
    <3> QED
      BY <1>13, <1>15, <2>1, <3>1, <3>3, <3>4, <3>5
  <2>2. CASE w.id # 0
    <3> DEFINE row == [pats[w.id] EXCEPT !.occ = w.occ + 1]
    <3>1. w.id \in DOMAIN pats /\ t = w.id /\ w.occ \in Nat
      BY <1>3, <2>2 DEF Work
    <3>2. row.rule = pats[w.id].rule /\ row.occ = w.occ + 1 /\ row \in Row
      <4>1. pats[w.id] \in Row /\ w.occ + 1 \in Nat
        BY <1>13, <3>1
      <4> QED
        BY <4>1 DEF Row
    <3>3. pats' = [pats EXCEPT ![w.id] = row]
      BY <1>6, <2>2, <3>1
    <3> HIDE DEF row
    <3>4. /\ DOMAIN pats' = DOMAIN pats
          /\ \A i \in DOMAIN pats : pats'[i] = IF i = w.id THEN row ELSE pats[i]
      BY <1>13, <3>1, <3>2, <3>3, SeqUpdate
    <3> HIDE DEF t, old
    <3> QED
      BY <1>4, <1>14, <1>15, <2>2, <3>1, <3>2, <3>4
  <2> QED
    BY <2>1, <2>2
<1> HIDE DEF e, t, old, r, over
<1>17. PICK n : \A i \in DOMAIN pats' : n[i] = IF i = t THEN old \cup {e} ELSE m[i]
  <2> DEFINE f == [i \in DOMAIN pats' |-> IF i = t THEN old \cup {e} ELSE m[i]]
  <2>1. \A i \in DOMAIN pats' : f[i] = IF i = t THEN old \cup {e} ELSE m[i]
    OBVIOUS
  <2> HIDE DEF f
  <2> QED
    BY <2>1
<1>18. ASSUME NEW i \in DOMAIN pats'
       PROVE  /\ IsFiniteSet(n[i]) /\ n[i] \subseteq Marks(AreaOf[pats[i].rule])'
              /\ pats'[i].occ <= Cardinality(n[i])
  <2>1. CASE i = t
    <3>1. old \cup {e} \subseteq Marks(AreaOf[r])'
      BY <1>11, <1>12, <1>14
    <3>2. ASSUME NEW a, a = AreaOf[r] PROVE Marks(a)' = Marks(AreaOf[pats[i].rule])'
      <4>1. AreaOf[pats'[i].rule] = a
        BY <1>16, <2>1, <3>2
      <4> QED
        BY <4>1 DEF Marks, KnownMark, WrittenMark, Written, WrittenBy, Reviewed
    <3>3. Marks(AreaOf[r])' = Marks(AreaOf[pats[i].rule])'
      BY <3>2
    <3> QED
      BY <1>15, <1>16, <1>17, <2>1, <3>1, <3>3
  <2>2. CASE i # t
    <3>1. i \in DOMAIN pats /\ pats'[i] = pats[i] /\ n[i] = m[i]
      BY <1>16, <1>17, <2>2
    <3>2. /\ IsFiniteSet(m[i]) /\ m[i] \subseteq Marks(AreaOf[pats[i].rule])
          /\ pats[i].occ <= Cardinality(m[i])
      BY <1>2, <3>1 DEF Shares
    <3>3. ASSUME NEW a, a = AreaOf[pats[i].rule]
          PROVE  Marks(a) \subseteq Marks(AreaOf[pats[i].rule])'
      <4>1. AreaOf[pats'[i].rule] = a
        BY <3>1, <3>3
      <4>2. Marks(a)' = Marks(AreaOf[pats[i].rule])'
        BY <4>1 DEF Marks, KnownMark, WrittenMark, Written, WrittenBy, Reviewed
      <4> QED
        BY <1>12, <4>2
    <3> QED
      BY <3>1, <3>2, <3>3
  <2> QED
    BY <2>1, <2>2
<1>19. ASSUME NEW i \in DOMAIN pats', NEW j \in DOMAIN pats', i # j
       PROVE  n[i] \cap n[j] = {}
  <2>1. \A k \in DOMAIN pats' : k # t =>
           k \in DOMAIN pats /\ n[k] = m[k] /\ e \notin m[k] /\ m[k] \cap old = {}
    BY <1>2, <1>10, <1>14, <1>16, <1>17 DEF Shares
  <2>2. n[t] = old \cup {e}
    BY <1>16, <1>17
  <2>3. CASE i = t
    BY <1>19, <2>1, <2>2, <2>3
  <2>4. CASE j = t
    BY <1>19, <2>1, <2>2, <2>4
  <2>5. CASE i # t /\ j # t
    BY <1>2, <1>19, <2>1, <2>5 DEF Shares
  <2> QED
    BY <2>3, <2>4, <2>5
<1>20. w.occ <= Cardinality(old)
  <2>1. CASE w.id = 0
    BY <1>4, <1>15, <2>1
  <2>2. CASE w.id # 0
    BY <1>14, <2>2
  <2> QED
    BY <2>1, <2>2
<1>21. run'[s].pc = "lookup" => run'[s].occ <= Cardinality(n[run'[s].id])
  <2>1. n[t] = old \cup {e}
    BY <1>16, <1>17
  <2>2. w.occ + 1 <= Cardinality(old) + 1
    BY <1>5, <1>15, <1>20
  <2> QED
    BY <1>7, <1>15, <2>1, <2>2
<1>22. ASSUME NEW u \in Sources, u # s, run'[u].pc \in Writing, run'[u].id # 0
       PROVE  run'[u].occ <= Cardinality(n[run'[u].id])
  <2>1. u # s /\ run'[u] = run[u]
    BY <1>7, <1>22
  <2>2. run[u].id \in DOMAIN pats /\ run[u].occ \in Nat
    BY <1>22, <2>1, RunFacts DEF RunInv, Holding, Work, Writing
  <2>3. run[u].occ <= Cardinality(m[run[u].id])
    BY <1>2, <1>22, <2>1 DEF Shares
  <2>4. CASE run[u].id = t
    <3>1. w.id # 0 /\ old = m[t]
      BY <1>16, <2>2, <2>4 DEF t, old
    <3>2. n[t] = old \cup {e} /\ run'[u].id = t /\ run'[u].occ = run[u].occ
      BY <1>16, <1>17, <2>1, <2>4
    <3>3. run[u].occ <= Cardinality(old)
      BY <2>3, <2>4, <3>1
    <3>4. run[u].occ <= Cardinality(old) + 1
      BY <1>15, <2>2, <3>3
    <3> QED
      BY <1>15, <3>2, <3>4
  <2>5. CASE run[u].id # t
    BY <1>16, <1>17, <2>1, <2>2, <2>3, <2>5
  <2> QED
    BY <2>4, <2>5
<1>23. Shares(n)'
  <2>1. \A u \in Sources : run'[u].pc \in Writing /\ run'[u].id # 0 =>
            run'[u].occ <= Cardinality(n[run'[u].id])
    BY <1>7, <1>21, <1>22 DEF Writing
  <2> QED
    BY <1>18, <1>19, <2>1 DEF Shares
<1>24. ASSUME NEW u \in Sources PROVE Learning(u)'
  <2>1. CASE u = s
    BY <1>1, <1>4, <1>7, <2>1 DEF Learning, Reviewed, Writing, Early
  <2>2. CASE u # s
    <3>1. Learning(u) /\ run'[u] = run[u]
      BY <1>7, <2>2 DEF Shared
    <3>2. run[u].pc \in Writing => run[u].id \in {0} \cup DOMAIN pats
      BY RunFacts DEF RunInv, Holding, Writing
    <3>3. \A i \in DOMAIN pats : i \in DOMAIN pats' /\ pats'[i].rule = pats[i].rule
      BY <1>16
    <3> QED
      BY <3>1, <3>2, <3>3 DEF Learning, Reviewed, Writing
  <2> QED
    BY <2>1, <2>2
<1> QED
  BY <1>23, <1>24 DEF Shared

\* The table starts with one row for each rule of earlier runs, which stands for
\* itself: no row shares its rule with another.
LEMMA SharedInit == Init => Shared
<1> SUFFICES ASSUME Init PROVE Shared
  OBVIOUS
<1> DEFINE N == Cardinality(InitialRules)
<1>1. PICK order \in [1..N -> InitialRules] :
         /\ \A r \in InitialRules : \E i \in DOMAIN order : order[i] = r
         /\ pats = [i \in DOMAIN order |-> NewRow(order[i])]
  BY DEF Init
<1>2. N \in Nat
  BY InputsAssumption, FS_CardinalityType
<1> HIDE DEF N
<1>3. IsFiniteSet(1..N) /\ Cardinality(1..N) = N
  BY <1>2, FS_Interval
<1>4. order \in Surjection(1..N, InitialRules)
  BY <1>1 DEF Surjection
<1>5. order \in Injection(1..N, InitialRules)
  BY <1>3, <1>4, FS_Surjection DEF N
<1>6. \A i, j \in 1..N : order[i] = order[j] => i = j
  BY <1>5 DEF Injection, IsInjective
<1> DEFINE m == [i \in 1..N |-> {KnownMark(order[i])}]
<1>7. DOMAIN pats = 1..N /\ \A i \in 1..N : pats[i].rule = order[i] /\ pats[i].occ = 1
  BY <1>1 DEF NewRow
<1>8. \A s \in Sources : run[s].pc = "fetch" /\ run[s].at = 1
  BY DEF Init, StartRun
<1>9. \A i \in 1..N : /\ IsFiniteSet(m[i]) /\ Cardinality(m[i]) = 1
                      /\ m[i] = {KnownMark(order[i])}
  BY FS_Singleton
<1> HIDE DEF m
<1>10. ASSUME NEW i \in DOMAIN pats
       PROVE  /\ IsFiniteSet(m[i]) /\ m[i] \subseteq Marks(AreaOf[pats[i].rule])
              /\ pats[i].occ <= Cardinality(m[i])
  <2>1. order[i] \in InitialRules
    BY <1>1, <1>7
  <2>2. KnownMark(order[i]) \in Marks(AreaOf[order[i]])
    BY <2>1 DEF Marks
  <2> QED
    BY <1>7, <1>9, <2>2
<1>11. \A i, j \in DOMAIN pats : i # j => m[i] \cap m[j] = {}
  BY <1>6, <1>7, <1>9 DEF KnownMark
<1>12. Shares(m)
  BY <1>8, <1>10, <1>11 DEF Shares, Writing
<1>13. \A s \in Sources : Learning(s)
  BY <1>8 DEF Learning, Writing
<1> QED
  BY <1>12, <1>13 DEF Shared

\* No step spends a piece of evidence twice.
LEMMA SharedNext == Inv /\ Inv' /\ Shared /\ [Next]_vars => Shared'
<1> SUFFICES ASSUME Inv, Inv', Shared, [Next]_vars PROVE Shared'
  OBVIOUS
<1>1. ASSUME NEW s \in Sources, Step(s) \/ Rerun(s) PROVE Shared'
  <2>1. Before(s) \/ Learn(s) \/ Lookup(s) \/ Commit(s) \/ SynthesisFails(s)
    BY <1>1 DEF Step, Before
  <2> QED
    BY <2>1, SharedBefore, SharedLearn, SharedLookup, SharedCommit, SharedSynthesisFails
<1>2. ASSUME NEW i \in 1..Len(pats), Decide(i) PROVE Shared'
  <2>1. PICK st : pats' = [pats EXCEPT ![i].status = st]
    BY <1>2 DEF Decide
  <2>2. i \in DOMAIN pats /\ UNCHANGED run
    BY <1>2 DEF Decide
  <2>3. \A j \in DOMAIN pats : pats[j] \in Row
    BY PatIds DEF Inv
  <2>4. /\ DOMAIN pats' = DOMAIN pats
        /\ \A j \in DOMAIN pats : pats'[j].rule = pats[j].rule /\ pats'[j].occ = pats[j].occ
    BY <2>1, <2>2, <2>3 DEF Row
  <2> QED
    BY <2>2, <2>4, SharedStill
<1>3. CASE UNCHANGED vars
  <2>1. UNCHANGED <<pats, run>>
    BY <1>3 DEF vars
  <2> QED
    BY <2>1, SharedStill
<1> QED
  BY <1>1, <1>2, <1>3 DEF Next

\* A function that meets every element of a set bounds its size.
LEMMA CoveredBy ==
    ASSUME NEW S, NEW T, IsFiniteSet(S), NEW f, DOMAIN f = S, f = [x \in S |-> f[x]],
           T = {f[x] : x \in S}
    PROVE  IsFiniteSet(T) /\ Cardinality(T) <= Cardinality(S)
<1>1. f \in Surjection(S, T)
  BY DEF Surjection
<1> QED
  BY <1>1, FS_Surjection

\* Finitely many runs have written finitely many rules.
LEMMA WrittenIsFinite ==
    ASSUME Inv, NEW a, IsFiniteSet(Sources)
    PROVE  IsFiniteSet(Written(a))
<1> DEFINE f == [s \in Sources |-> {s} \X WrittenBy(s, a)]
           T == {f[s] : s \in Sources}
<1>1. ASSUME NEW s \in Sources PROVE IsFiniteSet({s} \X WrittenBy(s, a))
  <2>1. run[s].at - 1 \in Int
    BY RunFacts DEF Work
  <2>2. IsFiniteSet(1 .. (run[s].at - 1))
    BY <2>1, FS_Interval
  <2>3. IsFiniteSet(WrittenBy(s, a))
    BY <2>2, FS_Subset DEF WrittenBy
  <2> QED
    BY <2>3, FS_Singleton, FS_Product
<1>2. DOMAIN f = Sources /\ f = [s \in Sources |-> f[s]]
  OBVIOUS
<1>3. \A s \in Sources : f[s] = {s} \X WrittenBy(s, a)
  OBVIOUS
<1>4. Written(a) = UNION T
  BY DEF Written
<1> HIDE DEF f
<1>5. IsFiniteSet(T)
  BY <1>2, CoveredBy
<1>6. \A t \in T : IsFiniteSet(t)
  BY <1>1, <1>3
<1> HIDE DEF T
<1> QED
  BY <1>4, <1>5, <1>6, FS_UNION

\* There is no more evidence of an area than rules it had and rules written of it.
LEMMA EvidenceOfArea ==
    ASSUME Inv, NEW a, IsFiniteSet(Sources)
    PROVE  LET A == {r \in InitialRules : AreaOf[r] = a}
           IN  /\ IsFiniteSet(Marks(a)) /\ IsFiniteSet(A) /\ IsFiniteSet(Written(a))
               /\ Cardinality(Marks(a)) <= Cardinality(A) + Cardinality(Written(a))
<1> DEFINE A == {r \in InitialRules : AreaOf[r] = a}
           C == Written(a)
           f == [r \in A |-> KnownMark(r)]
           g == [c \in C |-> WrittenMark(c[1], c[2])]
           K == {f[r] : r \in A}
           L == {g[c] : c \in C}
<1>1. IsFiniteSet(C) /\ IsFiniteSet(A)
  BY WrittenIsFinite, FS_Subset, InputsAssumption
<1>2. Marks(a) = K \cup L
  <2>1. K = {KnownMark(r) : r \in A} /\ L = {WrittenMark(c[1], c[2]) : c \in C}
    OBVIOUS
  <2> HIDE DEF K, L
  <2> QED
    BY <2>1 DEF Marks
<1>3. /\ DOMAIN f = A /\ f = [r \in A |-> f[r]]
      /\ DOMAIN g = C /\ g = [c \in C |-> g[c]]
  OBVIOUS
<1> HIDE DEF A, C, f, g
<1>4. /\ IsFiniteSet(K) /\ Cardinality(K) <= Cardinality(A)
      /\ IsFiniteSet(L) /\ Cardinality(L) <= Cardinality(C)
  BY <1>1, <1>3, CoveredBy
<1> HIDE DEF K, L
<1>5. /\ IsFiniteSet(K \cup L) /\ IsFiniteSet(K \cap L)
      /\ Cardinality(K \cup L) = Cardinality(K) + Cardinality(L) - Cardinality(K \cap L)
  BY <1>4, FS_Union, FS_Subset
<1>6. /\ Cardinality(A) \in Nat /\ Cardinality(C) \in Nat
      /\ Cardinality(K) \in Nat /\ Cardinality(L) \in Nat /\ Cardinality(K \cap L) \in Nat
  BY <1>1, <1>4, <1>5, FS_CardinalityType
<1>7. Cardinality(K \cup L) <= Cardinality(A) + Cardinality(C)
  BY <1>4, <1>5, <1>6
<1> QED
  BY <1>1, <1>2, <1>5, <1>7 DEF A, C

\* The recurrences of an area fit, one by one, into its evidence.
LEMMA RecurrencesFit ==
    ASSUME Inv, Shared, NEW a, IsFiniteSet(Marks(a))
    PROVE  /\ IsFiniteSet(Recurrences(a))
           /\ Cardinality(Recurrences(a)) <= Cardinality(Marks(a))
<1>1. PICK m : Shares(m)
  BY DEF Shared
<1> DEFINE J == {j \in DOMAIN pats : AreaOf[pats[j].rule] = a}
           R == Recurrences(a)
           bij(j) == CHOOSE b : b \in Bijection(1 .. Cardinality(m[j]), m[j])
           h == [x \in R |-> bij(x[1])[x[2]]]
<1>2. ASSUME NEW j \in J
      PROVE  /\ bij(j) \in Bijection(1 .. Cardinality(m[j]), m[j])
             /\ Cardinality(m[j]) \in Nat /\ pats[j].occ \in Nat
             /\ pats[j].occ <= Cardinality(m[j]) /\ m[j] \subseteq Marks(a)
  <2>1. /\ IsFiniteSet(m[j]) /\ m[j] \subseteq Marks(a)
        /\ pats[j].occ <= Cardinality(m[j])
    BY <1>1 DEF Shares
  <2>2. Cardinality(m[j]) \in Nat /\ \E b : b \in Bijection(1 .. Cardinality(m[j]), m[j])
    BY <2>1, FS_CardinalityType DEF ExistsBijection
  <2>3. pats[j].occ \in Nat
    BY PatIds DEF Inv, Row
  <2> QED
    BY <2>1, <2>2, <2>3
<1>3. ASSUME NEW j \in J, NEW k \in 1 .. pats[j].occ
      PROVE  k \in 1 .. Cardinality(m[j]) /\ bij(j)[k] \in m[j]
  <2> HIDE DEF bij, J
  <2>1. k \in 1 .. Cardinality(m[j])
    <3>1. /\ Cardinality(m[j]) \in Nat /\ pats[j].occ \in Nat
          /\ pats[j].occ <= Cardinality(m[j])
      BY <1>2
    <3> QED
      BY <3>1
  <2> QED
    BY <1>2, <2>1 DEF Bijection, Injection
<1>4. ASSUME NEW j \in J, NEW k \in 1 .. pats[j].occ, NEW l \in 1 .. pats[j].occ,
             bij(j)[k] = bij(j)[l]
      PROVE  k = l
  <2>1. k \in 1 .. Cardinality(m[j]) /\ l \in 1 .. Cardinality(m[j])
    BY <1>3
  <2> HIDE DEF bij, J
  <2> QED
    BY <1>2, <1>4, <2>1 DEF Bijection, Injection, IsInjective
<1>5. ASSUME NEW x \in R
      PROVE  x[1] \in J /\ x[2] \in 1 .. pats[x[1]].occ /\ x = <<x[1], x[2]>>
  <2>1. PICK j \in J : x \in {j} \X (1 .. pats[j].occ)
    BY DEF Recurrences
  <2> QED
    BY <2>1
<1>6. \A i, j \in J : i # j => m[i] \cap m[j] = {}
  BY <1>1 DEF Shares
<1> HIDE DEF J, R, bij
<1>7. ASSUME NEW x \in R PROVE h[x] \in m[x[1]] /\ h[x] \in Marks(a)
  <2>1. h[x] = bij(x[1])[x[2]]
    OBVIOUS
  <2> QED
    BY <1>2, <1>3, <1>5, <2>1
<1>8. ASSUME NEW x \in R, NEW y \in R, h[x] = h[y] PROVE x = y
  <2>1. x[1] = y[1]
    BY <1>5, <1>6, <1>7, <1>8
  <2>2. x[2] = y[2]
    <3>1. bij(x[1])[x[2]] = bij(x[1])[y[2]]
      BY <1>8, <2>1
    <3> QED
      BY <1>4, <1>5, <2>1, <3>1
  <2> QED
    BY <1>5, <2>1, <2>2
<1>9. h \in Injection(R, Marks(a))
  <2>1. h \in [R -> Marks(a)]
    BY <1>7
  <2>2. DOMAIN h = R
    OBVIOUS
  <2> HIDE DEF h
  <2> QED
    BY <1>8, <2>1, <2>2 DEF Injection, IsInjective
<1> HIDE DEF h
<1>10. IsFiniteSet(R) /\ Cardinality(R) <= Cardinality(Marks(a))
  BY <1>9, FS_Injection
<1> QED
  BY <1>10 DEF R

\* A rule's recurrences are rules a synthesis wrote after a review, whatever the LLM
\* answers, however many runs write the table at once and whatever they read before
\* their awaits (persist_pattern): none is counted twice, nor on the machine's own
\* word.
THEOREM OccurrencesAreWrittenHolds ==
    ASSUME IsFiniteSet(Sources)
    PROVE  Spec => []OccurrencesAreWritten
<1>1. Inv /\ Shared => OccurrencesAreWritten
  <2> SUFFICES ASSUME Inv, Shared, NEW a \in Areas
               PROVE  Cardinality(Recurrences(a)) <=
                         Cardinality({r \in InitialRules : AreaOf[r] = a})
                         + Cardinality(Written(a))
    BY DEF OccurrencesAreWritten
  <2> DEFINE A == {r \in InitialRules : AreaOf[r] = a}
             B == Written(a)
  <2>1. /\ IsFiniteSet(Marks(a)) /\ IsFiniteSet(A) /\ IsFiniteSet(B)
        /\ Cardinality(Marks(a)) <= Cardinality(A) + Cardinality(B)
    BY EvidenceOfArea
  <2> HIDE DEF A, B
  <2>2. /\ IsFiniteSet(Recurrences(a))
        /\ Cardinality(Recurrences(a)) <= Cardinality(Marks(a))
    BY <2>1, RecurrencesFit
  <2>3. /\ Cardinality(Recurrences(a)) \in Nat /\ Cardinality(Marks(a)) \in Nat
        /\ Cardinality(A) \in Nat /\ Cardinality(B) \in Nat
    BY <2>1, <2>2, FS_CardinalityType
  <2>4. Cardinality(Recurrences(a)) <= Cardinality(A) + Cardinality(B)
    BY <2>1, <2>2, <2>3
  <2> QED
    BY <2>4 DEF A, B
<1>2. Init => Shared
  BY SharedInit
<1>3. Inv /\ Inv' /\ Shared /\ [Next]_vars => Shared'
  BY SharedNext
<1> QED
  BY <1>1, <1>2, <1>3, InvHolds, PTL DEF Spec

-----------------------------------------------------------------------------
\* The rules the ledger names for the run of u.
Ledger(u) == {x.pat : x \in {y \in surf : y.s = u}}

\* What a run has shown, and what the cache would show it, is in its ledger.
LedgeredFor(u) ==
    ~run[u].lost =>
        /\ run[u].shown \subseteq Ledger(u)
        /\ \A k \in DOMAIN cache : k[1] = TextOf[u] => cache[k] \subseteq Ledger(u)

LedgerInv == \A u \in Sources : LedgeredFor(u)

DistinctArticles == \A s, t \in Sources : TextOf[s] = TextOf[t] => s = t

\* A step of s adds to the cache only under the article of s, which no other run
\* reads, and only what the ledger names for s by then.
LEMMA LedgerStep ==
    ASSUME DistinctArticles, LedgerInv, NEW s \in Sources,
           \A u \in Sources \ {s} : run'[u] = run[u],
           \A u \in Sources : Ledger(u) \subseteq Ledger(u)',
           ~run'[s].lost => ~run[s].lost /\ run'[s].shown \subseteq Ledger(s)',
           \A k \in DOMAIN cache' :
               \/ k \in DOMAIN cache /\ cache'[k] = cache[k]
               \/ k[1] = TextOf[s] /\ (~run'[s].lost => cache'[k] \subseteq Ledger(s)')
    PROVE  LedgerInv'
<1> SUFFICES ASSUME NEW u \in Sources PROVE LedgeredFor(u)'
  BY DEF LedgerInv
<1>1. LedgeredFor(u) /\ Ledger(u) \subseteq Ledger(u)'
  BY DEF LedgerInv
<1>2. CASE u = s
  BY <1>1, <1>2 DEF LedgeredFor
<1>3. CASE u # s
  <2>1. \A k \in DOMAIN cache' : k[1] = TextOf[u] => k \in DOMAIN cache /\ cache'[k] = cache[k]
    BY <1>3 DEF DistinctArticles
  <2> QED
    BY <1>1, <1>3, <2>1 DEF LedgeredFor
<1> QED
  BY <1>2, <1>3

\* A step that shows nothing new, caches nothing new and forgets no row.
LEMMA LedgerQuiet ==
    ASSUME DistinctArticles, Inv, LedgerInv, NEW s \in Sources, NEW k,
           run' = [run EXCEPT ![s] = k], k.shown = run[s].shown,
           k.lost = run[s].lost \/ k.lost = TRUE,
           \A u \in Sources : Ledger(u) \subseteq Ledger(u)',
           \A c \in DOMAIN cache' : c \in DOMAIN cache /\ cache'[c] = cache[c]
    PROVE  LedgerInv'
<1>1. run \in [Sources -> Work]
  BY RunFacts
<1>2. run'[s] = k /\ \A u \in Sources \ {s} : run'[u] = run[u]
  BY <1>1
<1>3. ~run[s].lost => run[s].shown \subseteq Ledger(s)
  BY DEF LedgerInv, LedgeredFor
<1>4. ~run'[s].lost => ~run[s].lost /\ run'[s].shown \subseteq Ledger(s)'
  BY <1>2, <1>3
<1> QED
  BY <1>2, <1>4, LedgerStep

\* What a run remembers is under the fingerprint of its own article.
LEMMA RememberedKey ==
    ASSUME NEW s \in Sources, NEW ids, Remember(s, ids)
    PROVE  \A k \in DOMAIN cache' :
              \/ k \in DOMAIN cache /\ cache'[k] = cache[k]
              \/ k[1] = TextOf[s] /\ cache'[k] = ids
BY DEF Remember, CacheKey

\* The fetches: on a hit the ledger of the miss before names the rules, on a miss
\* this one does, and where entering them failed the run is marked.
LEMMA LedgerFetch ==
    ASSUME DistinctArticles, Inv, LedgerInv, NEW s \in Sources,
           FetchHit(s) \/ ReadPinned(s) \/ RecordFails(s) \/ ReadFails(s)
    PROVE  LedgerInv'
<1>1. /\ run \in [Sources -> Work] /\ run[s] \in Work /\ Tables
      /\ \A c \in DOMAIN cache : cache[c] \in SUBSET Nat
  BY RunFacts
<1>2. ~run[s].lost => /\ run[s].shown \subseteq Ledger(s)
                      /\ \A k \in DOMAIN cache : k[1] = TextOf[s] => cache[k] \subseteq Ledger(s)
  BY DEF LedgerInv, LedgeredFor
<1>3. CASE FetchHit(s)
  <2> DEFINE ids == cache[CacheKey(s)]
             k   == [NextFetch(run[s]) EXCEPT !.shown = @ \cup ids]
  <2>1. /\ CacheKey(s) \in DOMAIN cache /\ run' = [run EXCEPT ![s] = k]
        /\ UNCHANGED <<surf, cache>>
    BY <1>3 DEF FetchHit
  <2>2. ids \in SUBSET Nat /\ CacheKey(s)[1] = TextOf[s]
    BY <1>1, <2>1 DEF CacheKey
  <2>3. k.shown = run[s].shown \cup ids /\ k.lost = run[s].lost
    BY <1>1, <2>2, NextFetchShape
  <2> HIDE DEF k
  <2>4. run'[s] = k /\ \A u \in Sources \ {s} : run'[u] = run[u]
    BY <1>1, <2>1
  <2>5. \A u \in Sources : Ledger(u)' = Ledger(u)
    BY <2>1 DEF Ledger
  <2>6. ~run'[s].lost => ~run[s].lost /\ run'[s].shown \subseteq Ledger(s)'
    BY <1>2, <2>1, <2>2, <2>3, <2>4, <2>5
  <2> QED
    BY <2>1, <2>4, <2>5, <2>6, LedgerStep
<1>4. CASE ReadPinned(s)
  <2> DEFINE ids == run[s].held \cup WithStatus({"promoted_to_prompt"})
             k   == [NextFetch(run[s]) EXCEPT !.shown = @ \cup ids]
             new == [s : {s}, node : {Fetches[run[s].fetch]}, pat : ids,
                     pass : {run[s].pass}, outcome : {Open}]
  <2>1. /\ run[s].pc = "pinned" /\ Remember(s, ids) /\ surf' = surf \cup new
        /\ run' = [run EXCEPT ![s] = k]
    BY <1>4 DEF ReadPinned
  <2>2. ids \in SUBSET Nat
    BY <2>1, Fetched
  <2> HIDE DEF ids
  <2>3. k.shown = run[s].shown \cup ids /\ k.lost = run[s].lost
    BY <1>1, <2>2, NextFetchShape
  <2> HIDE DEF k
  <2>4. run'[s] = k /\ \A u \in Sources \ {s} : run'[u] = run[u]
    BY <1>1, <2>1
  <2>5. \A u \in Sources : Ledger(u) \subseteq Ledger(u)'
    BY <2>1 DEF Ledger
  <2>6. ids \subseteq Ledger(s)'
    <3> SUFFICES ASSUME NEW i \in ids PROVE i \in Ledger(s)'
      OBVIOUS
    <3> DEFINE x == [s |-> s, node |-> Fetches[run[s].fetch], pat |-> i,
                     pass |-> run[s].pass, outcome |-> Open]
    <3>1. x \in surf' /\ x.s = s /\ x.pat = i
      BY <2>1
    <3> HIDE DEF x
    <3> QED
      BY <3>1 DEF Ledger
  <2>7. ~run'[s].lost => ~run[s].lost /\ run'[s].shown \subseteq Ledger(s)'
    BY <1>2, <2>3, <2>4, <2>5, <2>6
  <2>8. \A c \in DOMAIN cache' :
           \/ c \in DOMAIN cache /\ cache'[c] = cache[c]
           \/ c[1] = TextOf[s] /\ cache'[c] = ids
    BY <2>1, RememberedKey
  <2> QED
    BY <2>4, <2>5, <2>6, <2>7, <2>8, LedgerStep
<1>5. CASE RecordFails(s)
  <2> DEFINE ids == run[s].held \cup WithStatus({"promoted_to_prompt"})
             k   == [NextFetch(run[s]) EXCEPT !.shown = @ \cup ids, !.lost = TRUE]
  <2>1. /\ run[s].pc = "pinned" /\ Remember(s, ids) /\ UNCHANGED surf
        /\ run' = [run EXCEPT ![s] = k]
    BY <1>5 DEF RecordFails
  <2>2. NextFetch(run[s]) \in Work
    BY <1>1, NextFetchShape
  <2>3. k.lost = TRUE
    BY <2>2 DEF Work
  <2> HIDE DEF k, ids
  <2>4. run'[s] = k /\ \A u \in Sources \ {s} : run'[u] = run[u]
    BY <1>1, <2>1
  <2>5. \A u \in Sources : Ledger(u)' = Ledger(u)
    BY <2>1 DEF Ledger
  <2>6. \A c \in DOMAIN cache' :
           \/ c \in DOMAIN cache /\ cache'[c] = cache[c]
           \/ c[1] = TextOf[s] /\ cache'[c] = ids
    BY <2>1, RememberedKey
  <2> QED
    BY <2>3, <2>4, <2>5, <2>6, LedgerStep
<1>6. CASE ReadFails(s)
  <2> DEFINE k == NextFetch(run[s])
  <2>1. Remember(s, {}) /\ UNCHANGED surf /\ run' = [run EXCEPT ![s] = k]
    BY <1>6 DEF ReadFails
  <2>2. k.shown = run[s].shown /\ k.lost = run[s].lost
    BY <1>1, NextFetchShape
  <2> HIDE DEF k
  <2>3. run'[s] = k /\ \A u \in Sources \ {s} : run'[u] = run[u]
    BY <1>1, <2>1
  <2>4. \A u \in Sources : Ledger(u)' = Ledger(u)
    BY <2>1 DEF Ledger
  <2>5. \A c \in DOMAIN cache' :
           \/ c \in DOMAIN cache /\ cache'[c] = cache[c]
           \/ c[1] = TextOf[s] /\ cache'[c] = {}
    BY <2>1, RememberedKey
  <2>6. ~run'[s].lost => ~run[s].lost /\ run'[s].shown \subseteq Ledger(s)'
    BY <1>2, <2>2, <2>3, <2>4
  <2> QED
    BY <2>3, <2>4, <2>5, <2>6, LedgerStep
<1> QED
  BY <1>3, <1>4, <1>5, <1>6

\* A row that is closed still names its rule for its source.
LEMMA LedgerClose ==
    ASSUME DistinctArticles, Inv, LedgerInv, NEW s \in Sources, Close(s)
    PROVE  LedgerInv'
<1>1. /\ run \in [Sources -> Work] /\ run[s] \in Work /\ Tables
  BY RunFacts
<1> DEFINE k == [run[s] EXCEPT !.pc = "learn", !.held = {}, !.rows = {}]
<1>2. run' = [run EXCEPT ![s] = k] /\ UNCHANGED cache
  BY <1>1 DEF Close
<1>3. k.shown = run[s].shown /\ k.lost = run[s].lost
  BY <1>1 DEF Work
<1>4. PICK f : surf' = (surf \ run[s].rows) \cup {[x EXCEPT !.outcome = f[x]] : x \in run[s].rows}
  <2> DEFINE w == run[s]
             copy(i) == CHOOSE h \in w.held : h.i = i
  <2>1. PICK missed \in SUBSET Attributable(w) :
           surf' = (surf \ w.rows) \cup
               {[x EXCEPT !.outcome = Outcome(w, copy(x.pat), missed)] : x \in w.rows}
    BY DEF Close, ClosedRows
  <2> DEFINE g == [x \in w.rows |-> Outcome(w, copy(x.pat), missed)]
  <2>2. \A x \in w.rows : g[x] = Outcome(w, copy(x.pat), missed)
    OBVIOUS
  <2> HIDE DEF copy, g
  <2>3. surf' = (surf \ w.rows) \cup {[x EXCEPT !.outcome = g[x]] : x \in w.rows}
    BY <2>1, <2>2
  <2> QED
    BY <2>3
<1>5. ASSUME NEW u \in Sources, NEW y \in surf, y.s = u PROVE y.pat \in Ledger(u)'
  <2>1. CASE y \in run[s].rows
    <3> DEFINE z == [y EXCEPT !.outcome = f[y]]
    <3>1. y \in Entry
      BY <1>1 DEF Tables
    <3>2. z \in surf' /\ z.s = u /\ z.pat = y.pat
      BY <1>4, <1>5, <2>1, <3>1 DEF Entry
    <3> HIDE DEF z
    <3> QED
      BY <3>2 DEF Ledger
  <2>2. CASE y \notin run[s].rows
    BY <1>4, <1>5, <2>2 DEF Ledger
  <2> QED
    BY <2>1, <2>2
<1>6. \A u \in Sources : Ledger(u) \subseteq Ledger(u)'
  BY <1>5 DEF Ledger
<1> HIDE DEF k
<1> QED
  BY <1>2, <1>3, <1>6, LedgerQuiet

\* The other steps of a run neither show nor cache a rule, nor touch the ledger.
LEMMA LedgerRest ==
    ASSUME DistinctArticles, Inv, LedgerInv, NEW s \in Sources,
           \/ ReadCandidates(s) \/ Review(s) \/ ReadSurfacings(s) \/ ScoreFails(s)
           \/ Learn(s) \/ Lookup(s) \/ Commit(s) \/ SynthesisFails(s) \/ Rerun(s)
    PROVE  LedgerInv'
<1>1. run \in [Sources -> Work] /\ run[s] \in Work
  BY RunFacts
<1>2. /\ UNCHANGED surf
      /\ \A c \in DOMAIN cache' : c \in DOMAIN cache /\ cache'[c] = cache[c]
  BY DEF ReadCandidates, Review, ReadSurfacings, ScoreFails, Learn, Lookup, Commit,
         SynthesisFails, Rerun
<1>3. \A u \in Sources : Ledger(u) \subseteq Ledger(u)'
  BY <1>2 DEF Ledger
<1>4. /\ \A u \in Sources \ {s} : run'[u] = run[u]
      /\ run'[s].shown = run[s].shown
      /\ run'[s].lost = run[s].lost \/ run'[s].lost = TRUE
  <2>1. CASE ReadCandidates(s)
    BY <1>1, <2>1 DEF ReadCandidates, Work
  <2>2. CASE Review(s)
    <3>1. PICK att, ds : run' = [run EXCEPT ![s].pc = "score", ![s].attended = att,
                                            ![s].decisions = ds]
      BY <2>2 DEF Review
    <3> QED
      BY <1>1, <3>1 DEF Work
  <2>3. CASE ReadSurfacings(s)
    BY <1>1, <2>3 DEF ReadSurfacings, Work
  <2>4. CASE ScoreFails(s)
    BY <1>1, <2>4 DEF ScoreFails, Work
  <2>5. CASE Learn(s)
    <3>1. PICK rs : run' = [run EXCEPT ![s].pc = IF rs = <<>> THEN "done" ELSE "lookup",
                                       ![s].wrote = rs, ![s].at = 1,
                                       ![s].id = 0, ![s].occ = 0]
      BY <2>5 DEF Learn
    <3> QED
      BY <1>1, <3>1 DEF Work
  <2>6. CASE Lookup(s)
    <3> DEFINE kept == /\ \A u \in Sources \ {s} : run'[u] = run[u]
                       /\ run'[s].shown = run[s].shown /\ run'[s].lost = run[s].lost
    <3>1. ASSUME NEW i, NEW o,
                 run' = [run EXCEPT ![s].pc = "commit", ![s].id = i, ![s].occ = o]
          PROVE  kept
      BY <1>1, <3>1 DEF Work
    <3>2. ASSUME run' = [run EXCEPT ![s].pc = "done", ![s].id = 0, ![s].occ = 0] PROVE kept
      BY <1>1, <3>2 DEF Work
    <3> HIDE DEF kept
    <3>3. kept
      BY <2>6, <3>1, <3>2 DEF Lookup
    <3> QED
      BY <3>3 DEF kept
  <2>7. CASE Commit(s)
    <3>1. PICK p, a, i, o :
             run' = [run EXCEPT ![s].pc = p, ![s].at = a, ![s].id = i, ![s].occ = o]
      BY <2>7 DEF Commit
    <3> QED
      BY <1>1, <3>1 DEF Work
  <2>8. CASE SynthesisFails(s)
    BY <1>1, <2>8 DEF SynthesisFails, Work
  <2>9. CASE Rerun(s)
    BY <1>1, <2>9 DEF Rerun, Work
  <2> QED
    BY <2>1, <2>2, <2>3, <2>4, <2>5, <2>6, <2>7, <2>8, <2>9
<1>5. ~run[s].lost => run[s].shown \subseteq Ledger(s)
  BY DEF LedgerInv, LedgeredFor
<1> QED
  BY <1>2, <1>3, <1>4, <1>5, LedgerStep

\* While no two sources hold the same article, a rule a prompt carried is in the
\* ledger of that run's source, however fetches, reruns, lapses of the cache and
\* the analyst's decisions interleave (relevant_addendum_cached).
THEOREM ShownIsLedgeredHolds ==
    ASSUME DistinctArticles
    PROVE  Spec => []ShownIsLedgered
<1>1. Init => LedgerInv
  <2> SUFFICES ASSUME Init, NEW u \in Sources PROVE LedgeredFor(u)
    BY DEF LedgerInv
  <2>1. run[u].shown = {} /\ DOMAIN cache = {}
    BY DEF Init, StartRun
  <2> QED
    BY <2>1 DEF LedgeredFor
<1>2. Inv /\ LedgerInv /\ [Next]_vars => LedgerInv'
  <2> SUFFICES ASSUME Inv, LedgerInv, [Next]_vars PROVE LedgerInv'
    OBVIOUS
  <2>1. ASSUME NEW s \in Sources, Step(s) \/ Rerun(s) PROVE LedgerInv'
    BY <2>1, LedgerFetch, LedgerClose, LedgerRest DEF Step
  <2>2. ASSUME NEW i \in 1..Len(pats), Decide(i) PROVE LedgerInv'
    <3>1. UNCHANGED <<surf, run>> /\ DOMAIN cache' = {}
      BY <2>2 DEF Decide
    <3>2. \A u \in Sources : Ledger(u)' = Ledger(u)
      BY <3>1 DEF Ledger
    <3> QED
      BY <3>1, <3>2 DEF LedgerInv, LedgeredFor
  <2>3. CASE UNCHANGED vars
    BY <2>3 DEF vars, LedgerInv, LedgeredFor, Ledger
  <2> QED
    BY <2>1, <2>2, <2>3 DEF Next
<1>3. LedgerInv => ShownIsLedgered
  BY DEF LedgerInv, LedgeredFor, Ledger, ShownIsLedgered
<1> QED
  BY <1>1, <1>2, <1>3, InvHolds, PTL DEF Spec

=============================================================================
