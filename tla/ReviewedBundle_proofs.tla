------------------------- MODULE ReviewedBundle_proofs -------------------------
(***************************************************************************)
(* What the analyst decided, what was serialized and what the validator    *)
(* made of it, for any entities, drafts, flow and reviews.                 *)
(***************************************************************************)
EXTENDS ReviewedBundle, TLAPS

(***************************************************************************)
(* What the validator's recovery and auto-fix passes do to any bundle.     *)
(***************************************************************************)
\* The fields of a record, all that it is.
ObjectFields == {"id", "type", "techs", "print", "refs", "outs", "sources", "needs"}
SroFields    == {"src", "verb", "tgt", "by"}
IsObject(o)  == o = [f \in ObjectFields |-> o[f]]
IsSro(r)     == r = [f \in SroFields |-> r[f]]

\* What is named by one id is of one type.
IsBundle(b) ==
    /\ b = [objects |-> b.objects, sros |-> b.sros]
    /\ \A o \in b.objects : IsObject(o)
    /\ \A r \in b.sros : IsSro(r)
    /\ \A o, p \in b.objects : o.id = p.id => o.type = p.type

\* The bundles name the same things, each by the type it had.
SameNames(a, b) ==
    /\ \A o \in a.objects : \E p \in b.objects : p.id = o.id /\ p.type = o.type
    /\ \A p \in b.objects : \E o \in a.objects : o.id = p.id /\ o.type = p.type

-----------------------------------------------------------------------------
\* In a bundle an id has the type of every object it names.
LEMMA TypeOfObject ==
    ASSUME NEW b, IsBundle(b), NEW o \in b.objects
    PROVE  TypeIn(b, o.id) = o.type
<1> DEFINE p == CHOOSE x \in b.objects : x.id = o.id
<1>1. p \in b.objects /\ p.id = o.id
  OBVIOUS
<1> QED
  BY <1>1 DEF TypeIn, IsBundle

\* Bundles of the same names have the same ids, of the same types.
LEMMA NamesAgree ==
    ASSUME NEW a, NEW b, IsBundle(a), IsBundle(b), SameNames(a, b)
    PROVE  Ids(a) = Ids(b) /\ \A x \in Ids(a) : TypeIn(a, x) = TypeIn(b, x)
<1>1. Ids(a) = Ids(b)
  BY DEF Ids, SameNames
<1>2. ASSUME NEW x \in Ids(a) PROVE TypeIn(a, x) = TypeIn(b, x)
  <2>1. PICK o \in a.objects : o.id = x
    BY <1>2 DEF Ids
  <2>2. PICK p \in b.objects : p.id = x /\ p.type = o.type
    BY <2>1 DEF SameNames
  <2> QED
    BY <2>1, <2>2, TypeOfObject
<1> QED
  BY <1>1, <1>2

\* Recovery finds nothing: its index is the bundle, where a reference that
\* dangles is not (_build_upstream_index, called with the bundle's own objects).
LEMMA RecoveryChangesNothing ==
    ASSUME NEW b, NEW catalogue, IsBundle(b)
    PROVE  Recovered(b, catalogue) = b
<1> DEFINE step(was) == [was EXCEPT !.objects = @ \cup
                            {o \in b.objects : o.id \in Dangling(was, catalogue)}]
           good(f) == f = [n \in 0 .. FixpointLimit |-> IF n = 0 THEN b ELSE step(f[n - 1])]
           round == CHOOSE f : good(f)
<1>1. {o \in b.objects : o.id \in Dangling(b, catalogue)} = {}
  BY DEF Dangling, Ids
<1>2. step(b) = b
  <2>1. [b EXCEPT !.objects = @ \cup {}] = b
    BY DEF IsBundle
  <2> QED
    BY <1>1, <2>1
<1> HIDE DEF step
<1>3. good([n \in 0 .. FixpointLimit |-> b])
  <2>1. \A n \in 0 .. FixpointLimit : n # 0 => n - 1 \in 0 .. FixpointLimit
    BY DEF FixpointLimit
  <2> QED
    BY <1>2, <2>1
<1>4. good(round)
  BY <1>3
<1> HIDE DEF round
<1>5. round[0] = b
  BY <1>4 DEF FixpointLimit
<1>6. round[1] = b
  BY <1>2, <1>4, <1>5 DEF FixpointLimit
<1>7. round[2] = b
  BY <1>2, <1>4, <1>6 DEF FixpointLimit
<1>8. round[3] = b
  BY <1>2, <1>4, <1>7 DEF FixpointLimit
<1>9. round[4] = b
  BY <1>2, <1>4, <1>8 DEF FixpointLimit
<1>10. round[5] = b
  BY <1>2, <1>4, <1>9 DEF FixpointLimit
<1>11. Recovered(b, catalogue) = round[FixpointLimit]
  BY DEF Recovered, round, step
<1> QED
  BY <1>10, <1>11 DEF FixpointLimit
-----------------------------------------------------------------------------
\* What the direction fix makes of one relationship.
Turned(b, r) == IF Inverted(b, r) THEN [r EXCEPT !.src = r.tgt, !.tgt = r.src] ELSE r

\* A relationship that is turned has its ends swapped and keeps the rest.
LEMMA TurnedShape ==
    ASSUME NEW b, NEW r, IsSro(r)
    PROVE  /\ IsSro(Turned(b, r))
           /\ Turned(b, r).verb = r.verb /\ Turned(b, r).by = r.by
           /\ Inverted(b, r) => Turned(b, r).src = r.tgt /\ Turned(b, r).tgt = r.src
           /\ ~Inverted(b, r) => Turned(b, r) = r
<1> DEFINE t == [r EXCEPT !.src = r.tgt, !.tgt = r.src]
<1>1. IsSro(t) /\ t.verb = r.verb /\ t.by = r.by /\ t.src = r.tgt /\ t.tgt = r.src
  BY DEF IsSro, SroFields
<1> HIDE DEF t
<1>2. Turned(b, r) = IF Inverted(b, r) THEN t ELSE r
  BY DEF Turned, t
<1>3. CASE Inverted(b, r)
  BY <1>1, <1>2, <1>3
<1>4. CASE ~Inverted(b, r)
  BY <1>2, <1>4
<1> QED
  BY <1>3, <1>4

\* Turning leaves nothing to turn: the new source may be one.
LEMMA TurnedOnce ==
    ASSUME NEW b, NEW r, IsSro(r)
    PROVE  ~Inverted(b, Turned(b, r))
<1>1. CASE Inverted(b, r)
  <2>1. Turned(b, r).src = r.tgt /\ Turned(b, r).verb = r.verb
    BY <1>1, TurnedShape
  <2>2. TypeIn(b, r.tgt) \in ValidSource(r.verb)
    BY <1>1 DEF Inverted
  <2> QED
    BY <2>1, <2>2 DEF Inverted
<1>2. CASE ~Inverted(b, r)
  BY <1>2, TurnedShape
<1> QED
  BY <1>1, <1>2

\* The direction fix turns some relationships and touches nothing else.
LEMMA FixDirectionEffect ==
    ASSUME NEW b, IsBundle(b)
    PROVE  /\ IsBundle(FixDirection(b)) /\ FixDirection(b).objects = b.objects
           /\ FixDirection(b).sros = {Turned(b, r) : r \in b.sros}
<1> DEFINE s == {Turned(b, r) : r \in b.sros}
           f == [b EXCEPT !.sros = s]
<1>1. FixDirection(b) = f
  BY DEF FixDirection, Turned
<1>2. \A r \in s : IsSro(r)
  BY TurnedShape DEF IsBundle
<1> HIDE DEF s
<1>3. f = [objects |-> b.objects, sros |-> s]
  BY DEF IsBundle
<1>4. f.objects = b.objects /\ f.sros = s
  BY <1>3
<1>5. IsBundle(f)
  BY <1>2, <1>3, <1>4 DEF IsBundle
<1> QED
  BY <1>1, <1>4, <1>5 DEF s

\* Dropping duplicates keeps one relationship of each content.
LEMMA DedupEffect ==
    ASSUME NEW b, IsBundle(b)
    PROVE  /\ IsBundle(DedupSros(b)) /\ DedupSros(b).objects = b.objects
           /\ DedupSros(b).sros \subseteq b.sros
           /\ \A r, s \in DedupSros(b).sros : Content(r) = Content(s) => r = s
           /\ \A r \in b.sros : \E s \in DedupSros(b).sros : Content(s) = Content(r)
<1> DEFINE one(c) == CHOOSE r \in b.sros : Content(r) = c
           all  == {Content(r) : r \in b.sros}
           s    == {one(c) : c \in all}
           f    == [b EXCEPT !.sros = s]
<1>1. DedupSros(b) = f
  BY DEF DedupSros
<1>2. \A c \in all : one(c) \in b.sros /\ Content(one(c)) = c
  OBVIOUS
<1> HIDE DEF one
<1>3. /\ s \subseteq b.sros
      /\ \A r, t \in s : Content(r) = Content(t) => r = t
      /\ \A r \in b.sros : \E t \in s : Content(t) = Content(r)
  BY <1>2
<1> HIDE DEF s
<1>4. f = [objects |-> b.objects, sros |-> s]
  BY DEF IsBundle
<1>5. f.objects = b.objects /\ f.sros = s
  BY <1>4
<1>6. IsBundle(f)
  BY <1>3, <1>4, <1>5 DEF IsBundle
<1> QED
  BY <1>1, <1>3, <1>5, <1>6

\* What stays of a flow: steps to another procedure, in a seq source.
Flows(r, seq) == r.verb = "precedes" => seq /\ r.src # r.tgt

\* The two passes about the flow keep the relationships that flow.
LEMMA DropEffect ==
    ASSUME NEW b, IsBundle(b), NEW seq \in BOOLEAN
    PROVE  LET f == DropUnlessSequential(DropSelfLoops(b), seq)
           IN  /\ IsBundle(f) /\ f.objects = b.objects
               /\ f.sros = {r \in b.sros : Flows(r, seq)}
<1> DEFINE s == {r \in b.sros : ~(r.verb = "precedes" /\ r.src = r.tgt)}
           t == {r \in s : seq \/ r.verb # "precedes"}
           d == [objects |-> b.objects, sros |-> s]
           f == [objects |-> b.objects, sros |-> t]
<1>1. DropSelfLoops(b) = d
  <2> HIDE DEF s
  <2>1. [b EXCEPT !.sros = s] = d
    BY DEF IsBundle
  <2> QED
    BY <2>1 DEF DropSelfLoops, s
<1>2. DropUnlessSequential(d, seq) = f
  <2>1. d.sros = s
    OBVIOUS
  <2>2. DropUnlessSequential(d, seq) = [d EXCEPT !.sros = t]
    BY <2>1 DEF DropUnlessSequential
  <2>3. [d EXCEPT !.sros = t] = f
    <3> HIDE DEF s, t
    <3> QED
      OBVIOUS
  <2> QED
    BY <2>2, <2>3
<1>3. t = {r \in b.sros : Flows(r, seq)}
  BY DEF Flows
<1>4. f.objects = b.objects /\ f.sros = t
  OBVIOUS
<1>5. IsBundle(f)
  <2>1. \A r \in t : IsSro(r)
    BY DEF IsBundle
  <2> HIDE DEF t
  <2> QED
    BY <1>4, <2>1 DEF IsBundle
<1> HIDE DEF s, t, f, d
<1> QED
  BY <1>1, <1>2, <1>3, <1>4, <1>5

\* A pass over the objects that keeps what they are.
LEMMA ObjectPass ==
    ASSUME NEW b, IsBundle(b), NEW s,
           \A p \in s : IsObject(p) /\ \E o \in b.objects : o.id = p.id /\ o.type = p.type,
           \A o \in b.objects : \E p \in s : p.id = o.id /\ p.type = o.type
    PROVE  LET f == [b EXCEPT !.objects = s]
           IN  IsBundle(f) /\ f.sros = b.sros /\ f.objects = s /\ SameNames(b, f)
<1> DEFINE f == [b EXCEPT !.objects = s]
<1>2. f = [objects |-> s, sros |-> b.sros]
  BY DEF IsBundle
<1>3. f.objects = s /\ f.sros = b.sros
  BY <1>2
<1>4. \A p, q \in s : p.id = q.id => p.type = q.type
  BY DEF IsBundle
<1>5. IsBundle(f)
  BY <1>2, <1>3, <1>4 DEF IsBundle
<1>6. SameNames(b, f)
  BY <1>3 DEF SameNames
<1> QED
  BY <1>3, <1>5, <1>6

\* The names two bundles share they share with a third.
LEMMA SameNamesTransitive ==
    ASSUME NEW a, NEW b, NEW c, SameNames(a, b), SameNames(b, c)
    PROVE  SameNames(a, c)
BY DEF SameNames

\* After the sync every procedure embeds what its relationships name.
LEMMA SyncEffect ==
    ASSUME NEW b, IsBundle(b), NEW catalogue
    PROVE  LET f == SyncTechniques(b, catalogue)
           IN  /\ IsBundle(f) /\ f.sros = b.sros /\ SameNames(b, f)
               /\ \A p \in Procedures(f) : UsedTechniques(f, p, catalogue) \subseteq p.techs
<1> DEFINE g(o) == IF o.type = "x-procedure"
                   THEN [o EXCEPT !.techs = o.techs \cup UsedTechniques(b, o, catalogue)]
                   ELSE o
           s == {g(o) : o \in b.objects}
           f == [b EXCEPT !.objects = s]
<1>1. SyncTechniques(b, catalogue) = f
  BY DEF SyncTechniques
<1>2. ASSUME NEW o \in b.objects
      PROVE  /\ IsObject(g(o)) /\ g(o).id = o.id /\ g(o).type = o.type
             /\ o.type = "x-procedure" => UsedTechniques(b, o, catalogue) \subseteq g(o).techs
  <2>1. IsObject(o)
    BY DEF IsBundle
  <2> DEFINE u == UsedTechniques(b, o, catalogue)
  <2> HIDE DEF u
  <2>2. LET t == [o EXCEPT !.techs = o.techs \cup u]
        IN  IsObject(t) /\ t.id = o.id /\ t.type = o.type /\ u \subseteq t.techs
    BY <2>1 DEF IsObject, ObjectFields
  <2> QED
    BY <2>1, <2>2 DEF u
<1> HIDE DEF g
<1>3. /\ \A p \in s : IsObject(p) /\ \E o \in b.objects : p = g(o) /\ o.id = p.id /\ o.type = p.type
      /\ \A o \in b.objects : \E p \in s : p.id = o.id /\ p.type = o.type
  BY <1>2
<1>4. IsBundle(f) /\ f.sros = b.sros /\ f.objects = s /\ SameNames(b, f)
  <2> HIDE DEF s
  <2> QED
    BY <1>3, ObjectPass
<1>5. ASSUME NEW p \in Procedures(f)
      PROVE  UsedTechniques(f, p, catalogue) \subseteq p.techs
  <2>1. p \in s /\ p.type = "x-procedure"
    BY <1>4 DEF Procedures
  <2>2. PICK o \in b.objects : p = g(o)
    BY <2>1
  <2>3. p.id = o.id /\ o.type = "x-procedure" /\ UsedTechniques(b, o, catalogue) \subseteq p.techs
    BY <1>2, <2>1, <2>2
  <2>4. UsedTechniques(f, p, catalogue) = UsedTechniques(b, o, catalogue)
    BY <1>4, <2>3 DEF UsedTechniques
  <2> QED
    BY <2>3, <2>4
<1> QED
  BY <1>1, <1>4, <1>5

\* The backfill gives every procedure a source and changes nothing else.
LEMMA BackfillEffect ==
    ASSUME NEW b, IsBundle(b)
    PROVE  LET f == BackfillSources(b)
           IN  /\ IsBundle(f) /\ f.sros = b.sros /\ SameNames(b, f)
               /\ \A p \in Procedures(f) :
                     /\ p.sources # {}
                     /\ \E o \in Procedures(b) : o.id = p.id /\ o.techs = p.techs
<1> DEFINE g(o) == IF o.type = "x-procedure" /\ o.sources = {}
                   THEN [o EXCEPT !.sources = {"author"}] ELSE o
           s == {g(o) : o \in b.objects}
           f == [b EXCEPT !.objects = s]
<1>1. BackfillSources(b) = f
  BY DEF BackfillSources
<1>2. ASSUME NEW o \in b.objects
      PROVE  /\ IsObject(g(o)) /\ g(o).id = o.id /\ g(o).type = o.type /\ g(o).techs = o.techs
             /\ o.type = "x-procedure" => g(o).sources # {}
  <2>1. IsObject(o)
    BY DEF IsBundle
  <2>2. LET t == [o EXCEPT !.sources = {"author"}]
        IN  IsObject(t) /\ t.id = o.id /\ t.type = o.type /\ t.techs = o.techs /\ t.sources # {}
    BY <2>1 DEF IsObject, ObjectFields
  <2> QED
    BY <2>1, <2>2
<1> HIDE DEF g
<1>3. /\ \A p \in s : IsObject(p) /\ \E o \in b.objects : p = g(o) /\ o.id = p.id /\ o.type = p.type
      /\ \A o \in b.objects : \E p \in s : p.id = o.id /\ p.type = o.type
  BY <1>2
<1>4. IsBundle(f) /\ f.sros = b.sros /\ f.objects = s /\ SameNames(b, f)
  <2> HIDE DEF s
  <2> QED
    BY <1>3, ObjectPass
<1>5. \A p \in Procedures(f) :
         /\ p.sources # {}
         /\ \E o \in Procedures(b) : o.id = p.id /\ o.techs = p.techs
  BY <1>2, <1>3, <1>4 DEF Procedures
<1> QED
  BY <1>1, <1>4, <1>5

\* A fingerprint is of the techniques embedded, once recomputed.
LEMMA RecomputeEffect ==
    ASSUME NEW b, IsBundle(b)
    PROVE  LET f == RecomputePrints(b)
           IN  /\ IsBundle(f) /\ f.sros = b.sros /\ SameNames(b, f)
               /\ \A p \in Procedures(f) :
                     /\ p.print = p.techs
                     /\ \E o \in Procedures(b) :
                           o.id = p.id /\ o.techs = p.techs /\ o.sources = p.sources
<1> DEFINE g(o) == IF o.type = "x-procedure" THEN [o EXCEPT !.print = o.techs] ELSE o
           s == {g(o) : o \in b.objects}
           f == [b EXCEPT !.objects = s]
<1>1. RecomputePrints(b) = f
  BY DEF RecomputePrints
<1>2. ASSUME NEW o \in b.objects
      PROVE  /\ IsObject(g(o)) /\ g(o).id = o.id /\ g(o).type = o.type /\ g(o).techs = o.techs
             /\ g(o).sources = o.sources
             /\ o.type = "x-procedure" => g(o).print = o.techs
  <2>1. IsObject(o)
    BY DEF IsBundle
  <2>2. LET t == [o EXCEPT !.print = o.techs]
        IN  /\ IsObject(t) /\ t.id = o.id /\ t.type = o.type /\ t.techs = o.techs
            /\ t.sources = o.sources /\ t.print = o.techs
    BY <2>1 DEF IsObject, ObjectFields
  <2> QED
    BY <2>1, <2>2
<1> HIDE DEF g
<1>3. /\ \A p \in s : IsObject(p) /\ \E o \in b.objects : p = g(o) /\ o.id = p.id /\ o.type = p.type
      /\ \A o \in b.objects : \E p \in s : p.id = o.id /\ p.type = o.type
  BY <1>2
<1>4. IsBundle(f) /\ f.sros = b.sros /\ f.objects = s /\ SameNames(b, f)
  <2> HIDE DEF s
  <2> QED
    BY <1>3, ObjectPass
<1>5. \A p \in Procedures(f) :
         /\ p.print = p.techs
         /\ \E o \in Procedures(b) : o.id = p.id /\ o.techs = p.techs /\ o.sources = p.sources
  BY <1>2, <1>3, <1>4 DEF Procedures
<1> QED
  BY <1>1, <1>4, <1>5

-----------------------------------------------------------------------------
\* Nothing is left for a pass over the procedures to do.
Settled(b, catalogue) ==
    \A p \in Procedures(b) :
        /\ p.print = p.techs /\ p.sources # {}
        /\ UsedTechniques(b, p, catalogue) \subseteq p.techs

\* What all the passes together make of a bundle.
LEMMA AutoFixEffect ==
    ASSUME NEW b, IsBundle(b), NEW seq \in BOOLEAN, NEW catalogue
    PROVE  LET f == AutoFixed(b, seq, catalogue)
           IN  /\ IsBundle(f) /\ SameNames(b, f) /\ Settled(f, catalogue)
               /\ \A r \in f.sros : Flows(r, seq) /\ \E q \in b.sros : r = Turned(b, q)
               /\ \A r, s \in f.sros : Content(r) = Content(s) => r = s
               /\ \A q \in b.sros : Flows(Turned(b, q), seq)
                                       => \E r \in f.sros : Content(r) = Content(Turned(b, q))
<1> DEFINE p1 == FixDirection(b)
           p2 == DedupSros(p1)
           p3 == DropUnlessSequential(DropSelfLoops(p2), seq)
           p4 == SyncTechniques(p3, catalogue)
           p5 == BackfillSources(p4)
           f  == RecomputePrints(p5)
<1>1. AutoFixed(b, seq, catalogue) = f
  BY DEF AutoFixed
<1>2. /\ IsBundle(p1) /\ p1.objects = b.objects
      /\ p1.sros = {Turned(b, r) : r \in b.sros}
  BY FixDirectionEffect
<1> HIDE DEF p1
<1>3. /\ IsBundle(p2) /\ p2.objects = p1.objects /\ p2.sros \subseteq p1.sros
      /\ \A r, s \in p2.sros : Content(r) = Content(s) => r = s
      /\ \A r \in p1.sros : \E s \in p2.sros : Content(s) = Content(r)
  BY <1>2, DedupEffect
<1> HIDE DEF p2
<1>4. /\ IsBundle(p3) /\ p3.objects = p2.objects
      /\ p3.sros = {r \in p2.sros : Flows(r, seq)}
  BY <1>3, DropEffect
<1> HIDE DEF p3
<1>5. /\ IsBundle(p4) /\ p4.sros = p3.sros /\ SameNames(p3, p4)
      /\ \A p \in Procedures(p4) : UsedTechniques(p4, p, catalogue) \subseteq p.techs
  BY <1>4, SyncEffect
<1> HIDE DEF p4
<1>6. /\ IsBundle(p5) /\ p5.sros = p4.sros /\ SameNames(p4, p5)
      /\ \A p \in Procedures(p5) :
            p.sources # {} /\ \E o \in Procedures(p4) : o.id = p.id /\ o.techs = p.techs
  BY <1>5, BackfillEffect
<1> HIDE DEF p5
<1>7. /\ IsBundle(f) /\ f.sros = p5.sros /\ SameNames(p5, f)
      /\ \A p \in Procedures(f) :
            /\ p.print = p.techs
            /\ \E o \in Procedures(p5) : o.id = p.id /\ o.techs = p.techs /\ o.sources = p.sources
  BY <1>6, RecomputeEffect
<1> HIDE DEF f
<1>8. SameNames(b, f)
  <2>1. SameNames(b, p3)
    BY <1>2, <1>3, <1>4 DEF SameNames
  <2> QED
    BY <1>5, <1>6, <1>7, <2>1, SameNamesTransitive
<1>9. ASSUME NEW p \in Procedures(f)
      PROVE  /\ p.print = p.techs /\ p.sources # {}
             /\ UsedTechniques(f, p, catalogue) \subseteq p.techs
  <2>1. PICK o \in Procedures(p5) : o.id = p.id /\ o.techs = p.techs /\ o.sources = p.sources
    BY <1>7
  <2>2. PICK n \in Procedures(p4) : n.id = o.id /\ n.techs = o.techs
    BY <1>6
  <2>3. UsedTechniques(f, p, catalogue) = UsedTechniques(p4, n, catalogue)
    BY <1>6, <1>7, <2>1, <2>2 DEF UsedTechniques
  <2> QED
    BY <1>5, <1>6, <1>7, <2>1, <2>2, <2>3
<1>10. f.sros = {r \in p2.sros : Flows(r, seq)}
  BY <1>4, <1>5, <1>6, <1>7
<1>11. ASSUME NEW q \in b.sros, Flows(Turned(b, q), seq)
       PROVE  \E r \in f.sros : Content(r) = Content(Turned(b, q))
  <2>1. PICK r \in p2.sros : Content(r) = Content(Turned(b, q))
    BY <1>2, <1>3
  <2>2. Flows(r, seq)
    BY <1>11, <2>1 DEF Flows, Content
  <2> QED
    BY <1>10, <2>1, <2>2
<1> QED
  BY <1>1, <1>2, <1>3, <1>7, <1>8, <1>9, <1>10, <1>11 DEF Settled

\* A bundle in which nothing is left to fix is left alone.
LEMMA NothingToFix ==
    ASSUME NEW b, IsBundle(b), NEW seq \in BOOLEAN, NEW catalogue,
           Settled(b, catalogue),
           \A r \in b.sros : ~Inverted(b, r) /\ Flows(r, seq),
           \A r, s \in b.sros : Content(r) = Content(s) => r = s
    PROVE  AutoFixed(b, seq, catalogue) = b
<1>1. /\ [b EXCEPT !.sros = b.sros] = b
      /\ [b EXCEPT !.objects = b.objects] = b
  BY DEF IsBundle
<1>2. FixDirection(b) = b
  <2>1. {Turned(b, r) : r \in b.sros} = b.sros
    BY DEF Turned
  <2> QED
    BY <1>1, <2>1 DEF FixDirection, Turned
<1>3. DedupSros(b) = b
  <2> DEFINE s == {CHOOSE r \in b.sros : Content(r) = c : c \in {Content(r) : r \in b.sros}}
  <2>1. ASSUME NEW r \in b.sros PROVE (CHOOSE q \in b.sros : Content(q) = Content(r)) = r
    OBVIOUS
  <2>2. \A r : r \in s <=> r \in b.sros
    BY <2>1
  <2>3. s = b.sros
    <3> HIDE DEF s
    <3> QED
      BY <2>2
  <2> QED
    BY <1>1, <2>3 DEF DedupSros
<1>4. DropUnlessSequential(DropSelfLoops(b), seq) = b
  <2>1. {r \in b.sros : ~(r.verb = "precedes" /\ r.src = r.tgt)} = b.sros
    BY DEF Flows
  <2>2. DropSelfLoops(b) = b
    BY <1>1, <2>1 DEF DropSelfLoops
  <2>3. {r \in b.sros : seq \/ r.verb # "precedes"} = b.sros
    BY DEF Flows
  <2>4. DropUnlessSequential(b, seq) = b
    BY <1>1, <2>3 DEF DropUnlessSequential
  <2> QED
    BY <2>2, <2>4
<1>5. \A o \in b.objects : IsObject(o)
  BY DEF IsBundle
<1>6. SyncTechniques(b, catalogue) = b
  <2> DEFINE g(o) == IF o.type = "x-procedure"
                     THEN [o EXCEPT !.techs = o.techs \cup UsedTechniques(b, o, catalogue)]
                     ELSE o
  <2>1. ASSUME NEW o \in b.objects PROVE g(o) = o
    <3>1. CASE o.type = "x-procedure"
      <4>1. o.techs \cup UsedTechniques(b, o, catalogue) = o.techs
        BY <3>1 DEF Settled, Procedures
      <4>2. [o EXCEPT !.techs = o.techs] = o
        BY <1>5 DEF IsObject, ObjectFields
      <4> QED
        BY <4>1, <4>2
    <3> QED
      BY <3>1
  <2>2. {g(o) : o \in b.objects} = b.objects
    <3> HIDE DEF g
    <3> QED
      BY <2>1
  <2> QED
    BY <1>1, <2>2 DEF SyncTechniques
<1>7. BackfillSources(b) = b
  <2>1. {IF o.type = "x-procedure" /\ o.sources = {}
         THEN [o EXCEPT !.sources = {"author"}] ELSE o : o \in b.objects} = b.objects
    BY DEF Settled, Procedures
  <2> QED
    BY <1>1, <2>1 DEF BackfillSources
<1>8. RecomputePrints(b) = b
  <2> DEFINE g(o) == IF o.type = "x-procedure" THEN [o EXCEPT !.print = o.techs] ELSE o
  <2>1. ASSUME NEW o \in b.objects PROVE g(o) = o
    <3>1. CASE o.type = "x-procedure"
      <4>1. o.techs = o.print
        BY <3>1 DEF Settled, Procedures
      <4>2. [o EXCEPT !.print = o.print] = o
        BY <1>5 DEF IsObject, ObjectFields
      <4> QED
        BY <4>1, <4>2
    <3> QED
      BY <3>1
  <2>2. {g(o) : o \in b.objects} = b.objects
    <3> HIDE DEF g
    <3> QED
      BY <2>1
  <2> QED
    BY <1>1, <2>2 DEF RecomputePrints
<1> QED
  BY <1>2, <1>3, <1>4, <1>6, <1>7, <1>8 DEF AutoFixed

\* One run of the passes is enough (_auto_fix_passes).
LEMMA PassesIdempotent ==
    ASSUME NEW b, IsBundle(b), NEW seq \in BOOLEAN, NEW catalogue
    PROVE  LET f == AutoFixed(b, seq, catalogue)
           IN  AutoFixed(f, seq, catalogue) = f
<1> DEFINE f == AutoFixed(b, seq, catalogue)
<1>1. /\ IsBundle(f) /\ SameNames(b, f) /\ Settled(f, catalogue)
      /\ \A r \in f.sros : Flows(r, seq) /\ \E q \in b.sros : r = Turned(b, q)
      /\ \A r, s \in f.sros : Content(r) = Content(s) => r = s
  BY AutoFixEffect
<1> HIDE DEF f
<1>2. ASSUME NEW r \in f.sros PROVE ~Inverted(f, r)
  <2>1. PICK q \in b.sros : r = Turned(b, q)
    BY <1>1
  <2>2. ~Inverted(b, r)
    BY <2>1, TurnedOnce DEF IsBundle
  <2>3. Ids(b) = Ids(f) /\ \A x \in Ids(b) : TypeIn(b, x) = TypeIn(f, x)
    BY <1>1, NamesAgree
  <2> QED
    BY <2>2, <2>3 DEF Inverted
<1>3. AutoFixed(f, seq, catalogue) = f
  BY <1>1, <1>2, NothingToFix
<1> QED
  BY <1>3 DEF f

(***************************************************************************)
(* The reviewed bundle.                                                    *)
(***************************************************************************)
\* The phases, those that have a preview, and those after the review of it.
Phases == {"gate_0", "draft", "normalize", "gate_2", "serialize", "validate", "done"}

Previewed == {"gate_2", "serialize", "validate", "done"}

Decided == {"serialize", "validate", "done"}

\* What serialize_stix makes of the state.
Built(online) == Serialized(entities, drafts, sequential, online, decision)

\* Reviews after normalize leave the entities and the drafts alone.
PreviewIsCurrent == phase \in Previewed => preview = Preview(entities, drafts, sequential)

\* After the loop back the decision is that of the last review.
DecisionIsOfPreview ==
    phase \in Decided => /\ decision.removed \subseteq preview
                         /\ \A e \in decision.edited : e.original \in preview

\* Before and after the validator.
BundleIsBuilt ==
    phase = "validate" => /\ \E online \in BOOLEAN : bundle = Built(online)
                          /\ corrections = Omissions(drafts)

BundleIsFixed ==
    phase = "done" =>
        \E online \in BOOLEAN :
            /\ bundle = Fixed(Built(online))
            /\ corrections = Omissions(drafts) \cup FixesOf(Built(online), Fixed(Built(online)))
                                \cup HardFails(Fixed(Built(online)), Techniques)

\* The inductive invariant.
Inv ==
    /\ phase \in Phases
    /\ sequential \in BOOLEAN
    /\ \A d \in Drafts : drafts[d] \in Draftings(d)
    /\ PreviewIsCurrent /\ DecisionIsOfPreview /\ BundleIsBuilt /\ BundleIsFixed
    /\ verdict = "passed" => phase = "done" /\ HardFails(bundle, Techniques) = {}

-----------------------------------------------------------------------------
\* The bundle on hand is what the entities, the drafts and the decisions make,
\* and the preview the decisions are about is the current one.
THEOREM InvHolds == Spec => []Inv
<1>1. Init => Inv
  <2> SUFFICES ASSUME Init PROVE Inv
    OBVIOUS
  <2>1. \A d \in Drafts : (CHOOSE outcome \in Draftings(d) : TRUE) \in Draftings(d)
    BY DraftingsAssumption
  <2>2. \A d \in Drafts : drafts[d] \in Draftings(d)
    BY <2>1 DEF Init
  <2> QED
    BY <2>2 DEF Init, Inv, Phases, Previewed, Decided, PreviewIsCurrent, DecisionIsOfPreview,
                BundleIsBuilt, BundleIsFixed
<1>2. Inv /\ [Next]_vars => Inv'
  <2> SUFFICES ASSUME Inv, [Next]_vars PROVE Inv'
    OBVIOUS
  <2> USE DEF Inv, Phases, Previewed, Decided
  <2>1. CASE Gate0
    BY <2>1 DEF Gate0, PreviewIsCurrent, DecisionIsOfPreview, BundleIsBuilt, BundleIsFixed
  <2>2. CASE Draft
    BY <2>2 DEF Draft, PreviewIsCurrent, DecisionIsOfPreview, BundleIsBuilt, BundleIsFixed
  <2>3. CASE Normalize
    BY <2>3 DEF Normalize, PreviewIsCurrent, DecisionIsOfPreview, BundleIsBuilt, BundleIsFixed
  <2>4. CASE ReviewRows
    <3>1. decision'.removed \subseteq preview /\ \A e \in decision'.edited : e.original \in preview
      <4>1. CASE decision' = NoDecision
        BY <4>1 DEF NoDecision
      <4>2. CASE \E r \in preview : decision' = [NoDecision EXCEPT !.removed = {r}]
        BY <4>2 DEF NoDecision
      <4>3. CASE \E r \in preview, key \in Additions :
                    decision' = [NoDecision EXCEPT !.edited = {[original |-> r, edited |-> key]}]
        BY <4>3 DEF NoDecision
      <4>4. CASE \E key \in Additions : decision' = [NoDecision EXCEPT !.added = {key}]
        BY <4>4 DEF NoDecision
      <4> QED
        BY <2>4, <4>1, <4>2, <4>3, <4>4 DEF ReviewRows, Touches
    <3> QED
      BY <2>4, <3>1
      DEF ReviewRows, PreviewIsCurrent, DecisionIsOfPreview, BundleIsBuilt, BundleIsFixed
  <2>5. CASE RejectBatch
    BY <2>5 DEF RejectBatch, PreviewIsCurrent, DecisionIsOfPreview, BundleIsBuilt, BundleIsFixed
  <2>6. CASE Serialize
    <3>1. PICK online \in BOOLEAN :
             bundle' = Serialized(entities, drafts, sequential, online, decision)
      BY <2>6 DEF Serialize
    <3>2. \E o \in BOOLEAN : bundle' = Built(o)'
      BY <2>6, <3>1 DEF Serialize, Built
    <3>3. corrections' = Omissions(drafts)'
      BY <2>6 DEF Serialize
    <3> QED
      BY <2>6, <3>2, <3>3
      DEF Serialize, PreviewIsCurrent, DecisionIsOfPreview, BundleIsBuilt, BundleIsFixed
  <2>7. CASE Validate
    <3>1. PICK online \in BOOLEAN : bundle = Built(online)
      BY <2>7 DEF Validate, BundleIsBuilt
    <3>2. Built(online)' = Built(online)
      BY <2>7 DEF Validate, Built
    <3>3. bundle' = Fixed(Built(online)) /\ Fixed(Built(online))' = Fixed(Built(online))
      BY <2>7, <3>1, <3>2 DEF Validate, Fixed
    <3>4. corrections' = Omissions(drafts) \cup FixesOf(Built(online), Fixed(Built(online)))
                            \cup HardFails(Fixed(Built(online)), Techniques)
      BY <2>7, <3>1 DEF Validate, BundleIsBuilt, Collected
    <3>5. BundleIsFixed'
      BY <2>7, <3>2, <3>3, <3>4 DEF Validate, BundleIsFixed
    <3>6. verdict' = "passed" => HardFails(bundle', Techniques) = {}
      BY <2>7 DEF Validate
    <3> QED
      BY <2>7, <3>5, <3>6 DEF Validate, PreviewIsCurrent, DecisionIsOfPreview, BundleIsBuilt
  <2>8. CASE UNCHANGED vars
    BY <2>8
    DEF vars, PreviewIsCurrent, DecisionIsOfPreview, BundleIsBuilt, BundleIsFixed, Built, Fixed
  <2> QED
    BY <2>1, <2>2, <2>3, <2>4, <2>5, <2>6, <2>7, <2>8 DEF Next
<1> QED
  BY <1>1, <1>2, PTL DEF Spec

-----------------------------------------------------------------------------
\* The drafts are what drafting may make: their techniques are in the catalogue
\* and their mentions are entities.
WellDrafted(ds) ==
    \A d \in Drafts : Resolved(ds[d]) \subseteq Techniques /\ ds[d].mentions \subseteq Entities

\* The type of whatever a bundle calls by a name.
TypeOfName(es, x) ==
    IF x \in Entities THEN es[x].type
    ELSE IF x \in Drafts THEN "x-procedure"
    ELSE IF x \in Techniques THEN "attack-pattern"
    ELSE IF x = "author" THEN "identity"
    ELSE IF x = "report" THEN "report"
    ELSE IF x = "flow" THEN "attack-flow"
    ELSE IF x \in {"attack-flow extension", "x-procedure extension"} THEN "extension-definition"
    ELSE IF x \in {"x-log-source", "x-mitre-detection-strategy"} THEN x
    ELSE "process"

\* An object as serialize_stix makes them, named by its type.
WellMade(es, o) == IsObject(o) /\ o.type = TypeOfName(es, o.id)

\* The names are told apart, so each has the type its kind of thing has.
LEMMA TypesOfNames ==
    ASSUME NEW es
    PROVE  /\ \A e \in Entities : TypeOfName(es, e) = es[e].type
           /\ \A d \in Drafts : TypeOfName(es, d) = "x-procedure"
           /\ \A t \in Techniques : TypeOfName(es, t) = "attack-pattern"
           /\ \A d \in Drafts : TypeOfName(es, ProcessOf(d)) = "process"
           /\ TypeOfName(es, "author") = "identity"
           /\ TypeOfName(es, "report") = "report"
           /\ TypeOfName(es, "flow") = "attack-flow"
           /\ TypeOfName(es, "attack-flow extension") = "extension-definition"
           /\ TypeOfName(es, "x-procedure extension") = "extension-definition"
           /\ \A x \in {"x-log-source", "x-mitre-detection-strategy"} : TypeOfName(es, x) = x
<1>1. \A x \in Fixtures : x \notin Entities /\ x \notin Drafts /\ x \notin Techniques
  BY NamesAssumption
<1>2. \A e \in Entities : TypeOfName(es, e) = es[e].type
  BY DEF TypeOfName
<1>3. \A d \in Drafts : TypeOfName(es, d) = "x-procedure"
  BY NamesAssumption DEF TypeOfName
<1>4. \A t \in Techniques : TypeOfName(es, t) = "attack-pattern"
  BY NamesAssumption DEF TypeOfName
<1>5. \A d \in Drafts : TypeOfName(es, ProcessOf(d)) = "process"
  <2>1. \A d \in Drafts : ProcessOf(d) \notin Fixtures /\ ProcessOf(d) \notin Entities
                          /\ ProcessOf(d) \notin Drafts /\ ProcessOf(d) \notin Techniques
    BY NamesAssumption
  <2> QED
    BY <2>1 DEF TypeOfName, Fixtures
<1> QED
  BY <1>1, <1>2, <1>3, <1>4, <1>5 DEF TypeOfName, Fixtures

\* A plain object whose type is that of its name is well made.
LEMMA PlainObject ==
    ASSUME NEW es, NEW id, NEW type, TypeOfName(es, id) = type
    PROVE  WellMade(es, Object(id, type)) /\ Object(id, type).id = id
<1>1. IsObject(Object(id, type)) /\ Object(id, type).id = id /\ Object(id, type).type = type
  BY DEF IsObject, ObjectFields, Object
<1> QED
  BY <1>1 DEF WellMade

\* Every object serialize_stix makes is named by its type, so no name has two.
LEMMA SerializedIsBundle ==
    ASSUME NEW es, NEW ds, WellDrafted(ds), NEW s \in BOOLEAN, NEW online \in BOOLEAN, NEW dec,
           NEW b, b = Serialized(es, ds, s, online, dec)
    PROVE  /\ IsBundle(b)
           /\ \A o \in b.objects : WellMade(es, o)
           /\ Kept(es) \cup Mappable(ds) \subseteq Ids(b)
           /\ b.sros = Sros(BuiltTriples(es, ds, s, dec), "serializer")
                       \cup Sros(ChainTriples(ds, online), "catalogue")
                       \cup Sros(AddedTriples(es, ds, BuiltTriples(es, ds, s, dec), dec), "analyst")
<1> DEFINE logs  == IF online THEN {"x-log-source"} ELSE {}
           procs == {ProcedureObject(es, ds, d, logs) : d \in Mappable(ds)}
           ext   == IF procs = {} THEN {}
                    ELSE {Object("x-procedure extension", "extension-definition")}
           objs  == {Object("author", "identity")} \cup EntityObjects(es) \cup procs
                     \cup ProcessObjects(ds) \cup ChainObjects(ds, online)
                     \cup FlowObjects(ds, s) \cup ext
           built == BuiltTriples(es, ds, s, dec)
           sros  == Sros(built, "serializer") \cup Sros(ChainTriples(ds, online), "catalogue")
                       \cup Sros(AddedTriples(es, ds, built, dec), "analyst")
           all   == objs \cup {ReportObject(objs)}
<1>1. b = [objects |-> all, sros |-> sros]
  BY DEF Serialized
<1>2. WellMade(es, Object("author", "identity"))
  BY PlainObject, TypesOfNames
<1>3. ASSUME NEW o \in EntityObjects(es) PROVE WellMade(es, o)
  <2>1. PICK e \in Entities : o = Object(e, es[e].type)
    BY DEF EntityObjects, Kept
  <2>2. TypeOfName(es, e) = es[e].type
    BY TypesOfNames
  <2> QED
    BY <2>1, <2>2, PlainObject
<1>4. ASSUME NEW d \in Mappable(ds)
      PROVE  /\ WellMade(es, ProcedureObject(es, ds, d, logs))
             /\ ProcedureObject(es, ds, d, logs).id = d
  <2> DEFINE techs == Resolved(ds[d])
             print == ds[d].techniques
             refs  == {"author"} \cup logs
                    \cup {v \in VulnerabilityRefs(ds[d]) \cap Kept(es) :
                             es[v].type = "vulnerability"}
                    \cup (IF ds[d].commands # {} THEN {ProcessOf(d)} ELSE {})
             o == [Object(d, "x-procedure") EXCEPT !.techs = techs, !.print = print,
                       !.sources = {"author"}, !.needs = {"x-procedure extension"}, !.refs = refs]
  <2>1. ProcedureObject(es, ds, d, logs) = o
    BY DEF ProcedureObject
  <2> HIDE DEF techs, print, refs
  <2>2. IsObject(o) /\ o.id = d /\ o.type = "x-procedure"
    BY DEF IsObject, ObjectFields, Object
  <2>3. TypeOfName(es, d) = "x-procedure"
    BY TypesOfNames DEF Mappable
  <2> HIDE DEF o
  <2> QED
    BY <2>1, <2>2, <2>3 DEF WellMade
<1>5. ASSUME NEW o \in ProcessObjects(ds) PROVE WellMade(es, o)
  <2>1. PICK d \in Drafts : o = Object(ProcessOf(d), "process")
    BY DEF ProcessObjects, Mappable
  <2>2. TypeOfName(es, ProcessOf(d)) = "process"
    BY TypesOfNames
  <2> QED
    BY <2>1, <2>2, PlainObject
<1>6. ASSUME NEW o \in ChainObjects(ds, online) PROVE WellMade(es, o)
  <2>1. ASSUME NEW t \in Techniques, o = Object(t, "attack-pattern") PROVE WellMade(es, o)
    BY <2>1, PlainObject, TypesOfNames
  <2>2. ASSUME NEW x \in {"x-log-source", "x-mitre-detection-strategy"}, o = Object(x, x)
        PROVE  WellMade(es, o)
    BY <2>2, PlainObject, TypesOfNames
  <2> QED
    BY <2>1, <2>2 DEF ChainObjects, WellDrafted, Mappable
<1>7. ASSUME NEW o \in FlowObjects(ds, s) PROVE WellMade(es, o)
  <2>1. CASE o = Object("attack-flow extension", "extension-definition")
    BY <2>1, PlainObject, TypesOfNames
  <2>2. CASE \E starts : o = [Object("flow", "attack-flow") EXCEPT !.refs = {"author"} \cup starts,
                                                  !.needs = {"attack-flow extension"}]
    <3>1. IsObject(o) /\ o.id = "flow" /\ o.type = "attack-flow"
      BY <2>2 DEF IsObject, ObjectFields, Object
    <3> QED
      BY <3>1, TypesOfNames DEF WellMade
  <2> QED
    BY <2>1, <2>2 DEF FlowObjects
<1>8. ASSUME NEW o \in ext PROVE WellMade(es, o)
  <2>1. o = Object("x-procedure extension", "extension-definition")
    OBVIOUS
  <2> QED
    BY <2>1, PlainObject, TypesOfNames
<1>9. WellMade(es, ReportObject(objs))
  <2> DEFINE refs == {"author"} \cup {o.id : o \in {p \in objs : p.type # "extension-definition"}}
             report == [Object("report", "report") EXCEPT !.refs = refs]
  <2>1. ReportObject(objs) = report
    BY DEF ReportObject
  <2> HIDE DEF refs
  <2>2. IsObject(report) /\ report.id = "report" /\ report.type = "report"
    BY DEF IsObject, ObjectFields, Object
  <2> HIDE DEF report
  <2> QED
    BY <2>1, <2>2, TypesOfNames DEF WellMade
<1>10. \A o \in all : WellMade(es, o)
  <2> HIDE DEF logs, ext
  <2> QED
    BY <1>2, <1>3, <1>4, <1>5, <1>6, <1>7, <1>8, <1>9
<1>11. \A r \in sros : IsSro(r)
  BY DEF Sros, IsSro, SroFields
<1>12. ASSUME NEW x \in Kept(es) \cup Mappable(ds) PROVE \E o \in all : o.id = x
  <2>1. CASE x \in Kept(es)
    <3>1. Object(x, es[x].type) \in EntityObjects(es) /\ Object(x, es[x].type).id = x
      BY <2>1 DEF EntityObjects, Object
    <3> QED
      BY <3>1
  <2>2. CASE x \in Mappable(ds)
    <3>1. ProcedureObject(es, ds, x, logs) \in procs
      BY <2>2
    <3> QED
      BY <1>4, <2>2, <3>1
  <2> QED
    BY <2>1, <2>2
<1> HIDE DEF all, sros
<1>13. b.objects = all /\ b.sros = sros /\ b = [objects |-> b.objects, sros |-> b.sros]
  BY <1>1
<1>14. IsBundle(b)
  BY <1>10, <1>11, <1>13 DEF IsBundle, WellMade
<1> QED
  BY <1>10, <1>12, <1>13, <1>14 DEF Ids, sros

-----------------------------------------------------------------------------
\* What the serializer builds before it drops what the analyst removed.
Offered(es, ds, s, keys) ==
    (UNION {ProcedureTriples(es, ds, d) \cup UnseenTriples(es, ds, d) : d \in Mappable(ds)})
    \cup (IF s THEN FlowTriples(ds, keys) ELSE {})
    \cup ActorTriples(es, ds, Mappable(ds)) \cup RollupTriples(es, ds)

\* A relationship the auto-fix leaves the way it is, as far as the extracted
\* types of its ends go.
WellDirected(t) ==
    t[2] \in {"precedes", "has-observable"} \/ PreviewType(t[1]) \in ValidSource(t[2])

\* What the builders make: a source that ships, a draft only when it ships, and
\* an actor's use of a thing only through a procedure it is credited with.
Sane(es, ds, s, t) ==
    /\ t = <<t[1], t[2], t[3]>>
    /\ t[1] \in Kept(es) \cup Mappable(ds)
    /\ t[3] \in Drafts => t[3] \in Mappable(ds)
    /\ WellDirected(t)
    /\ t[2] = "precedes" => s /\ t[1] # t[3]
    /\ t[2] = "uses" /\ t[3] \in Entities => Kind[t[3]] # "intrusion-set"
    /\ (t[2] = "uses" /\ t[1] \in OfType(es, "intrusion-set") /\ t[3] \notin Drafts)
          => \E d \in Mappable(ds) : t[1] \in ActorsFor(es, ds[d]) /\ t[3] \in Arsenal(es, ds, d)

\* An entity is no draft and no technique.
LEMMA EntitiesAreNoDrafts ==
    /\ \A e \in Entities : e \notin Drafts /\ e \notin Techniques /\ PreviewType(e) = Kind[e]
    /\ \A d \in Drafts : d \notin Entities /\ d \notin Techniques /\ PreviewType(d) = "x-procedure"
    /\ \A t \in Techniques : t \notin Entities /\ t \notin Drafts
BY NamesAssumption DEF PreviewType

\* A kept entity of an extracted type.
LEMMA OfTypeIs ==
    ASSUME NEW es, NEW kind, NEW e \in OfType(es, kind)
    PROVE  /\ e \in Entities /\ e \in Kept(es) /\ e \notin Drafts
           /\ Kind[e] = kind /\ PreviewType(e) = kind
BY EntitiesAreNoDrafts DEF OfType, Kept

\* The actors of a draft are kept intrusion sets.
LEMMA ActorsAreSets ==
    ASSUME NEW es, NEW draft
    PROVE  ActorsFor(es, draft) \subseteq OfType(es, "intrusion-set")
BY DEF ActorsFor

\* What the builders of one procedure's relationships make.
LEMMA ProcedureTriplesSane ==
    ASSUME NEW es, NEW ds, WellDrafted(ds), NEW s, NEW d \in Mappable(ds),
           NEW t \in ProcedureTriples(es, ds, d)
    PROVE  Sane(es, ds, s, t)
<1>1. d \in Drafts /\ d \notin Entities /\ PreviewType(d) = "x-procedure"
  BY EntitiesAreNoDrafts DEF Mappable
<1>2. CASE \E v \in VulnerabilityRefs(ds[d]) : t = <<d, "exploits", v>>
  <2>1. PICK v \in VulnerabilityRefs(ds[d]) : t = <<d, "exploits", v>>
    BY <1>2
  <2>2. v \in Entities /\ v \notin Drafts
    BY <1>1, EntitiesAreNoDrafts DEF VulnerabilityRefs, WellDrafted
  <2> QED
    BY <1>1, <2>1, <2>2 DEF Sane, WellDirected, ValidSource
<1>3. CASE \E i \in ActorsFor(es, ds[d]) : t = <<i, "uses", d>>
  <2>1. PICK i \in ActorsFor(es, ds[d]) : t = <<i, "uses", d>>
    BY <1>3
  <2>2. i \in Kept(es) /\ PreviewType(i) = "intrusion-set"
    BY ActorsAreSets, OfTypeIs
  <2> QED
    BY <1>1, <2>1, <2>2 DEF Sane, WellDirected, ValidSource
<1>4. CASE \E x \in OfType(es, "malware") \cup OfType(es, "tool") : t = <<d, "uses", x>>
  <2>1. PICK x \in OfType(es, "malware") \cup OfType(es, "tool") : t = <<d, "uses", x>>
    BY <1>4
  <2>2. x \in Entities /\ x \notin Drafts /\ Kind[x] # "intrusion-set"
    BY OfTypeIs
  <2>3. d \notin OfType(es, "intrusion-set")
    BY <1>1 DEF OfType, Kept
  <2> QED
    BY <1>1, <2>1, <2>2, <2>3 DEF Sane, WellDirected, ValidSource
<1> QED
  BY <1>2, <1>3, <1>4 DEF ProcedureTriples

\* The relationships of a procedure the preview does not show.
LEMMA UnseenTriplesSane ==
    ASSUME NEW es, NEW ds, WellDrafted(ds), NEW s, NEW d \in Mappable(ds),
           NEW t \in UnseenTriples(es, ds, d)
    PROVE  Sane(es, ds, s, t)
<1>1. d \in Drafts /\ d \notin Entities /\ PreviewType(d) = "x-procedure"
  BY EntitiesAreNoDrafts DEF Mappable
<1>2. d \notin OfType(es, "intrusion-set")
  BY <1>1 DEF OfType, Kept
<1>3. CASE \E x \in Techniques : t = <<d, "uses", x>>
  BY <1>1, <1>2, <1>3, EntitiesAreNoDrafts DEF Sane, WellDirected, ValidSource
<1>4. CASE \E e \in Entities : t = <<d, "has-observable", e>>
  BY <1>1, <1>4, EntitiesAreNoDrafts DEF Sane, WellDirected
<1> QED
  BY <1>1, <1>3, <1>4 DEF UnseenTriples, Observables, Kept, WellDrafted

\* The steps of the flow are between procedures that ship.
LEMMA FlowTriplesSane ==
    ASSUME NEW es, NEW ds, NEW keys, NEW t \in FlowTriples(ds, keys)
    PROVE  Sane(es, ds, TRUE, t)
<1>1. PICK e \in Flow : /\ {e[1], e[2]} \subseteq Mappable(ds) /\ e[1] # e[2]
                        /\ t = <<e[1], "precedes", e[2]>>
  BY DEF FlowTriples
<1> QED
  BY <1>1, EntitiesAreNoDrafts DEF Sane, WellDirected, Mappable

\* What is said of the actors of the source.
LEMMA ActorTriplesSane ==
    ASSUME NEW es, NEW ds, WellDrafted(ds), NEW s, NEW which \in SUBSET Drafts,
           NEW t \in ActorTriples(es, ds, which)
    PROVE  Sane(es, ds, s, t) /\ {t[1], t[3]} \subseteq Entities
<1>1. CASE t \in AttributionTriples(es)
  <2>1. PICK c \in OfType(es, "campaign") \cup OfType(es, "intrusion-set"),
             x \in OfType(es, "intrusion-set") \cup OfType(es, "threat-actor") :
           t = <<c, "attributed-to", x>>
    BY <1>1 DEF AttributionTriples, SponsorsFor
  <2>2. /\ c \in Entities /\ c \in Kept(es) /\ PreviewType(c) \in {"campaign", "intrusion-set"}
        /\ x \in Entities /\ x \notin Drafts
    BY OfTypeIs
  <2> QED
    BY <2>1, <2>2 DEF Sane, WellDirected, ValidSource
<1>2. CASE t \in TargetTriples(es)
  <2>1. PICK a \in OfType(es, "intrusion-set") \cup OfType(es, "campaign"),
             x \in OfType(es, "identity") \cup OfType(es, "location") \cup OfType(es, "software") :
           t = <<a, "targets", x>>
    BY <1>2 DEF TargetTriples
  <2>2. /\ a \in Entities /\ a \in Kept(es) /\ PreviewType(a) \in {"campaign", "intrusion-set"}
        /\ x \in Entities /\ x \notin Drafts
    BY OfTypeIs
  <2> QED
    BY <2>1, <2>2 DEF Sane, WellDirected, ValidSource
<1>3. CASE t \in ExploitTriples(es, ds, which)
  <2>1. PICK a \in OfType(es, "intrusion-set") \cup OfType(es, "campaign"),
             v \in UNION {VulnerabilityRefs(ds[d]) : d \in which} :
           t = <<a, "exploits", v>>
    BY <1>3 DEF ExploitTriples
  <2>2. /\ a \in Entities /\ a \in Kept(es) /\ PreviewType(a) \in {"campaign", "intrusion-set"}
    BY OfTypeIs
  <2>3. v \in Entities /\ v \notin Drafts
    BY EntitiesAreNoDrafts DEF VulnerabilityRefs, WellDrafted
  <2> QED
    BY <2>1, <2>2, <2>3 DEF Sane, WellDirected, ValidSource
<1> QED
  BY <1>1, <1>2, <1>3 DEF ActorTriples

\* The credit rolled up from the procedures.
LEMMA RollupTriplesSane ==
    ASSUME NEW es, NEW ds, WellDrafted(ds), NEW s, NEW t \in RollupTriples(es, ds)
    PROVE  Sane(es, ds, s, t)
<1>1. PICK d \in Mappable(ds) :
         \E a \in ActorsFor(es, ds[d]) \cup OfType(es, "campaign"), x \in Arsenal(es, ds, d) :
             t = <<a, "uses", x>>
  BY DEF RollupTriples
<1> PICK a \in ActorsFor(es, ds[d]) \cup OfType(es, "campaign"), x \in Arsenal(es, ds, d) :
           t = <<a, "uses", x>>
  BY <1>1
<1>2. /\ a \in Kept(es) /\ PreviewType(a) \in {"campaign", "intrusion-set"}
      /\ a \in OfType(es, "intrusion-set") => a \in ActorsFor(es, ds[d])
  <2>1. CASE a \in ActorsFor(es, ds[d])
    BY <2>1, ActorsAreSets, OfTypeIs
  <2>2. CASE a \in OfType(es, "campaign")
    BY <2>2, OfTypeIs
  <2> QED
    BY <1>1, <2>1, <2>2
<1>3. x \notin Drafts /\ (x \in Entities => Kind[x] # "intrusion-set")
  <2>1. CASE x \in Resolved(ds[d])
    BY <2>1, EntitiesAreNoDrafts DEF WellDrafted, Mappable
  <2>2. CASE x \in OfType(es, "tool") \cup OfType(es, "malware")
    BY <2>2, OfTypeIs
  <2> QED
    BY <1>1, <2>1, <2>2 DEF Arsenal
<1> QED
  BY <1>1, <1>2, <1>3 DEF Sane, WellDirected, ValidSource

\* All the serializer builds is sane.
LEMMA OfferedSane ==
    ASSUME NEW es, NEW ds, WellDrafted(ds), NEW s \in BOOLEAN, NEW keys,
           NEW t \in Offered(es, ds, s, keys)
    PROVE  Sane(es, ds, s, t)
<1>1. CASE \E d \in Mappable(ds) : t \in ProcedureTriples(es, ds, d) \cup UnseenTriples(es, ds, d)
  BY <1>1, ProcedureTriplesSane, UnseenTriplesSane
<1>2. CASE t \in IF s THEN FlowTriples(ds, keys) ELSE {}
  <2>1. s = TRUE /\ t \in FlowTriples(ds, keys)
    BY <1>2
  <2> QED
    BY <2>1, FlowTriplesSane
<1>3. CASE t \in ActorTriples(es, ds, Mappable(ds))
  BY <1>3, ActorTriplesSane DEF Mappable
<1>4. CASE t \in RollupTriples(es, ds)
  BY <1>4, RollupTriplesSane
<1> QED
  BY <1>1, <1>2, <1>3, <1>4 DEF Offered

-----------------------------------------------------------------------------
\* A row of the preview, of entities and drafts only.
RowLike(row) ==
    /\ row = Row(row.triple, row.from)
    /\ row.triple = <<row.triple[1], row.triple[2], row.triple[3]>>
    /\ {row.triple[1], row.triple[3]} \subseteq Entities \cup Drafts

\* A row is offered to the serializer too, unless a draft it was derived from is
\* left out or it relates a procedure to itself.
LEMMA RowsAreOffered ==
    ASSUME NEW es, NEW ds, WellDrafted(ds), NEW s \in BOOLEAN, NEW keys,
           NEW row \in Preview(es, ds, s)
    PROVE  /\ RowLike(row)
           /\ row.key \notin keys =>
                 \/ row.triple \in Offered(es, ds, s, keys)
                 \/ row.triple[1] = row.triple[3]
                 \/ \E d \in row.from : d \in Drafts \ Mappable(ds)
<1>0. ASSUME NEW t, NEW from
      PROVE  /\ Row(t, from).triple = t /\ Row(t, from).from = from
             /\ Row(t, from).key = <<t[1], t[2], t[3], PreviewType(t[1]), PreviewType(t[3])>>
  BY DEF Row
<1>1. ASSUME NEW d \in Drafts, NEW t \in ProcedureTriples(es, ds, d), row = Row(t, {d})
      PROVE  /\ RowLike(row)
             /\ \/ row.triple \in Offered(es, ds, s, keys)
                \/ d \in row.from /\ d \in Drafts \ Mappable(ds)
  <2>1. row.triple = t /\ row.from = {d}
    BY <1>0, <1>1
  <2>2. t = <<t[1], t[2], t[3]>> /\ {t[1], t[3]} \subseteq Entities \cup Drafts
    <3>1. ActorsFor(es, ds[d]) \subseteq Entities
      BY ActorsAreSets, OfTypeIs
    <3>2. VulnerabilityRefs(ds[d]) \subseteq Entities
      BY DEF VulnerabilityRefs, WellDrafted
    <3>3. OfType(es, "malware") \subseteq Entities /\ OfType(es, "tool") \subseteq Entities
      BY OfTypeIs
    <3> QED
      BY <1>1, <3>1, <3>2, <3>3 DEF ProcedureTriples
  <2>3. d \in Mappable(ds) => t \in Offered(es, ds, s, keys)
    BY <1>1 DEF Offered
  <2>4. RowLike(row)
    BY <1>1, <2>1, <2>2 DEF RowLike
  <2> QED
    BY <2>1, <2>3, <2>4
<1>2. ASSUME NEW e \in Edges(s), row = Row(<<e[1], "precedes", e[2]>>, {e[1], e[2]})
      PROVE  /\ RowLike(row)
             /\ row.key \notin keys => \/ row.triple \in Offered(es, ds, s, keys)
                                       \/ row.triple[1] = row.triple[3]
                                       \/ \E d \in row.from : d \in Drafts \ Mappable(ds)
  <2> DEFINE t == <<e[1], "precedes", e[2]>>
  <2>1. e \in Flow /\ s = TRUE
    BY DEF Edges
  <2>2. e[1] \in Drafts /\ e[2] \in Drafts
    BY <2>1, FlowAssumption
  <2>3. PreviewType(e[1]) = "x-procedure" /\ PreviewType(e[2]) = "x-procedure"
    BY <2>2, EntitiesAreNoDrafts
  <2>4. /\ row.triple = t /\ row.from = {e[1], e[2]}
        /\ row.key = <<e[1], "precedes", e[2], "x-procedure", "x-procedure">>
    BY <1>0, <1>2, <2>3
  <2>5. RowLike(row)
    BY <1>2, <2>2, <2>4 DEF RowLike
  <2>6. ASSUME row.key \notin keys, {e[1], e[2]} \subseteq Mappable(ds), e[1] # e[2]
        PROVE  t \in Offered(es, ds, s, keys)
    <3>1. t \in FlowTriples(ds, keys)
      BY <2>1, <2>4, <2>6 DEF FlowTriples
    <3> QED
      BY <2>1, <3>1 DEF Offered
  <2> QED
    BY <2>2, <2>4, <2>5, <2>6
<1>3. ASSUME NEW t \in ActorTriples(es, ds, Drafts), row = Row(t, Carriers(ds, t))
      PROVE  /\ RowLike(row)
             /\ \/ row.triple \in Offered(es, ds, s, keys)
                \/ \E d \in row.from : d \in Drafts \ Mappable(ds)
  <2>1. row.triple = t /\ row.from = Carriers(ds, t)
    BY <1>0, <1>3
  <2>2. t = <<t[1], t[2], t[3]>> /\ {t[1], t[3]} \subseteq Entities
    <3>1. Drafts \in SUBSET Drafts
      OBVIOUS
    <3>2. Sane(es, ds, s, t) /\ {t[1], t[3]} \subseteq Entities
      BY <3>1, ActorTriplesSane
    <3> QED
      BY <3>2 DEF Sane
  <2>3. \/ t \in ActorTriples(es, ds, Mappable(ds))
        \/ \E d \in Carriers(ds, t) : d \in Drafts \ Mappable(ds)
    <3>1. CASE t \in AttributionTriples(es) \cup TargetTriples(es)
      BY <3>1 DEF ActorTriples
    <3>2. CASE t \in ExploitTriples(es, ds, Drafts)
      <4>1. PICK a \in OfType(es, "intrusion-set") \cup OfType(es, "campaign"), d \in Drafts :
               \E v \in VulnerabilityRefs(ds[d]) : t = <<a, "exploits", v>>
        BY <3>2 DEF ExploitTriples
      <4>2. PICK v \in VulnerabilityRefs(ds[d]) : t = <<a, "exploits", v>>
        BY <4>1
      <4>3. d \in Carriers(ds, t)
        BY <4>2 DEF Carriers
      <4>4. d \in Mappable(ds) => t \in ExploitTriples(es, ds, Mappable(ds))
        BY <4>2 DEF ExploitTriples
      <4> QED
        BY <4>3, <4>4 DEF ActorTriples
    <3> QED
      BY <3>1, <3>2 DEF ActorTriples
  <2>4. t \in ActorTriples(es, ds, Mappable(ds)) => t \in Offered(es, ds, s, keys)
    BY DEF Offered
  <2> QED
    BY <1>3, <2>1, <2>2, <2>3, <2>4 DEF RowLike
<1>4. \/ \E d \in Drafts : \E t \in ProcedureTriples(es, ds, d) : row = Row(t, {d})
      \/ \E e \in Edges(s) : row = Row(<<e[1], "precedes", e[2]>>, {e[1], e[2]})
      \/ \E t \in ActorTriples(es, ds, Drafts) : row = Row(t, Carriers(ds, t))
  BY DEF Preview, DraftRows, ActorRows
<1> QED
  BY <1>1, <1>2, <1>3, <1>4

\* Of what was offered the serializer drops only what it can name, as a row the
\* analyst took out.
LEMMA WhatIsDropped ==
    ASSUME NEW es, NEW ds, NEW s, NEW dec
    PROVE  LET keys == RemovedKeys(dec) IN
           /\ BuiltTriples(es, ds, s, dec) = DropRemoved(es, ds, Offered(es, ds, s, keys), keys)
           /\ BuiltTriples(es, ds, s, dec) \subseteq Offered(es, ds, s, keys)
           /\ \A t \in Offered(es, ds, s, keys) :
                 t \notin BuiltTriples(es, ds, s, dec) => KeyOf(es, t) \in keys
<1>1. BuiltTriples(es, ds, s, dec) =
         DropRemoved(es, ds, Offered(es, ds, s, RemovedKeys(dec)), RemovedKeys(dec))
  BY DEF BuiltTriples, Offered
<1> QED
  BY <1>1 DEF DropRemoved

\* What the passes make of a relationship the serializer built, of whatever names
\* of whatever types.
LEMMA BuiltShipsOrIsRepaired ==
    ASSUME NEW b, IsBundle(b), NEW s \in BOOLEAN, NEW r \in b.sros,
           r.verb = "precedes" => s
    PROVE  LET f == AutoFixed(b, s, Techniques)
               turned == <<r.tgt, r.verb, r.src>>
           IN  \/ /\ r.verb # "precedes" \/ r.src # r.tgt
                  /\ ~Inverted(b, r)
                  /\ \E q \in f.sros : Content(q) = Content(r)
               \/ /\ Inverted(b, r) \/ (r.verb = "precedes" /\ r.src = r.tgt)
                  /\ Correction("relationship_fixed", Content(r)) \in FixesOf(b, f)
                  /\ r.src = r.tgt \/ \E q \in f.sros : Content(q) = turned
<1> DEFINE f == AutoFixed(b, s, Techniques)
<1>1. /\ \A q \in f.sros : Flows(q, s) /\ \E p \in b.sros : q = Turned(b, p)
      /\ \A q \in b.sros : Flows(Turned(b, q), s)
                              => \E p \in f.sros : Content(p) = Content(Turned(b, q))
  BY AutoFixEffect
<1>2. IsSro(r) /\ \A p \in b.sros : IsSro(p)
  BY DEF IsBundle
<1> HIDE DEF f
<1> DEFINE ships    == \E q \in f.sros : Content(q) = Content(r)
           reversed == \E q \in f.sros : Content(q) = <<r.tgt, r.verb, r.src>>
           said     == Correction("relationship_fixed", Content(r)) \in FixesOf(b, f)
<1>3. r \notin f.sros => said
  BY DEF FixesOf
<1>4. ASSUME Inverted(b, r) PROVE reversed /\ said
  <2>1. r.verb # "precedes"
    BY <1>4 DEF Inverted, ValidSource
  <2>2. Turned(b, r).src = r.tgt /\ Turned(b, r).tgt = r.src /\ Turned(b, r).verb = r.verb
    BY <1>2, <1>4, TurnedShape
  <2>3. PICK q \in f.sros : Content(q) = Content(Turned(b, r))
    BY <1>1, <2>1, <2>2 DEF Flows
  <2>4. Content(q) = <<r.tgt, r.verb, r.src>>
    BY <2>2, <2>3 DEF Content
  <2>5. r \notin f.sros
    BY <1>1, <1>2, <1>4, TurnedOnce
  <2>6. reversed /\ said
    BY <1>3, <2>4, <2>5
  <2> QED
    BY <2>6
<1>5. ASSUME ~Inverted(b, r) /\ r.verb = "precedes" /\ r.src = r.tgt PROVE said
  <2>1. r \notin f.sros
    BY <1>1, <1>5 DEF Flows
  <2> QED
    BY <1>3, <1>5, <2>1
<1>6. ASSUME ~Inverted(b, r), ~(r.verb = "precedes" /\ r.src = r.tgt) PROVE ships
  <2>1. Turned(b, r) = r
    BY <1>2, <1>6, TurnedShape
  <2>2. PICK q \in f.sros : Content(q) = Content(r)
    BY <1>1, <1>6, <2>1 DEF Flows
  <2>3. ships
    BY <2>2
  <2> QED
    BY <2>3
<1> HIDE DEF ships, reversed, said
<1>7. \/ (r.verb # "precedes" \/ r.src # r.tgt) /\ ~Inverted(b, r) /\ ships
      \/ /\ Inverted(b, r) \/ (r.verb = "precedes" /\ r.src = r.tgt)
         /\ said /\ (r.src = r.tgt \/ reversed)
  BY <1>4, <1>5, <1>6
<1> QED
  BY <1>7 DEF ships, reversed, said, f

-----------------------------------------------------------------------------
\* A triple as a relationship, and the triples the serializer built this time.
Rel(t, by) == [src |-> t[1], verb |-> t[2], tgt |-> t[3], by |-> by]

BuiltNow == BuiltTriples(entities, drafts, sequential, decision)

\* What the bundle of a finished run was made from, and what was recorded.
MadeFrom(b) ==
    /\ IsBundle(b)
    /\ \A o \in b.objects : WellMade(entities, o)
    /\ Kept(entities) \cup Mappable(drafts) \subseteq Ids(b)
    /\ \A t \in BuiltNow : Rel(t, "serializer") \in b.sros
    /\ \A r \in b.sros : r.by = "serializer" => \E t \in BuiltNow : r = Rel(t, "serializer")
    /\ bundle = AutoFixed(b, sequential, Techniques)
    /\ corrections = Omissions(drafts) \cup FixesOf(b, bundle) \cup HardFails(bundle, Techniques)

\* A finished run has one.
LEMMA MadeFromOne ==
    ASSUME Inv, Done
    PROVE  WellDrafted(drafts) /\ \E b : MadeFrom(b)
<1>1. WellDrafted(drafts)
  BY DraftingsAssumption DEF Inv, WellDrafted
<1>2. PICK online \in BOOLEAN :
         /\ bundle = Fixed(Built(online))
         /\ corrections = Omissions(drafts) \cup FixesOf(Built(online), Fixed(Built(online)))
                             \cup HardFails(Fixed(Built(online)), Techniques)
  BY DEF Inv, Done, BundleIsFixed
<1> DEFINE b == Built(online)
<1>3. /\ IsBundle(b)
      /\ \A o \in b.objects : WellMade(entities, o)
      /\ Kept(entities) \cup Mappable(drafts) \subseteq Ids(b)
      /\ b.sros = Sros(BuiltNow, "serializer") \cup Sros(ChainTriples(drafts, online), "catalogue")
                   \cup Sros(AddedTriples(entities, drafts, BuiltNow, decision), "analyst")
  <2>1. sequential \in BOOLEAN
    BY DEF Inv
  <2> QED
    BY <1>1, <2>1, SerializedIsBundle DEF Built, BuiltNow
<1>4. bundle = Fixed(b) /\ corrections = Omissions(drafts) \cup FixesOf(b, bundle)
                                            \cup HardFails(bundle, Techniques)
  BY <1>2
<1> HIDE DEF b
<1>5. Fixed(b) = AutoFixed(b, sequential, Techniques)
  BY <1>3, RecoveryChangesNothing DEF Fixed
<1>6. /\ \A t \in BuiltNow : Rel(t, "serializer") \in b.sros
      /\ \A r \in b.sros : r.by = "serializer" => \E t \in BuiltNow : r = Rel(t, "serializer")
  <2> DEFINE mine   == Sros(BuiltNow, "serializer")
             others == Sros(ChainTriples(drafts, online), "catalogue")
                       \cup Sros(AddedTriples(entities, drafts, BuiltNow, decision), "analyst")
  <2>1. \A r \in others : r.by # "serializer"
    BY DEF Sros
  <2>2. mine = {Rel(t, "serializer") : t \in BuiltNow}
    BY DEF Sros, Rel
  <2> HIDE DEF mine, others
  <2>3. b.sros = mine \cup others
    BY <1>3 DEF mine, others
  <2> QED
    BY <2>1, <2>2, <2>3
<1> QED
  BY <1>1, <1>3, <1>4, <1>5, <1>6 DEF MadeFrom

\* What the passes take for turned round is what an analyst retyped: the builders
\* direct every relationship by the extracted types of its ends.
LEMMA BuiltIsWellDirected ==
    ASSUME Inv, NEW b, MadeFrom(b), WellDrafted(drafts), NEW t \in BuiltNow,
           t[1] \in Entities => entities[t[1]].type = Kind[t[1]]
    PROVE  ~Inverted(b, Rel(t, "serializer"))
<1>1. sequential \in BOOLEAN
  BY DEF Inv
<1>2. t \in Offered(entities, drafts, sequential, RemovedKeys(decision))
  BY WhatIsDropped DEF BuiltNow
<1>3. Sane(entities, drafts, sequential, t)
  BY <1>1, <1>2, OfferedSane
<1> SUFFICES ASSUME Inverted(b, Rel(t, "serializer")) PROVE FALSE
  OBVIOUS
<1>4. Rel(t, "serializer").src = t[1] /\ Rel(t, "serializer").verb = t[2]
      /\ Rel(t, "serializer").tgt = t[3]
  BY DEF Rel
<1>5. /\ t[1] \in Ids(b)
      /\ TypeIn(b, t[1]) \notin ValidSource(t[2]) /\ TypeIn(b, t[3]) \in ValidSource(t[2])
  BY <1>4 DEF Inverted
<1>6. PreviewType(t[1]) \in ValidSource(t[2])
  BY <1>3, <1>5 DEF Sane, WellDirected, ValidSource
<1>7. TypeIn(b, t[1]) = TypeOfName(entities, t[1])
  <2>1. PICK o \in b.objects : o.id = t[1]
    BY <1>5 DEF Ids
  <2> QED
    BY <2>1, TypeOfObject DEF MadeFrom, WellMade
<1>8. t[1] \in Entities \cup Drafts
  BY <1>3 DEF Sane, Kept, Mappable
<1>9. TypeOfName(entities, t[1]) = PreviewType(t[1])
  <2>1. CASE t[1] \in Entities
    <3>1. TypeOfName(entities, t[1]) = entities[t[1]].type
      BY <2>1, TypesOfNames
    <3> QED
      BY <2>1, <3>1, EntitiesAreNoDrafts
  <2>2. CASE t[1] \in Drafts
    <3>1. TypeOfName(entities, t[1]) = "x-procedure"
      BY <2>2, TypesOfNames
    <3> QED
      BY <2>2, <3>1, EntitiesAreNoDrafts
  <2> QED
    BY <1>8, <2>1, <2>2
<1> QED
  BY <1>5, <1>6, <1>7, <1>9

\* What was built ships, or the passes said what they did to it.
LEMMA BuiltIsAccountedFor ==
    ASSUME Inv, NEW b, MadeFrom(b), WellDrafted(drafts), NEW t \in BuiltNow
    PROVE  /\ Ships(t) \/ Repaired(t)
           /\ t[2] # "precedes" /\ ~Inverted(b, Rel(t, "serializer")) => Ships(t)
<1> DEFINE r == Rel(t, "serializer")
<1>1. sequential \in BOOLEAN
  BY DEF Inv
<1>2. Sane(entities, drafts, sequential, t)
  BY <1>1, WhatIsDropped, OfferedSane DEF BuiltNow
<1>3. t = <<t[1], t[2], t[3]>> /\ (t[2] = "precedes" => sequential /\ t[1] # t[3])
  BY <1>2 DEF Sane
<1>4. r.src = t[1] /\ r.verb = t[2] /\ r.tgt = t[3] /\ Content(r) = t
  BY <1>3 DEF Rel, Content
<1>5. r \in b.sros
  BY DEF MadeFrom
<1> HIDE DEF r
<1>6. LET f == AutoFixed(b, sequential, Techniques)
          turned == <<r.tgt, r.verb, r.src>>
      IN  \/ /\ r.verb # "precedes" \/ r.src # r.tgt
             /\ ~Inverted(b, r)
             /\ \E q \in f.sros : Content(q) = Content(r)
          \/ /\ Inverted(b, r) \/ (r.verb = "precedes" /\ r.src = r.tgt)
             /\ Correction("relationship_fixed", Content(r)) \in FixesOf(b, f)
             /\ r.src = r.tgt \/ \E q \in f.sros : Content(q) = turned
  BY <1>1, <1>3, <1>4, <1>5, BuiltShipsOrIsRepaired DEF MadeFrom
<1>7. Inverted(b, r) => r.src # r.tgt
  BY DEF Inverted
<1>8. \/ ~Inverted(b, r) /\ \E q \in bundle.sros : Content(q) = t
      \/ /\ Inverted(b, r)
         /\ Correction("relationship_fixed", t) \in corrections
         /\ \E q \in bundle.sros : Content(q) = <<t[3], t[2], t[1]>>
  BY <1>3, <1>4, <1>6, <1>7 DEF MadeFrom
<1> QED
  BY <1>8 DEF Ships, Repaired, r

-----------------------------------------------------------------------------
\* Every key the analyst took out is that of a row of the preview.
LEMMA RemovedKeysAreOfRows ==
    ASSUME Inv, Done, NEW key \in RemovedKeys(decision)
    PROVE  \E row \in preview : row.key = key
<1>1. decision.removed \subseteq preview /\ \A e \in decision.edited : e.original \in preview
  BY DEF Inv, Done, DecisionIsOfPreview, Decided
<1> QED
  BY <1>1 DEF RemovedKeys

\* The rows of the preview are about entities and drafts.
LEMMA PreviewRows ==
    ASSUME Inv, Done, NEW row \in preview
    PROVE  /\ RowLike(row)
           /\ row.key \notin RemovedKeys(decision) =>
                 \/ row.triple \in Offered(entities, drafts, sequential, RemovedKeys(decision))
                 \/ row.triple[1] = row.triple[3]
                 \/ \E d \in row.from : d \in Drafts \ Mappable(drafts)
           /\ row.key = <<row.triple[1], row.triple[2], row.triple[3],
                          PreviewType(row.triple[1]), PreviewType(row.triple[3])>>
<1>1. preview = Preview(entities, drafts, sequential) /\ sequential \in BOOLEAN
  BY DEF Inv, Done, PreviewIsCurrent, Previewed
<1>2. WellDrafted(drafts)
  BY DraftingsAssumption DEF Inv, WellDrafted
<1>3. /\ RowLike(row)
      /\ row.key \notin RemovedKeys(decision) =>
            \/ row.triple \in Offered(entities, drafts, sequential, RemovedKeys(decision))
            \/ row.triple[1] = row.triple[3]
            \/ \E d \in row.from : d \in Drafts \ Mappable(drafts)
  BY <1>1, <1>2, RowsAreOffered
<1>4. row = Row(row.triple, row.from)
  BY <1>3 DEF RowLike
<1>5. \A t, from : Row(t, from).key =
                      <<t[1], t[2], t[3], PreviewType(t[1]), PreviewType(t[3])>>
  BY DEF Row
<1>6. row.key = <<row.triple[1], row.triple[2], row.triple[3],
                  PreviewType(row.triple[1]), PreviewType(row.triple[3])>>
  BY <1>4, <1>5
<1> QED
  BY <1>3, <1>6

-----------------------------------------------------------------------------
\* Whatever the analyst edited in, a bundle the validator lets through is sound:
\* its checks (HardFails) and the passes before them are together enough.
THEOREM ShippedIsSoundHolds == Spec => []ShippedIsSound
<1>1. Inv => ShippedIsSound
  <2> SUFFICES ASSUME Inv, verdict = "passed" PROVE ShippedIsSound
    BY DEF ShippedIsSound
  <2>1. Done /\ HardFails(bundle, Techniques) = {} /\ sequential \in BOOLEAN
    BY DEF Inv, Done
  <2>2. PICK b : MadeFrom(b)
    BY <2>1, MadeFromOne
  <2>3. /\ Settled(bundle, Techniques)
        /\ \A r \in bundle.sros : Flows(r, sequential)
        /\ \A r, s \in bundle.sros : Content(r) = Content(s) => r = s
    BY <2>1, <2>2, AutoFixEffect DEF MadeFrom
  <2>4. /\ UnrecoveredRefs(bundle, Techniques) = {} /\ PrecedesCycle(bundle) = {}
        /\ IncompleteProcedures(bundle) = {}
    BY <2>1 DEF HardFails
  <2>5. RefsOf(bundle) \subseteq Ids(bundle) \cup Techniques
    BY <2>4 DEF UnrecoveredRefs, Found, Dangling, External
  <2>6. ~Cyclic(FlowEdges(bundle))
    BY <2>4 DEF PrecedesCycle, Found
  <2>7. sequential \/ \A r \in bundle.sros : r.verb # "precedes"
    BY <2>1, <2>3 DEF Flows
  <2>8. ASSUME NEW p \in Procedures(bundle)
        PROVE  /\ p.techs # {} /\ p.print = p.techs
               /\ UsedTechniques(bundle, p, Techniques) \subseteq p.techs
    <3>1. p.techs # {}
      BY <2>4 DEF IncompleteProcedures, Found, IdsOf
    <3> QED
      BY <2>3, <3>1 DEF Settled
  <2> QED
    BY <2>3, <2>5, <2>6, <2>7, <2>8 DEF ShippedIsSound
<1> QED
  BY <1>1, InvHolds, PTL

\* One run of the passes is enough, on any bundle the serializer can make.
THEOREM PassesConvergeHolds == Spec => []PassesConverge
<1>1. Inv => PassesConverge
  <2> SUFFICES ASSUME Inv, Done PROVE AutoFixed(bundle, sequential, Techniques) = bundle
    BY DEF PassesConverge
  <2>1. PICK b : MadeFrom(b)
    BY MadeFromOne
  <2>2. sequential \in BOOLEAN
    BY DEF Inv
  <2> QED
    BY <2>1, <2>2, PassesIdempotent DEF MadeFrom
<1> QED
  BY <1>1, InvHolds, PTL

\* What the analyst approved and did not touch ships, or the corrections say why
\* not: but for a procedure that precedes itself there is no silent loss between
\* the preview and the validated bundle.
THEOREM NothingLostSilentlyHolds == Spec => []NothingLostSilently
<1>1. Inv => NothingLostSilently
  <2> SUFFICES ASSUME Inv, Done PROVE NothingLostSilently
    BY DEF NothingLostSilently
  <2>1. WellDrafted(drafts) /\ \E b : MadeFrom(b)
    BY MadeFromOne
  <2>2. PICK b : MadeFrom(b)
    BY <2>1
  <2>3. \A d \in Drafts \ Mappable(drafts) :
           Correction("procedure_omitted_no_technique", d) \in corrections
    BY <2>2 DEF MadeFrom, Omissions
  <2>4. ASSUME NEW d \in Mappable(drafts) PROVE d \in Ids(bundle)
    <3>1. d \in Ids(b)
      BY <2>2 DEF MadeFrom
    <3>2. IsBundle(bundle) /\ SameNames(b, bundle)
      BY <2>2, AutoFixEffect DEF MadeFrom, Inv
    <3> QED
      BY <2>2, <3>1, <3>2, NamesAgree DEF MadeFrom
  <2>5. ASSUME NEW row \in preview, row.key \notin RemovedKeys(decision),
               row.triple[1] # row.triple[3],
               \A d \in row.from : d \notin Drafts \ Mappable(drafts)
        PROVE  Ships(row.triple) \/ Repaired(row.triple)
    <3>1. row.triple \in Offered(entities, drafts, sequential, RemovedKeys(decision))
      BY <2>5, PreviewRows
    <3>2. ASSUME row.triple \notin BuiltNow PROVE FALSE
      <4>1. KeyOf(entities, row.triple) \in RemovedKeys(decision)
        BY <3>1, <3>2, WhatIsDropped DEF BuiltNow
      <4>2. PICK other \in preview : other.key = KeyOf(entities, row.triple)
        BY <4>1, RemovedKeysAreOfRows
      <4>3. /\ other.triple[1] = row.triple[1] /\ other.triple[2] = row.triple[2]
            /\ other.triple[3] = row.triple[3]
        BY <4>2, PreviewRows DEF KeyOf
      <4>4. other.key = row.key
        BY <4>3, PreviewRows
      <4> QED
        BY <2>5, <4>1, <4>2, <4>4
    <3> QED
      BY <2>1, <2>2, <3>2, BuiltIsAccountedFor
  <2> QED
    BY <2>3, <2>4, <2>5 DEF NothingLostSilently, Accounted
<1> QED
  BY <1>1, InvHolds, PTL

\* A row the analyst removed does not ship, whichever of the builders and passes
\* could have made it.
THEOREM RemovedRowsAreGoneHolds == Spec => []RemovedRowsAreGone
<1>1. Inv => RemovedRowsAreGone
  <2> SUFFICES ASSUME Inv, Done, NEW row \in decision.removed,
                      \A x \in {row.triple[1], row.triple[3]} \cap Entities :
                          entities[x].type = Kind[x] /\ entities[x].action # "remove",
                      NEW r \in bundle.sros, Content(r) = row.triple, r.by = "serializer"
               PROVE  FALSE
    BY DEF RemovedRowsAreGone
  <2>1. WellDrafted(drafts) /\ \E b : MadeFrom(b)
    BY MadeFromOne
  <2>2. PICK b : MadeFrom(b)
    BY <2>1
  <2>3. row \in preview /\ sequential \in BOOLEAN
    BY DEF Inv, Done, DecisionIsOfPreview, Decided
  <2>4. PICK q \in b.sros : r = Turned(b, q)
    BY <2>2, <2>3, AutoFixEffect DEF MadeFrom
  <2>5. IsSro(q)
    BY <2>2 DEF MadeFrom, IsBundle
  <2>6. q.by = "serializer"
    BY <2>4, <2>5, TurnedShape
  <2>7. PICK t \in BuiltNow : q = Rel(t, "serializer")
    BY <2>2, <2>6 DEF MadeFrom
  <2>8. q.src = t[1] /\ q.verb = t[2] /\ q.tgt = t[3]
    BY <2>7 DEF Rel
  <2>9. t \in Offered(entities, drafts, sequential, RemovedKeys(decision))
    BY WhatIsDropped DEF BuiltNow
  <2>10. Sane(entities, drafts, sequential, t)
    BY <2>1, <2>3, <2>9, OfferedSane
  <2>11. r.src = row.triple[1] /\ r.tgt = row.triple[3] /\ r.verb = row.triple[2]
    BY <2>3, PreviewRows DEF Content, RowLike
  <2>12. {t[1], t[3]} = {row.triple[1], row.triple[3]}
    BY <2>4, <2>5, <2>8, <2>11, TurnedShape
  <2>13. t[1] \in Entities => entities[t[1]].type = Kind[t[1]]
    BY <2>12
  <2>14. ~Inverted(b, q)
    BY <2>1, <2>2, <2>7, <2>13, BuiltIsWellDirected
  <2>15. r = q /\ t = row.triple
    BY <2>4, <2>5, <2>7, <2>8, <2>10, <2>14, TurnedShape DEF Sane, Content
  <2>16. {t[1], t[3]} \subseteq Entities \cup Drafts
    BY <2>3, <2>15, PreviewRows DEF RowLike
  <2>17. {t[1], t[3]} \subseteq Indexed(entities, drafts)
    <3>1. ASSUME NEW x \in {t[1], t[3]} \cap Entities PROVE x \in Kept(entities)
      BY <2>12, <3>1 DEF Kept
    <3>2. ASSUME NEW x \in {t[1], t[3]} \cap Drafts PROVE x \in Mappable(drafts)
      <4>1. CASE x = t[1]
        BY <2>10, <4>1, EntitiesAreNoDrafts DEF Sane, Kept
      <4>2. CASE x = t[3]
        BY <2>10, <4>2 DEF Sane
      <4> QED
        BY <4>1, <4>2
    <3> QED
      BY <2>16, <3>1, <3>2 DEF Indexed
  <2>18. KeyOf(entities, t) = row.key
    <3>1. ASSUME NEW x \in {t[1], t[3]} PROVE IndexType(entities, x) = PreviewType(x)
      <4>1. CASE x \in Entities
        BY <2>12, <4>1, EntitiesAreNoDrafts DEF IndexType
      <4>2. CASE x \in Drafts
        BY <4>2, EntitiesAreNoDrafts DEF IndexType
      <4> QED
        BY <2>16, <4>1, <4>2
    <3> QED
      BY <2>3, <2>15, <3>1, PreviewRows DEF KeyOf
  <2>19. row.key \in RemovedKeys(decision)
    BY DEF RemovedKeys
  <2> QED
    BY <2>17, <2>18, <2>19, WhatIsDropped DEF BuiltNow, DropRemoved
<1> QED
  BY <1>1, InvHolds, PTL

\* An intrusion set is credited only through a procedure it was credited with:
\* the rollup takes the procedure's own actors, and its two edges were built.
THEOREM AttributionGroundedHolds == Spec => []AttributionGrounded
<1>1. Inv => AttributionGrounded
  <2> DEFINE sets == OfType(entities, "intrusion-set")
             keys == RemovedKeys(decision)
  <2> SUFFICES ASSUME Inv, Done, NEW r \in bundle.sros,
                      r.verb = "uses", r.by = "serializer", r.src \in sets, r.tgt \notin Drafts
               PROVE  \E d \in Drafts :
                         /\ \/ Ships(<<r.src, "uses", d>>) \/ Repaired(<<r.src, "uses", d>>)
                            \/ \E key \in keys : key[1] = r.src /\ key[3] = d
                         /\ \/ Ships(<<d, "uses", r.tgt>>)
                            \/ \E key \in keys : key[1] = d /\ key[3] = r.tgt
    BY DEF AttributionGrounded
  <2>1. WellDrafted(drafts) /\ \E b : MadeFrom(b)
    BY MadeFromOne
  <2>2. PICK b : MadeFrom(b)
    BY <2>1
  <2>3. sequential \in BOOLEAN
    BY DEF Inv
  <2>4. PICK q \in b.sros : r = Turned(b, q)
    BY <2>2, <2>3, AutoFixEffect DEF MadeFrom
  <2>5. IsSro(q)
    BY <2>2 DEF MadeFrom, IsBundle
  <2>6. q.by = "serializer" /\ q.verb = "uses"
    BY <2>4, <2>5, TurnedShape
  <2>7. PICK t \in BuiltNow : q = Rel(t, "serializer")
    BY <2>2, <2>6 DEF MadeFrom
  <2>8. q.src = t[1] /\ t[2] = "uses" /\ q.tgt = t[3]
    BY <2>6, <2>7 DEF Rel
  <2>9. Sane(entities, drafts, sequential, t)
    BY <2>1, <2>3, WhatIsDropped, OfferedSane DEF BuiltNow
  <2>10. ~Inverted(b, q)
    <3> SUFFICES ASSUME Inverted(b, q) PROVE FALSE
      OBVIOUS
    <3>1. t[3] = r.src
      BY <2>4, <2>5, <2>8, TurnedShape
    <3>2. t[3] \in Entities /\ Kind[t[3]] = "intrusion-set"
      BY <3>1, OfTypeIs
    <3> QED
      BY <2>8, <2>9, <3>2 DEF Sane
  <2>11. r.src = t[1] /\ r.tgt = t[3]
    BY <2>4, <2>5, <2>8, <2>10, TurnedShape
  <2>12. PICK d \in Mappable(drafts) :
            r.src \in ActorsFor(entities, drafts[d]) /\ r.tgt \in Arsenal(entities, drafts, d)
    BY <2>8, <2>9, <2>11 DEF Sane
  <2>13. d \in Drafts /\ d \notin Entities
    BY EntitiesAreNoDrafts DEF Mappable
  <2> DEFINE credit == <<r.src, "uses", d>>
             use    == <<d, "uses", r.tgt>>
  <2>14. /\ credit \in Offered(entities, drafts, sequential, keys)
         /\ use \in Offered(entities, drafts, sequential, keys)
    <3>1. credit \in ProcedureTriples(entities, drafts, d)
      BY <2>12 DEF ProcedureTriples
    <3>2. use \in ProcedureTriples(entities, drafts, d) \cup UnseenTriples(entities, drafts, d)
      BY <2>12 DEF Arsenal, ProcedureTriples, UnseenTriples
    <3> HIDE DEF credit, use
    <3> QED
      BY <3>1, <3>2 DEF Offered
  <2>15. \/ Ships(credit) \/ Repaired(credit)
         \/ \E key \in keys : key[1] = r.src /\ key[3] = d
    <3>1. CASE credit \in BuiltNow
      BY <2>1, <2>2, <3>1, BuiltIsAccountedFor
    <3>2. CASE credit \notin BuiltNow
      <4>1. KeyOf(entities, credit) \in keys
        BY <2>14, <3>2, WhatIsDropped DEF BuiltNow
      <4>2. KeyOf(entities, credit)[1] = r.src /\ KeyOf(entities, credit)[3] = d
        BY DEF KeyOf
      <4> QED
        BY <4>1, <4>2
    <3> QED
      BY <3>1, <3>2
  <2>16. \/ Ships(use) \/ \E key \in keys : key[1] = d /\ key[3] = r.tgt
    <3>1. CASE use \in BuiltNow
      <4>1. use[1] = d /\ use[2] = "uses"
        OBVIOUS
      <4>2. ~Inverted(b, Rel(use, "serializer"))
        BY <2>1, <2>2, <2>13, <3>1, <4>1, BuiltIsWellDirected
      <4> QED
        BY <2>1, <2>2, <3>1, <4>1, <4>2, BuiltIsAccountedFor
    <3>2. CASE use \notin BuiltNow
      <4>1. KeyOf(entities, use) \in keys
        BY <2>14, <3>2, WhatIsDropped DEF BuiltNow
      <4>2. KeyOf(entities, use)[1] = d /\ KeyOf(entities, use)[3] = r.tgt
        BY DEF KeyOf
      <4> QED
        BY <4>1, <4>2
    <3> QED
      BY <3>1, <3>2
  <2> QED
    BY <2>13, <2>15, <2>16
<1> QED
  BY <1>1, InvHolds, PTL

=============================================================================
