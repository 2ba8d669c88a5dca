--------------------------- MODULE ChunkFlow_proofs ---------------------------
(***************************************************************************)
(* The flow of procedures, for any chunks, reviews and loops: what the     *)
(* gate leaves of it and what the bundle says of it.                       *)
(***************************************************************************)
EXTENDS ChunkFlow, FiniteSetTheorems, WellFoundedInduction, TLAPS

\* The nodes of this part of the pipeline, and the ends.
Nodes == {"chunk_behaviors", "review_chunks", "gate_chunks", "draft_procedures", "gate_1",
          "normalize", "gate_2", "serialize_stix", "failed", "done"}

Chunk == [seq : Nat, text : SUBSET Nat, root : BOOLEAN, preds : SUBSET Nat,
          succ : SUBSET Nat, pre : [on_true : SUBSET Nat, on_false : SUBSET Nat]]
Draft == [seq : Nat, preds : SUBSET Nat, root : BOOLEAN]

\* Chunks whose successors are chunks of theirs.
IsFlow(cs) ==
    /\ IsFiniteSet(DOMAIN cs) /\ DOMAIN cs \subseteq Nat
    /\ cs \in [DOMAIN cs -> Chunk]
    /\ \A c \in DOMAIN cs : cs[c].succ \subseteq DOMAIN cs

\* Until the gate the chunks are the chunker's.
ChunksAreEmitted ==
    pc \in {"review_chunks", "gate_chunks"} =>
        /\ pass > 0
        /\ DOMAIN chunks = Emitted
        /\ \A c \in Emitted : /\ chunks[c].seq = c /\ chunks[c].text = {c}
                              /\ chunks[c].succ = {d \in Emitted : c \in chunks[d].preds}

ReviewIsOfChunks == (pc = "gate_chunks" /\ scope.gate) => review \in ChunkReviews

DraftsAreOfChunks ==
    /\ pc \in {"gate_1", "normalize", "gate_2", "serialize_stix"} =>
           drafts \in [DOMAIN chunks -> Draft]
    /\ pc \in {"normalize", "gate_2", "serialize_stix"} => approved \subseteq DOMAIN chunks

\* What normalize inferred is of the chunks; of a catalog it inferred nothing.
OperatorsAreOfFlow ==
    (pc \in {"gate_2", "serialize_stix"} /\ approved # {}) =>
        /\ \A op \in DOMAIN chunkOperators :
              /\ isSequential
              /\ chunkOperators[op] = [kind |-> chunkOperators[op].kind,
                    outputs |-> chunkOperators[op].outputs, whole |-> TRUE]
              /\ op.role = "branch" =>
                    \E a \in DOMAIN chunks \ DOMAIN chunkConditions :
                       /\ op.inputs = {a}
                       /\ chunkOperators[op].outputs \subseteq chunks[a].succ
        /\ DOMAIN chunkConditions # {} => isSequential

\* The inductive invariant.
Inv ==
    /\ scope \in Scopes
    /\ pc \in Nodes
    /\ pass \in Nat
    /\ isSequential \in BOOLEAN
    /\ IsFlow(chunks)
    /\ ChunksAreEmitted
    /\ ReviewIsOfChunks
    /\ DraftsAreOfChunks
    /\ OperatorsAreOfFlow

-----------------------------------------------------------------------------
\* A set of natural numbers that is not empty has a least one.
LEMMA LeastNat ==
    ASSUME NEW T \in SUBSET Nat, T # {}
    PROVE  \E x \in T : \A y \in T : x <= y
<1> DEFINE R == {ss \in Nat \X Nat : ss[1] < ss[2]}
<1>1. IsWellFoundedOn(R, Nat)
  BY NatLessThanWellFounded DEF OpToRel
<1>2. \E x \in T : \A y \in T : ~(<<y, x>> \in R)
  <2> HIDE DEF R
  <2> QED BY <1>1, WFMin
<1>3. \A x, y \in T : ~(<<y, x>> \in R) => x <= y
  BY DEF R
<1> HIDE DEF R
<1> QED BY <1>2, <1>3

\* A set that has zero and, with each number below n, the next one has them all.
LEMMA Climb ==
    ASSUME NEW n \in Nat, NEW T, 0 \in T, \A k \in 0 .. n : k < n /\ k \in T => k + 1 \in T
    PROVE  0 .. n \subseteq T
<1> DEFINE M == (0 .. n) \ T
<1> SUFFICES ASSUME M # {} PROVE FALSE
  OBVIOUS
<1>1. PICK m \in M : \A k \in M : m <= k
  <2>1. M \in SUBSET Nat
    OBVIOUS
  <2> HIDE DEF M
  <2> QED BY <2>1, LeastNat
<1>2. m \in 1 .. n
  BY <1>1
<1>3. m - 1 \in 0 .. n /\ m - 1 < n /\ m - 1 \notin M
  BY <1>1, <1>2
<1>4. m - 1 \in T /\ m - 1 + 1 = m
  BY <1>2, <1>3
<1> QED
  BY <1>1, <1>3, <1>4

\* The greatest of a set of natural numbers that has a bound is a member of it.
LEMMA GreatestNat ==
    ASSUME NEW T \in SUBSET Nat, T # {}, NEW n \in Nat, \A x \in T : x <= n
    PROVE  Max(T) \in T /\ \A x \in T : Max(T) >= x
<1> DEFINE B == {k \in Nat : \A x \in T : x <= k}
<1>1. PICK b \in B : \A k \in B : b <= k
  <2>1. B \in SUBSET Nat /\ B # {}
    OBVIOUS
  <2> HIDE DEF B
  <2> QED BY <2>1, LeastNat
<1>2. b \in T
  <2> SUFFICES ASSUME b \notin T PROVE FALSE
    OBVIOUS
  <2>1. PICK x \in T : TRUE
    OBVIOUS
  <2>2. b \in Nat /\ \A y \in T : y < b
    BY <1>1
  <2>3. b - 1 \in Nat /\ \A y \in T : y <= b - 1
    BY <2>1, <2>2
  <2>4. b - 1 \in B
    BY <2>3
  <2> QED BY <1>1, <2>2, <2>4
<1>3. \A x \in T : b >= x
  BY <1>1
<1> QED
  BY <1>2, <1>3 DEF Max

-----------------------------------------------------------------------------
\* The rounds of the search of Reach.
Rounds(flow, S, n, f) ==
    f = [k \in 0 .. n |->
            IF k = 0 THEN S
            ELSE LET before == f[k - 1] IN before \cup After(flow, before)]

\* There is such a search of any length.
LEMMA RoundsExist ==
    ASSUME NEW flow, NEW S, NEW n \in Nat
    PROVE  \E f : Rounds(flow, S, n, f)
<1> DEFINE T == {k \in Nat : \E f : Rounds(flow, S, k, f)}
<1>1. 0 \in T
  <2> DEFINE f == [k \in 0 .. 0 |-> S]
  <2>1. Rounds(flow, S, 0, f)
    BY DEF Rounds
  <2> QED BY <2>1
<1>2. ASSUME NEW k \in 0 .. n, k < n, k \in T
      PROVE  k + 1 \in T
  <2>1. PICK f : Rounds(flow, S, k, f)
    BY <1>2
  <2> DEFINE g == [j \in 0 .. k + 1 |->
                      IF j <= k THEN f[j] ELSE f[k] \cup After(flow, f[k])]
  <2>2. \A j \in 0 .. k : f[j] = IF j = 0 THEN S ELSE f[j - 1] \cup After(flow, f[j - 1])
    BY <2>1 DEF Rounds
  <2>3. \A j \in 0 .. k + 1 : g[j] = IF j = 0 THEN S ELSE g[j - 1] \cup After(flow, g[j - 1])
    <3> TAKE j \in 0 .. k + 1
    <3>1. CASE j = 0
      <4>1. j \in 0 .. k /\ j <= k /\ g[j] = f[j]
        BY <3>1
      <4> QED BY <3>1, <4>1, <2>2
    <3>2. CASE j \in 1 .. k
      <4>1. j - 1 \in 0 .. k /\ j \in 0 .. k /\ j # 0
        BY <3>2
      <4>2. g[j] = f[j] /\ g[j - 1] = f[j - 1]
        BY <4>1
      <4> QED BY <4>1, <4>2, <2>2
    <3>3. CASE j = k + 1
      <4>1. g[j] = f[k] \cup After(flow, f[k]) /\ g[j - 1] = f[k] /\ j # 0
        BY <3>3
      <4> QED BY <4>1
    <3> QED BY <3>1, <3>2, <3>3
  <2>4. g = [j \in 0 .. k + 1 |-> g[j]]
    OBVIOUS
  <2>5. Rounds(flow, S, k + 1, g)
    <3> HIDE DEF g
    <3> QED BY <2>3, <2>4 DEF Rounds
  <2> QED BY <2>5
<1>3. 0 .. n \subseteq T
  <2> HIDE DEF T
  <2> QED BY <1>1, <1>2, Climb
<1> QED
  BY <1>3

\* Reach is the end of such a search.
LEMMA ReachRounds ==
    ASSUME NEW flow, NEW S, Cardinality(S \cup UNION Range(flow)) \in Nat
    PROVE  \E f : /\ Rounds(flow, S, Cardinality(S \cup UNION Range(flow)), f)
                  /\ Reach(flow, S) = f[Cardinality(S \cup UNION Range(flow))]
<1> DEFINE n == Cardinality(S \cup (UNION Range(flow)))
           F == CHOOSE f : Rounds(flow, S, n, f)
<1>1. Rounds(flow, S, n, F)
  <2>1. n \in Nat
    OBVIOUS
  <2> HIDE DEF n
  <2>2. \E f : Rounds(flow, S, n, f)
    BY <2>1, RoundsExist
  <2> QED BY <2>2
<1>2. Reach(flow, S) = F[n]
  BY DEF Reach, Rounds
<1> QED
  BY <1>1, <1>2

\* What leads on from some of the chunks leads on from more of them.
LEMMA AfterGrows ==
    ASSUME NEW flow, NEW S, NEW T, S \subseteq T
    PROVE  After(flow, S) \subseteq After(flow, T)
BY DEF After

\* Steps end where the flow says.
LEMMA AfterIsInRange ==
    ASSUME NEW flow, NEW S
    PROVE  After(flow, S) \subseteq UNION Range(flow)
BY DEF After, Range

\* Each round of the search adds what the one before leads to.
LEMMA RoundsStep ==
    ASSUME NEW flow, NEW S, NEW n \in Nat, NEW f, Rounds(flow, S, n, f)
    PROVE  f[0] = S /\ \A k \in 0 .. n : k < n => f[k + 1] = f[k] \cup After(flow, f[k])
<1>1. \A k \in 0 .. n : k # 0 => f[k] = f[k - 1] \cup After(flow, f[k - 1])
  BY DEF Rounds
<1>2. f[0] = S
  <2>1. 0 \in 0 .. n
    OBVIOUS
  <2> QED BY <2>1, Zenon DEF Rounds
<1>3. ASSUME NEW k \in 0 .. n, k < n PROVE f[k + 1] = f[k] \cup After(flow, f[k])
  <2>1. k + 1 \in 0 .. n /\ k + 1 # 0 /\ k + 1 - 1 = k
    BY <1>3
  <2>2. f[k + 1] = f[k + 1 - 1] \cup After(flow, f[k + 1 - 1])
    BY <2>1, <1>1
  <2> QED BY <2>1, <2>2
<1> QED
  BY <1>2, <1>3

\* What Reach finds is closed: it has the start and all that the flow leads to.
LEMMA ReachIsClosed ==
    ASSUME NEW flow, NEW S, IsFiniteSet(S \cup UNION Range(flow))
    PROVE  S \subseteq Reach(flow, S) /\ After(flow, Reach(flow, S)) \subseteq Reach(flow, S)
<1> DEFINE all == S \cup (UNION Range(flow))
           n == Cardinality(all)
<1>1. n \in Nat /\ IsFiniteSet(all)
  BY FS_CardinalityType
<1>2. PICK f : Rounds(flow, S, n, f) /\ Reach(flow, S) = f[n]
  BY <1>1, ReachRounds
<1>3. After(flow, all) \subseteq all /\ S \subseteq all
  BY AfterIsInRange
<1> HIDE DEF all, n
<1>4. f[0] = S /\ \A k \in 0 .. n : k < n => f[k + 1] = f[k] \cup After(flow, f[k])
  <2>1. Rounds(flow, S, n, f)
    BY <1>2
  <2>2. n \in Nat
    BY <1>1
  <2>3. f[0] = S
    BY <2>1, <2>2, RoundsStep
  <2>4. \A k \in 0 .. n : k < n => f[k + 1] = f[k] \cup After(flow, f[k])
    BY <2>1, <2>2, RoundsStep
  <2> QED BY <2>3, <2>4
<1> DEFINE T == {k \in 0 .. n : /\ S \subseteq f[k] /\ f[k] \subseteq all
                                /\ \/ After(flow, f[k]) \subseteq f[k]
                                   \/ Cardinality(f[k]) >= k}
<1>5. 0 \in T
  <2>1. Cardinality(S) \in Nat
    BY <1>1, <1>3, FS_Subset, FS_CardinalityType
  <2> QED BY <2>1, <1>4, <1>3, <1>1
<1>6. ASSUME NEW k \in 0 .. n, k < n, k \in T
      PROVE  k + 1 \in T
  <2> DEFINE g == f[k + 1]
  <2>1. g = f[k] \cup After(flow, f[k]) /\ k + 1 \in 0 .. n
    BY <1>4, <1>6, <1>1
  <2>2. S \subseteq g /\ g \subseteq all
    BY <2>1, <1>6, <1>3, AfterGrows
  <2>3. CASE After(flow, f[k]) \subseteq f[k]
    BY <2>1, <2>2, <2>3
  <2>4. CASE ~(After(flow, f[k]) \subseteq f[k])
    <3>1. Cardinality(f[k]) >= k
      BY <2>4, <1>6
    <3>2. PICK x \in g : x \notin f[k]
      BY <2>4, <2>1
    <3>3. /\ IsFiniteSet(f[k]) /\ Cardinality(f[k]) \in Nat
          /\ IsFiniteSet(g) /\ Cardinality(g) \in Nat
      BY <1>1, <1>6, <2>2, FS_Subset, FS_CardinalityType
    <3>4. Cardinality(f[k]) <= Cardinality(g) /\ (Cardinality(g) = Cardinality(f[k]) => g = f[k])
      BY <3>3, <2>1, FS_Subset
    <3>5. Cardinality(g) >= k + 1
      BY <3>1, <3>2, <3>3, <3>4
    <3> QED BY <3>5, <2>1, <2>2
  <2> QED BY <2>3, <2>4
<1>7. n \in T
  <2>1. 0 .. n \subseteq T
    <3> HIDE DEF T
    <3> QED BY <1>1, <1>5, <1>6, Climb
  <2> QED BY <2>1, <1>1
<1>8. After(flow, f[n]) \subseteq f[n]
  <2>1. CASE Cardinality(f[n]) >= n
    <3>1. IsFiniteSet(f[n]) /\ Cardinality(f[n]) \in Nat /\ Cardinality(f[n]) <= n
      BY <1>1, <1>7, FS_Subset, FS_CardinalityType DEF n
    <3>2. f[n] = all
      BY <3>1, <2>1, <1>1, <1>7, FS_Subset DEF n
    <3> QED BY <3>2, <1>3
  <2> QED BY <2>1, <1>7
<1> QED
  BY <1>2, <1>7, <1>8

\* And it is the least such set.
LEMMA ReachIsLeast ==
    ASSUME NEW flow, NEW S, IsFiniteSet(S \cup UNION Range(flow)),
           NEW R, S \subseteq R, After(flow, R) \subseteq R
    PROVE  Reach(flow, S) \subseteq R
<1> DEFINE n == Cardinality(S \cup (UNION Range(flow)))
<1>1. n \in Nat
  BY FS_CardinalityType
<1>2. PICK f : Rounds(flow, S, n, f) /\ Reach(flow, S) = f[n]
  BY <1>1, ReachRounds
<1> HIDE DEF n
<1>3. f[0] = S /\ \A k \in 0 .. n : k < n => f[k + 1] = f[k] \cup After(flow, f[k])
  <2>1. Rounds(flow, S, n, f)
    BY <1>2
  <2>2. n \in Nat
    BY <1>1
  <2>3. f[0] = S
    BY <2>1, <2>2, RoundsStep
  <2>4. \A k \in 0 .. n : k < n => f[k + 1] = f[k] \cup After(flow, f[k])
    BY <2>1, <2>2, RoundsStep
  <2> QED BY <2>3, <2>4
<1> DEFINE T == {k \in 0 .. n : f[k] \subseteq R}
<1>4. 0 \in T
  BY <1>1, <1>3
<1>5. ASSUME NEW k \in 0 .. n, k < n, k \in T
      PROVE  k + 1 \in T
  <2>1. k + 1 \in 0 .. n
    BY <1>5, <1>1
  <2>2. f[k + 1] = f[k] \cup After(flow, f[k])
    BY <1>5, <1>3
  <2>3. After(flow, f[k]) \subseteq After(flow, R)
    BY <1>5, AfterGrows
  <2> QED BY <2>1, <2>2, <2>3, <1>5
<1>6. 0 .. n \subseteq T
  <2> HIDE DEF T
  <2> QED BY <1>1, <1>4, <1>5, Climb
<1> QED
  BY <1>1, <1>2, <1>6

\* A flow with steps added that lead nowhere reaches the same.
LEMMA ReachOfSameSteps ==
    ASSUME NEW f, NEW g, NEW S, IsFiniteSet(S \cup UNION Range(f)),
           IsFiniteSet(S \cup UNION Range(g)),
           \A R : After(f, R) = After(g, R)
    PROVE  Reach(f, S) = Reach(g, S)
<1>1. S \subseteq Reach(f, S) /\ After(f, Reach(f, S)) \subseteq Reach(f, S)
  BY ReachIsClosed
<1>2. S \subseteq Reach(g, S) /\ After(g, Reach(g, S)) \subseteq Reach(g, S)
  BY ReachIsClosed
<1>3. Reach(f, S) \subseteq Reach(g, S)
  BY <1>2, ReachIsLeast
<1>4. Reach(g, S) \subseteq Reach(f, S)
  BY <1>1, ReachIsLeast
<1> QED
  BY <1>3, <1>4

-----------------------------------------------------------------------------
\* A flow of finitely many steps.
IsFinite(flow) == IsFiniteSet(UNION Range(flow))

\* The search in such a flow starts anywhere.
LEMMA StartIsFinite ==
    ASSUME NEW flow, IsFinite(flow), NEW a
    PROVE  IsFiniteSet({a} \cup UNION Range(flow))
BY FS_Singleton, FS_Union DEF IsFinite

\* The chunks that are gone lead, among themselves, no further than the flow.
LEMMA AbsentIsFinite ==
    ASSUME NEW flow, IsFinite(flow), NEW present
    PROVE  IsFinite(Absent(flow, present))
<1>1. UNION Range(Absent(flow, present)) \subseteq UNION Range(flow)
  BY DEF Absent, Range
<1> QED
  BY <1>1, FS_Subset DEF IsFinite

\* The bridged flow leads to chunks that stay, and to none that the flow does not.
LEMMA SpliceIsPresent ==
    ASSUME NEW flow, NEW present, NEW c \in DOMAIN flow \cap present
    PROVE  SpliceAbsent(flow, present)[c] \subseteq (present \cap UNION Range(flow)) \ {c}
<1>1. \A t : Nearest(flow, present, t) \subseteq present \cap UNION Range(flow)
  BY AfterIsInRange DEF Nearest
<1> QED
  BY <1>1 DEF SpliceAbsent, Range

\* It is as finite as the flow.
LEMMA SpliceIsFinite ==
    ASSUME NEW flow, IsFinite(flow), NEW present
    PROVE  IsFinite(SpliceAbsent(flow, present))
<1>1. DOMAIN SpliceAbsent(flow, present) = DOMAIN flow \cap present
  BY DEF SpliceAbsent
<1>2. UNION Range(SpliceAbsent(flow, present)) \subseteq UNION Range(flow)
  BY <1>1, SpliceIsPresent DEF Range
<1> QED
  BY <1>2, FS_Subset DEF IsFinite

\* What the bridged flow reaches the flow reaches.
LEMMA SpliceInventsNothing ==
    ASSUME NEW flow, IsFinite(flow), NEW present, NEW a
    PROVE  Reach(SpliceAbsent(flow, present), {a}) \subseteq Reach(flow, {a})
<1> DEFINE R == Reach(flow, {a})
           bridged == SpliceAbsent(flow, present)
<1>1. a \in R /\ After(flow, R) \subseteq R
  BY StartIsFinite, ReachIsClosed
<1> HIDE DEF R
<1>2. ASSUME NEW t \in R
      PROVE  Nearest(flow, present, t) \subseteq R
  <2> DEFINE G == Absent(flow, present)
  <2>1. After(G, R) \subseteq R
    BY <1>1 DEF After, Absent
  <2>2. Reach(G, {t}) \subseteq R
    BY <2>1, <1>2, AbsentIsFinite, StartIsFinite, ReachIsLeast
  <2>3. After(flow, Reach(G, {t})) \subseteq After(flow, R)
    BY <2>2, AfterGrows
  <2> QED
    BY <2>3, <1>1 DEF Nearest
<1>3. After(bridged, R) \subseteq R
  <2> SUFFICES ASSUME NEW c \in R \cap DOMAIN flow \cap present, NEW b \in bridged[c]
               PROVE  b \in R
    BY DEF After, SpliceAbsent
  <2>1. flow[c] \subseteq R
    BY <1>1 DEF After
  <2>2. b \in flow[c] \/ \E t \in flow[c] : b \in Nearest(flow, present, t)
    BY DEF SpliceAbsent
  <2> QED
    BY <2>1, <2>2, <1>2
<1> QED
  <2>1. IsFiniteSet({a} \cup UNION Range(bridged))
    BY SpliceIsFinite, StartIsFinite
  <2>2. Reach(bridged, {a}) \subseteq R
    <3> HIDE DEF bridged
    <3> QED BY <2>1, <1>1, <1>3, ReachIsLeast
  <2> QED BY <2>2 DEF R

\* What the flow reaches, of the chunks that stay, the bridged flow reaches.
LEMMA SpliceSeversNothing ==
    ASSUME NEW flow, IsFinite(flow), NEW present, NEW a \in present
    PROVE  Reach(flow, {a}) \cap present \subseteq Reach(SpliceAbsent(flow, present), {a})
<1> DEFINE bridged == SpliceAbsent(flow, present)
           Q == Reach(bridged, {a})
           Walked(t) == Reach(Absent(flow, present), {t})
           ways == UNION {flow[c] \ present : c \in Q \cap DOMAIN flow \cap present}
           W == (Q \cap present) \cup ((UNION {Walked(t) : t \in ways}) \ present)
<1>1. a \in Q /\ After(bridged, Q) \subseteq Q
  <2>1. IsFiniteSet({a} \cup UNION Range(bridged))
    BY SpliceIsFinite, StartIsFinite
  <2> HIDE DEF bridged
  <2> QED BY <2>1, ReachIsClosed
<1>2. \A t : t \in Walked(t) /\ After(Absent(flow, present), Walked(t)) \subseteq Walked(t)
  BY AbsentIsFinite, StartIsFinite, ReachIsClosed
<1> HIDE DEF Q, Walked
<1>3. ASSUME NEW c \in Q \cap present \cap DOMAIN flow, NEW b \in flow[c]
      PROVE  b \in W
  <2>1. CASE b \in present
    <3>1. b = c \/ b \in bridged[c]
      BY <2>1, <1>3 DEF SpliceAbsent
    <3>2. c \in DOMAIN bridged
      BY DEF SpliceAbsent
    <3>3. b \in Q
      BY <3>1, <3>2, <1>1 DEF After
    <3> QED BY <3>3, <2>1
  <2>2. CASE b \notin present
    BY <2>2, <1>2, <1>3
  <2> QED BY <2>1, <2>2
<1>4. ASSUME NEW c \in Q \cap DOMAIN flow \cap present, NEW t \in flow[c] \ present,
             NEW x \in Walked(t) \ present, x \in DOMAIN flow, NEW b \in flow[x]
      PROVE  b \in W
  <2>1. CASE b \in present
    <3>1. b \in After(flow, Walked(t))
      BY <1>4 DEF After
    <3>2. b \in Nearest(flow, present, t)
      BY <3>1, <2>1 DEF Nearest, Walked
    <3>3. b = c \/ b \in bridged[c]
      BY <3>2 DEF SpliceAbsent
    <3>4. c \in DOMAIN bridged
      BY DEF SpliceAbsent
    <3>5. b \in Q
      BY <3>3, <3>4, <1>1 DEF After
    <3> QED BY <3>5, <2>1
  <2>2. CASE b \notin present
    <3>1. b \in After(Absent(flow, present), Walked(t))
      BY <2>2, <1>4 DEF After, Absent
    <3>2. b \in Walked(t)
      BY <3>1, <1>2
    <3> QED BY <3>2, <2>2
  <2> QED BY <2>1, <2>2
<1>5. After(flow, W) \subseteq W
  <2> SUFFICES ASSUME NEW x \in W \cap DOMAIN flow, NEW b \in flow[x] PROVE b \in W
    BY DEF After
  <2>1. CASE x \in Q \cap present
    BY <2>1, <1>3
  <2>2. CASE x \notin Q \cap present
    <3>1. PICK c \in Q \cap DOMAIN flow \cap present :
                \E t \in flow[c] \ present : x \in Walked(t) \ present
      BY <2>2
    <3>2. PICK t \in flow[c] \ present : x \in Walked(t) \ present
      BY <3>1
    <3> QED BY <3>1, <3>2, <1>4
  <2> QED BY <2>1, <2>2
<1>6. Reach(flow, {a}) \subseteq W
  <2>1. {a} \subseteq W
    BY <1>1
  <2>2. IsFiniteSet({a} \cup UNION Range(flow))
    BY StartIsFinite
  <2> HIDE DEF W
  <2> QED BY <1>5, <2>1, <2>2, ReachIsLeast
<1> QED
  BY <1>6 DEF Q

\* The pairs of an order.
LEMMA OrderIsPairs ==
    ASSUME NEW flow, NEW S
    PROVE  OrderOn(flow, S)
               = {p \in S \X S : p[2] \in Reach(flow, {p[1]}) /\ p[2] # p[1]}
<1> DEFINE from(a) == (Reach(flow, {a}) \cap S) \ {a}
<1>1. OrderOn(flow, S) = UNION {{<<a, b>> : b \in from(a)} : a \in S}
  BY DEF OrderOn
<1>2. \A a : \A b : b \in from(a) <=> b \in S /\ b \in Reach(flow, {a}) /\ b # a
  OBVIOUS
<1> HIDE DEF from
<1>3. \A p : p \in OrderOn(flow, S) <=> \E a \in S : \E b \in from(a) : p = <<a, b>>
  BY <1>1
<1>4. \A p : p \in OrderOn(flow, S)
                <=> p \in S \X S /\ p[2] \in Reach(flow, {p[1]}) /\ p[2] # p[1]
  BY <1>2, <1>3
<1> QED
  BY <1>4

\* Flows that reach the same of a set order it alike.
LEMMA SameOrder ==
    ASSUME NEW f, NEW g, NEW S,
           \A a, b \in S : b \in Reach(f, {a}) <=> b \in Reach(g, {a})
    PROVE  OrderOn(f, S) = OrderOn(g, S)
<1>1. OrderOn(f, S) = {p \in S \X S : p[2] \in Reach(f, {p[1]}) /\ p[2] # p[1]}
  BY OrderIsPairs
<1>2. OrderOn(g, S) = {p \in S \X S : p[2] \in Reach(g, {p[1]}) /\ p[2] # p[1]}
  BY OrderIsPairs
<1> QED
  BY <1>1, <1>2

\* splice_absent keeps the order of the chunks that stay, whichever they are.
THEOREM SpliceKeepsOrder ==
    ASSUME NEW flow, IsFinite(flow), NEW present, NEW S \in SUBSET present
    PROVE  OrderOn(SpliceAbsent(flow, present), S) = OrderOn(flow, S)
<1>1. ASSUME NEW a \in S
      PROVE  Reach(SpliceAbsent(flow, present), {a}) \cap S = Reach(flow, {a}) \cap S
  BY SpliceInventsNothing, SpliceSeversNothing
<1>2. \A a, b \in S : b \in Reach(SpliceAbsent(flow, present), {a}) <=> b \in Reach(flow, {a})
  BY <1>1
<1> QED
  BY <1>2, SameOrder

-----------------------------------------------------------------------------
\* The nodes of the bundle's graph are named by a kind and a chunk.
Tags == {"procedure", "condition", "branch", "converge"}

\* A node of a graph leads where an edge from it does.
LEMMA GraphSteps ==
    ASSUME NEW edges, NEW n \in DOMAIN Graph(edges), NEW y
    PROVE  y \in Graph(edges)[n] <=> \E e \in edges : e[1] = n /\ e[2] = y
<1>1. Graph(edges)[n] = {e[2] : e \in {f \in edges : f[1] = n}}
  BY DEF Graph
<1> QED
  BY <1>1

\* The steps of a graph are its edges.
LEMMA AfterInGraph ==
    ASSUME NEW edges, NEW R, NEW y
    PROVE  y \in After(Graph(edges), R) <=> \E e \in edges : e[1] \in R /\ e[2] = y
<1> DEFINE g == Graph(edges)
<1>1. DOMAIN g = {e[1] : e \in edges}
  BY DEF Graph
<1>2. \A n \in DOMAIN g : \A z : z \in g[n] <=> \E e \in edges : e[1] = n /\ e[2] = z
  BY GraphSteps
<1> HIDE DEF g
<1>3. y \in After(g, R) <=> \E n \in R \cap DOMAIN g : y \in g[n]
  BY DEF After
<1>4. (\E n \in R \cap DOMAIN g : y \in g[n]) <=> \E e \in edges : e[1] \in R /\ e[2] = y
  BY <1>1, <1>2
<1> QED
  BY <1>3, <1>4 DEF g

\* A hop stays with a chunk or leads from the source's node to the target's.
LEMMA HopsLead ==
    ASSUME NEW a, NEW b, NEW nodes, NEW conditioned, NEW e \in Hops(a, b, nodes, conditioned)
    PROVE  \E s, t \in Tags : \/ e = <<<<s, a>>, <<t, a>>>>
                              \/ e = <<<<s, b>>, <<t, b>>>>
                              \/ e = <<<<s, a>>, <<t, b>>>>
<1> DEFINE out == IF a \in conditioned THEN CondNode(a)
                  ELSE IF <<"branch", a>> \in nodes THEN <<"branch", a>> ELSE Proc(a)
           in  == IF <<"converge", b>> \in nodes THEN <<"converge", b>> ELSE Proc(b)
<1>1. PICK s \in Tags : out = <<s, a>>
  BY DEF Tags, CondNode, Proc
<1>2. PICK t \in Tags : in = <<t, b>>
  BY DEF Tags, Proc
<1>3. e \in {<<Proc(a), out>>, <<out, in>>, <<in, Proc(b)>>}
  BY DEF Hops
<1> HIDE DEF out, in
<1> QED
  BY <1>1, <1>2, <1>3 DEF Proc, Tags

\* The hops of an edge lead from its source's procedure to its target's.
LEMMA HopsConnect ==
    ASSUME NEW a, NEW b, a # b, NEW nodes, NEW conditioned, NEW R, Proc(a) \in R,
           \A e \in Hops(a, b, nodes, conditioned) : e[1] \in R => e[2] \in R
    PROVE  Proc(b) \in R
<1> DEFINE out == IF a \in conditioned THEN CondNode(a)
                  ELSE IF <<"branch", a>> \in nodes THEN <<"branch", a>> ELSE Proc(a)
           in  == IF <<"converge", b>> \in nodes THEN <<"converge", b>> ELSE Proc(b)
<1>1. Hops(a, b, nodes, conditioned)
          = {<<Proc(a), out>>, <<out, in>>, <<in, Proc(b)>>}
                \ {<<Proc(a), Proc(a)>>, <<Proc(b), Proc(b)>>}
  BY DEF Hops
<1>2. out[2] = a /\ in[2] = b /\ Proc(a)[2] = a /\ Proc(b)[2] = b
  BY DEF CondNode, Proc
<1> HIDE DEF out, in
<1>3. out \in R
  <2>1. out # Proc(a) => <<Proc(a), out>> \in Hops(a, b, nodes, conditioned)
    BY <1>1, <1>2
  <2> QED BY <2>1
<1>4. in \in R
  <2>1. <<out, in>> \in Hops(a, b, nodes, conditioned)
    BY <1>1, <1>2
  <2> QED BY <2>1, <1>3
<1>5. in # Proc(b) => <<in, Proc(b)>> \in Hops(a, b, nodes, conditioned)
  BY <1>1, <1>2
<1> QED
  BY <1>4, <1>5

\* The edges of the bundle are the hops of the bridged flow.
LEMMA RouteIsHops ==
    ASSUME NEW flow, NEW ops, NEW conds, NEW procs, NEW e
    PROVE  e \in RoutePrecedes(flow, ops, conds, procs) <=>
               \E a \in DOMAIN flow \cap procs : \E b \in SpliceAbsent(flow, procs)[a] :
                  e \in Hops(a, b, {OpNode(op) : op \in DOMAIN ops}, DOMAIN conds)
<1>1. DOMAIN SpliceAbsent(flow, procs) = DOMAIN flow \cap procs
  BY DEF SpliceAbsent
<1> DEFINE bridged == SpliceAbsent(flow, procs)
           H(a, b) == Hops(a, b, {OpNode(op) : op \in DOMAIN ops}, DOMAIN conds)
<1>2. RoutePrecedes(flow, ops, conds, procs)
          = UNION {UNION {H(a, b) : b \in bridged[a]} : a \in DOMAIN bridged}
  BY DEF RoutePrecedes
<1>3. ASSUME NEW a
      PROVE  e \in UNION {H(a, b) : b \in bridged[a]} <=> \E b \in bridged[a] : e \in H(a, b)
  <2> HIDE DEF H, bridged
  <2> QED OBVIOUS
<1>4. e \in RoutePrecedes(flow, ops, conds, procs)
          <=> \E a \in DOMAIN bridged : e \in UNION {H(a, b) : b \in bridged[a]}
  <2> HIDE DEF H, bridged
  <2> QED BY <1>2
<1>5. e \in RoutePrecedes(flow, ops, conds, procs)
          <=> \E a \in DOMAIN bridged : \E b \in bridged[a] : e \in H(a, b)
  <2> HIDE DEF H, bridged
  <2> QED BY <1>3, <1>4
<1> QED
  BY <1>1, <1>5

\* They connect finitely many nodes.
LEMMA RouteIsFinite ==
    ASSUME NEW flow, NEW ops, NEW conds, NEW procs, IsFiniteSet(procs)
    PROVE  IsFinite(Graph(RoutePrecedes(flow, ops, conds, procs)))
<1> DEFINE E == RoutePrecedes(flow, ops, conds, procs)
<1>1. \A e \in E : e[2] \in Tags \X procs
  <2> SUFFICES ASSUME NEW a \in DOMAIN flow \cap procs,
                      NEW b \in SpliceAbsent(flow, procs)[a],
                      NEW e \in Hops(a, b, {OpNode(op) : op \in DOMAIN ops}, DOMAIN conds)
               PROVE  e[2] \in Tags \X procs
    BY RouteIsHops
  <2>1. b \in procs
    BY SpliceIsPresent
  <2>2. PICK s \in Tags, t \in Tags : \/ e = <<<<s, a>>, <<t, a>>>>
                                      \/ e = <<<<s, b>>, <<t, b>>>>
                                      \/ e = <<<<s, a>>, <<t, b>>>>
    BY HopsLead
  <2> QED
    BY <2>1, <2>2
<1> HIDE DEF E
<1>2. UNION Range(Graph(E)) \subseteq Tags \X procs
  <2>1. \A n \in DOMAIN Graph(E) : Graph(E)[n] \subseteq Tags \X procs
    BY <1>1, GraphSteps
  <2> QED BY <2>1 DEF Range
<1>3. IsFiniteSet(Tags)
  <2>1. Tags = {"procedure"} \cup {"condition"} \cup {"branch"} \cup {"converge"}
    BY DEF Tags
  <2> QED BY <2>1, FS_Singleton, FS_Union
<1>4. IsFiniteSet(Tags \X procs)
  BY <1>3, FS_Product
<1> QED
  BY <1>2, <1>4, FS_Subset DEF IsFinite, E

\* The bundle's graph reaches a procedure exactly when the bridged flow does.
LEMMA RouteKeepsReach ==
    ASSUME NEW flow, IsFinite(flow), NEW ops, NEW conds, NEW procs, IsFiniteSet(procs),
           NEW a \in procs, NEW b \in procs
    PROVE  Proc(b) \in Reach(Graph(RoutePrecedes(flow, ops, conds, procs)), {Proc(a)})
               <=> b \in Reach(SpliceAbsent(flow, procs), {a})
<1> DEFINE E == RoutePrecedes(flow, ops, conds, procs)
           bridged == SpliceAbsent(flow, procs)
           nodes == {OpNode(op) : op \in DOMAIN ops}
           G == Reach(Graph(E), {Proc(a)})
           R == Reach(bridged, {a})
<1>1. a \in R /\ After(bridged, R) \subseteq R
  BY SpliceIsFinite, StartIsFinite, ReachIsClosed
<1>2. Proc(a) \in G /\ After(Graph(E), G) \subseteq G
  BY RouteIsFinite, StartIsFinite, ReachIsClosed
<1>3. \A c \in DOMAIN flow \cap procs : c \in R => bridged[c] \subseteq R
  <2>1. DOMAIN bridged = DOMAIN flow \cap procs
    BY DEF SpliceAbsent
  <2> HIDE DEF bridged, R
  <2> QED BY <2>1, <1>1 DEF After
<1>4. \A e \in E : e[1] \in G => e[2] \in G
  <2> HIDE DEF E, G
  <2> QED BY <1>2, AfterInGraph
<1>5. b \in R => Proc(b) \in G
  <2> DEFINE C == {c \in procs : Proc(c) \in G}
  <2>1. ASSUME NEW c \in C \cap DOMAIN flow, NEW d \in bridged[c] PROVE d \in C
    <3>1. d \in procs /\ c # d
      BY SpliceIsPresent
    <3>2. \A e \in Hops(c, d, nodes, DOMAIN conds) : e \in E
      BY RouteIsHops
    <3>3. Proc(d) \in G
      <4> HIDE DEF E, G, nodes
      <4> QED BY <3>1, <3>2, <1>4, HopsConnect
    <3> QED BY <3>1, <3>3
  <2>2. DOMAIN bridged \subseteq DOMAIN flow
    BY DEF SpliceAbsent
  <2>3. IsFiniteSet({a} \cup UNION Range(bridged))
    BY SpliceIsFinite, StartIsFinite
  <2>4. {a} \subseteq C
    BY <1>2
  <2>5. After(bridged, C) \subseteq C
    <3> HIDE DEF C, bridged
    <3> QED BY <2>1, <2>2 DEF After
  <2>6. R \subseteq C
    <3> HIDE DEF C, bridged
    <3> QED BY <2>3, <2>4, <2>5, ReachIsLeast
  <2> QED
    <3> HIDE DEF R, G
    <3> QED BY <2>6
<1>6. Proc(b) \in G => b \in R
  <2> DEFINE T == Tags \X R
  <2>1. ASSUME NEW e \in E, e[1] \in T PROVE e[2] \in T
    <3>1. PICK c \in DOMAIN flow \cap procs : \E d \in bridged[c] :
                  e \in Hops(c, d, nodes, DOMAIN conds)
      BY RouteIsHops
    <3>2. PICK d \in bridged[c] : e \in Hops(c, d, nodes, DOMAIN conds)
      BY <3>1
    <3> HIDE DEF E, R, nodes, bridged
    <3>3. PICK s \in Tags, t \in Tags : \/ e = <<<<s, c>>, <<t, c>>>>
                                        \/ e = <<<<s, d>>, <<t, d>>>>
                                        \/ e = <<<<s, c>>, <<t, d>>>>
      BY <3>2, HopsLead
    <3> QED BY <2>1, <3>2, <3>3, <1>3
  <2>2. IsFiniteSet({Proc(a)} \cup UNION Range(Graph(E)))
    BY RouteIsFinite, StartIsFinite
  <2>3. {Proc(a)} \subseteq T
    <3> HIDE DEF R
    <3> QED BY <1>1 DEF Proc, Tags
  <2>4. After(Graph(E), T) \subseteq T
    <3> HIDE DEF E, T
    <3> QED BY <2>1, AfterInGraph
  <2>5. G \subseteq T
    <3> HIDE DEF E, T
    <3> QED BY <2>2, <2>3, <2>4, ReachIsLeast
  <2> QED
    <3> HIDE DEF R, G
    <3> QED BY <2>5 DEF Proc
<1> QED
  BY <1>5, <1>6

\* route_precedes_through_operators says of the procedures what the flow says.
THEOREM RouteKeepsOrder ==
    ASSUME NEW flow, IsFinite(flow), NEW ops, NEW conds, NEW procs, IsFiniteSet(procs)
    PROVE  {<<e[1][2], e[2][2]>> : e \in OrderOn(Graph(RoutePrecedes(flow, ops, conds, procs)),
                                                 {Proc(c) : c \in procs})}
               = OrderOn(flow, procs)
<1> DEFINE E == RoutePrecedes(flow, ops, conds, procs)
           nodes == {Proc(c) : c \in procs}
           bridged == SpliceAbsent(flow, procs)
<1>1. OrderOn(flow, procs) = OrderOn(bridged, procs)
  BY SpliceKeepsOrder
<1>2. \A a, b \in procs : Proc(b) \in Reach(Graph(E), {Proc(a)})
                              <=> b \in Reach(bridged, {a})
  BY RouteKeepsReach
<1>3. OrderOn(bridged, procs)
          = {p \in procs \X procs : p[2] \in Reach(bridged, {p[1]}) /\ p[2] # p[1]}
  <2> HIDE DEF bridged
  <2> QED BY OrderIsPairs
<1>4. OrderOn(Graph(E), nodes)
          = {p \in nodes \X nodes : p[2] \in Reach(Graph(E), {p[1]}) /\ p[2] # p[1]}
  <2> HIDE DEF E, nodes
  <2> QED BY OrderIsPairs
<1>5. \A a, b \in procs : /\ (Proc(a) = Proc(b) <=> a = b)
                          /\ Proc(a)[2] = a
  BY DEF Proc
<1> HIDE DEF E, bridged
<1>6. ASSUME NEW a \in procs, NEW b \in procs
      PROVE  <<Proc(a), Proc(b)>> \in OrderOn(Graph(E), nodes)
                 <=> <<a, b>> \in OrderOn(bridged, procs)
  <2>1. <<Proc(a), Proc(b)>> \in OrderOn(Graph(E), nodes)
            <=> Proc(b) \in Reach(Graph(E), {Proc(a)}) /\ Proc(b) # Proc(a)
    BY <1>4
  <2>2. <<a, b>> \in OrderOn(bridged, procs) <=> b \in Reach(bridged, {a}) /\ b # a
    BY <1>3
  <2> QED BY <2>1, <2>2, <1>2, <1>5
<1>7. \A e \in OrderOn(Graph(E), nodes) : \E a, b \in procs : e = <<Proc(a), Proc(b)>>
  <2> SUFFICES ASSUME NEW e \in OrderOn(Graph(E), nodes)
               PROVE  \E a, b \in procs : e = <<Proc(a), Proc(b)>>
    OBVIOUS
  <2>1. PICK x \in nodes, y \in nodes : e = <<x, y>>
    <3> HIDE DEF nodes
    <3> QED BY <1>4
  <2>2. PICK a \in procs, b \in procs : x = Proc(a) /\ y = Proc(b)
    OBVIOUS
  <2> QED BY <2>1, <2>2
<1>8. \A p \in OrderOn(bridged, procs) : \E a, b \in procs : p = <<a, b>>
  BY <1>3
<1>9. {<<e[1][2], e[2][2]>> : e \in OrderOn(Graph(E), nodes)} = OrderOn(bridged, procs)
  <2> HIDE DEF nodes
  <2>1. ASSUME NEW e \in OrderOn(Graph(E), nodes)
        PROVE  <<e[1][2], e[2][2]>> \in OrderOn(bridged, procs)
    <3>1. PICK a \in procs, b \in procs : e = <<Proc(a), Proc(b)>>
      BY <1>7
    <3>2. <<a, b>> \in OrderOn(bridged, procs)
      BY <3>1, <1>6
    <3> QED BY <3>1, <3>2, <1>5
  <2>2. ASSUME NEW p \in OrderOn(bridged, procs)
        PROVE  \E e \in OrderOn(Graph(E), nodes) : p = <<e[1][2], e[2][2]>>
    <3>1. PICK a \in procs, b \in procs : p = <<a, b>>
      BY <1>8
    <3>2. <<Proc(a), Proc(b)>> \in OrderOn(Graph(E), nodes)
      BY <3>1, <1>6
    <3>3. p = <<<<Proc(a), Proc(b)>>[1][2], <<Proc(a), Proc(b)>>[2][2]>>
      BY <3>1, <1>5
    <3> QED BY <3>2, <3>3
  <2> QED BY <2>1, <2>2
<1> QED
  BY <1>1, <1>9 DEF E, nodes, bridged

-----------------------------------------------------------------------------
\* The bounds of an instance are numbers.
LEMMA ScopeIsBounds ==
    ASSUME scope \in Scopes
    PROVE  /\ scope.n \in Nat /\ scope.added \in {0, 1}
           /\ IsFiniteSet(Emitted) /\ Emitted \subseteq Nat
<1>1. scope.n \in Nat /\ scope.added \in {0, 1}
  BY ScopesAssumption DEF ScopeRecord
<1> QED
  BY <1>1, FS_Interval DEF Emitted

\* A record of these fields is a chunk.
LEMMA ChunkRecord ==
    ASSUME NEW s \in Nat, NEW t \in SUBSET Nat, NEW r \in BOOLEAN, NEW p \in SUBSET Nat,
           NEW u \in SUBSET Nat, NEW q \in [on_true : SUBSET Nat, on_false : SUBSET Nat]
    PROVE  [seq |-> s, text |-> t, root |-> r, preds |-> p, succ |-> u, pre |-> q] \in Chunk
BY DEF Chunk

\* What the chunker emits is a flow, each chunk with its own words, its successors
\* those that name it.
LEMMA FinalizedIsFlow ==
    ASSUME scope \in Scopes, NEW raw \in RawPredecessors, NEW roots,
           NEW cs, cs = FinalizeChunks(raw, roots)
    PROVE  /\ IsFlow(cs)
           /\ DOMAIN cs = Emitted
           /\ \A c \in Emitted : /\ cs[c].seq = c /\ cs[c].text = {c}
                                 /\ cs[c].succ = {d \in Emitted : c \in cs[d].preds}
<1> DEFINE preds == LinkOrphans(raw, roots)
           succ  == [c \in Emitted |-> {d \in Emitted : c \in preds[d]}]
<1>1. Emitted \subseteq Nat /\ IsFiniteSet(Emitted) /\ scope.n \in Nat
  BY ScopeIsBounds
<1>2. \A c \in Emitted : preds[c] \subseteq Nat
  <2> SUFFICES ASSUME NEW c \in Emitted PROVE preds[c] \subseteq Nat
    OBVIOUS
  <2>1. raw[c] \subseteq Nat
    <3>1. PICK f \in Ordered, S \in AtMost(scope.strays, Stray) :
             raw = [d \in Emitted |-> f[d] \cup {x[2] : x \in {y \in S : y[1] = d}}]
      BY DEF RawPredecessors
    <3>2. \A x \in S : x[2] \in Nat
      BY <1>1 DEF AtMost, Stray
    <3>3. f[c] \subseteq Nat
      BY <1>1 DEF Ordered, Emitted
    <3> QED BY <3>1, <3>2, <3>3
  <2>2. preds[c] = raw[c] \/ (c > 1 /\ preds[c] = {c - 1})
    BY DEF LinkOrphans
  <2>3. c > 1 => c - 1 \in Nat
    BY <1>1
  <2> QED BY <2>1, <2>2, <2>3
<1> HIDE DEF preds
<1>3. \A c \in Emitted : succ[c] \subseteq Emitted
  OBVIOUS
<1>4. NoCondition \in [on_true : SUBSET Nat, on_false : SUBSET Nat]
  BY DEF NoCondition
<1>5. cs = [c \in Emitted |->
               [seq |-> c, text |-> {c}, root |-> c \in roots, preds |-> preds[c],
                succ |-> succ[c], pre |-> NoCondition]]
  BY DEF FinalizeChunks, preds
<1>6. \A c \in Emitted : /\ cs[c] = [seq |-> c, text |-> {c}, root |-> c \in roots,
                                     preds |-> preds[c], succ |-> succ[c],
                                     pre |-> NoCondition]
                         /\ cs[c].seq = c /\ cs[c].text = {c} /\ cs[c].preds = preds[c]
                         /\ cs[c].succ = succ[c]
  <2> HIDE DEF succ
  <2> QED BY <1>5
<1>7. cs \in [Emitted -> Chunk]
  <2> SUFFICES ASSUME NEW c \in Emitted PROVE cs[c] \in Chunk
    BY <1>5
  <2>1. preds[c] \in SUBSET Nat /\ succ[c] \in SUBSET Nat
    BY <1>1, <1>2, <1>3
  <2> HIDE DEF succ
  <2>2. (c \in roots) \in BOOLEAN /\ c \in Nat /\ {c} \in SUBSET Nat
    BY <1>1
  <2>3. [seq |-> c, text |-> {c}, root |-> c \in roots, preds |-> preds[c],
         succ |-> succ[c], pre |-> NoCondition] \in Chunk
    BY <2>1, <2>2, <1>4, ChunkRecord, Zenon
  <2> QED BY <2>3, <1>6, Zenon
<1>8. DOMAIN cs = Emitted
  BY <1>5
<1>9. \A c \in Emitted : cs[c].succ = {d \in Emitted : c \in cs[d].preds}
  BY <1>6
<1> QED
  <2> HIDE DEF succ
  <2>1. \A c \in Emitted : cs[c].succ \subseteq Emitted
    BY <1>3, <1>6, Zenon
  <2>2. IsFlow(cs)
    BY <1>1, <1>7, <1>8, <2>1, Zenon DEF IsFlow
  <2> QED BY <2>2, <1>6, <1>8, <1>9, Zenon

-----------------------------------------------------------------------------
\* The gate has the chunker's chunks before it, and a review that approves them.
AtGate ==
    /\ scope \in Scopes /\ pass \in Nat /\ pass > 0
    /\ IsFlow(chunks) /\ DOMAIN chunks = Emitted
    /\ \A c \in Emitted : /\ chunks[c].seq = c /\ chunks[c].text = {c}
                          /\ chunks[c].succ = {d \in Emitted : c \in chunks[d].preds}

Approving == AtGate /\ review \in ChunkReviews /\ ~review.reject

\* What such a review holds.
LEMMA ReviewFields ==
    ASSUME Approving
    PROVE  /\ review.added \in {0, 1}
           /\ \E m \in Nat : review.decisions \in [1 .. m -> Decisions(Emitted)]
           /\ \A i, j \in DOMAIN review.decisions :
                 i # j => review.decisions[i].chunk # review.decisions[j].chunk
           /\ \E m \in Nat : DOMAIN review.edges = 1 .. m
<1> DEFINE Edges == {e \in [action : {"add", "remove"}, from : Emitted, to : Emitted] :
                        e.action = "add" => e.from # e.to}
           D == {s \in BoundedSeq(Decisions(Emitted), scope.decisions) :
                    \A i, j \in DOMAIN s : i # j => s[i].chunk # s[j].chunk}
           E == BoundedSeq(Edges, scope.edges)
           O == AtMost(scope.overrides, ShownOperators)
           C == BoundedSeq(ConditionEdits(Emitted), scope.conditions)
<1>1. review.decisions \in D /\ review.edges \in E /\ review.added \in 0 .. scope.added
  <2>1. \A f \in scope.flags : [NoReview EXCEPT !.reject = TRUE, !.flag = f].reject = TRUE
    BY DEF NoReview
  <2>2. ChunkReviews
            = [decisions : D, edges : E, added : 0 .. scope.added, overrides : O,
               conditions : C, flag : scope.flags, reject : {FALSE}]
              \cup IF pass < scope.passes
                   THEN {[NoReview EXCEPT !.reject = TRUE, !.flag = f] : f \in scope.flags}
                   ELSE {}
    BY DEF ChunkReviews, Approving, AtGate
  <2> HIDE DEF D, E, O, C
  <2>3. review \in [decisions : D, edges : E, added : 0 .. scope.added, overrides : O,
                    conditions : C, flag : scope.flags, reject : {FALSE}]
    BY <2>1, <2>2 DEF Approving
  <2> QED BY <2>3
<1> HIDE DEF O, C
<1>2. scope.decisions \in Nat /\ scope.edges \in Nat /\ scope.added \in {0, 1}
  BY ScopesAssumption DEF ScopeRecord, Approving, AtGate
<1>3. PICK k \in 0 .. scope.edges : review.edges \in [1 .. k -> Edges]
  BY <1>1 DEF BoundedSeq, SeqOf
<1>4. PICK m \in 0 .. scope.decisions : review.decisions \in [1 .. m -> Decisions(Emitted)]
  BY <1>1 DEF BoundedSeq, SeqOf
<1>5. k \in Nat /\ m \in Nat /\ review.added \in {0, 1}
  BY <1>1, <1>2
<1> QED
  BY <1>1, <1>3, <1>4, <1>5

\* The decisions of the review that are merges, and what each names.
MergeSteps   == {i \in DOMAIN review.decisions : review.decisions[i].action = "merge"}
AbsorbedBy(i) == (review.decisions[i].with \cap DOMAIN chunks) \ {review.decisions[i].chunk}
NamedBy(i)   == {review.decisions[i].chunk} \cup AbsorbedBy(i)
Map          == ExpandMerges(review.decisions, chunks)

\* What the expanded decisions say of a chunk that a merge names.
MergeSays(c, l) ==
    /\ c \in NamedBy(l)
    /\ IF c = review.decisions[l].chunk
       THEN Map[c].action = "edit" /\ Map[c].text = {c} \cup AbsorbedBy(l)
       ELSE Map[c].action = "drop"

\* The expanded decisions: an edit, a drop or what a merge made of the chunk.
LEMMA MapEntries ==
    ASSUME Approving
    PROVE  /\ DOMAIN Map \subseteq Emitted
           /\ \A c : c \in DOMAIN Map <=> \E i \in DOMAIN review.decisions : c \in NamedBy(i)
           /\ \A c \in DOMAIN Map :
                 \/ (\A i \in MergeSteps : c \notin NamedBy(i)) /\ Map[c].text = {0}
                 \/ \E l \in MergeSteps : MergeSays(c, l)
<1> DEFINE ds == review.decisions
           own(c)  == CHOOSE i \in DOMAIN ds : ds[i].chunk = c
           last(c) == Max({i \in MergeSteps : c \in NamedBy(i)})
<1>1. PICK m \in Nat : ds \in [1 .. m -> Decisions(Emitted)]
  BY ReviewFields
<1>2. Map = [c \in UNION {NamedBy(i) : i \in DOMAIN ds} |->
                IF \A i \in MergeSteps : c \notin NamedBy(i)
                THEN [action |-> ds[own(c)].action, text |-> Rewritten]
                ELSE IF c = ds[last(c)].chunk
                     THEN [action |-> "edit", text |-> MergedText(c, AbsorbedBy(last(c)), chunks)]
                     ELSE [action |-> "drop", text |-> {}]]
  BY DEF Map, ExpandMerges, NamedBy, AbsorbedBy, MergeSteps
<1>3. \A i \in DOMAIN ds : NamedBy(i) \subseteq Emitted
  BY <1>1 DEF NamedBy, AbsorbedBy, Decisions, Approving, AtGate
<1>4. \A c : c \in DOMAIN Map <=> \E i \in DOMAIN ds : c \in NamedBy(i)
  <2> HIDE DEF ds, own, last
  <2> QED BY <1>2
<1>5. ASSUME NEW c \in DOMAIN Map
      PROVE  \/ (\A i \in MergeSteps : c \notin NamedBy(i)) /\ Map[c].text = {0}
             \/ \E l \in MergeSteps : MergeSays(c, l)
  <2>1. CASE \A i \in MergeSteps : c \notin NamedBy(i)
    <3>1. Map[c] = [action |-> ds[own(c)].action, text |-> Rewritten]
      <4> HIDE DEF ds, own, last
      <4> QED BY <1>2, <2>1
    <3> QED BY <2>1, <3>1 DEF Rewritten
  <2>2. CASE \E i \in MergeSteps : c \in NamedBy(i)
    <3> DEFINE L == {i \in MergeSteps : c \in NamedBy(i)}
    <3>1. L \in SUBSET Nat /\ L # {} /\ \A i \in L : i <= m
      BY <1>1, <2>2 DEF MergeSteps
    <3>2. last(c) \in L
      <4> HIDE DEF L
      <4>1. Max(L) \in L
        BY <3>1, GreatestNat
      <4> QED BY <4>1 DEF L
    <3> DEFINE l == last(c)
    <3>3. Map[c] = IF c = ds[l].chunk
                   THEN [action |-> "edit", text |-> MergedText(c, AbsorbedBy(l), chunks)]
                   ELSE [action |-> "drop", text |-> {}]
      <4> HIDE DEF ds, own, last
      <4> QED BY <1>2, <2>2
    <3> HIDE DEF last
    <3>4. MergedText(c, AbsorbedBy(l), chunks) = {c} \cup AbsorbedBy(l)
      <4>1. \A x \in AbsorbedBy(l) \cup {c} : chunks[x].text = {x}
        BY <1>3, <1>4 DEF AbsorbedBy, Approving, AtGate
      <4> QED BY <4>1 DEF MergedText
    <3>5. l \in MergeSteps /\ c \in NamedBy(l)
      BY <3>2
    <3>6. MergeSays(c, l)
      <4> HIDE DEF l
      <4> QED BY <3>3, <3>4, <3>5 DEF MergeSays
    <3> QED BY <3>5, <3>6
  <2> QED BY <2>1, <2>2
<1> QED
  BY <1>3, <1>4, <1>5

-----------------------------------------------------------------------------
\* The chunks that stay, and the one the analyst adds.
Stay == Emitted \ {c \in DOMAIN Map : Map[c].action = "drop"}
New  == IF review.added = 0 THEN {} ELSE {Added(pass)}

\* The chunks with the decisions applied, whatever their edges are.
Edited(X) ==
    /\ DOMAIN X = Stay \cup New
    /\ X \in [DOMAIN X -> Chunk]
    /\ \A c \in Stay : X[c].seq = c /\ X[c].text = IF c \in DOMAIN Map THEN Map[c].text ELSE {c}
    /\ \A c \in New : X[c].text = {c} /\ \A d \in Stay : X[c].seq > d

\* Numbers, of which the added chunk's is none of the emitted.
LEMMA EditedIds ==
    ASSUME Approving
    PROVE  /\ Stay \cup New \subseteq Nat /\ IsFiniteSet(Stay \cup New)
           /\ Stay \subseteq Emitted /\ New \cap Emitted = {}
           /\ Emitted \subseteq 1 .. scope.n
<1>1. Emitted \subseteq Nat /\ IsFiniteSet(Emitted) /\ scope.n \in Nat
  BY ScopeIsBounds DEF Approving, AtGate
<1>2. Added(pass) \in Nat /\ Added(pass) \notin Emitted
  BY <1>1 DEF Approving, AtGate, Added, Emitted
<1>3. IsFiniteSet(Stay) /\ IsFiniteSet(New)
  BY <1>1, FS_Subset, FS_EmptySet, FS_Singleton DEF Stay, New
<1> QED
  BY <1>1, <1>2, <1>3, FS_Union DEF Stay, New, Emitted

\* The expanded decisions hold texts.
LEMMA MapTexts ==
    ASSUME Approving, NEW c \in DOMAIN Map, c \in Stay
    PROVE  Map[c].text \in SUBSET Nat
<1>1. c \in Nat /\ DOMAIN chunks \subseteq Nat /\ Map[c].action # "drop"
  BY EditedIds DEF Approving, AtGate, IsFlow, Stay
<1>2. CASE Map[c].text = {0}
  BY <1>2
<1>3. CASE \E l \in MergeSteps : MergeSays(c, l)
  BY <1>1, <1>3 DEF MergeSays, AbsorbedBy
<1> QED
  BY <1>2, <1>3, MapEntries

\* Kept has the chunks that stay, edited, with the edges they had.
LEMMA KeptIsEdited ==
    ASSUME Approving, NEW K, K = Kept(Map, chunks, review.added)
    PROVE  /\ Edited(K)
           /\ \A c \in Stay : K[c].succ = chunks[c].succ
           /\ \A c \in New : K[c].succ = {}
<1> DEFINE next == IF Stay = {} THEN 1 ELSE Max(Seqs(Stay, chunks)) + 1
           fresh(c) == [seq |-> next, text |-> {c}, root |-> FALSE,
                        preds |-> {}, succ |-> {}, pre |-> NoCondition]
           kept(c) == IF c \in DOMAIN Map THEN [chunks[c] EXCEPT !.text = Map[c].text]
                      ELSE chunks[c]
<1>1. K = [c \in Stay \cup New |-> IF c \in New THEN fresh(c) ELSE kept(c)]
  BY DEF Kept, Stay, New, Approving, AtGate
<1>2. /\ Stay \subseteq Nat /\ Stay \subseteq Emitted /\ New \cap Stay = {}
      /\ Stay \subseteq 1 .. scope.n /\ scope.n \in Nat
      /\ Added(pass) \in Nat /\ review.added \in {0, 1}
  <2>1. scope.n \in Nat /\ pass \in Nat
    BY ScopeIsBounds DEF Approving, AtGate
  <2> QED BY <2>1, EditedIds, ReviewFields DEF Added
<1>3. ASSUME NEW c \in Stay
      PROVE  /\ kept(c) \in Chunk /\ kept(c).seq = c /\ kept(c).succ = chunks[c].succ
             /\ kept(c).text = IF c \in DOMAIN Map THEN Map[c].text ELSE {c}
  <2>1. /\ chunks[c] \in Chunk /\ chunks[c].seq = c /\ chunks[c].text = {c}
    BY <1>2 DEF Approving, AtGate, IsFlow
  <2>2. CASE c \in DOMAIN Map
    <3>1. Map[c].text \in SUBSET Nat
      BY <2>2, MapTexts
    <3>2. kept(c) = [chunks[c] EXCEPT !.text = Map[c].text]
      BY <2>2
    <3> HIDE DEF kept
    <3> QED BY <2>1, <2>2, <3>1, <3>2 DEF Chunk
  <2>3. CASE c \notin DOMAIN Map
    BY <2>1, <2>3
  <2> QED BY <2>2, <2>3
<1>4. next \in Nat /\ \A d \in Stay : next > d
  <2>1. CASE Stay = {}
    BY <2>1
  <2>2. CASE Stay # {}
    <3>1. Seqs(Stay, chunks) = Stay
      <4>1. \A c \in Stay : chunks[c].seq = c
        BY <1>2 DEF Approving, AtGate
      <4> QED BY <4>1 DEF Seqs
    <3>2. Max(Stay) \in Stay /\ \A d \in Stay : Max(Stay) >= d
      <4>1. \A x \in Stay : x <= scope.n
        BY <1>2
      <4> QED BY <1>2, <2>2, <4>1, GreatestNat
    <3>3. next = Max(Stay) + 1
      BY <2>2, <3>1
    <3>4. Max(Stay) \in Nat
      BY <1>2, <3>2
    <3> HIDE DEF next
    <3> QED BY <1>2, <3>2, <3>3, <3>4
  <2> QED BY <2>1, <2>2
<1> HIDE DEF next
<1>5. \A c \in New : /\ fresh(c) \in Chunk /\ fresh(c).seq = next
                     /\ fresh(c).succ = {} /\ fresh(c).text = {c}
  <2>1. \A c \in New : {c} \in SUBSET Nat
    BY <1>2 DEF New
  <2> QED BY <2>1, <1>4 DEF Chunk, NoCondition
<1> HIDE DEF kept, fresh
<1>6. (\A c \in New : K[c] = fresh(c)) /\ (\A c \in Stay : K[c] = kept(c))
  BY <1>1, <1>2
<1>7. K \in [Stay \cup New -> Chunk]
  <2>1. \A c \in Stay \cup New : (IF c \in New THEN fresh(c) ELSE kept(c)) \in Chunk
    BY <1>3, <1>5
  <2> QED BY <1>1, <2>1
<1>8. \A c \in New : K[c].text = {c} /\ \A d \in Stay : K[c].seq > d
  BY <1>4, <1>5, <1>6
<1> QED
  BY <1>3, <1>5, <1>6, <1>7, <1>8 DEF Edited

-----------------------------------------------------------------------------
\* Decisions change no edge of the flow and close none of its ways: before the
\* bridge it leads on from any chunks as it did.
BeforeBridge(K) ==
    [c \in DOMAIN K \cup (DOMAIN chunks \ DOMAIN K) |->
        IF c \in DOMAIN chunks \ DOMAIN K THEN chunks[c].succ ELSE K[c].succ]

\* It is finite, and its chunks lead where they led.
LEMMA BeforeBridgeIsFlow ==
    ASSUME Approving, NEW K, K = Kept(Map, chunks, review.added)
    PROVE  /\ DOMAIN BeforeBridge(K) = Emitted \cup New
           /\ \A c \in Emitted : BeforeBridge(K)[c] = chunks[c].succ
           /\ \A c \in New : BeforeBridge(K)[c] = {}
           /\ IsFinite(Flow(chunks)) /\ IsFinite(BeforeBridge(K))
           /\ \A S : After(BeforeBridge(K), S) = After(Flow(chunks), S)
<1> DEFINE f == Flow(chunks)
           g == BeforeBridge(K)
<1>1. /\ DOMAIN chunks = Emitted /\ \A c \in Emitted : chunks[c].succ \subseteq Emitted
      /\ IsFiniteSet(Emitted)
  BY DEF Approving, AtGate, IsFlow
<1>2. /\ DOMAIN K = Stay \cup New
      /\ \A c \in Stay : K[c].succ = chunks[c].succ
      /\ \A c \in New : K[c].succ = {}
  BY KeptIsEdited DEF Edited
<1>3. Stay \subseteq Emitted /\ New \cap Emitted = {}
  BY EditedIds
<1>4. /\ DOMAIN g = Emitted \cup New
      /\ \A c \in Emitted : g[c] = chunks[c].succ
      /\ \A c \in New : g[c] = {}
  BY <1>1, <1>2, <1>3 DEF BeforeBridge
<1>5. DOMAIN f = Emitted /\ \A c \in Emitted : f[c] = chunks[c].succ
  BY <1>1 DEF Flow
<1> HIDE DEF f, g
<1>6. (UNION Range(f)) \subseteq Emitted /\ (UNION Range(g)) \subseteq Emitted
  BY <1>1, <1>4, <1>5 DEF Range
<1>7. IsFinite(f) /\ IsFinite(g)
  BY <1>1, <1>6, FS_Subset DEF IsFinite
<1>8. \A S : After(g, S) = After(f, S)
  BY <1>4, <1>5 DEF After
<1> QED
  BY <1>4, <1>7, <1>8 DEF f, g

\* The bridged chunks are the kept ones, their edges those of the bridged flow.
LEMMA BridgeIsEdited ==
    ASSUME Approving, NEW K, K = Kept(Map, chunks, review.added), NEW B, B = Bridge(K, chunks)
    PROVE  /\ Edited(B)
           /\ \A c \in DOMAIN B : B[c].succ \subseteq DOMAIN B
           /\ \/ DOMAIN chunks \subseteq DOMAIN B /\ Flow(B) = BeforeBridge(K)
              \/ Flow(B) = SpliceAbsent(BeforeBridge(K), DOMAIN B)
<1>1. /\ Edited(K) /\ DOMAIN K = Stay \cup New
      /\ \A c \in Stay : K[c].succ = chunks[c].succ
      /\ \A c \in New : K[c].succ = {}
  BY KeptIsEdited DEF Edited
<1>2. /\ DOMAIN chunks = Emitted /\ \A c \in Emitted : chunks[c].succ \subseteq Emitted
  BY DEF Approving, AtGate, IsFlow
<1>3. Stay \subseteq Emitted /\ Stay \cup New \subseteq Nat
  BY EditedIds
<1>4. CASE DOMAIN chunks \ DOMAIN K = {}
  <2>1. B = K
    BY <1>4 DEF Bridge
  <2>2. \A c \in DOMAIN B : B[c].succ \subseteq DOMAIN B
    BY <1>1, <1>2, <1>4, <2>1, <1>3
  <2>3. Flow(B) = BeforeBridge(K)
    BY <1>4, <2>1 DEF Flow, BeforeBridge
  <2> QED BY <1>1, <1>4, <2>1, <2>2, <2>3
<1>5. CASE DOMAIN chunks \ DOMAIN K # {}
  <2> DEFINE spliced == SpliceAbsent(BeforeBridge(K), DOMAIN K)
  <2>1. B = [c \in DOMAIN K |-> [K[c] EXCEPT !.succ = spliced[c]]]
    BY <1>5 DEF Bridge, BeforeBridge
  <2>2. DOMAIN spliced = DOMAIN K
    BY DEF SpliceAbsent, BeforeBridge
  <2>3. \A c \in DOMAIN K : spliced[c] \subseteq DOMAIN K \ {c}
    <3>1. DOMAIN BeforeBridge(K) \cap DOMAIN K = DOMAIN K
      BY DEF BeforeBridge
    <3> QED BY <3>1, SpliceIsPresent
  <2> HIDE DEF spliced
  <2>4. \A c \in DOMAIN K : /\ B[c] \in Chunk /\ B[c].succ = spliced[c]
                            /\ B[c].seq = K[c].seq /\ B[c].text = K[c].text
    <3> SUFFICES ASSUME NEW c \in DOMAIN K
                 PROVE  /\ B[c] \in Chunk /\ B[c].succ = spliced[c]
                        /\ B[c].seq = K[c].seq /\ B[c].text = K[c].text
      OBVIOUS
    <3>1. K[c] \in Chunk /\ spliced[c] \in SUBSET Nat
      BY <1>1, <1>3, <2>3 DEF Edited
    <3>2. B[c] = [K[c] EXCEPT !.succ = spliced[c]]
      BY <2>1
    <3> QED BY <3>1, <3>2 DEF Chunk
  <2>5. DOMAIN B = DOMAIN K /\ B \in [DOMAIN K -> Chunk]
    BY <2>1, <2>4
  <2>6. Edited(B)
    <3>1. DOMAIN B = Stay \cup New /\ B \in [DOMAIN B -> Chunk]
      BY <1>1, <2>5
    <3>2. /\ \A c \in Stay :
                K[c].seq = c /\ K[c].text = IF c \in DOMAIN Map THEN Map[c].text ELSE {c}
          /\ \A c \in New : K[c].text = {c} /\ \A d \in Stay : K[c].seq > d
      BY <1>1 DEF Edited
    <3>3. \A c \in Stay \cup New : B[c].seq = K[c].seq /\ B[c].text = K[c].text
      BY <1>1, <2>4
    <3>4. \A c \in Stay :
             B[c].seq = c /\ B[c].text = IF c \in DOMAIN Map THEN Map[c].text ELSE {c}
      BY <3>2, <3>3
    <3>5. \A c \in New : B[c].text = {c} /\ \A d \in Stay : B[c].seq > d
      BY <3>2, <3>3
    <3> QED BY <3>1, <3>4, <3>5 DEF Edited
  <2>7. Flow(B) = spliced
    BY <2>2, <2>4, <2>5 DEF Flow, SpliceAbsent, spliced
  <2> QED BY <2>3, <2>4, <2>5, <2>6, <2>7 DEF spliced
<1> QED
  BY <1>4, <1>5

\* Edge mutations change edges only, within the chunks that are there.
LEMMA MutatedIsEdited ==
    ASSUME Approving, NEW B, Edited(B), \A c \in DOMAIN B : B[c].succ \subseteq DOMAIN B,
           NEW M, M = MutateEdges(review.edges, B)
    PROVE  /\ Edited(M)
           /\ \A c \in DOMAIN M : M[c].succ \subseteq DOMAIN M
           /\ review.edges = <<>> => Flow(M) = Flow(B)
<1> DEFINE heeded(c, t) == {i \in DOMAIN review.edges :
                               /\ review.edges[i].from = c /\ review.edges[i].to = t
                               /\ review.edges[i].action = "remove" \/ t \in DOMAIN B}
           succ(c) == {t \in B[c].succ \cup DOMAIN B :
                          IF heeded(c, t) = {} THEN t \in B[c].succ
                          ELSE review.edges[Max(heeded(c, t))].action = "add"}
<1>1. M = [c \in DOMAIN B |-> [B[c] EXCEPT !.succ = succ(c)]]
  BY DEF MutateEdges
<1>2. DOMAIN B \subseteq Nat
  BY EditedIds DEF Edited
<1>3. \A c \in DOMAIN B : succ(c) \subseteq DOMAIN B
  OBVIOUS
<1>4. review.edges = <<>> => \A c \in DOMAIN B : succ(c) = B[c].succ
  OBVIOUS
<1> HIDE DEF succ
<1>5. \A c \in DOMAIN B : /\ M[c] \in Chunk /\ M[c].succ = succ(c)
                          /\ M[c].seq = B[c].seq /\ M[c].text = B[c].text
  <2> SUFFICES ASSUME NEW c \in DOMAIN B
               PROVE  /\ M[c] \in Chunk /\ M[c].succ = succ(c)
                      /\ M[c].seq = B[c].seq /\ M[c].text = B[c].text
    OBVIOUS
  <2>1. B[c] \in Chunk /\ succ(c) \in SUBSET Nat
    BY <1>2, <1>3 DEF Edited
  <2>2. M[c] = [B[c] EXCEPT !.succ = succ(c)]
    BY <1>1
  <2> QED BY <2>1, <2>2 DEF Chunk
<1>6. DOMAIN M = DOMAIN B /\ M \in [DOMAIN B -> Chunk]
  BY <1>1, <1>5
<1>7. Edited(M)
  BY <1>5, <1>6 DEF Edited
<1>8. review.edges = <<>> => Flow(M) = Flow(B)
  BY <1>4, <1>5, <1>6 DEF Flow
<1> QED
  BY <1>3, <1>5, <1>6, <1>7, <1>8

\* What the gate leaves: edited chunks, the two copies of their edges in step.
LEMMA ReviewedIsFlow ==
    ASSUME Approving, NEW X, X = ReviewedChunks
    PROVE  /\ Edited(X)
           /\ IsFlow(X)
           /\ \A c \in DOMAIN X : X[c].preds = Seqs({p \in DOMAIN X : c \in X[p].succ}, X)
           /\ review.edges = <<>> =>
                 Flow(X) = Flow(Bridge(Kept(Map, chunks, review.added), chunks))
<1> DEFINE K == Kept(Map, chunks, review.added)
           B == Bridge(K, chunks)
           M == MutateEdges(review.edges, B)
<1>1. X = [c \in DOMAIN M |->
              [M[c] EXCEPT !.preds = Seqs({p \in DOMAIN M : c \in M[p].succ}, M)]]
  BY DEF ReviewedChunks, SyncPredecessors, Map
<1>2. Edited(B) /\ \A c \in DOMAIN B : B[c].succ \subseteq DOMAIN B
  BY BridgeIsEdited
<1>3. /\ Edited(M) /\ \A c \in DOMAIN M : M[c].succ \subseteq DOMAIN M
      /\ review.edges = <<>> => Flow(M) = Flow(B)
  <2> HIDE DEF B
  <2> QED BY <1>2, MutatedIsEdited
<1> HIDE DEF M
<1>4. DOMAIN M \subseteq Nat /\ IsFiniteSet(DOMAIN M)
  BY <1>3, EditedIds DEF Edited
<1>5. \A c \in DOMAIN M :
         /\ X[c] \in Chunk /\ X[c].succ = M[c].succ
         /\ X[c].seq = M[c].seq /\ X[c].text = M[c].text
         /\ X[c].preds = Seqs({p \in DOMAIN M : c \in M[p].succ}, M)
  <2> SUFFICES ASSUME NEW c \in DOMAIN M
               PROVE  /\ X[c] \in Chunk /\ X[c].succ = M[c].succ
                      /\ X[c].seq = M[c].seq /\ X[c].text = M[c].text
                      /\ X[c].preds = Seqs({p \in DOMAIN M : c \in M[p].succ}, M)
    OBVIOUS
  <2> DEFINE preds == Seqs({p \in DOMAIN M : c \in M[p].succ}, M)
  <2>1. M[c] \in Chunk
    BY <1>3 DEF Edited
  <2>2. preds \in SUBSET Nat
    <3>1. \A p \in DOMAIN M : M[p].seq \in Nat
      BY <1>3 DEF Edited, Chunk
    <3> QED BY <3>1 DEF Seqs
  <2>3. X[c] = [M[c] EXCEPT !.preds = preds]
    BY <1>1
  <2> HIDE DEF preds
  <2>4. X[c] \in Chunk /\ X[c].succ = M[c].succ /\ X[c].seq = M[c].seq
        /\ X[c].text = M[c].text /\ X[c].preds = preds
    BY <2>1, <2>2, <2>3 DEF Chunk
  <2> QED BY <2>4 DEF preds
<1>6. DOMAIN X = DOMAIN M /\ X \in [DOMAIN M -> Chunk]
  BY <1>1, <1>5
<1>7. Edited(X)
  BY <1>3, <1>5, <1>6 DEF Edited
<1>8. IsFlow(X)
  BY <1>3, <1>4, <1>5, <1>6 DEF IsFlow
<1>9. ASSUME NEW c \in DOMAIN X
      PROVE  X[c].preds = Seqs({p \in DOMAIN X : c \in X[p].succ}, X)
  <2>1. {p \in DOMAIN X : c \in X[p].succ} = {p \in DOMAIN M : c \in M[p].succ}
    BY <1>5, <1>6
  <2>2. \A S \in SUBSET DOMAIN M : Seqs(S, X) = Seqs(S, M)
    BY <1>5 DEF Seqs
  <2> QED BY <2>1, <2>2, <1>5, <1>6
<1>10. Flow(X) = Flow(M)
  BY <1>5, <1>6 DEF Flow
<1> QED
  BY <1>3, <1>7, <1>8, <1>9, <1>10

-----------------------------------------------------------------------------
\* The flow starts with nothing.
LEMMA InitInv == Init => Inv
<1> SUFFICES ASSUME Init PROVE Inv
  OBVIOUS
<1>1. isSequential \in BOOLEAN
  BY ScopesAssumption DEF Init, ScopeRecord
<1>2. IsFlow(chunks)
  BY FS_EmptySet DEF Init, IsFlow, EmptyFunction
<1> QED
  BY <1>1, <1>2 DEF Init, Inv, Nodes, ChunksAreEmitted, ReviewIsOfChunks, DraftsAreOfChunks,
                    OperatorsAreOfFlow

\* The chunker replaces the chunks.
LEMMA ChunkBehaviorsInv ==
    ASSUME Inv, ChunkBehaviors
    PROVE  Inv'
<1>1. PICK raw \in RawPredecessors, roots \in AtMost(scope.roots, Emitted) :
          chunks' = FinalizeChunks(raw, roots)
  BY DEF ChunkBehaviors
<1>2. scope \in Scopes
  BY DEF Inv
<1>4. /\ IsFlow(chunks')
      /\ DOMAIN chunks' = Emitted
      /\ \A c \in Emitted : /\ chunks'[c].seq = c /\ chunks'[c].text = {c}
                            /\ chunks'[c].succ = {d \in Emitted : c \in chunks'[d].preds}
  BY <1>1, <1>2, FinalizedIsFlow
<1>5. /\ scope' = scope /\ isSequential' = isSequential /\ pass' = pass + 1
      /\ pc' \in {"review_chunks", "gate_chunks"} /\ (scope'.gate => pc' = "review_chunks")
  BY DEF ChunkBehaviors
<1>6. Emitted' = Emitted /\ pass' \in Nat /\ pass' > 0
  BY <1>5 DEF Emitted, Inv
<1>7. ChunksAreEmitted'
  BY <1>4, <1>6 DEF ChunksAreEmitted
<1>8. ReviewIsOfChunks' /\ DraftsAreOfChunks' /\ OperatorsAreOfFlow'
  BY <1>5 DEF ReviewIsOfChunks, DraftsAreOfChunks, OperatorsAreOfFlow
<1> QED
  BY <1>4, <1>5, <1>6, <1>7, <1>8 DEF Inv, Nodes, IsFlow

\* A review is of the chunks it is submitted for.
LEMMA SubmitChunkReviewInv ==
    ASSUME Inv, SubmitChunkReview
    PROVE  Inv'
<1>1. /\ scope' = scope /\ pass' = pass /\ isSequential' = isSequential
      /\ chunks' = chunks /\ chunkOperators' = chunkOperators
      /\ chunkConditions' = chunkConditions
      /\ pc = "review_chunks" /\ pc' = "gate_chunks" /\ review' \in ChunkReviews
  BY DEF SubmitChunkReview, chunkVars
<1>2. ChunkReviews' = ChunkReviews
  BY <1>1 DEF ChunkReviews, ShownOperators
<1>3. ReviewIsOfChunks'
  BY <1>1, <1>2 DEF ReviewIsOfChunks
<1>4. ChunksAreEmitted'
  BY <1>1 DEF Inv, ChunksAreEmitted, Emitted
<1>5. DraftsAreOfChunks' /\ OperatorsAreOfFlow'
  BY <1>1 DEF DraftsAreOfChunks, OperatorsAreOfFlow
<1> QED
  BY <1>1, <1>3, <1>4, <1>5 DEF Inv, Nodes, IsFlow

\* Past the gate the chunks are a flow and nothing else is claimed.
LEMMA LeavesTheGate ==
    ASSUME Inv, pc' \in {"draft_procedures", "chunk_behaviors"}, scope' = scope, pass' = pass,
           isSequential' \in BOOLEAN, IsFlow(chunks)'
    PROVE  Inv'
BY DEF Inv, Nodes, ChunksAreEmitted, ReviewIsOfChunks, DraftsAreOfChunks, OperatorsAreOfFlow

\* The flag of a review is a truth value.
LEMMA FlagIsBoolean ==
    ASSUME isSequential \in BOOLEAN, NEW flag
    PROVE  Overridden(flag) \in BOOLEAN
BY DEF Overridden

\* The paths of the gate that change no chunk.
LEMMA GateChunksAutoInv ==
    ASSUME Inv, GateChunksAuto
    PROVE  Inv'
<1>1. IsFlow(chunks)' /\ isSequential' \in BOOLEAN
  BY DEF GateChunksAuto, chunkVars, Inv, IsFlow
<1> QED
  BY <1>1, LeavesTheGate DEF GateChunksAuto

\* So does a rejection, which leaves the chunks to the next pass.
LEMMA GateChunksRejectInv ==
    ASSUME Inv, GateChunksReject
    PROVE  Inv'
<1>1. IsFlow(chunks)'
  BY DEF GateChunksReject, Inv, IsFlow
<1>2. isSequential' \in BOOLEAN
  BY FlagIsBoolean DEF GateChunksReject, Inv
<1> QED
  BY <1>1, <1>2, LeavesTheGate DEF GateChunksReject

\* At the gate are the chunker's chunks, and the review that approves them.
LEMMA ApproveIsApproving ==
    ASSUME Inv, GateChunksApprove
    PROVE  Approving
BY DEF Inv, GateChunksApprove, Approving, AtGate, ChunksAreEmitted, ReviewIsOfChunks

\* The approved review leaves a flow.
LEMMA GateChunksApproveInv ==
    ASSUME Inv, GateChunksApprove
    PROVE  Inv'
<1>1. IsFlow(chunks')
  BY ApproveIsApproving, ReviewedIsFlow DEF GateChunksApprove
<1>2. isSequential' \in BOOLEAN
  BY FlagIsBoolean DEF GateChunksApprove, Inv
<1>3. IsFlow(chunks)'
  BY <1>1 DEF IsFlow
<1> QED
  BY <1>2, <1>3, LeavesTheGate DEF GateChunksApprove

\* A record of these fields is a draft.
LEMMA DraftRecord ==
    ASSUME NEW s \in Nat, NEW p \in SUBSET Nat, NEW r \in BOOLEAN
    PROVE  [seq |-> s, preds |-> p, root |-> r] \in Draft
BY DEF Draft

\* Each chunk has its draft.
LEMMA DraftProceduresInv ==
    ASSUME Inv, DraftProcedures
    PROVE  Inv'
<1>1. /\ scope' = scope /\ pass' = pass /\ isSequential' = isSequential /\ chunks' = chunks
      /\ pc' = "gate_1"
      /\ drafts' = [c \in DOMAIN chunks |->
                       [seq |-> chunks[c].seq, preds |-> chunks[c].preds,
                        root |-> chunks[c].root]]
  BY DEF DraftProcedures, chunkVars
<1>2. \A c \in DOMAIN chunks : [seq |-> chunks[c].seq, preds |-> chunks[c].preds,
                                root |-> chunks[c].root] \in Draft
  <2> SUFFICES ASSUME NEW c \in DOMAIN chunks
               PROVE  [seq |-> chunks[c].seq, preds |-> chunks[c].preds,
                       root |-> chunks[c].root] \in Draft
    OBVIOUS
  <2>1. chunks[c] \in Chunk
    BY DEF Inv, IsFlow
  <2>2. chunks[c].seq \in Nat /\ chunks[c].preds \in SUBSET Nat /\ chunks[c].root \in BOOLEAN
    BY <2>1 DEF Chunk
  <2> QED BY <2>2, DraftRecord, Zenon
<1>3. drafts' \in [DOMAIN chunks' -> Draft]
  BY <1>1, <1>2
<1>4. DraftsAreOfChunks'
  BY <1>1, <1>3 DEF DraftsAreOfChunks
<1> QED
  BY <1>1, <1>4 DEF Inv, Nodes, IsFlow, ChunksAreEmitted, ReviewIsOfChunks, OperatorsAreOfFlow

\* The mirror links approved chunks among themselves, none to itself.
LEMMA MirroredIsFlow ==
    ASSUME IsFlow(chunks), NEW ds \in [DOMAIN chunks -> Draft], NEW ok \in SUBSET DOMAIN chunks,
           NEW X, X = MirrorSequencing(chunks, ds, ok)
    PROVE  IsFlow(X) /\ DOMAIN X = DOMAIN chunks
<1> DEFINE succ(c) == {d \in ok : ds[c].seq \in CleanPreds(d, ds, ok)}
<1>1. X = [c \in DOMAIN chunks |->
              IF c \notin ok THEN chunks[c]
              ELSE [chunks[c] EXCEPT !.seq = ds[c].seq, !.preds = CleanPreds(c, ds, ok),
                                     !.succ = succ(c)]]
  BY DEF MirrorSequencing
<1>2. \A c \in ok : succ(c) \subseteq ok /\ CleanPreds(c, ds, ok) \subseteq ds[c].preds
  BY DEF CleanPreds
<1> HIDE DEF succ
<1>3. ASSUME NEW c \in DOMAIN chunks
      PROVE  X[c] \in Chunk /\ X[c].succ \subseteq DOMAIN chunks
  <2>1. chunks[c] \in Chunk /\ chunks[c].succ \subseteq DOMAIN chunks
        /\ DOMAIN chunks \subseteq Nat
    BY DEF IsFlow
  <2>2. CASE c \notin ok
    BY <1>1, <2>1, <2>2
  <2>3. CASE c \in ok
    <3> DEFINE preds == CleanPreds(c, ds, ok)
               s == ds[c].seq
    <3>1. X[c] = [chunks[c] EXCEPT !.seq = s, !.preds = preds, !.succ = succ(c)]
      BY <1>1, <2>3
    <3>2. s \in Nat /\ preds \in SUBSET Nat
      BY <1>2, <2>3 DEF Draft
    <3>3. succ(c) \subseteq DOMAIN chunks /\ succ(c) \in SUBSET Nat
      BY <1>2, <2>1, <2>3
    <3> HIDE DEF s, preds
    <3> QED BY <2>1, <3>1, <3>2, <3>3 DEF Chunk
  <2> QED BY <2>2, <2>3
<1>4. DOMAIN X = DOMAIN chunks /\ X \in [DOMAIN chunks -> Chunk]
  BY <1>1, <1>3
<1> QED
  BY <1>3, <1>4 DEF IsFlow

\* Gate 1 approves drafts of the chunks, and may reorder them.
LEMMA SubmitGate1Inv ==
    ASSUME Inv, SubmitGate1
    PROVE  Inv'
<1>1. PICK discarded \in AtMost(scope.discards, DOMAIN drafts) :
           \E rejected \in AtMost(scope.rejects, DOMAIN drafts \ discarded) :
           \E boundary \in IF rejected # {} /\ pass < scope.passes THEN BOOLEAN ELSE {FALSE} :
           \E edited \in AtMost(scope.reorders, DOMAIN drafts \ (discarded \cup rejected)) :
           \E edits \in [edited -> SUBSET Seqs(DOMAIN drafts, drafts)] :
                Gate1(discarded, rejected, boundary, edits)
  BY DEF SubmitGate1
<1>2. PICK rejected, boundary, edited, edits :
           /\ edits \in [edited -> SUBSET Seqs(DOMAIN drafts, drafts)]
           /\ Gate1(discarded, rejected, boundary, edits)
  BY <1>1
<1> DEFINE ok == DOMAIN drafts \ (discarded \cup rejected)
           after == [c \in DOMAIN drafts |->
                       IF c \in DOMAIN edits THEN [drafts[c] EXCEPT !.preds = edits[c]]
                       ELSE drafts[c]]
<1>3. /\ drafts' = after /\ approved' = ok
      /\ chunks' = IF edits = EmptyFunction THEN chunks
                   ELSE MirrorSequencing(chunks, after, ok)
      /\ pc' \in {"normalize", "chunk_behaviors", "draft_procedures"}
      /\ scope' = scope /\ pass' = pass /\ isSequential' = isSequential
  BY <1>2 DEF Gate1
<1>4. drafts \in [DOMAIN chunks -> Draft] /\ DOMAIN drafts = DOMAIN chunks
  BY DEF Inv, DraftsAreOfChunks, SubmitGate1
<1>5. after \in [DOMAIN chunks -> Draft]
  <2> SUFFICES ASSUME NEW c \in DOMAIN chunks PROVE after[c] \in Draft
    BY <1>4
  <2>1. drafts[c] \in Draft
    BY <1>4
  <2>2. CASE c \in DOMAIN edits
    <3>1. \A d \in DOMAIN drafts : drafts[d].seq \in Nat
      BY <1>4 DEF Draft
    <3>2. edits[c] \in SUBSET Nat
      BY <1>2, <2>2, <3>1 DEF Seqs
    <3>3. after[c] = [drafts[c] EXCEPT !.preds = edits[c]]
      BY <1>4, <2>2
    <3> HIDE DEF after
    <3> QED BY <2>1, <3>2, <3>3 DEF Draft
  <2>3. CASE c \notin DOMAIN edits
    BY <1>4, <2>1, <2>3
  <2> QED BY <2>2, <2>3
<1>6. ok \in SUBSET DOMAIN chunks
  BY <1>4
<1> HIDE DEF ok, after
<1>7. IsFlow(chunks') /\ DOMAIN chunks' = DOMAIN chunks
  <2>1. IsFlow(chunks)
    BY DEF Inv
  <2> QED BY <2>1, <1>3, <1>5, <1>6, MirroredIsFlow
<1>8. DraftsAreOfChunks'
  BY <1>3, <1>5, <1>6, <1>7 DEF DraftsAreOfChunks
<1>9. ChunksAreEmitted' /\ ReviewIsOfChunks' /\ OperatorsAreOfFlow'
  BY <1>3 DEF ChunksAreEmitted, ReviewIsOfChunks, OperatorsAreOfFlow
<1> QED
  BY <1>3, <1>7, <1>8, <1>9 DEF Inv, Nodes, IsFlow

\* What is known of an operator inferred for a flow.
Inferred(flow, seq, conditioned, ops, op) ==
    /\ seq
    /\ ops[op] = [kind |-> ops[op].kind, outputs |-> ops[op].outputs, whole |-> TRUE]
    /\ op.role = "branch" =>
          \E a \in DOMAIN flow \ conditioned :
             op.inputs = {a} /\ ops[op].outputs \subseteq flow[a]

\* An operator inferred for a flow: a branch has a chunk that is not conditional
\* for its input and successors of it for its outputs.
LEMMA InferredOperators ==
    ASSUME NEW flow, NEW seq, NEW existing, NEW conditioned, NEW ops,
           ops = InferOperators(flow, seq, existing, conditioned), NEW op \in DOMAIN ops
    PROVE  Inferred(flow, seq, conditioned, ops, op)
<1> DEFINE entry == ops[op]
           kind == IF op \in DOMAIN existing THEN existing[op].kind ELSE "default"
<1>1. seq /\ op \in Convergences(flow) \cup Branches(flow, conditioned)
  BY DEF InferOperators, EmptyFunction
<1>2. entry = [kind |-> kind, outputs |-> op.outputs, whole |-> TRUE]
  <2> DEFINE all == Convergences(flow) \cup Branches(flow, conditioned)
  <2>1. ops = [o \in all |->
                  [kind |-> IF o \in DOMAIN existing THEN existing[o].kind ELSE "default",
                   outputs |-> o.outputs, whole |-> TRUE]]
    BY <1>1 DEF InferOperators
  <2> HIDE DEF all
  <2> QED BY <2>1
<1> HIDE DEF entry, kind
<1>3. entry = [kind |-> entry.kind, outputs |-> entry.outputs, whole |-> TRUE]
      /\ entry.outputs = op.outputs
  BY <1>2
<1>4. ASSUME op.role = "branch"
      PROVE  \E a \in DOMAIN flow \ conditioned : op.inputs = {a} /\ op.outputs \subseteq flow[a]
  <2> DEFINE preds == [c \in DOMAIN flow |-> {p \in DOMAIN flow : c \in flow[p]}]
             many == {d \in DOMAIN flow : Cardinality(preds[d]) >= 2}
  <2>1. op \in Branches(flow, conditioned)
    <3>1. Convergences(flow)
              = {[role |-> "converge", inputs |-> preds[c], outputs |-> {c}] : c \in many}
      BY DEF Convergences
    <3> HIDE DEF preds, many
    <3> QED BY <1>1, <1>4, <3>1
  <2>2. PICK a \in DOMAIN flow \ conditioned :
              op = [role |-> "branch", inputs |-> {a}, outputs |-> Succs(flow)[a]]
    BY <2>1 DEF Branches
  <2>3. Succs(flow)[a] \subseteq flow[a]
    BY DEF Succs
  <2> QED BY <2>2, <2>3
<1> QED
  BY <1>1, <1>3, <1>4 DEF entry, Inferred

\* normalize infers operators and conditions of the flow it finds.
LEMMA NormalizeInv ==
    ASSUME Inv, Normalize
    PROVE  Inv'
<1>1. /\ scope' = scope /\ pass' = pass /\ isSequential' = isSequential /\ chunks' = chunks
      /\ drafts' = drafts /\ approved' = approved /\ pc = "normalize" /\ pc' = "gate_2"
  BY DEF Normalize
<1>2. DraftsAreOfChunks'
  BY <1>1 DEF Inv, DraftsAreOfChunks
<1>3. OperatorsAreOfFlow'
  <2> SUFFICES ASSUME approved # {}
               PROVE  /\ \A op \in DOMAIN chunkOperators' :
                           /\ isSequential
                           /\ chunkOperators'[op] = [kind |-> chunkOperators'[op].kind,
                                 outputs |-> chunkOperators'[op].outputs, whole |-> TRUE]
                           /\ op.role = "branch" =>
                                 \E a \in DOMAIN chunks \ DOMAIN chunkConditions' :
                                    /\ op.inputs = {a}
                                    /\ chunkOperators'[op].outputs \subseteq chunks[a].succ
                      /\ DOMAIN chunkConditions' # {} => isSequential
    BY <1>1 DEF OperatorsAreOfFlow
  <2>1. /\ chunkConditions' = ExtractConditions(Preconditions, isSequential)
        /\ chunkOperators' = InferOperators(Flow(chunks), isSequential, chunkOperators,
                                            DOMAIN chunkConditions')
    BY DEF Normalize
  <2>2. DOMAIN chunkConditions' # {} => isSequential
    BY <2>1 DEF ExtractConditions, EmptyFunction
  <2>3. /\ DOMAIN Flow(chunks) = DOMAIN chunks
        /\ \A a \in DOMAIN chunks : Flow(chunks)[a] = chunks[a].succ
    BY DEF Flow
  <2>4. ASSUME NEW op \in DOMAIN chunkOperators'
        PROVE  Inferred(Flow(chunks), isSequential, DOMAIN chunkConditions', chunkOperators', op)
    BY <2>1, InferredOperators, Zenon
  <2>5. ASSUME NEW op \in DOMAIN chunkOperators', op.role = "branch"
        PROVE  \E a \in DOMAIN chunks \ DOMAIN chunkConditions' :
                  op.inputs = {a} /\ chunkOperators'[op].outputs \subseteq chunks[a].succ
    BY <2>3, <2>4, <2>5 DEF Inferred
  <2> QED BY <2>2, <2>4, <2>5 DEF Inferred
<1> QED
  BY <1>1, <1>2, <1>3 DEF Inv, Nodes, IsFlow, ChunksAreEmitted, ReviewIsOfChunks

\* Gate 2 changes no chunk, draft or operator.
LEMMA Gate2Inv ==
    ASSUME Inv, pc = "gate_2", pc' \in {"serialize_stix", "normalize"},
           UNCHANGED <<scope, pass, chunkVars, review, isSequential, drafts, approved>>
    PROVE  Inv'
<1>1. /\ scope' = scope /\ pass' = pass /\ isSequential' = isSequential /\ chunks' = chunks
      /\ drafts' = drafts /\ approved' = approved
      /\ chunkOperators' = chunkOperators /\ chunkConditions' = chunkConditions
  BY DEF chunkVars
<1>2. DraftsAreOfChunks'
  BY <1>1 DEF Inv, DraftsAreOfChunks
<1>3. OperatorsAreOfFlow'
  BY <1>1 DEF Inv, OperatorsAreOfFlow
<1> QED
  BY <1>1, <1>2, <1>3 DEF Inv, Nodes, IsFlow, ChunksAreEmitted, ReviewIsOfChunks

\* After serialize_stix nothing runs.
LEMMA SerializeStixInv ==
    ASSUME Inv, SerializeStix
    PROVE  Inv'
<1>1. /\ scope' = scope /\ pass' = pass /\ isSequential' = isSequential /\ chunks' = chunks
      /\ pc' \in {"done", "failed"}
  BY DEF SerializeStix, chunkVars
<1> QED
  BY <1>1 DEF Inv, Nodes, IsFlow, ChunksAreEmitted, ReviewIsOfChunks, DraftsAreOfChunks,
              OperatorsAreOfFlow

\* Steps that change nothing.
LEMMA StutterInv ==
    ASSUME Inv, UNCHANGED vars
    PROVE  Inv'
<1>1. /\ scope' = scope /\ pass' = pass /\ isSequential' = isSequential /\ chunks' = chunks
      /\ drafts' = drafts /\ approved' = approved /\ review' = review /\ pc' = pc
      /\ chunkOperators' = chunkOperators /\ chunkConditions' = chunkConditions
  BY DEF vars, chunkVars, laterVars
<1>2. ChunkReviews' = ChunkReviews
  BY <1>1 DEF ChunkReviews, ShownOperators
<1>3. ReviewIsOfChunks'
  BY <1>1, <1>2 DEF Inv, ReviewIsOfChunks
<1>4. OperatorsAreOfFlow'
  BY <1>1 DEF Inv, OperatorsAreOfFlow
<1>5. ChunksAreEmitted' /\ DraftsAreOfChunks'
  BY <1>1 DEF Inv, ChunksAreEmitted, DraftsAreOfChunks, Emitted
<1> QED
  BY <1>1, <1>3, <1>4, <1>5 DEF Inv, IsFlow

\* Every step keeps the invariant.
LEMMA StepInv ==
    ASSUME Inv, [Next]_vars
    PROVE  Inv'
<1>1. CASE ChunkBehaviors BY <1>1, ChunkBehaviorsInv
<1>2. CASE SubmitChunkReview BY <1>2, SubmitChunkReviewInv
<1>3. CASE GateChunksAuto BY <1>3, GateChunksAutoInv
<1>4. CASE GateChunksReject BY <1>4, GateChunksRejectInv
<1>5. CASE GateChunksApprove BY <1>5, GateChunksApproveInv
<1>6. CASE DraftProcedures BY <1>6, DraftProceduresInv
<1>7. CASE SubmitGate1 BY <1>7, SubmitGate1Inv
<1>8. CASE Normalize BY <1>8, NormalizeInv
<1>9. CASE Gate2Approve BY <1>9, Gate2Inv DEF Gate2Approve
<1>10. CASE Gate2Reject BY <1>10, Gate2Inv DEF Gate2Reject
<1>11. CASE SerializeStix BY <1>11, SerializeStixInv
<1>12. CASE UNCHANGED vars BY <1>12, StutterInv
<1> QED
  BY <1>1, <1>2, <1>3, <1>4, <1>5, <1>6, <1>7, <1>8, <1>9, <1>10, <1>11, <1>12 DEF Next

\* In every state of every run the chunks are a flow without loops to themselves,
\* the drafts are of the chunks, and the operators of the flow.
THEOREM FlowIsTyped == Spec => []Inv
<1>1. Inv /\ [Next]_vars => Inv'
  BY StepInv
<1> QED
  BY InitInv, <1>1, PTL DEF Spec

-----------------------------------------------------------------------------
\* The gate lets go of the chunks as they are, or as an approved review has them.
LEMMA LeavingTheGate ==
    ASSUME Inv, Next, pc = "gate_chunks", pc' = "draft_procedures"
    PROVE  AtGate /\ (chunks' = chunks \/ GateChunksApprove)
<1>1. AtGate
  BY DEF Inv, ChunksAreEmitted, AtGate
<1>2. GateChunksAuto \/ GateChunksApprove
  BY DEF Next, ChunkBehaviors, SubmitChunkReview, GateChunksReject, DraftProcedures, SubmitGate1,
         Normalize, Gate2Approve, Gate2Reject, SerializeStix
<1>3. GateChunksAuto => chunks' = chunks
  BY DEF GateChunksAuto, chunkVars
<1> QED
  BY <1>1, <1>2, <1>3

\* Two edited chunks have two sequence numbers.
LEMMA SeqsAreDistinct ==
    ASSUME Approving, NEW X, Edited(X), NEW c \in DOMAIN X, NEW d \in DOMAIN X,
           X[c].seq = X[d].seq
    PROVE  c = d
<1>1. Stay \subseteq Nat
  BY EditedIds
<1>2. \A k \in New : k = Added(pass)
  BY DEF New
<1>3. \A m \in Stay : X[m].seq = m /\ m \in Nat
  BY <1>1 DEF Edited
<1>4. \A k \in New, m \in Stay : X[k].seq > m /\ X[k].seq \in Nat
  BY DEF Edited, Chunk
<1>5. DOMAIN X = Stay \cup New
  BY DEF Edited
<1>6. CASE c \in Stay /\ d \in Stay
  BY <1>3, <1>6
<1>7. CASE c \in New /\ d \in New
  BY <1>2, <1>7
<1>8. CASE c \in Stay /\ d \in New
  BY <1>3, <1>4, <1>8
<1>9. CASE c \in New /\ d \in Stay
  BY <1>3, <1>4, <1>9
<1> QED
  BY <1>5, <1>6, <1>7, <1>8, <1>9

\* Whatever the review, the two copies of the flow agree after the gate.
THEOREM GateLeavesOneGraphHolds == Spec => GateLeavesOneGraph
<1> DEFINE Agree == (pc = "gate_chunks" /\ pc' = "draft_procedures") =>
                       \A c \in DOMAIN chunks' :
                          chunks'[c].succ =
                             {d \in DOMAIN chunks' : chunks'[c].seq \in chunks'[d].preds}
<1>1. Inv /\ [Next]_vars => [Agree]_vars
  <2> SUFFICES ASSUME Inv, Next, pc = "gate_chunks", pc' = "draft_procedures",
                      NEW c \in DOMAIN chunks'
               PROVE  chunks'[c].succ =
                         {d \in DOMAIN chunks' : chunks'[c].seq \in chunks'[d].preds}
    OBVIOUS
  <2>1. CASE chunks' = chunks
    <3>1. /\ DOMAIN chunks = Emitted /\ \A d \in Emitted : chunks[d].succ \subseteq Emitted
          /\ \A d \in Emitted : chunks[d].seq = d
          /\ \A d \in Emitted : chunks[d].succ = {p \in Emitted : d \in chunks[p].preds}
      BY LeavingTheGate DEF AtGate, IsFlow
    <3> QED BY <2>1, <3>1
  <2>2. CASE GateChunksApprove
    <3> DEFINE X == chunks'
    <3>1. Approving
      BY <2>2, ApproveIsApproving
    <3>2. /\ Edited(X) /\ \A d \in DOMAIN X : X[d].succ \subseteq DOMAIN X
          /\ \A d \in DOMAIN X : X[d].preds = Seqs({p \in DOMAIN X : d \in X[p].succ}, X)
      BY <2>2, <3>1, ReviewedIsFlow DEF GateChunksApprove, IsFlow
    <3> HIDE DEF X
    <3>3. ASSUME NEW d \in DOMAIN X
          PROVE  X[c].seq \in X[d].preds
                     <=> \E p \in DOMAIN X : d \in X[p].succ /\ X[p].seq = X[c].seq
      BY <3>2 DEF Seqs
    <3>4. c \in DOMAIN X
      BY DEF X
    <3>5. \A p \in DOMAIN X : X[p].seq = X[c].seq <=> p = c
      BY <3>1, <3>2, <3>4, SeqsAreDistinct
    <3>6. X[c].succ = {d \in DOMAIN X : X[c].seq \in X[d].preds}
      BY <3>2, <3>3, <3>4, <3>5
    <3> QED BY <3>6 DEF X
  <2> QED BY <2>1, <2>2, LeavingTheGate
<1> QED
  BY <1>1, FlowIsTyped, PTL DEF Spec, GateLeavesOneGraph

\* Whatever is dropped and merged, the order of what stays is untouched.
THEOREM GateKeepsOrderHolds == Spec => GateKeepsOrder
<1> DEFINE Keeps == (pc = "gate_chunks" /\ pc' = "draft_procedures" /\ review.edges = <<>>) =>
                       LET both == DOMAIN chunks \cap DOMAIN chunks'
                       IN  OrderOn(Flow(chunks'), both) = OrderOn(Flow(chunks), both)
<1>1. Inv /\ [Next]_vars => [Keeps]_vars
  <2> DEFINE both == DOMAIN chunks \cap DOMAIN chunks'
  <2> SUFFICES ASSUME Inv, Next, pc = "gate_chunks", pc' = "draft_procedures",
                      review.edges = <<>>
               PROVE  OrderOn(Flow(chunks'), both) = OrderOn(Flow(chunks), both)
    OBVIOUS
  <2>1. CASE chunks' = chunks
    BY <2>1
  <2>2. CASE GateChunksApprove
    <3> DEFINE K == Kept(Map, chunks, review.added)
               B == Bridge(K, chunks)
               old == Flow(chunks)
               before == BeforeBridge(K)
               now == Flow(chunks')
    <3>1. Approving
      BY <2>2, ApproveIsApproving
    <3>2. now = Flow(B) /\ DOMAIN chunks' = Stay \cup New
      BY <2>2, <3>1, ReviewedIsFlow DEF GateChunksApprove, Edited
    <3>3. /\ DOMAIN B = Stay \cup New
          /\ Flow(B) = before \/ Flow(B) = SpliceAbsent(before, DOMAIN B)
      BY <3>1, BridgeIsEdited DEF Edited
    <3>4. IsFinite(old) /\ IsFinite(before) /\ \A S : After(before, S) = After(old, S)
      BY <3>1, BeforeBridgeIsFlow
    <3> HIDE DEF K, B, old, before, now
    <3>5. \A a : Reach(before, {a}) = Reach(old, {a})
      BY <3>4, StartIsFinite, ReachOfSameSteps
    <3>6. OrderOn(before, both) = OrderOn(old, both)
      <4> HIDE DEF both
      <4>1. \A a, b \in both : b \in Reach(before, {a}) <=> b \in Reach(old, {a})
        BY <3>5
      <4> QED BY <4>1, SameOrder
    <3>7. OrderOn(now, both) = OrderOn(before, both)
      <4>1. both \in SUBSET DOMAIN B
        BY <3>2, <3>3
      <4> HIDE DEF both
      <4>2. CASE Flow(B) = before
        BY <4>2, <3>2
      <4>3. CASE Flow(B) = SpliceAbsent(before, DOMAIN B)
        BY <4>1, <4>3, <3>2, <3>4, SpliceKeepsOrder
      <4> QED BY <4>2, <4>3, <3>3
    <3> QED BY <3>6, <3>7 DEF now, old
  <2> QED BY <2>1, <2>2, LeavingTheGate
<1> QED
  BY <1>1, FlowIsTyped, PTL DEF Spec, GateKeepsOrder

\* The ledger of corrections only grows, and an approved review enters in it what
\* it drops, adds and rewords.
LEMMA LedgerStep ==
    ASSUME Inv, Next
    PROVE  /\ correctionLog \subseteq correctionLog'
           /\ GateChunksApprove =>
                 /\ \A c \in DOMAIN Map \cap DOMAIN chunks :
                       <<pass, IF Map[c].action = "drop" THEN "remove" ELSE "edit", c>>
                           \in correctionLog'
                 /\ \A c \in New : <<pass, "analyst_added", c>> \in correctionLog'
<1>1. GateChunksApprove => correctionLog' = correctionLog \cup Corrections(Map)
  BY DEF GateChunksApprove, Map
<1>2. correctionLog \subseteq correctionLog'
  BY <1>1 DEF Next, ChunkBehaviors, SubmitChunkReview, GateChunksAuto, GateChunksReject,
         DraftProcedures, SubmitGate1, Gate1, Normalize, Gate2Approve, Gate2Reject,
         SerializeStix, chunkVars
<1>3. \A c \in DOMAIN Map \cap DOMAIN chunks :
         <<pass, IF Map[c].action = "drop" THEN "remove" ELSE "edit", c>> \in Corrections(Map)
  BY DEF Corrections
<1>4. \A c \in New : <<pass, "analyst_added", c>> \in Corrections(Map)
  BY DEF Corrections, New
<1> QED
  BY <1>1, <1>2, <1>3, <1>4

\* The ledger has every difference the gate made, and loses none.
THEOREM LedgerExplainsTheDiffHolds == Spec => LedgerExplainsTheDiff
<1> DEFINE Explains ==
       /\ correctionLog \subseteq correctionLog'
       /\ (pc = "gate_chunks" /\ pc' = "draft_procedures") =>
             /\ \A c \in DOMAIN chunks \ DOMAIN chunks' :
                   <<pass, "remove", c>> \in correctionLog'
             /\ \A c \in DOMAIN chunks' \ DOMAIN chunks :
                   <<pass, "analyst_added", c>> \in correctionLog'
             /\ \A c \in DOMAIN chunks \cap DOMAIN chunks' :
                   chunks[c].text # chunks'[c].text =>
                      <<pass, "edit", c>> \in correctionLog'
<1>1. Inv /\ [Next]_vars => [Explains]_vars
  <2> SUFFICES ASSUME Inv, Next PROVE Explains
    OBVIOUS
  <2>1. correctionLog \subseteq correctionLog'
    BY LedgerStep
  <2>2. ASSUME pc = "gate_chunks", pc' = "draft_procedures"
        PROVE  /\ \A c \in DOMAIN chunks \ DOMAIN chunks' :
                     <<pass, "remove", c>> \in correctionLog'
               /\ \A c \in DOMAIN chunks' \ DOMAIN chunks :
                     <<pass, "analyst_added", c>> \in correctionLog'
               /\ \A c \in DOMAIN chunks \cap DOMAIN chunks' :
                     chunks[c].text # chunks'[c].text =>
                        <<pass, "edit", c>> \in correctionLog'
    <3>1. CASE chunks' = chunks
      BY <3>1
    <3>2. CASE GateChunksApprove
      <4>1. Approving
        BY <3>2, ApproveIsApproving
      <4>2. Edited(chunks')
        BY <3>2, <4>1, ReviewedIsFlow DEF GateChunksApprove
      <4>3. DOMAIN chunks = Emitted /\ \A c \in Emitted : chunks[c].text = {c}
        BY <4>1 DEF Approving, AtGate
      <4>4. \A c \in DOMAIN Map \cap DOMAIN chunks :
               <<pass, IF Map[c].action = "drop" THEN "remove" ELSE "edit", c>> \in correctionLog'
        BY <3>2, LedgerStep
      <4>5. \A c \in New : <<pass, "analyst_added", c>> \in correctionLog'
        BY <3>2, LedgerStep
      <4>6. ASSUME NEW c \in DOMAIN chunks \ DOMAIN chunks'
            PROVE  <<pass, "remove", c>> \in correctionLog'
        <5>1. c \in DOMAIN Map /\ Map[c].action = "drop"
          BY <4>2, <4>3 DEF Edited, Stay
        <5> QED BY <4>4, <5>1
      <4>7. ASSUME NEW c \in DOMAIN chunks' \ DOMAIN chunks
            PROVE  <<pass, "analyst_added", c>> \in correctionLog'
        BY <4>1, <4>2, <4>3, <4>5, EditedIds DEF Edited
      <4>8. ASSUME NEW c \in DOMAIN chunks \cap DOMAIN chunks', chunks[c].text # chunks'[c].text
            PROVE  <<pass, "edit", c>> \in correctionLog'
        <5>1. c \in Stay
          BY <4>1, <4>2, <4>3, EditedIds DEF Edited
        <5>2. c \in DOMAIN Map /\ Map[c].action # "drop"
          BY <4>2, <4>3, <4>8, <5>1 DEF Edited, Stay
        <5> QED BY <4>4, <5>2
      <4> QED BY <4>6, <4>7, <4>8
    <3> QED BY <2>2, <3>1, <3>2, LeavingTheGate
  <2> QED BY <2>1, <2>2
<1> QED
  BY <1>1, FlowIsTyped, PTL DEF Spec, LedgerExplainsTheDiff

-----------------------------------------------------------------------------
\* What a merge of the review does.
LEMMA MergesOfReview ==
    ASSUME Approving
    PROVE  /\ \A i \in DOMAIN review.decisions :
                 /\ review.decisions[i].chunk \in Decided
                 /\ AbsorbedBy(i) \subseteq Absorbed
                 /\ i \in MergeSteps => AbsorbedBy(i) = review.decisions[i].with
           /\ Decided \subseteq Emitted
           /\ \A d \in Merges : \E j \in MergeSteps : d = review.decisions[j]
           /\ \A j \in MergeSteps : review.decisions[j] \in Merges
<1> DEFINE ds == review.decisions
<1>1. PICK m \in Nat : ds \in [1 .. m -> Decisions(Emitted)]
  BY ReviewFields
<1>2. \A d \in Decisions(Emitted) :
         /\ d.chunk \in Emitted /\ d.with \subseteq Emitted /\ d.chunk \notin d.with
         /\ d.action # "merge" => d.with = {}
  BY DEF Decisions
<1>3. DOMAIN chunks = Emitted
  BY DEF Approving, AtGate
<1>4. \A d \in Merges : \E j \in MergeSteps : d = ds[j]
  BY DEF Merges, MergeSteps
<1>5. \A j \in MergeSteps : ds[j] \in Merges
  BY DEF Merges, MergeSteps
<1>6. \A i \in DOMAIN ds : /\ AbsorbedBy(i) = ds[i].with
                           /\ i \notin MergeSteps => ds[i].with = {}
                           /\ ds[i].chunk \in Emitted
  BY <1>1, <1>2, <1>3 DEF AbsorbedBy, MergeSteps
<1>7. \A i \in DOMAIN ds : AbsorbedBy(i) \subseteq Absorbed
  BY <1>5, <1>6 DEF Absorbed
<1>8. \A i \in DOMAIN ds : ds[i].chunk \in Decided
  BY DEF Decided
<1>9. Decided \subseteq Emitted
  BY <1>6 DEF Decided
<1> QED
  BY <1>4, <1>5, <1>6, <1>7, <1>8, <1>9

\* A chunk that no one dropped or reworded stands in one chunk of the result.
LEMMA ReviewedText ==
    ASSUME Approving, PlainMerges, NEW X, Edited(X),
           NEW c \in Emitted \ (Decided \ {d.chunk : d \in Merges})
    PROVE  \E k \in DOMAIN X : \A l \in DOMAIN X : c \in X[l].text <=> l = k
<1> DEFINE ds == review.decisions
<1>1. /\ \A i \in DOMAIN ds : /\ ds[i].chunk \in Decided /\ AbsorbedBy(i) \subseteq Absorbed
                              /\ i \in MergeSteps => AbsorbedBy(i) = ds[i].with
      /\ \A d \in Merges : \E j \in MergeSteps : d = ds[j]
      /\ \A j \in MergeSteps : ds[j] \in Merges
  BY MergesOfReview
<1>2. /\ c \in Nat /\ c # 0 /\ Stay \subseteq Emitted /\ New \cap Emitted = {}
  <2>1. Emitted \subseteq 1 .. scope.n /\ scope.n \in Nat
    BY EditedIds, ScopeIsBounds DEF Approving, AtGate
  <2> QED BY <2>1, EditedIds
<1>3. \A i, j \in DOMAIN ds : i # j => ds[i].chunk # ds[j].chunk
  BY ReviewFields
<1>4. Absorbed \cap Decided = {} /\ \A d, e \in Merges : d # e => d.with \cap e.with = {}
  BY DEF PlainMerges
<1>5. MergeSteps \subseteq DOMAIN ds
  BY DEF MergeSteps
<1>6. /\ DOMAIN X = Stay \cup New
      /\ \A l \in Stay : X[l].text = IF l \in DOMAIN Map THEN Map[l].text ELSE {l}
      /\ \A l \in New : X[l].text = {l}
  BY DEF Edited
\* A survivor of a merge stays, with the texts of all of them.
<1>7. ASSUME NEW j \in MergeSteps
      PROVE  LET s == ds[j].chunk
             IN  s \in DOMAIN Map /\ Map[s].action = "edit" /\ Map[s].text = {s} \cup AbsorbedBy(j)
  <2> DEFINE s == ds[j].chunk
  <2>1. j \in DOMAIN ds /\ s \in NamedBy(j) /\ s \in Decided
    BY <1>1, <1>5 DEF NamedBy
  <2>2. s \in DOMAIN Map
    BY <2>1, MapEntries
  <2>3. PICK l \in MergeSteps : MergeSays(s, l)
    BY <2>1, <2>2, MapEntries
  <2>4. s = ds[l].chunk
    BY <2>1, <2>3, <1>1, <1>4, <1>5 DEF MergeSays, NamedBy
  <2>5. l = j
    BY <2>1, <2>4, <1>3, <1>5
  <2> QED BY <2>2, <2>3, <2>4, <2>5 DEF MergeSays
\* A chunk's words are where the chunk is, or with the survivor of its merge.
<1>8. ASSUME NEW l \in DOMAIN X, c \in X[l].text
      PROVE  /\ l \in Stay
             /\ l = c \/ \E j \in MergeSteps : l = ds[j].chunk /\ c \in AbsorbedBy(j)
  <2>1. l \in Stay
    BY <1>2, <1>6, <1>8
  <2>2. CASE l \notin DOMAIN Map
    BY <2>1, <2>2, <1>6, <1>8
  <2>3. CASE l \in DOMAIN Map
    <3>1. c \in Map[l].text /\ Map[l].action # "drop"
      BY <2>1, <2>3, <1>6, <1>8 DEF Stay
    <3>2. PICK j \in MergeSteps : MergeSays(l, j)
      BY <3>1, <2>3, <1>2, MapEntries
    <3> QED BY <2>1, <3>1, <3>2 DEF MergeSays
  <2> QED BY <2>1, <2>2, <2>3
<1>9. CASE c \in Absorbed
  <2>1. PICK d \in Merges : c \in d.with
    BY <1>9 DEF Absorbed
  <2>2. PICK j \in MergeSteps : d = ds[j]
    BY <1>1
  <2>3. j \in DOMAIN ds /\ c \in AbsorbedBy(j) /\ c \notin Decided
    BY <2>1, <2>2, <1>1, <1>4, <1>5, <1>9
  <2> DEFINE s == ds[j].chunk
  <2>4. s \in Stay /\ c \in X[s].text
    <3>1. s \in Emitted
      BY <2>3, MergesOfReview
    <3>2. s \in DOMAIN Map /\ Map[s].action = "edit" /\ Map[s].text = {s} \cup AbsorbedBy(j)
      BY <1>7
    <3>3. s \in Stay
      BY <3>1, <3>2 DEF Stay
    <3> HIDE DEF s
    <3> QED BY <3>2, <3>3, <2>3, <1>6
  <2>5. c \notin Stay
    <3>1. c \in NamedBy(j)
      BY <2>3 DEF NamedBy
    <3>2. c \in DOMAIN Map
      BY <3>1, <2>3, MapEntries
    <3>3. PICK i \in MergeSteps : MergeSays(c, i)
      BY <3>1, <3>2, MapEntries
    <3>4. c # ds[i].chunk
      BY <2>3, <1>1, <1>5
    <3> QED BY <3>2, <3>3, <3>4 DEF MergeSays, Stay
  <2>6. ASSUME NEW l \in DOMAIN X, c \in X[l].text PROVE l = s
    <3>1. PICK i \in MergeSteps : l = ds[i].chunk /\ c \in AbsorbedBy(i)
      BY <1>8, <2>5, <2>6
    <3>2. c \in ds[i].with /\ ds[i] \in Merges
      BY <3>1, <1>1, <1>5
    <3>3. ds[i] = d
      BY <3>2, <2>1, <1>4
    <3> QED BY <3>1, <3>3, <2>2
  <2> QED BY <2>4, <2>6, <1>6
<1>10. CASE c \notin Absorbed
  <2>1. ASSUME c \in DOMAIN Map
        PROVE  Map[c].action = "edit" /\ c \in Map[c].text
    <3>1. PICK i \in DOMAIN ds : c \in NamedBy(i)
      BY <2>1, MapEntries
    <3>2. c = ds[i].chunk /\ c \in Decided
      BY <3>1, <1>1, <1>10 DEF NamedBy
    <3>3. PICK d \in Merges : d.chunk = c
      BY <3>2
    <3>4. PICK j \in MergeSteps : d = ds[j]
      BY <1>1
    <3> QED BY <3>3, <3>4, <1>7
  <2>2. c \in Stay
    BY <2>1 DEF Stay
  <2>3. c \in X[c].text
    BY <2>1, <2>2, <1>6
  <2>4. ASSUME NEW l \in DOMAIN X, c \in X[l].text PROVE l = c
    BY <1>8, <2>4, <1>1, <1>5, <1>10
  <2> QED BY <2>2, <2>3, <2>4, <1>6
<1> QED
  BY <1>9, <1>10

\* Merges lose no text and double none.
THEOREM MergeKeepsTextHolds == Spec => MergeKeepsText
<1> DEFINE Kept1 == (pc = "gate_chunks" /\ pc' = "draft_procedures" /\ PlainMerges) =>
          \A c \in DOMAIN chunks \ (Decided \ {d.chunk : d \in Merges}) :
             \E k \in DOMAIN chunks' :
                {l \in DOMAIN chunks' : chunks[c].text \subseteq chunks'[l].text} = {k}
<1>1. Inv /\ [Next]_vars => [Kept1]_vars
  <2> SUFFICES ASSUME Inv, Next, pc = "gate_chunks", pc' = "draft_procedures", PlainMerges,
                      NEW c \in DOMAIN chunks \ (Decided \ {d.chunk : d \in Merges})
               PROVE  \E k \in DOMAIN chunks' :
                         {l \in DOMAIN chunks' : chunks[c].text \subseteq chunks'[l].text} = {k}
    OBVIOUS
  <2>1. DOMAIN chunks = Emitted /\ \A d \in Emitted : chunks[d].text = {d}
    BY LeavingTheGate DEF AtGate
  <2>2. CASE chunks' = chunks
    <3>1. {l \in DOMAIN chunks' : chunks[c].text \subseteq chunks'[l].text} = {c}
      BY <2>1, <2>2
    <3> QED BY <3>1, <2>2
  <2>3. CASE GateChunksApprove
    <3> DEFINE X == chunks'
    <3>1. Approving /\ Edited(X)
      BY <2>3, ApproveIsApproving, ReviewedIsFlow DEF GateChunksApprove
    <3> HIDE DEF X
    <3>2. PICK k \in DOMAIN X : \A l \in DOMAIN X : c \in X[l].text <=> l = k
      BY <2>1, <3>1, ReviewedText
    <3>3. {l \in DOMAIN X : chunks[c].text \subseteq X[l].text} = {k}
      BY <2>1, <3>2
    <3> QED BY <3>3 DEF X
  <2> QED BY <2>2, <2>3, LeavingTheGate
<1> QED
  BY <1>1, FlowIsTyped, PTL DEF Spec, MergeKeepsText

-----------------------------------------------------------------------------
\* What the serializer has before it when it ships the bundle of some procedures.
Shipping(procs) ==
    /\ pc = "serialize_stix" /\ procs \subseteq approved
    /\ approved \subseteq DOMAIN chunks /\ IsFlow(chunks) /\ OperatorsAreOfFlow
    /\ isSequential \in BOOLEAN
    /\ bundle' = Serialized(procs)
    /\ isSequential' = isSequential /\ chunks' = chunks /\ removedRows' = removedRows

\* A run is done when it ships a bundle, and then stays as it is.
LEMMA OnlyShippingIsDone ==
    ASSUME Inv, Next, pc' = "done"
    PROVE  \E procs : Shipping(procs)
<1>1. SerializeStix
  BY DEF Next, ChunkBehaviors, SubmitChunkReview, GateChunksAuto, GateChunksReject,
         GateChunksApprove, DraftProcedures, SubmitGate1, Gate1, Normalize, Gate2Approve,
         Gate2Reject
<1>2. PICK omitted \in AtMost(scope.omitted, approved) : bundle' = Serialized(approved \ omitted)
  BY <1>1 DEF SerializeStix
<1>3. /\ pc = "serialize_stix" /\ isSequential' = isSequential
      /\ chunks' = chunks /\ removedRows' = removedRows
  BY <1>1 DEF SerializeStix, chunkVars
<1>4. /\ approved \subseteq DOMAIN chunks /\ IsFlow(chunks) /\ OperatorsAreOfFlow
      /\ isSequential \in BOOLEAN
  BY <1>3 DEF Inv, DraftsAreOfChunks
<1> QED
  BY <1>2, <1>3, <1>4 DEF Shipping

\* A shipped operator is one of the serializer's, with its effects in the bundle.
LEMMA ShippedOperator ==
    ASSUME NEW operators, NEW procs, NEW op \in DOMAIN OperatorSdos(operators, procs)
    PROVE  /\ op \in DOMAIN operators
           /\ OperatorSdos(operators, procs)[op] = operators[op].outputs \cap procs
           /\ procs # {}
<1> DEFINE effects == [o \in DOMAIN operators |-> operators[o].outputs \cap procs]
           emitted == {o \in DOMAIN operators :
                          Cardinality(effects[o]) >= IF o.role = "branch" THEN 2 ELSE 1}
<1>1. OperatorSdos(operators, procs) = [o \in emitted |-> effects[o]]
  BY DEF OperatorSdos, Restrict
<1>2. op \in emitted /\ OperatorSdos(operators, procs)[op] = effects[op]
  <2> HIDE DEF emitted, effects
  <2> QED BY <1>1
<1>3. Cardinality(effects[op]) >= IF op.role = "branch" THEN 2 ELSE 1
  BY <1>2
<1>4. effects[op] = operators[op].outputs \cap procs
  BY <1>2
<1>5. effects[op] # {}
  <2> HIDE DEF effects
  <2> QED BY <1>3, FS_EmptySet
<1> QED
  BY <1>2, <1>4, <1>5

\* So is a shipped condition.
LEMMA ShippedCondition ==
    ASSUME NEW conditions, NEW procs, NEW c \in DOMAIN ConditionSdos(conditions, procs)
    PROVE  c \in DOMAIN conditions /\ procs # {}
<1> DEFINE refs == [d \in DOMAIN conditions |-> Targets(conditions[d]) \cap procs]
           emitted == {d \in DOMAIN conditions : refs[d] # {}}
<1>1. ConditionSdos(conditions, procs) = [d \in emitted |-> refs[d]]
  BY DEF ConditionSdos, Restrict
<1>2. c \in emitted
  <2> HIDE DEF emitted, refs
  <2> QED BY <1>1
<1> QED
  BY <1>2

\* What gate_2 leaves of the flow is still finite.
LEMMA PrunedIsFlow ==
    ASSUME IsFlow(chunks)
    PROVE  /\ IsFinite(PrunedFlow) /\ DOMAIN PrunedFlow = DOMAIN chunks
           /\ \A c \in DOMAIN chunks : PrunedFlow[c] \subseteq chunks[c].succ
<1>1. /\ DOMAIN PrunedFlow = DOMAIN chunks
      /\ \A c \in DOMAIN chunks : PrunedFlow[c] \subseteq chunks[c].succ
  BY DEF PrunedFlow
<1>2. UNION Range(PrunedFlow) \subseteq DOMAIN chunks
  BY <1>1 DEF IsFlow, Range
<1> QED
  BY <1>1, <1>2, FS_Subset DEF IsFlow, IsFinite

\* The fields of a bundle.
LEMMA BundleFields ==
    ASSUME NEW procs, Shipping(procs)
    PROVE  /\ bundle'.procs = procs
           /\ bundle'.ops = OperatorSdos(PrunedOperators, procs)
           /\ bundle'.conds = ConditionSdos(chunkConditions, procs)
           /\ isSequential => bundle'.edges =
                 RoutePrecedes(PrunedFlow, bundle'.ops, bundle'.conds, procs)
           /\ ~isSequential => bundle'.edges = {}
BY DEF Shipping, Serialized

\* Whatever was dropped, reordered, removed and omitted on the way, the bundle
\* says of its procedures what the flow says.
THEOREM FlowIsKeptHolds == Spec => []FlowIsKept
<1>1. Init => FlowIsKept
  BY DEF Init, FlowIsKept
<1>2. Inv /\ FlowIsKept /\ [Next]_vars => FlowIsKept'
  <2> SUFFICES ASSUME Inv, FlowIsKept, [Next]_vars PROVE FlowIsKept'
    OBVIOUS
  <2>1. CASE UNCHANGED vars
    BY <2>1 DEF FlowIsKept, PrunedFlow, vars, chunkVars, laterVars
  <2>2. CASE pc' # "done"
    BY <2>2 DEF FlowIsKept
  <2>3. CASE Next /\ pc' = "done"
    <3>1. PICK procs : Shipping(procs)
      BY <2>3, OnlyShippingIsDone
    <3>2. isSequential' = isSequential /\ PrunedFlow' = PrunedFlow /\ bundle'.procs = procs
      BY <3>1, BundleFields DEF Shipping, PrunedFlow
    <3>3. CASE isSequential
      <4>1. IsFiniteSet(procs)
        BY <3>1, FS_Subset DEF Shipping, IsFlow
      <4>2. IsFinite(PrunedFlow)
        BY <3>1, PrunedIsFlow DEF Shipping
      <4>3. bundle'.edges = RoutePrecedes(PrunedFlow, bundle'.ops, bundle'.conds, procs)
        BY <3>1, <3>3, BundleFields
      <4>4. {<<e[1][2], e[2][2]>> : e \in OrderOn(Graph(bundle'.edges), {Proc(c) : c \in procs})}
                = OrderOn(PrunedFlow, procs)
        <5> DEFINE ops == bundle'.ops
                   conds == bundle'.conds
                   edges == bundle'.edges
        <5>1. {<<e[1][2], e[2][2]>> :
                  e \in OrderOn(Graph(RoutePrecedes(PrunedFlow, ops, conds, procs)),
                                {Proc(c) : c \in procs})}
                  = OrderOn(PrunedFlow, procs)
          <6> HIDE DEF ops, conds
          <6> QED BY <4>1, <4>2, RouteKeepsOrder, Zenon
        <5>2. edges = RoutePrecedes(PrunedFlow, ops, conds, procs)
          BY <4>3
        <5> HIDE DEF ops, conds, edges
        <5>3. {<<e[1][2], e[2][2]>> : e \in OrderOn(Graph(edges), {Proc(c) : c \in procs})}
                  = OrderOn(PrunedFlow, procs)
          BY <5>1, <5>2, Zenon
        <5> QED BY <5>3 DEF edges
      <4> QED BY <3>2, <3>3, <4>4 DEF FlowIsKept
    <3>4. CASE ~isSequential
      <4>1. bundle'.edges = {}
        BY <3>1, <3>4, BundleFields
      <4>2. approved # {} => DOMAIN chunkOperators = {} /\ DOMAIN chunkConditions = {}
        BY <3>1, <3>4 DEF Shipping, OperatorsAreOfFlow
      <4>3. procs # {} => approved # {}
        BY <3>1 DEF Shipping
      <4>4. DOMAIN PrunedOperators = DOMAIN chunkOperators
        BY DEF PrunedOperators
      <4>5. DOMAIN bundle'.ops = {}
        <5>1. \A op \in DOMAIN OperatorSdos(PrunedOperators, procs) :
                 op \in DOMAIN PrunedOperators /\ procs # {}
          BY ShippedOperator
        <5> QED BY <3>1, <4>2, <4>3, <4>4, <5>1, BundleFields
      <4>6. DOMAIN bundle'.conds = {}
        <5>1. \A c \in DOMAIN ConditionSdos(chunkConditions, procs) :
                 c \in DOMAIN chunkConditions /\ procs # {}
          BY ShippedCondition
        <5> QED BY <3>1, <4>2, <4>3, <5>1, BundleFields
      <4> QED BY <3>2, <3>4, <4>1, <4>5, <4>6 DEF FlowIsKept
    <3> QED BY <3>1, <3>3, <3>4 DEF Shipping
  <2> QED BY <2>1, <2>2, <2>3
<1> QED
  BY <1>1, <1>2, FlowIsTyped, PTL DEF Spec

\* What gate_2 leaves of a branch: its one source, which has no condition, and
\* successors that were not removed.
LEMMA PrunedBranch ==
    ASSUME NEW procs, Shipping(procs), procs # {}, NEW op \in DOMAIN PrunedOperators,
           op.role = "branch"
    PROVE  /\ isSequential
           /\ \E a \in DOMAIN chunks \ DOMAIN chunkConditions :
                 /\ Anchor(op) = a
                 /\ PrunedOperators[op].outputs \subseteq PrunedFlow[a]
<1> DEFINE entry == chunkOperators[op]
<1>1. op \in DOMAIN chunkOperators /\ approved # {}
  BY DEF PrunedOperators, Shipping
<1>2. isSequential /\ entry = [kind |-> entry.kind, outputs |-> entry.outputs, whole |-> TRUE]
  BY <1>1 DEF Shipping, OperatorsAreOfFlow
<1>3. PICK a \in DOMAIN chunks \ DOMAIN chunkConditions :
          op.inputs = {a} /\ entry.outputs \subseteq chunks[a].succ
  BY <1>1 DEF Shipping, OperatorsAreOfFlow
<1>4. Anchor(op) = a
  BY <1>3 DEF Anchor
<1>5. PrunedOperators[op]
          = [entry EXCEPT !.outputs = {t \in entry.outputs : <<a, t>> \notin removedRows}]
  BY <1>1, <1>4 DEF PrunedOperators
<1> HIDE DEF entry
<1>6. PrunedOperators[op].outputs = {t \in entry.outputs : <<a, t>> \notin removedRows}
  BY <1>2, <1>5
<1>7. PrunedOperators[op].outputs \subseteq PrunedFlow[a]
  BY <1>3, <1>6 DEF PrunedFlow
<1> QED
  BY <1>2, <1>4, <1>7

\* A step of the flow between two procedures of the bundle stays when the flow
\* is bridged.
LEMMA SpliceKeepsSteps ==
    ASSUME NEW flow, NEW procs, NEW a \in DOMAIN flow \cap procs, NEW t \in flow[a] \cap procs,
           t # a
    PROVE  t \in SpliceAbsent(flow, procs)[a]
BY DEF SpliceAbsent

\* The hops from a branch.
LEMMA BranchHops ==
    ASSUME NEW a, NEW t, t # a, NEW nodes, <<"branch", a>> \in nodes,
           NEW conditioned, a \notin conditioned
    PROVE  \/ <<<<"branch", a>>, Proc(t)>> \in Hops(a, t, nodes, conditioned)
           \/ {<<<<"branch", a>>, <<"converge", t>>>>, <<<<"converge", t>>, Proc(t)>>}
                  \subseteq Hops(a, t, nodes, conditioned)
<1> DEFINE b == <<"branch", a>>
           in == IF <<"converge", t>> \in nodes THEN <<"converge", t>> ELSE Proc(t)
<1>1. Hops(a, t, nodes, conditioned)
          = {<<Proc(a), b>>, <<b, in>>, <<in, Proc(t)>>}
                \ {<<Proc(a), Proc(a)>>, <<Proc(t), Proc(t)>>}
  BY DEF Hops
<1>2. b # Proc(a) /\ b # Proc(t)
  BY DEF Proc
<1>3. <<"converge", t>> # Proc(t) /\ <<"converge", t>> # Proc(a)
  BY DEF Proc
<1>4. in = Proc(t) \/ in = <<"converge", t>>
  OBVIOUS
<1> HIDE DEF b, in
<1>5. <<b, in>> \in Hops(a, t, nodes, conditioned)
  BY <1>1, <1>2
<1>6. in # Proc(t) /\ in # Proc(a) => <<in, Proc(t)>> \in Hops(a, t, nodes, conditioned)
  BY <1>1
<1> QED
  BY <1>3, <1>4, <1>5, <1>6 DEF b

\* A branch whose anchor is shipped leads to all its effects but the anchor itself.
THEOREM BranchReachesItsEffectsHolds == Spec => []BranchReachesItsEffects
<1>1. Init => BranchReachesItsEffects
  BY DEF Init, BranchReachesItsEffects
<1>2. Inv /\ BranchReachesItsEffects /\ [Next]_vars => BranchReachesItsEffects'
  <2> SUFFICES ASSUME Inv, BranchReachesItsEffects, [Next]_vars PROVE BranchReachesItsEffects'
    OBVIOUS
  <2>1. CASE UNCHANGED vars
    BY <2>1 DEF BranchReachesItsEffects, LeadsTo, vars, laterVars
  <2>2. CASE pc' # "done"
    BY <2>2 DEF BranchReachesItsEffects
  <2>3. CASE Next /\ pc' = "done"
    <3>1. PICK procs : Shipping(procs)
      BY <2>3, OnlyShippingIsDone
    <3>2. bundle'.procs = procs /\ bundle'.ops = OperatorSdos(PrunedOperators, procs)
      BY <3>1, BundleFields
    <3>3. ASSUME NEW op \in DOMAIN bundle'.ops, op.role = "branch", Anchor(op) \in procs,
                 NEW t \in bundle'.ops[op] \ {Anchor(op)}
          PROVE  LeadsTo(op, t)'
      <4> DEFINE nodes == {OpNode(o) : o \in DOMAIN bundle'.ops}
      <4>1. /\ op \in DOMAIN PrunedOperators /\ procs # {}
            /\ t \in PrunedOperators[op].outputs \cap procs
        BY <3>2, <3>3, ShippedOperator
      <4>2. isSequential
        BY <3>1, <3>3, <4>1, PrunedBranch
      <4>3. PICK a \in DOMAIN chunks \ DOMAIN chunkConditions :
                Anchor(op) = a /\ PrunedOperators[op].outputs \subseteq PrunedFlow[a]
        BY <3>1, <3>3, <4>1, PrunedBranch
      <4>4. t \in PrunedFlow[a] \cap procs /\ t # a /\ a \in DOMAIN PrunedFlow \cap procs
        <5>1. /\ IsFlow(chunks) /\ DOMAIN PrunedFlow = DOMAIN chunks
              /\ PrunedFlow[a] \subseteq chunks[a].succ
          BY <3>1, PrunedIsFlow DEF Shipping
        <5> QED BY <3>3, <4>1, <4>3, <5>1
      <4>5. t \in SpliceAbsent(PrunedFlow, procs)[a]
        BY <4>4, SpliceKeepsSteps
      <4>6. OpNode(op) = <<"branch", a>> /\ <<"branch", a>> \in nodes
        BY <3>3, <4>3 DEF OpNode
      <4>7. a \notin DOMAIN bundle'.conds
        BY <3>1, <4>3, BundleFields, ShippedCondition
      <4>8. \A e \in Hops(a, t, nodes, DOMAIN bundle'.conds) : e \in bundle'.edges
        <5>1. bundle'.edges = RoutePrecedes(PrunedFlow, bundle'.ops, bundle'.conds, procs)
          BY <3>1, <4>2, BundleFields
        <5> DEFINE ops == bundle'.ops
                   conds == bundle'.conds
                   edges == bundle'.edges
        <5>2. edges = RoutePrecedes(PrunedFlow, ops, conds, procs)
          BY <5>1
        <5> HIDE DEF ops, conds, edges
        <5>3. a \in DOMAIN PrunedFlow \cap procs
          BY <4>4
        <5>4. \A e \in Hops(a, t, {OpNode(o) : o \in DOMAIN ops}, DOMAIN conds) :
                 e \in RoutePrecedes(PrunedFlow, ops, conds, procs)
          <6> SUFFICES ASSUME NEW e \in Hops(a, t, {OpNode(o) : o \in DOMAIN ops}, DOMAIN conds)
                       PROVE  e \in RoutePrecedes(PrunedFlow, ops, conds, procs)
            OBVIOUS
          <6> QED BY <5>3, <4>5, RouteIsHops, Zenon
        <5>5. \A e \in Hops(a, t, {OpNode(o) : o \in DOMAIN ops}, DOMAIN conds) : e \in edges
          BY <5>2, <5>4, Zenon
        <5> QED BY <5>5 DEF ops, conds, edges
      <4>9. \/ <<<<"branch", a>>, Proc(t)>> \in Hops(a, t, nodes, DOMAIN bundle'.conds)
            \/ {<<<<"branch", a>>, <<"converge", t>>>>, <<<<"converge", t>>, Proc(t)>>}
                  \subseteq Hops(a, t, nodes, DOMAIN bundle'.conds)
        <5> HIDE DEF nodes
        <5> QED BY <4>4, <4>6, <4>7, BranchHops
      <4> HIDE DEF nodes
      <4> QED BY <4>6, <4>8, <4>9 DEF LeadsTo
    <3> QED BY <3>2, <3>3 DEF BranchReachesItsEffects
  <2> QED BY <2>1, <2>2, <2>3
<1> QED
  BY <1>1, <1>2, FlowIsTyped, PTL DEF Spec

=============================================================================
