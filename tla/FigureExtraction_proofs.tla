----------------------- MODULE FigureExtraction_proofs -----------------------
(***************************************************************************)
(* Proofs about FigureExtraction, for any calls, keys, answers, documents, *)
(* slots and runs: the cache serves only what validates, its rows are      *)
(* final, and every figure ends at its own placeholder.                    *)
(***************************************************************************)
EXTENDS FigureExtraction, TLAPS

(***************************************************************************)
(* The adapter.  A task about to store holds an answer that validates.     *)
(***************************************************************************)
Active == {"lookup", "generate", "store"}

CallType ==
    [pc : {"idle"} \cup Active \cup Ended, key : Keys \cup {"none"},
     bypass : BOOLEAN, attempt : Nat, answer : AnswerType \cup {Nothing}]

CallsTyped == call \in [Calls -> CallType] /\ cache \in [Keys -> AnswerType \cup {Nothing}]

CallsSound ==
    \A c \in Calls :
        /\ call[c].pc \in Active => call[c].key \in Keys
        /\ call[c].pc = "store" => call[c].answer \in AnswerType /\ Validates(call[c].answer)

AdapterInv == CallsTyped /\ CallsSound /\ RowsServe

\* What _validate_with_salvage accepts validates once it is repaired.
LEMMA FinalValidates ==
    ASSUME NEW a \in AnswerType, Accepted(a)
    PROVE  Final(a) \in AnswerType /\ Validates(Final(a))
<1> DEFINE r == Repaired(a)
<1>1. r \in AnswerType
  BY DEF AnswerType, Repaired
<1>2. CASE Validates(r)
  BY <1>1, <1>2 DEF Final
<1>3. CASE ~Validates(r)
  <2>1. Salvageable(r) /\ Final(a) = Salvaged(r)
    BY <1>3 DEF Accepted, Final
  <2> HIDE DEF r
  <2>2. r.items \in Nat /\ r.bad \in Nat /\ r.items - r.bad \in Nat
    BY <1>1, <2>1 DEF AnswerType, Salvageable
  <2>3. /\ Salvaged(r).shape = r.shape /\ Salvaged(r).bad = 0
        /\ Salvaged(r) \in AnswerType
    BY <1>1, <2>2 DEF AnswerType, Salvaged
  <2> QED BY <2>1, <2>3 DEF Validates, Salvageable, r
<1> QED BY <1>2, <1>3

\* A step of one invocation touches its own record, keeps its key, and leaves
\* it where the code goes on; and what it does to the cache is an upsert.
LEMMA CallStepShape ==
    ASSUME CallsTyped, CallsSound, NEW c \in Calls, CallStep(c)
    PROVE  /\ call[c].pc \in Active
           /\ call' \in [Calls -> CallType]
           /\ \A d \in Calls \ {c} : call'[d] = call[d]
           /\ call'[c].key = call[c].key
           /\ call'[c].pc \in {"generate", "store"} \cup Ended
           /\ call'[c].pc = "store" => call'[c].answer \in AnswerType /\ Validates(call'[c].answer)
           /\ \/ UNCHANGED cache
              \/ call[c].pc = "store" /\ Upsert(call[c].key, call[c].answer)
<1> USE DEF CallsTyped
<1>0. /\ call[c] \in CallType /\ DOMAIN call = Calls
      /\ Nothing \in AnswerType \cup {Nothing} /\ 0 \in Nat /\ 1 \in Nat
      /\ call[c].pc \in Active => cache[call[c].key] \in AnswerType \cup {Nothing}
  BY DEF CallsSound
\* The three ways in which a step changes the record.
<1>a. ASSUME NEW pc \in Ended, NEW a \in AnswerType \cup {Nothing}, End(c, pc, a)
      PROVE  /\ call' \in [Calls -> CallType] /\ \A d \in Calls \ {c} : call'[d] = call[d]
             /\ call'[c].key = call[c].key /\ call'[c].pc = pc
  BY <1>0, <1>a DEF End, CallType
<1>b. ASSUME NEW n \in Nat, call' = [call EXCEPT ![c].pc = "generate", ![c].attempt = n]
      PROVE  /\ call' \in [Calls -> CallType] /\ \A d \in Calls \ {c} : call'[d] = call[d]
             /\ call'[c].key = call[c].key /\ call'[c].pc = "generate"
  BY <1>0, <1>b DEF CallType, Active
<1>c. ASSUME NEW a \in AnswerType, call' = [call EXCEPT ![c].pc = "store", ![c].answer = a]
      PROVE  /\ call' \in [Calls -> CallType] /\ \A d \in Calls \ {c} : call'[d] = call[d]
             /\ call'[c].key = call[c].key /\ call'[c].pc = "store" /\ call'[c].answer = a
  BY <1>0, <1>c DEF CallType, Active
<1>d. ASSUME call[c].pc = "generate", call' = [call EXCEPT ![c].attempt = @ + 1]
      PROVE  /\ call' \in [Calls -> CallType] /\ \A d \in Calls \ {c} : call'[d] = call[d]
             /\ call'[c].key = call[c].key /\ call'[c].pc = "generate"
  BY <1>0, <1>d DEF CallType
<1>e. "returned" \in Ended /\ "raised" \in Ended /\ "generate" \notin Ended /\ "store" \notin Ended
      /\ "lookup" \in Active /\ "generate" \in Active /\ "store" \in Active
  BY DEF Ended, Active
<1>f. ASSUME call[c].pc = "generate", RetryOrRaise(c)
      PROVE  /\ call' \in [Calls -> CallType] /\ \A d \in Calls \ {c} : call'[d] = call[d]
             /\ call'[c].key = call[c].key /\ call'[c].pc \in {"generate"} \cup Ended
             /\ UNCHANGED cache
  BY <1>a, <1>d, <1>e, <1>f, <1>0 DEF RetryOrRaise
<1>1. CASE Hit(c)
  BY <1>1, <1>0, <1>a, <1>e DEF Hit
<1>2. CASE Miss(c)
  BY <1>2, <1>0, <1>b, <1>e DEF Miss
<1>3. CASE Reply(c)
  <2>1. ASSUME call[c].pc = "generate", NEW a \in Answers[call[c].key], Answered(c, a)
        PROVE  /\ call' \in [Calls -> CallType] /\ \A d \in Calls \ {c} : call'[d] = call[d]
               /\ call'[c].key = call[c].key /\ call'[c].pc \in {"store"} \cup Ended
               /\ call'[c].pc = "store" => call'[c].answer \in AnswerType /\ Validates(call'[c].answer)
               /\ UNCHANGED cache
    <3>1. call[c].key \in Keys /\ a \in AnswerType
      BY <2>1, <1>e, CallsAssumption DEF CallsSound
    <3>2. Final(a) \in AnswerType /\ Validates(Final(a))
      BY <2>1, <3>1, FinalValidates DEF Answered
    <3> QED BY <2>1, <3>2, <1>a, <1>c, <1>e DEF Answered
  <2>2. CASE Fails(c)
    BY <2>2, <1>0, <1>a, <1>e DEF Fails
  <2>3. CASE Refused(c)
    BY <2>3, <1>f, <1>e DEF Refused
  <2>4. ASSUME NEW a, Invalid(c, a)
        PROVE  call[c].pc = "generate" /\ RetryOrRaise(c)
    BY <2>4 DEF Invalid
  <2> QED BY <1>3, <2>1, <2>2, <2>3, <2>4, <1>f, <1>e DEF Reply
<1>4. CASE Store(c)
  BY <1>4, <1>0, <1>a, <1>e DEF Store, CallsSound
<1> QED BY <1>1, <1>2, <1>3, <1>4 DEF CallStep

\* Any step of call_llm keeps the cache serving, and every row of it as it is.
LEMMA CallStepKeeps ==
    ASSUME AdapterInv, NEW c \in Calls, CallStep(c)
    PROVE  AdapterInv' /\ \A k \in Keys : cache[k] # Nothing => cache'[k] = cache[k]
<1>1. CallsTyped /\ CallsSound /\ RowsServe
  BY DEF AdapterInv
<1>2. CallsSound'
  BY <1>1, CallStepShape DEF CallsSound, Active, Ended
<1>3. /\ cache' \in [Keys -> AnswerType \cup {Nothing}] /\ RowsServe'
      /\ \A k \in Keys : cache[k] # Nothing => cache'[k] = cache[k]
  <2>1. CASE UNCHANGED cache
    BY <2>1, <1>1 DEF CallsTyped, RowsServe
  <2>2. CASE call[c].pc = "store" /\ Upsert(call[c].key, call[c].answer)
    <3>1. /\ call[c].key \in Keys /\ call[c].answer \in AnswerType
          /\ Validates(call[c].answer)
      BY <1>1, <2>2 DEF CallsSound, Active
    <3> QED BY <3>1, <2>2, <1>1 DEF Upsert, CallsTyped, RowsServe
  <2> QED BY <2>1, <2>2, <1>1, CallStepShape
<1> QED BY <1>1, <1>2, <1>3, CallStepShape DEF AdapterInv, CallsTyped

\* So does its beginning, which moves the invocation out of idle.
LEMMA InvokeKeeps ==
    ASSUME AdapterInv, NEW c \in Calls, NEW k \in Keys, NEW bypass \in BOOLEAN,
           call[c].pc = "idle", Invoke(c, k, bypass)
    PROVE  /\ AdapterInv' /\ UNCHANGED cache
           /\ \A d \in Calls \ {c} : call'[d] = call[d]
           /\ call'[c].key = k /\ call'[c].pc \in {"lookup", "generate"}
<1>1. UNCHANGED cache
  BY DEF Invoke
<1>2. Idle \in CallType
  BY DEF Idle, CallType, Active, Ended
<1> DEFINE r == [Idle EXCEPT !.pc = IF bypass THEN "generate" ELSE "lookup",
                      !.key = k, !.bypass = bypass, !.attempt = IF bypass THEN 1 ELSE 0]
<1>3. r \in CallType /\ r.key = k /\ r.pc \in {"lookup", "generate"}
  BY <1>2 DEF CallType, Active
<1>4. call' = [call EXCEPT ![c] = r]
  BY DEF Invoke
<1> HIDE DEF r
<1>5. CallsTyped' /\ call'[c] = r /\ \A d \in Calls \ {c} : call'[d] = call[d]
  BY <1>1, <1>3, <1>4 DEF AdapterInv, CallsTyped
<1>6. CallsSound' /\ RowsServe'
  BY <1>1, <1>3, <1>5 DEF AdapterInv, CallsSound, RowsServe, Active
<1> QED BY <1>1, <1>3, <1>5, <1>6 DEF AdapterInv

(***************************************************************************)
(* The figures.  A figure that waits or is asked about is an image; what a *)
(* settled entry holds came from the picture at its own place.             *)
(***************************************************************************)
Settled(e, picture) ==
    /\ e.status \in {"pending", "failed", "skipped", "extracted"}
    /\ e.status = "extracted" => e.what = picture /\ picture \in Keys
    /\ picture = "blank" => e.status = "failed"

GatherInv ==
    /\ DOMAIN entries = Figures
    /\ waiting \subseteq Figures
    /\ \A i \in Figures :
          /\ pictures[i] \in {doc.pictures[i], "blank"}
          /\ i \in waiting => call[i].pc = "idle" /\ pictures[i] \in Keys
          /\ call[i].pc \in Active => call[i].key = pictures[i] /\ pictures[i] \in Keys
          /\ Settled(entries[i], doc.pictures[i])

FigureInv ==
    /\ doc \in [pictures : Documents, wanted : BOOLEAN, concurrency : Concurrencies]
    /\ node \in {"parse", "load", "gather", "done"}
    /\ stash \in {{}, {doc.pictures}}
    /\ node \in {"parse", "load"} => \A i \in Figures : call[i].pc = "idle"
    /\ node = "load" => text = Placeholders
    /\ node = "gather" => GatherInv
    /\ FigureInItsPlace

Inv == AdapterInv /\ FigureInv

\* Figures are calls of this node and of no other; an image is no marker.
LEMMA DocumentFacts ==
    ASSUME FigureInv
    PROVE  /\ Figures \subseteq Calls /\ Figures \cap Others = {}
           /\ \A i \in Figures : doc.pictures[i] \in Pictures
           /\ Pictures = {"tiny", "blank"} \cup Keys
           /\ Keys \cap {"tiny", "blank", "placeholder", "removed"} = {}
<1>1. doc.pictures \in Documents
  BY DEF FigureInv
<1>2. doc.pictures \in Seq(Pictures) /\ Figures \subseteq Calls \ Others
  BY <1>1, FiguresAssumption DEF Figures
<1>3. \A i \in Figures : doc.pictures[i] \in Pictures
  BY <1>2 DEF Figures
<1> QED BY <1>2, <1>3, FiguresAssumption DEF Pictures

\* Steps of the figures' own calls, and of others', keep the places.
LEMMA StepsKeepFigures ==
    ASSUME Inv, NEW c \in Calls, StepFigure(c) \/ InvokeOther(c) \/ StepOther(c)
    PROVE  FigureInv' /\ AdapterInv'
           /\ \A k \in Keys : cache[k] # Nothing => cache'[k] = cache[k]
<1>0. AdapterInv /\ FigureInv /\ CallsTyped /\ CallsSound
  BY DEF Inv, AdapterInv
<1>1. CASE StepFigure(c)
  <2>1. /\ node = "gather" /\ c \in Figures /\ CallStep(c)
        /\ UNCHANGED <<doc, node, stash, pictures, waiting, text>>
    BY <1>1 DEF StepFigure
  <2>2. AdapterInv' /\ \A k \in Keys : cache[k] # Nothing => cache'[k] = cache[k]
    BY <1>0, <2>1, CallStepKeeps
  <2>3. /\ GatherInv /\ pictures[c] \in Keys /\ call'[c].key = pictures[c]
        /\ doc.pictures[c] = pictures[c] /\ pictures[c] # "blank" /\ c \notin waiting
        /\ \A d \in Figures \ {c} : call'[d] = call[d]
    <3>1. GatherInv /\ call[c].pc \in Active /\ call'[c].key = call[c].key
          /\ \A d \in Calls \ {c} : call'[d] = call[d]
      BY <1>0, <2>1, CallStepShape DEF FigureInv
    <3>2. c \notin waiting
      BY <3>1, <2>1 DEF GatherInv, Active
    <3> QED BY <1>0, <2>1, <3>1, <3>2, DocumentFacts DEF GatherInv
  <2>4. /\ DOMAIN entries' = Figures
        /\ \A i \in Figures : Settled(entries'[i], doc.pictures[i])
    <3>1. CASE call'[c].pc \in Ended
      <4>1. entries' = [entries EXCEPT ![c] = Outcome(call'[c])]
        BY <1>1, <3>1 DEF StepFigure
      <4>2. Settled(Outcome(call'[c]), doc.pictures[c])
        BY <2>3 DEF Settled, Outcome, Entry
      <4> QED BY <4>1, <4>2, <2>3 DEF GatherInv
    <3>2. CASE call'[c].pc \notin Ended
      BY <1>1, <3>2, <2>3 DEF StepFigure, GatherInv
    <3> QED BY <3>1, <3>2
  <2>5. GatherInv'
    BY <2>1, <2>3, <2>4 DEF GatherInv, Figures
  <2>6. FigureInItsPlace'
    BY <2>1 DEF FigureInItsPlace
  <2> QED BY <1>0, <2>1, <2>2, <2>5, <2>6 DEF FigureInv
<1>2. CASE InvokeOther(c) \/ StepOther(c)
  <2>1. c \in Others /\ UNCHANGED figureVars
    BY <1>2 DEF InvokeOther, StepOther
  <2>2. /\ AdapterInv' /\ \A d \in Calls \ {c} : call'[d] = call[d]
        /\ \A k \in Keys : cache[k] # Nothing => cache'[k] = cache[k]
    <3>1. CASE InvokeOther(c)
      <4>1. PICK k \in Keys, bypass \in BOOLEAN : call[c].pc = "idle" /\ Invoke(c, k, bypass)
        BY <3>1, FiguresAssumption DEF InvokeOther
      <4> QED BY <1>0, <4>1, InvokeKeeps
    <3>2. CASE StepOther(c)
      BY <1>0, <3>2, CallStepShape, CallStepKeeps DEF StepOther
    <3> QED BY <1>2, <3>1, <3>2
  <2>3. \A i \in Figures : call'[i] = call[i]
    BY <1>0, <2>1, <2>2, DocumentFacts
  <2>4. FigureInv'
    <3> USE <2>1, <2>3 DEF figureVars
    <3>1. (node = "gather" => GatherInv)' /\ Figures' = Figures
      BY <1>0 DEF FigureInv, GatherInv, Figures
    <3> QED BY <1>0, <3>1 DEF FigureInv, FigureInItsPlace, Placeholders
  <2> QED BY <2>2, <2>4
<1> QED BY <1>1, <1>2

\* The inductive invariant of FigureExtraction: what the cache serves validates,
\* and every entry, waiting figure and running call belongs to its own picture.
THEOREM InvHolds == Spec => []Inv
<1>1. Init => Inv
  <2> SUFFICES ASSUME Init PROVE Inv
    OBVIOUS
  <2>1. Idle \in CallType /\ Idle.pc = "idle"
    BY DEF Idle, CallType, Active, Ended
  <2>2. AdapterInv
    BY <2>1 DEF Init, AdapterInit, AdapterInv, CallsTyped, CallsSound, RowsServe, Active
  <2>3. FigureInv
    <3>1. doc.pictures \in Documents
      BY DEF Init
    <3>2. Figures \subseteq Calls
      BY <3>1, FiguresAssumption DEF Figures
    <3> QED BY <2>1, <3>2 DEF Init, AdapterInit, FigureInv, FigureInItsPlace
  <2> QED BY <2>2, <2>3 DEF Inv
<1>2. Inv /\ [Next]_vars => Inv'
  <2> SUFFICES ASSUME Inv, [Next]_vars PROVE Inv'
    OBVIOUS
  <2>0. AdapterInv /\ FigureInv
    BY DEF Inv
  <2>a. ASSUME UNCHANGED <<cache, call>> PROVE AdapterInv'
    BY <2>a, <2>0 DEF AdapterInv, CallsTyped, CallsSound, RowsServe
  <2>b. ASSUME UNCHANGED doc PROVE Figures' = Figures /\ Placeholders' = Placeholders
    BY <2>b DEF Figures, Placeholders
  <2>1. CASE Parse
    <3>1. UNCHANGED <<cache, call, doc>> /\ node' = "load" /\ text' = Placeholders
          /\ stash' \in Stashes /\ node = "parse"
      BY <2>1 DEF Parse
    <3>2. stash' \in {{}, {doc.pictures}}
      BY <3>1, <2>0 DEF Stashes, FigureInv
    <3> QED BY <3>1, <3>2, <2>0, <2>a, <2>b DEF Inv, FigureInv, FigureInItsPlace
  <2>2. CASE SkipFigures \/ LoadFails
    <3>1. /\ UNCHANGED <<cache, call, doc, stash, text>> /\ node = "load" /\ node' = "done"
          /\ text = Placeholders
          /\ Figures = {} \/ entries' = <<>> \/ entries' = <<Entry("failed", "none")>>
      BY <2>2, <2>0 DEF SkipFigures, LoadFails, FigureInv
    <3>2. FigureInItsPlace'
      <4>1. \A i \in Figures : text'[i] = "placeholder"
        BY <3>1 DEF Placeholders
      <4>2. ASSUME NEW i \in Figures, DOMAIN entries' = Figures
            PROVE  entries'[i].status = "failed"
        BY <4>2, <3>1 DEF Entry
      <4> QED BY <4>1, <4>2, <3>1, <2>b DEF FigureInItsPlace
    <3> QED BY <3>1, <3>2, <2>0, <2>a, <2>b DEF Inv, FigureInv
  <2>3. CASE Gather
    <3>1. /\ UNCHANGED <<cache, call, doc, stash, text>> /\ node = "load" /\ node' = "gather"
          /\ pictures' \in Loadable /\ entries' = FirstEntries(pictures')
          /\ waiting' = Figures \ AtOnce(pictures')
      BY <2>3 DEF Gather
    <3>2. DOMAIN pictures' = Figures
          /\ \A i \in Figures : pictures'[i] \in {doc.pictures[i], "blank"}
      BY <3>1, <2>0 DEF Loadable, FigureInv, Figures
    <3>3. ASSUME NEW i \in Figures
          PROVE  /\ i \in waiting' => pictures'[i] \in Keys
                 /\ Settled(entries'[i], doc.pictures[i])
      <4>1. pictures'[i] \in {"tiny", "blank"} \cup Keys
        BY <3>2, <2>0, DocumentFacts
      <4>2. entries'[i] = IF pictures'[i] = "tiny" THEN Entry("skipped", "none")
                          ELSE IF pictures'[i] = "blank" THEN Entry("failed", "none")
                          ELSE Entry("pending", "none")
        BY <3>1, <3>2 DEF FirstEntries
      <4> QED BY <3>1, <3>2, <4>1, <4>2 DEF AtOnce, Settled, Entry
    <3>4. GatherInv'
      <4>1. DOMAIN entries' = Figures /\ waiting' \subseteq Figures
        BY <3>1, <3>2 DEF FirstEntries
      <4>2. \A i \in Figures : call'[i].pc = "idle"
        BY <3>1, <2>0 DEF FigureInv
      <4> QED BY <3>1, <3>2, <3>3, <4>1, <4>2, <2>b DEF GatherInv, Active
    <3> QED BY <3>1, <3>4, <2>0, <2>a, <2>b DEF Inv, FigureInv, FigureInItsPlace
  <2>4. CASE Place
    <3>1. /\ UNCHANGED <<cache, call, doc, stash, entries>> /\ node = "gather" /\ node' = "done"
          /\ text' = Replaced /\ \A i \in Figures : entries[i].status # "pending"
      BY <2>4 DEF Place
    <3>2. GatherInv
      BY <3>1, <2>0 DEF FigureInv
    <3>3. ASSUME NEW i \in Figures
          PROVE  /\ text'[i] \in {"placeholder", "removed", doc.pictures[i]}
                 /\ doc.pictures[i] = "blank" => text'[i] = "placeholder"
                 /\ text'[i] = "placeholder" <=> entries[i].status = "failed"
      <4>1. text'[i] = Replacement(i)
        BY <3>1 DEF Replaced
      <4>2. Settled(entries[i], doc.pictures[i])
        BY <3>2 DEF GatherInv
      <4> QED BY <3>1, <4>1, <4>2, <2>0, DocumentFacts DEF Replacement, Settled
    <3>4. FigureInItsPlace'
      BY <3>1, <3>3, <2>b DEF FigureInItsPlace
    <3> QED BY <3>1, <3>4, <2>0, <2>a, <2>b DEF Inv, FigureInv
  <2>5. ASSUME NEW i \in Figures, Acquire(i) PROVE Inv'
    <3>1. /\ UNCHANGED <<doc, node, stash, pictures, entries, text>> /\ node = "gather"
          /\ i \in waiting /\ waiting' = waiting \ {i} /\ Invoke(i, pictures[i], FALSE)
      BY <2>5 DEF Acquire
    <3>2. GatherInv /\ i \in Calls /\ call[i].pc = "idle" /\ pictures[i] \in Keys
      BY <3>1, <2>0, DocumentFacts DEF FigureInv, GatherInv
    <3>3. /\ AdapterInv' /\ \A d \in Calls \ {i} : call'[d] = call[d]
          /\ call'[i].key = pictures[i]
      BY <3>1, <3>2, <2>0, InvokeKeeps
    <3>4. GatherInv'
      BY <3>1, <3>2, <3>3, <2>0, <2>b, DocumentFacts DEF GatherInv
    <3> QED BY <3>1, <3>3, <3>4, <2>0, <2>b DEF Inv, FigureInv, FigureInItsPlace
  <2>6. CASE Restart
    <3>1. /\ UNCHANGED <<cache, doc, stash>> /\ node' = "parse"
          /\ call' = [c \in Calls |-> Idle]
      BY <2>6 DEF Restart
    <3>2. Idle \in CallType /\ Idle.pc = "idle"
      BY DEF Idle, CallType, Active, Ended
    <3>3. AdapterInv'
      BY <3>1, <3>2, <2>0 DEF AdapterInv, CallsTyped, CallsSound, RowsServe, Active
    <3>4. \A i \in Figures : call'[i].pc = "idle"
      BY <3>1, <3>2, <2>0, DocumentFacts
    <3> QED BY <3>1, <3>3, <3>4, <2>0, <2>b DEF Inv, FigureInv, FigureInItsPlace
  <2>7. ASSUME NEW c \in Calls, StepFigure(c) \/ InvokeOther(c) \/ StepOther(c) PROVE Inv'
    BY <2>7, StepsKeepFigures DEF Inv
  <2>8. CASE UNCHANGED vars
    <3>1. UNCHANGED <<cache, call, doc, node, stash, pictures, waiting, entries, text>>
      BY <2>8 DEF vars, figureVars
    <3>2. (node = "gather" => GatherInv)'
      BY <3>1, <2>0, <2>b DEF FigureInv, GatherInv
    <3> QED BY <3>1, <3>2, <2>0, <2>a, <2>b DEF Inv, FigureInv, FigureInItsPlace
  <2> QED BY <2>1, <2>2, <2>3, <2>4, <2>5, <2>6, <2>7, <2>8 DEF Next, Node
<1> QED BY <1>1, <1>2, PTL DEF Spec

\* A hit of the cache never raises, whatever the model answered and however the
\* calls of several nodes interleave (llm_adapter.py:902).
THEOREM RowsServeHolds == Spec => []RowsServe
<1>1. Inv => RowsServe
  BY DEF Inv, AdapterInv
<1> QED BY <1>1, InvHolds, PTL

\* Whoever stores first decides for good (llm_cache_store.py:72).
THEOREM RowsAreFinalHolds == Spec => RowsAreFinal
<1> DEFINE Final1 == \A k \in Keys : cache[k] # Nothing => (cache'[k] = cache[k])
<1>1. Inv /\ [Next]_vars => [Final1]_adapterVars
  <2> SUFFICES ASSUME Inv, [Next]_vars PROVE Final1
    BY DEF adapterVars
  <2>1. ASSUME NEW c \in Calls, StepFigure(c) \/ InvokeOther(c) \/ StepOther(c) PROVE Final1
    BY <2>1, StepsKeepFigures
  <2>2. CASE Node \/ Restart
    <3>1. UNCHANGED cache
      BY <2>2 DEF Node, Restart, Parse, SkipFigures, Gather, LoadFails, Place, Acquire, Invoke
    <3> QED BY <3>1
  <2>3. CASE UNCHANGED vars
    BY <2>3 DEF vars
  <2> QED BY <2>1, <2>2, <2>3 DEF Next
<1> HIDE DEF Final1
<1>2. Spec => [][Final1]_adapterVars
  BY <1>1, InvHolds, PTL DEF Spec
<1> QED BY <1>2 DEF RowsAreFinal, Final1

\* The text at the Nth placeholder is that of the Nth picture, in whatever order
\* the calls return, with any number of slots and restarts
\* (figure_extraction.py:271).
THEOREM FigureInItsPlaceHolds == Spec => []FigureInItsPlace
<1>1. Inv => FigureInItsPlace
  BY DEF Inv, FigureInv
<1> QED BY <1>1, InvHolds, PTL

=============================================================================
