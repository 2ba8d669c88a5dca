---------------------------- MODULE ReviewedBundle ----------------------------
(***************************************************************************)
(* From the reviewed entities to the verdict on the bundle: gate_0, the    *)
(* drafting that reads its result, normalize, gate_2 with its loop back to *)
(* normalize, serialize_stix and validate_bundle, with what the analyst    *)
(* and the models may answer at each.                                      *)
(***************************************************************************)
EXTENDS BundleAssembly, FiniteSetsExt

CONSTANTS Flagged,       \* entities the extractor marked denylisted or low_confidence
          Corrected(_),  \* types an analyst may correct an entity to
          Draftings(_),  \* what drafting may make of a draft
          Additions,     \* keys of rows an analyst may add at gate_2, or edit one to
          MaxReviewed,   \* bound: entities an analyst touches at gate_0
          MaxRejections  \* bound: batch rejections of the bundle

\* What resolves is in the catalogue, and _detect_vulnerability_refs finds its
\* mentions among the reviewed entities.
ASSUME DraftingsAssumption ==
    \A d \in Drafts :
        /\ Draftings(d) # {}
        /\ \A outcome \in Draftings(d) : /\ Resolved(outcome) \subseteq Techniques
                                         /\ outcome.mentions \subseteq Entities

VARIABLES phase, entities, sequential, drafts, preview, decision, rejections,
          bundle, corrections, verdict

vars == <<phase, entities, sequential, drafts, preview, decision, rejections,
          bundle, corrections, verdict>>

NoDecision == [removed |-> {}, edited |-> {}, added |-> {}]

NoBundle == [objects |-> {}, sros |-> {}]

Unreviewed(e) == [action |-> IF e \in Flagged THEN "remove" ELSE "approve", type |-> Kind[e]]

Init ==
    /\ phase = "gate_0"
    /\ entities = [e \in Entities |-> Unreviewed(e)]
    /\ sequential \in BOOLEAN
    /\ drafts = [d \in Drafts |-> CHOOSE outcome \in Draftings(d) : TRUE]
    /\ preview = {} /\ decision = NoDecision /\ rejections = 0
    /\ bundle = NoBundle /\ corrections = {} /\ verdict = "none"

---------------------------------------------------------------------------
(* gate_0: an entity nobody touched keeps its default; a review overrides  *)
(* the automatic removal.                                                  *)

Reviews(e) ==
    {[action |-> a, type |-> Kind[e]] : a \in {"approve", "remove"}}
    \cup {[action |-> "edit", type |-> t] : t \in Corrected(e)}

Gate0 ==
    /\ phase = "gate_0"
    /\ \E touched \in UNION {kSubset(n, Entities) : n \in 0 .. MaxReviewed} :
         \E review \in [touched -> UNION {Reviews(e) : e \in touched}] :
            /\ \A e \in touched : review[e] \in Reviews(e)
            /\ entities' = [e \in Entities |-> IF e \in touched THEN review[e] ELSE Unreviewed(e)]
    /\ phase' = "draft"
    /\ UNCHANGED <<sequential, drafts, preview, decision, rejections, bundle, corrections, verdict>>

\* draft_procedures and extract_techniques: what the models answer.
Draft ==
    /\ phase = "draft"
    /\ \E outcome \in [Drafts -> UNION {Draftings(d) : d \in Drafts}] :
         /\ \A d \in Drafts : outcome[d] \in Draftings(d)
         /\ drafts' = outcome
    /\ phase' = "normalize"
    /\ UNCHANGED <<entities, sequential, preview, decision, rejections, bundle, corrections, verdict>>

Normalize ==
    /\ phase = "normalize"
    /\ preview' = Preview(entities, drafts, sequential)
    /\ phase' = "gate_2"
    /\ UNCHANGED <<entities, sequential, drafts, decision, rejections, bundle, corrections, verdict>>

---------------------------------------------------------------------------
(* gate_2 *)

\* What a review makes of one row: gone, rewritten, or new.  Bound: a review
\* touches one row; the removals and additions of several do not interact.
Touches ==
    {[NoDecision EXCEPT !.removed = {r}] : r \in preview}
    \cup {[NoDecision EXCEPT !.edited = {[original |-> r, edited |-> key]}] :
             r \in preview, key \in Additions}
    \cup {[NoDecision EXCEPT !.added = {key}] : key \in Additions}

\* _process_per_relationship_reviews: what is not mentioned is approved, and
\* the bundle always proceeds.
ReviewRows ==
    /\ phase = "gate_2"
    /\ decision' \in {NoDecision} \cup Touches
    /\ phase' = "serialize"
    /\ UNCHANGED <<entities, sequential, drafts, preview, rejections, bundle, corrections, verdict>>

\* The batch rejection removes every row and loops back: normalize derives
\* the preview again and the next review overwrites the decision.
RejectBatch ==
    /\ phase = "gate_2"
    /\ rejections < MaxRejections
    /\ decision' = [NoDecision EXCEPT !.removed = preview]
    /\ rejections' = rejections + 1
    /\ phase' = "normalize"
    /\ UNCHANGED <<entities, sequential, drafts, preview, bundle, corrections, verdict>>

---------------------------------------------------------------------------
Serialize ==
    /\ phase = "serialize"
    /\ \E online \in BOOLEAN :
         bundle' = Serialized(entities, drafts, sequential, online, decision)
    /\ corrections' = Omissions(drafts)
    /\ phase' = "validate"
    /\ UNCHANGED <<entities, sequential, drafts, preview, decision, rejections, verdict>>

Fixed(b) == AutoFixed(Recovered(b, Techniques), sequential, Techniques)

\* A bug of the kind: the record starts anew and the omissions are forgotten.
CollectedAfresh(b) == FixesOf(b, Fixed(b)) \cup HardFails(Fixed(b), Techniques)

\* _validate_bundle_impl adds to the corrections the serializer recorded.
Collected(b) == corrections \cup FixesOf(b, Fixed(b)) \cup HardFails(Fixed(b), Techniques)

Validate ==
    /\ phase = "validate"
    /\ bundle' = Fixed(bundle)
    /\ corrections' = Collected(bundle)
    /\ verdict' = IF HardFails(Fixed(bundle), Techniques) = {} THEN "passed" ELSE "failed"
    /\ phase' = "done"
    /\ UNCHANGED <<entities, sequential, drafts, preview, decision, rejections>>

Next == Gate0 \/ Draft \/ Normalize \/ ReviewRows \/ RejectBatch \/ Serialize \/ Validate

Spec == Init /\ [][Next]_vars

---------------------------------------------------------------------------
(* Properties *)

Ships(triple) == \E r \in bundle.sros : Content(r) = triple

\* What the auto-fixes did to a relationship, and said: one whose ends they take
\* for swapped ships turned round (an entity keeps the relationships of the type
\* it was extracted with, whatever the analyst corrected it to).
Repaired(triple) ==
    /\ Correction("relationship_fixed", triple) \in corrections
    /\ Ships(<<triple[3], triple[2], triple[1]>>)

\* An untouched row ships, was repaired, or is missing with an omitted draft.
Accounted(row) ==
    \/ row.key \in RemovedKeys(decision)
    \/ Ships(row.triple) \/ Repaired(row.triple)
    \/ \E d \in row.from : Correction("procedure_omitted_no_technique", d) \in corrections

Done == phase = "done"

\* What the validator lets through is sound as a whole, whatever the analyst
\* edited in: every reference lands in the bundle or in the catalogue, the flow
\* has no cycle and exists only for a sequential source, no two relationships
\* say the same, and a procedure embeds, and is fingerprinted by, exactly the
\* techniques its relationships name or its draft resolved.
ShippedIsSound ==
    verdict = "passed" =>
        /\ RefsOf(bundle) \subseteq Ids(bundle) \cup Techniques
        /\ ~Cyclic(FlowEdges(bundle))
        /\ sequential \/ \A r \in bundle.sros : r.verb # "precedes"
        /\ \A r, s \in bundle.sros : Content(r) = Content(s) => r = s
        /\ \A p \in Procedures(bundle) :
              /\ p.techs # {} /\ p.print = p.techs
              /\ UsedTechniques(bundle, p, Techniques) \subseteq p.techs

\* One run of the auto-fix passes is enough: run again on what they leave they
\* change nothing.  A pass that makes work for an earlier one breaks this.
PassesConverge == Done => AutoFixed(bundle, sequential, Techniques) = bundle

\* What the analyst approved and did not touch ships, or the corrections say
\* why not: an omitted draft is named, a row is missing only with the drafts
\* it was derived from, or was repaired.  The one exception is a procedure that
\* precedes itself (attack_operators.py:324); see EveryRowIsAccountedFor.
NothingLostSilently ==
    Done =>
        /\ \A d \in Drafts :
              \/ d \in Ids(bundle)
              \/ Correction("procedure_omitted_no_technique", d) \in corrections
        /\ \A row \in preview : row.triple[1] # row.triple[3] => Accounted(row)

\* A row the analyst removed does not ship, unless an added or edited row says
\* the same.  Rows about an entity whose type was corrected are out: there
\* normalize and the serializer name the row differently.
RemovedRowsAreGone ==
    Done => \A row \in decision.removed :
        (\A x \in {row.triple[1], row.triple[3]} \cap Entities : entities[x].type = Kind[x]
                                                              /\ entities[x].action # "remove")
        => ~\E r \in bundle.sros : Content(r) = row.triple /\ r.by = "serializer"

\* An intrusion set is credited with a tool, malware or technique only through
\* a procedure it was credited with: the two edges the credit is rolled up from
\* ship too, or the analyst took them out.
AttributionGrounded ==
    Done => \A r \in bundle.sros :
        (r.verb = "uses" /\ r.by = "serializer" /\ r.src \in OfType(entities, "intrusion-set")
            /\ r.tgt \notin Drafts)
        => \E d \in Drafts :
              /\ \/ Ships(<<r.src, "uses", d>>) \/ Repaired(<<r.src, "uses", d>>)
                 \/ \E key \in RemovedKeys(decision) : key[1] = r.src /\ key[3] = d
              /\ \/ Ships(<<d, "uses", r.tgt>>)
                 \/ \E key \in RemovedKeys(decision) : key[1] = d /\ key[3] = r.tgt

\* What gates.py:691 says of an entity removed at gate_0, "Downstream nodes
\* filter on gate_action": nothing in the bundle refers to it.
RemovedIsNotReferenced ==
    Done => \A e \in Entities : entities[e].action = "remove" => e \notin RefsOf(bundle)

\* What normalization.py:441 says of the preview, that it shows "exactly the
\* reviewable edges the serializer will ship": each row is accounted for, that of
\* a procedure that precedes itself too.
EveryRowIsAccountedFor == Done => \A row \in preview : Accounted(row)

\* What normalization.py:466 says of the actor-level edges it does not show,
\* "rollups of the per-procedure edges": each still has its per-procedure edge.
RollupsFollowEdges ==
    Done => \A r \in bundle.sros :
        (r.verb = "uses" /\ r.by = "serializer" /\ r.src \in OfType(entities, "intrusion-set")
            /\ r.tgt \notin Drafts)
        => \E d \in Drafts : Ships(<<r.src, "uses", d>>)
===========================================================================
