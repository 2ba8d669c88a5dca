----------------------------- MODULE BundleRepair -----------------------------
(***************************************************************************)
(* validate_bundle (nodes/deterministic/bundle_validator.py): recovery,    *)
(* the auto-fix passes in their order, and the checks that decide whether  *)
(* a bundle ships.  A bundle is a set of objects and a set of              *)
(* relationships; a correction is a rule with what it is about.            *)
(***************************************************************************)
EXTENDS Naturals, FiniteSets, Relation

CONSTANT Brands   \* names find_brand_techniques knows as technique patterns

(***************************************************************************)
(* Object:       [id, type, techs, print, refs, outs, sources, needs]      *)
(*   techs   embedded technique refs         refs  every other checked ref *)
(*   print   the techniques the fingerprint was computed from              *)
(*   outs    effect_refs, on_true_refs and on_false_refs                   *)
(*   needs   extension-definitions named under "extensions"                *)
(* Relationship: [src, verb, tgt, by], by telling two with one content     *)
(* apart as their ids do.                                                  *)
(***************************************************************************)
Content(r) == <<r.src, r.verb, r.tgt>>

Ids(b) == {o.id : o \in b.objects}

TypeIn(b, id) == (CHOOSE o \in b.objects : o.id = id).type

Procedures(b) == {o \in b.objects : o.type = "x-procedure"}

FlowTypes == {"attack-flow", "attack-operator", "attack-condition"}

Correction(rule, about) == [rule |-> rule, about |-> about]

---------------------------------------------------------------------------
(* Phase 1: recovery.  The only objects the upstream index holds are those *)
(* of the bundle itself, so a ref it could answer never dangles.           *)

External(ref, catalogue) == ref \in catalogue

RefsOf(b) ==
    (UNION {o.techs \cup o.refs \cup o.sources : o \in b.objects})
    \cup (UNION {{r.src, r.tgt} : r \in b.sros})

\* A bug of the kind: the ends of relationships are not looked at.
DanglingEmbedded(b, catalogue) ==
    {ref \in (UNION {o.techs \cup o.refs \cup o.sources : o \in b.objects}) \ Ids(b) :
        ~External(ref, catalogue)}

Dangling(b, catalogue) ==
    {ref \in RefsOf(b) \ Ids(b) : ~External(ref, catalogue)}

FixpointLimit == 5   \* _RECOVERY_FIXPOINT_LIMIT

Recovered(b, catalogue) ==
    LET index == b.objects
        round[n \in 0 .. FixpointLimit] ==
            IF n = 0 THEN b
            ELSE LET was     == round[n - 1]
                     missing == Dangling(was, catalogue)
                 IN [was EXCEPT !.objects = @ \cup {o \in index : o.id \in missing}]
    IN round[FixpointLimit]

---------------------------------------------------------------------------
(* Phase 2: the auto-fix passes.  Each maps a bundle to a bundle.          *)

\* _SRO_DIRECTION_RULES
ValidSource(verb) ==
    CASE verb = "uses"          -> {"intrusion-set", "campaign", "x-procedure", "threat-actor"}
      [] verb = "attributed-to" -> {"campaign", "x-procedure", "intrusion-set"}
      [] verb = "targets"       -> {"campaign", "tool", "malware", "x-procedure", "intrusion-set"}
      [] verb = "exploits"      -> {"x-procedure", "intrusion-set", "campaign"}
      [] OTHER                  -> {}

ValidTarget(verb) ==
    CASE verb = "uses"          -> {"tool", "malware", "attack-pattern", "infrastructure", "x-procedure"}
      [] verb = "attributed-to" -> {"intrusion-set", "threat-actor"}
      [] verb = "targets"       -> {"identity", "location", "software", "infrastructure"}
      [] verb = "exploits"      -> {"vulnerability"}
      [] OTHER                  -> {}

\* Only a pair both ends of which are in the bundle has types to compare.
Inverted(b, r) ==
    /\ {r.src, r.tgt} \subseteq Ids(b)
    /\ TypeIn(b, r.src) \notin ValidSource(r.verb)
    /\ TypeIn(b, r.src) \in ValidTarget(r.verb)
    /\ TypeIn(b, r.tgt) \in ValidSource(r.verb)

FixDirection(b) ==
    [b EXCEPT !.sros = {IF Inverted(b, r) THEN [r EXCEPT !.src = r.tgt, !.tgt = r.src] ELSE r :
                           r \in b.sros}]

\* One relationship of each content stays: the first.
DedupSros(b) ==
    [b EXCEPT !.sros = {CHOOSE r \in b.sros : Content(r) = c : c \in {Content(r) : r \in b.sros}}]

DropSelfLoops(b) ==
    [b EXCEPT !.sros = {r \in b.sros : ~(r.verb = "precedes" /\ r.src = r.tgt)}]

DropUnlessSequential(b, sequential) ==
    [b EXCEPT !.sros = {r \in b.sros : sequential \/ r.verb # "precedes"}]

\* The embedded refs grow to what the relationships say, never the reverse.
UsedTechniques(b, o, catalogue) ==
    {r.tgt : r \in {s \in b.sros : s.verb = "uses" /\ s.src = o.id /\ s.tgt \in catalogue}}

SyncTechniques(b, catalogue) ==
    [b EXCEPT !.objects = {IF o.type = "x-procedure"
                           THEN [o EXCEPT !.techs = o.techs \cup UsedTechniques(b, o, catalogue)]
                           ELSE o : o \in b.objects}]

BackfillSources(b) ==
    [b EXCEPT !.objects = {IF o.type = "x-procedure" /\ o.sources = {}
                           THEN [o EXCEPT !.sources = {"author"}] ELSE o : o \in b.objects}]

RecomputePrints(b) ==
    [b EXCEPT !.objects = {IF o.type = "x-procedure" THEN [o EXCEPT !.print = o.techs] ELSE o :
                              o \in b.objects}]

\* A bug of the kind: duplicates are dropped before the flips that make some.
AutoFixedDedupFirst(b, sequential, catalogue) ==
    LET paired == FixDirection(DedupSros(b))
    IN RecomputePrints(BackfillSources(SyncTechniques(
           DropUnlessSequential(DropSelfLoops(paired), sequential), catalogue)))

\* _auto_fix_passes
AutoFixed(b, sequential, catalogue) ==
    LET paired == DedupSros(FixDirection(b))
        flow   == DropUnlessSequential(DropSelfLoops(paired), sequential)
    IN RecomputePrints(BackfillSources(SyncTechniques(flow, catalogue)))

\* What the passes record: a relationship changed or gone, an object changed.
FixesOf(before, after) ==
    {Correction("relationship_fixed", Content(r)) : r \in before.sros \ after.sros}
    \cup {Correction("procedure_fixed", o.id) : o \in before.objects \ after.objects}

---------------------------------------------------------------------------
(* Phase 3: the checks.  Any finding keeps the bundle from shipping.       *)

FlowEdges(b) ==
    {<<r.src, r.tgt>> : r \in {s \in b.sros : s.verb = "precedes"}}
    \cup UNION {{<<o.id, out>> : out \in o.outs} : o \in b.objects}

Cyclic(edges) ==
    LET nodes == {e[1] : e \in edges} \cup {e[2] : e \in edges}
        reach == TransitiveClosure([x, y \in nodes |-> <<x, y>> \in edges], nodes)
    IN edges # {} /\ \E x \in nodes : reach[x, x]

Found(rule, ids) == {Correction(rule, id) : id \in ids}

IdsOf(objects) == {o.id : o \in objects}

IncompleteProcedures(b) ==
    Found("x_procedure_missing_required_field",
          IdsOf({p \in Procedures(b) : p.techs = {} \/ p.sources = {}}))

SharedIds(b) ==
    Found("duplicate_object_id",
          IdsOf({o \in b.objects : \E other \in b.objects \ {o} : other.id = o.id}))

\* The one check that looks inside "extensions".
UndeclaredExtensions(b) ==
    Found("extension_undeclared",
          IdsOf({o \in b.objects : o.type \in FlowTypes \cup {"x-procedure"} /\ o.needs = {}}))
    \cup Found("extension_definition_missing",
               (UNION {o.needs : o \in b.objects}) \ Ids(b))

UnrecoveredRefs(b, catalogue) == Found("dangling_ref_unrecoverable", Dangling(b, catalogue))

PrecedesCycle(b) ==
    IF Cyclic(FlowEdges(b)) THEN Found("precedes_cycle", {"flow"}) ELSE {}

Unwired(b, type, none, dangling) ==
    LET wired == {o \in b.objects : o.type = type}
    IN Found(none, IdsOf({o \in wired : o.outs = {}}))
       \cup Found(dangling, IdsOf({o \in wired : ~(o.outs \subseteq Ids(b))}))

OperatorsUnwired(b) ==
    Unwired(b, "attack-operator",
            "attack_operator_no_effect_refs", "attack_operator_dangling_effect_ref")

ConditionsUnwired(b) ==
    Unwired(b, "attack-condition", "attack_condition_no_refs", "attack_condition_dangling_ref")

BrandsAsMalware(b) ==
    Found("brand_misclassified_as_malware",
          IdsOf({o \in b.objects : o.type = "malware" /\ o.id \in Brands}))

SecondFlow(b) ==
    IF Cardinality({o \in b.objects : o.type = "attack-flow"}) > 1
    THEN Found("multiple_attack_flows", {"flow"}) ELSE {}

HardFails(b, catalogue) ==
    (IF b.objects = {} THEN Found("bundle_empty", {"bundle"}) ELSE {})
    \cup SharedIds(b) \cup IncompleteProcedures(b) \cup UndeclaredExtensions(b)
    \cup UnrecoveredRefs(b, catalogue) \cup PrecedesCycle(b)
    \cup OperatorsUnwired(b) \cup ConditionsUnwired(b) \cup BrandsAsMalware(b) \cup SecondFlow(b)
===========================================================================
