---------------------------- MODULE BundleAssembly ----------------------------
(***************************************************************************)
(* serialize_stix (nodes/deterministic/serialization.py) and the preview   *)
(* normalize derives by the same rules (normalization.py, attribution.py): *)
(* which objects and relationships the reviewed entities and the approved  *)
(* drafts make.  Routing of the flow through operators and conditions is   *)
(* ChunkFlow's; here an edge of the chunk graph is one precedes edge.      *)
(***************************************************************************)
EXTENDS BundleRepair, Sequences

CONSTANTS Entities,     \* values of extracted entities, which name them
          Kind,         \* per entity its extracted type, as a STIX type
          Sponsors,     \* per entity the threat actors its text attributes it to
          Drafts,       \* drafts approved at gate_1, which name them
          Techniques,   \* the ATT&CK catalogue
          Flow          \* edges of the chunk graph, as pairs of drafts

\* Every object of a bundle has an id of its own: the names the model gives the
\* author, the Report, a process and the like name nothing else.
ProcessOf(d) == "process of " \o d
Fixtures == {"author", "report", "flow", "attack-flow extension", "x-procedure extension",
             "x-log-source", "x-mitre-detection-strategy"}

ASSUME NamesAssumption ==
    /\ Entities \cap Drafts = {} /\ Entities \cap Techniques = {} /\ Drafts \cap Techniques = {}
    /\ Fixtures \cap (Entities \cup Drafts \cup Techniques) = {}
    /\ \A d \in Drafts : ProcessOf(d) \notin Fixtures \cup Entities \cup Drafts \cup Techniques

ASSUME FlowAssumption == Flow \subseteq Drafts \X Drafts

ScoTypes == {"file", "ipv4-addr", "software"}

(***************************************************************************)
(* A reviewed entity: [action, type], the type being the analyst's         *)
(* correction.  A draft: [techniques, unresolved, tools, malware, actors,  *)
(* mentions, artifacts, commands], all sets; commands are those with a     *)
(* known binary.  A row of the preview: the key names and types give, the  *)
(* things it relates, and the drafts it was derived from.                  *)
(***************************************************************************)

Kept(es) == {e \in Entities : es[e].action # "remove"}

\* The builders of relationships go by the extracted type.
OfType(es, kind) == {e \in Kept(es) : Kind[e] = kind}

\* actors_for_procedure: those it names, else the only one there is.
ActorsFor(es, d) ==
    LET sets  == OfType(es, "intrusion-set")
        named == sets \cap d.actors
    IN IF named # {} THEN named
       ELSE IF Cardinality(sets) = 1 THEN sets ELSE {}

\* threat_actors_for_intrusion_set: likewise.
SponsorsFor(es, i) ==
    LET actors == OfType(es, "threat-actor")
        named  == actors \cap Sponsors[i]
    IN IF named # {} THEN named
       ELSE IF Cardinality(OfType(es, "intrusion-set")) = 1 /\ Cardinality(actors) = 1
            THEN actors ELSE {}

\* _detect_vulnerability_refs looks at every reviewed entity, removed or not.
VulnerabilityRefs(d) == {e \in d.mentions : Kind[e] = "vulnerability"}

Resolved(d) == d.techniques \ d.unresolved

Mappable(ds) == {d \in Drafts : Resolved(ds[d]) # {}}

\* A catalogue source reaches this stage without edges (ChunkFlow).
Edges(sequential) == IF sequential THEN Flow ELSE {}

---------------------------------------------------------------------------
(* The relationships, as triples <<source, verb, target>>. *)

ProcedureTriples(es, ds, d) ==
    {<<d, "exploits", v>> : v \in VulnerabilityRefs(ds[d])}
    \cup {<<i, "uses", d>> : i \in ActorsFor(es, ds[d])}
    \cup {<<d, "uses", m>> : m \in OfType(es, "malware") \cap ds[d].malware}
    \cup {<<d, "uses", t>> : t \in OfType(es, "tool") \cap ds[d].tools}

\* The guard on malware-as-a-service is left out: nothing sets is_maas.
AttributionTriples(es) ==
    LET sets == OfType(es, "intrusion-set")
    IN {<<c, "attributed-to", i>> : c \in OfType(es, "campaign"), i \in sets}
       \cup UNION {{<<i, "attributed-to", s>> : s \in SponsorsFor(es, i)} : i \in sets}

\* Organisations are targeted by clusters, places and products by campaigns too.
TargetTriples(es) ==
    LET sets == OfType(es, "intrusion-set")
    IN {<<i, "targets", v>> : i \in sets, v \in OfType(es, "identity")}
       \cup {<<a, "targets", x>> : a \in sets \cup OfType(es, "campaign"),
                                   x \in OfType(es, "location") \cup OfType(es, "software")}

ExploitTriples(es, ds, which) ==
    {<<a, "exploits", v>> : a \in OfType(es, "intrusion-set") \cup OfType(es, "campaign"),
                            v \in UNION {VulnerabilityRefs(ds[d]) : d \in which}}

\* What the actors of the source do: of one draft set the preview is given
\* the approved drafts, the serializer those it did not omit.
ActorTriples(es, ds, which) ==
    AttributionTriples(es) \cup TargetTriples(es) \cup ExploitTriples(es, ds, which)

\* Rolled up from the drafts, and never previewed.
Arsenal(es, ds, d) ==
    Resolved(ds[d]) \cup (OfType(es, "tool") \cap ds[d].tools)
                    \cup (OfType(es, "malware") \cap ds[d].malware)

\* A bug of the kind: every actor is given what every procedure uses.
RollupTriplesFanOut(es, ds) ==
    UNION {{<<a, "uses", x>> : a \in OfType(es, "intrusion-set") \cup OfType(es, "campaign"),
                               x \in Arsenal(es, ds, d)} : d \in Mappable(ds)}

RollupTriples(es, ds) ==
    UNION {{<<a, "uses", x>> : a \in ActorsFor(es, ds[d]) \cup OfType(es, "campaign"),
                               x \in Arsenal(es, ds, d)} : d \in Mappable(ds)}

\* chunk.artifacts matched against the observables, by their corrected type.
Observables(es, d) == {e \in Kept(es) : es[e].type \in ScoTypes} \cap d.artifacts

UnseenTriples(es, ds, d) ==
    {<<d, "uses", t>> : t \in Resolved(ds[d])}
    \cup {<<d, "has-observable", e>> : e \in Observables(es, ds[d])}

---------------------------------------------------------------------------
(* normalize: the rows the analyst sees. *)

\* The name and type either side gives the end of a relationship.
PreviewType(x) == IF x \in Drafts THEN "x-procedure" ELSE Kind[x]

Row(triple, from) ==
    [key |-> <<triple[1], triple[2], triple[3], PreviewType(triple[1]), PreviewType(triple[3])>>,
     triple |-> triple, from |-> from]

\* The drafts that carry the vulnerability an actor's row is about.
Carriers(ds, triple) ==
    IF triple[2] = "exploits" THEN {d \in Drafts : triple[3] \in VulnerabilityRefs(ds[d])} ELSE {}

DraftRows(es, ds, sequential) ==
    (UNION {{Row(t, {d}) : t \in ProcedureTriples(es, ds, d)} : d \in Drafts})
    \cup {Row(<<e[1], "precedes", e[2]>>, {e[1], e[2]}) : e \in Edges(sequential)}

ActorRows(es, ds) == {Row(t, Carriers(ds, t)) : t \in ActorTriples(es, ds, Drafts)}

Preview(es, ds, sequential) == DraftRows(es, ds, sequential) \cup ActorRows(es, ds)

---------------------------------------------------------------------------
(* serialize_stix: objects. *)

Object(id, type) ==
    [id |-> id, type |-> type, techs |-> {}, print |-> {}, refs |-> {}, outs |-> {},
     sources |-> {}, needs |-> {}]

EntityObjects(es) == {Object(e, es[e].type) : e \in Kept(es)}

\* _draft_to_procedure: unresolved techniques are left out of the refs, not of
\* the fingerprint normalize stamped; the embedded vulnerabilities are those
\* the registry knows.
ProcedureObject(es, ds, d, logs) ==
    [Object(d, "x-procedure") EXCEPT
        !.techs   = Resolved(ds[d]),
        !.print   = ds[d].techniques,
        !.sources = {"author"},
        !.needs   = {"x-procedure extension"},
        !.refs    = {"author"} \cup logs
                    \cup {v \in VulnerabilityRefs(ds[d]) \cap Kept(es) :
                             es[v].type = "vulnerability"}
                    \cup (IF ds[d].commands # {} THEN {ProcessOf(d)} ELSE {})]

ProcessObjects(ds) == {Object(ProcessOf(d), "process") : d \in {x \in Mappable(ds) : ds[x].commands # {}}}

\* _build_attack_flow: it starts at every procedure no other leads to; one
\* procedure is no flow, and neither are procedures that all follow another.
FlowObjects(ds, sequential) ==
    LET starts == Mappable(ds) \ {e[2] : e \in {f \in Edges(sequential) : f[1] \in Mappable(ds)}}
    IN IF Cardinality(Mappable(ds)) < 2 \/ starts = {} THEN {}
       ELSE {[Object("flow", "attack-flow") EXCEPT !.refs = {"author"} \cup starts,
                                                  !.needs = {"attack-flow extension"}],
             Object("attack-flow extension", "extension-definition")}

\* Neo4j's rows for the techniques referred to, or nothing when it fails.
ChainObjects(ds, online) ==
    IF ~online THEN {}
    ELSE {Object(t, "attack-pattern") : t \in UNION {Resolved(ds[d]) : d \in Mappable(ds)}}
         \cup {Object(x, x) : x \in {"x-log-source", "x-mitre-detection-strategy"}}

ChainTriples(ds, online) ==
    IF ~online THEN {}
    ELSE {<<"x-mitre-detection-strategy", "detects", t>> :
             t \in UNION {Resolved(ds[d]) : d \in Mappable(ds)}}

Sros(triples, by) ==
    {[src |-> t[1], verb |-> t[2], tgt |-> t[3], by |-> by] : t \in triples}

\* The Report refers to everything that is no relationship and no definition.
ReportObject(objects) ==
    [Object("report", "report") EXCEPT
        !.refs = {"author"} \cup {o.id : o \in {p \in objects : p.type # "extension-definition"}}]

---------------------------------------------------------------------------
(* serialize_stix: relationships, and the decisions of the bundle gate. *)

\* _build_name_index: an entity has its corrected type, a thing that is not in
\* the bundle has no name.
IndexType(es, x) ==
    IF x \in Drafts THEN "x-procedure" ELSE IF x \in Techniques THEN "attack-pattern" ELSE es[x].type

Indexed(es, ds) ==
    Kept(es) \cup Mappable(ds) \cup UNION {Resolved(ds[d]) : d \in Mappable(ds)}

KeyOf(es, t) == <<t[1], t[2], t[3], IndexType(es, t[1]), IndexType(es, t[3])>>

\* A bug of the kind: the name index is forgotten and nothing can be named.
DropRemovedNever(es, ds, triples, keys) == triples

\* _drop_analyst_removed: what cannot be named is kept.
DropRemoved(es, ds, triples, keys) ==
    {t \in triples : ~( /\ {t[1], t[3]} \subseteq Indexed(es, ds)
                        /\ KeyOf(es, t) \in keys )}

\* _analyst_removed_rel_keys: an edited row counts as a removal of its original.
RemovedKeys(decision) ==
    {r.key : r \in decision.removed} \cup {e.original.key : e \in decision.edited}

\* A chunk listed as its own predecessor has a row in the preview; splice_absent
\* leaves it out of every flow it routes, and records nothing.
FlowTriples(ds, keys) ==
    {<<e[1], "precedes", e[2]>> :
        e \in {f \in Flow : /\ {f[1], f[2]} \subseteq Mappable(ds) /\ f[1] # f[2]
                            /\ <<f[1], "precedes", f[2], "x-procedure", "x-procedure">> \notin keys}}

BuiltTriples(es, ds, sequential, decision) ==
    LET keys == RemovedKeys(decision)
        all  == (UNION {ProcedureTriples(es, ds, d) \cup UnseenTriples(es, ds, d) : d \in Mappable(ds)})
                \cup (IF sequential THEN FlowTriples(ds, keys) ELSE {})
                \cup ActorTriples(es, ds, Mappable(ds)) \cup RollupTriples(es, ds)
    IN DropRemoved(es, ds, all, keys)

\* _analyst_added_rels: both ends found by name and type, or the row is skipped.
AddedTriples(es, ds, built, decision) ==
    LET keys == decision.added \cup {e.edited : e \in decision.edited}
        found(k) == /\ {k[1], k[3]} \subseteq Indexed(es, ds) /\ k[1] # k[3]
                    /\ IndexType(es, k[1]) = k[4] /\ IndexType(es, k[3]) = k[5]
    IN {<<k[1], k[2], k[3]>> : k \in {x \in keys : found(x)}} \ built

\* Approved drafts without a resolved technique are left out, and recorded.
Omissions(ds) ==
    {Correction("procedure_omitted_no_technique", d) : d \in Drafts \ Mappable(ds)}

Serialized(es, ds, sequential, online, decision) ==
    LET logs  == IF online THEN {"x-log-source"} ELSE {}
        procs == {ProcedureObject(es, ds, d, logs) : d \in Mappable(ds)}
        objs  == {Object("author", "identity")} \cup EntityObjects(es) \cup procs
                 \cup ProcessObjects(ds) \cup ChainObjects(ds, online)
                 \cup FlowObjects(ds, sequential)
                 \cup (IF procs = {} THEN {}
                       ELSE {Object("x-procedure extension", "extension-definition")})
        built == BuiltTriples(es, ds, sequential, decision)
    IN [objects |-> objs \cup {ReportObject(objs)},
        sros    |-> Sros(built, "serializer") \cup Sros(ChainTriples(ds, online), "catalogue")
                    \cup Sros(AddedTriples(es, ds, built, decision), "analyst")]
===========================================================================
