-------------------------------- MODULE Merge --------------------------------
(***************************************************************************)
(* From the source records of a vulnerability to its canonical record       *)
(* (processing.py, models.py): fields merged by the priority of their       *)
(* source, products recognised by package URL, by CPE, then by name.        *)
(*                                                                          *)
(* A source record has a source, 1 to 4 in the order of PRIORITY, an id,    *)
(* the CVE identities it names, a status, one plain field whose value may   *)
(* be Missing, and a sequence of component assertions.  Identifiers and     *)
(* names are numbers in the order of their texts.                           *)
(***************************************************************************)
EXTENDS Integers, Sequences, FiniteSetsExt, SequencesExt

Missing == "missing"
Unnamed == 0

Distinct(s) == {s[i] : i \in DOMAIN s}

-----------------------------------------------------------------------------
(* Products: _component_candidate and disambiguate_components.  A candidate *)
(* has sets of package URLs and CPE products, a name or Unnamed, a default  *)
(* status and the source that asserts it.                                   *)

Strong(c, k) == c.purls \cap k.purls # {} \/ c.cpes \cap k.cpes # {}
Named(c, k) == c.name # Unnamed /\ c.name = k.name

\* Mutant: one shared identifier is enough, whatever the other kind says.
CompatibleEither(c, k) == Strong(c, k) \/ c.purls = {} \/ k.purls = {}
\* _strong_compatible: no kind of identifier is given by both and disjoint.
Compatible(c, k) ==
    /\ c.purls # {} /\ k.purls # {} => c.purls \cap k.purls # {}
    /\ c.cpes # {} /\ k.cpes # {} => c.cpes \cap k.cpes # {}

\* A cluster that takes a candidate in.
Taking(k, c) == [k EXCEPT !.items = @ \cup {c}, !.purls = @ \cup c.purls, !.cpes = @ \cup c.cpes]

\* The clusters after a candidate: it joins the first one that shares a strong
\* identifier or, when none contradicts it, the name; a contradiction met on
\* the way is reported with the cluster.
Place(clusters, c) ==
    LET takes == {i \in DOMAIN clusters : Strong(c, clusters[i]) \/ (Named(c, clusters[i]) /\ Compatible(c, clusters[i]))}
        place == IF takes = {} THEN Len(clusters) + 1 ELSE Min(takes)
        seen == [i \in DOMAIN clusters |->
                    IF i <= place /\ (Strong(c, clusters[i]) \/ Named(c, clusters[i])) /\ ~Compatible(c, clusters[i])
                    THEN [clusters[i] EXCEPT !.reported = @ \cup {c.source}] ELSE clusters[i]]
    IN IF takes = {} THEN
           Append(seen, [items |-> {c}, purls |-> c.purls, cpes |-> c.cpes, name |-> c.name, reported |-> {}])
       ELSE [seen EXCEPT ![place] = Taking(@, c)]

Clusters(candidates) == FoldLeft(Place, <<>>, candidates)

\* The entity a cluster is published as.
Resolved(k) ==
    LET statuses == {c.default : c \in k.items} \ {"unknown"}
        identity == IF k.purls # {} THEN <<"purl", Min(k.purls)>>
                    ELSE IF k.cpes # {} THEN <<"cpe", Min(k.cpes)>>
                    ELSE IF k.name # Unnamed THEN <<"vendor_product", k.name>>
                    ELSE <<"unresolved", 0>>
    IN [identity |-> identity, purls |-> k.purls, cpes |-> k.cpes, items |-> k.items,
        default |-> IF Cardinality(statuses) = 1 THEN CHOOSE s \in statuses : TRUE ELSE "unknown",
        review |-> k.reported # {} \/ identity[1] = "unresolved" \/ Cardinality(statuses) > 1]

-----------------------------------------------------------------------------
(* Records *)

\* A record that names two CVE identities is refused; one is its identity,
\* else its own id.
Acceptable(r) == Cardinality(r.cves) <= 1
VulnId(r) == IF r.cves = {} THEN <<"id", r.source, r.id>> ELSE <<"cve", 0, Min(r.cves)>>

\* Mutant: the sources are ordered and their records are not.
BeforeBySource(r, q) == r.source < q.source
Before(r, q) == r.source < q.source \/ (r.source = q.source /\ r.id < q.id)

\* The records of an identity, in the order of their sources; the sort is
\* stable, so a record comes after as many as are before it.
Earlier(records, own, i) ==
    {j \in own : Before(records[j], records[i]) \/ (~Before(records[i], records[j]) /\ j < i)}
Members(records, v) ==
    LET own == {i \in DOMAIN records : VulnId(records[i]) = v}
    IN [n \in 1..Cardinality(own) |->
           records[CHOOSE i \in own : Cardinality(Earlier(records, own, i)) = n - 1]]

\* The canonical record; its revision is a digest of it.
Canonical(members) ==
    LET active == SelectSeq(members, LAMBDA r : r.status = "active")
        values == SelectSeq([i \in DOMAIN active |-> active[i].field], LAMBDA x : x # Missing)
        components == FlattenSeq([i \in DOMAIN active |-> active[i].components])
        clusters == Clusters(components)
    IN [status |-> IF active = <<>> \/ \E i \in DOMAIN members : members[i].source = 1 /\ members[i].status = "rejected"
                   THEN "rejected" ELSE "active",
        field |-> IF values = <<>> THEN Missing ELSE Head(values),
        state |-> IF values = <<>> THEN Missing ELSE IF Cardinality(Distinct(values)) = 1 THEN "present" ELSE "conflicted",
        provenance |-> values,
        components |-> {Resolved(clusters[i]) : i \in DOMAIN clusters},
        sources |-> [i \in DOMAIN members |-> <<members[i].source, members[i].id, members[i].status>>]]

\* process.
Process(records) ==
    [v \in {VulnId(records[i]) : i \in DOMAIN records} |-> Canonical(Members(records, v))]
=============================================================================
