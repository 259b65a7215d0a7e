----------------------------- MODULE Applicability -----------------------------
(***************************************************************************)
(* The NVD configuration trees of a vulnerability, evaluated against the    *)
(* CPE names of a target (search.py): true, false, or unknown where a name  *)
(* or a version cannot be read.  A tree is a function from node numbers to  *)
(* nodes, whose children have larger numbers; node 1 is the root.           *)
(***************************************************************************)
EXTENDS Versions, FiniteSets

Truth == {"true", "false", "unknown"}

\* Three-valued disjunction and conjunction of a set of values.
AnyOf(values) == IF "true" \in values THEN "true" ELSE IF "unknown" \in values THEN "unknown" ELSE "false"
AllOf(values) == IF "false" \in values THEN "false" ELSE IF "unknown" \in values THEN "unknown" ELSE "true"

\* Mutant: what is not true is false, and its negation true.
OppositeOfTwo(value) == IF value = "true" THEN "false" ELSE "true"
Opposite(value) == IF value = "unknown" THEN value ELSE IF value = "true" THEN "false" ELSE "true"

\* What a criterion writes for a part, a vendor or a product of any name; for
\* any version it writes NoVersion.
AnyName == "*"

\* A criterion and a target, each with its part, vendor and product and its
\* version; versions are compared as SemVer when all are, or else as numbers.
MatchTarget(match, target) ==
    LET kind == IF \A v \in {target.version} \cup {b.at : b \in match.bounds} : Reads("semver", v)
                THEN "semver" ELSE "numeric"
        compared == [b \in match.bounds |-> CompareVersions(target.version, b.at, kind)]
        meant == /\ \A i \in DOMAIN match.names : match.names[i] \in {AnyName, target.names[i]}
                 /\ match.version \in {NoVersion, target.version}
    IN IF ~meant THEN "false"
       ELSE IF \E b \in match.bounds : compared[b] = Unknown THEN "unknown"
       ELSE IF \A b \in match.bounds : Within(b.key, compared[b]) THEN "true" ELSE "false"

\* _cpe_match: the first target that is not ruled out decides.
CpeMatch(match, targets) ==
    LET open == {i \in DOMAIN targets : MatchTarget(match, targets[i]) # "false"}
    IN IF ~match.wellFormed \/ \E i \in DOMAIN targets : ~targets[i].wellFormed THEN "unknown"
       ELSE IF open = {} THEN "false" ELSE MatchTarget(match, targets[Min(open)])

\* _cpe_node: the value of a node, given those of its criteria and children,
\* and the value of the root.
NodeValue(node, parts) ==
    LET joined == CASE node.operator = "AND" -> AllOf(parts)
                    [] node.operator = "OR" -> AnyOf(parts)
                    [] OTHER -> "unknown"
    IN IF parts = {} THEN "unknown" ELSE IF node.negate THEN Opposite(joined) ELSE joined
CpeNode(tree, value) ==
    LET eval[n \in DOMAIN tree] ==
            NodeValue(tree[n], {value[m] : m \in tree[n].matches} \cup {eval[c] : c \in tree[n].children})
    IN eval[1]

\* _vulnerable_cpe_present: one of the criteria marked vulnerable holds.
VulnerablePresent(tree, value) ==
    LET marked == {m \in UNION {tree[n].matches : n \in DOMAIN tree} : m.vulnerable}
    IN IF marked = {} THEN "unknown" ELSE AnyOf({value[m] : m \in marked})

\* cpe_applicability over the configurations of a record.
Outcome(tree, value) ==
    LET condition == CpeNode(tree, value)
        vulnerable == VulnerablePresent(tree, value)
    IN IF condition = "true" THEN vulnerable ELSE condition
CpeApplicability(outcomes, targets) ==
    IF targets = <<>> \/ outcomes = {} THEN "unknown"
    ELSE CASE AnyOf(outcomes) = "true" -> "affected"
           [] AnyOf(outcomes) = "unknown" -> "unknown"
           [] OTHER -> "unaffected"
=============================================================================
