----------------------------- MODULE MCAlgorithms -----------------------------
(***************************************************************************)
(* The pure algorithms on inputs that grow one piece at a time: each state  *)
(* is an input, and the invariants say what the algorithms make of it.      *)
(* topic is the algorithm asked; data is its input.                         *)
(***************************************************************************)
EXTENDS Applicability, Merge, TrainingRows

CONSTANTS MaxRules, MaxNodes, MaxComponents, MaxSources, MaxArtifacts, MaxText

ASSUME InstanceAssumption == MaxText \in Nat /\ {1, 2} \subseteq Vulns

VARIABLES topic, data
vars == <<topic, data>>

-----------------------------------------------------------------------------
(* Inputs *)

v10 == Release(<<1, 0>>)
v15 == Release(<<1, 5>>)
v20 == Release(<<2>>)
v20rc == [nums |-> <<2, 0, 0>>, tail |-> <<Word("rc"), 1>>, form |-> "hyphen"]
v20post == [nums |-> <<2, 0>>, tail |-> <<Word("post"), 1>>, form |-> "pep"]
v20dev == [nums |-> <<2>>, tail |-> <<Word("dev"), 3>>, form |-> "pep"]
built == [nums |-> <<7>>, tail |-> <<>>, form |-> "other"]
Literals == {v10, v15, v20, v20rc, v20post, v20dev, built}
Kinds == {"semver", "pep440", "numeric", "custom"}

Bound(key, at) == [key |-> key, at |-> at]
BoundSets == {{}, {Bound("lessThan", v20)}, {Bound("lessThanOrEqual", v15)}, {Bound("lessThan", built)},
              {Bound("versionStartExcluding", v10), Bound("versionEndExcluding", v20)}}
ChangeLists == {<<>>, <<[at |-> built, status |-> "unaffected"]>>,
                <<[at |-> v20, status |-> "affected"], [at |-> v15, status |-> "unaffected"]>>}
Rules == [version : {NoVersion, v10, built}, bounds : BoundSets, changes : ChangeLists,
          status : {"affected", "unaffected"}, type : Kinds] \
         [version : {NoVersion, v10, built}, bounds : {{}}, changes : ChangeLists \ {<<>>},
          status : {"affected", "unaffected"}, type : Kinds]
Component(rules, default) == [name |-> "n", purl |-> "none", rules |-> rules, default |-> default]

Leaves == {"a", "b", "c"}
NodeShapes == [operator : {"AND", "OR", "XOR"}, negate : BOOLEAN, leaves : {{}, {"a"}, {"b"}, {"a", "b"}, {"c"}}]
\* Of the leaves, "a" and "c" are marked vulnerable; parent[n] is the node n hangs below.
Tree(shapes, parent) ==
    [n \in DOMAIN shapes |->
        [operator |-> shapes[n].operator, negate |-> shapes[n].negate,
         matches |-> {[leaf |-> l, vulnerable |-> l # "b"] : l \in shapes[n].leaves},
         children |-> {m \in DOMAIN shapes : m # 1 /\ parent[m] = n}]]
Targets == [names : {<<"a", "v", "p">>, <<"a", "w", "q">>}, version : {v15, v20, v20rc, NoVersion}, wellFormed : BOOLEAN]
Criteria == [names : {<<"a", "v", "p">>, <<AnyName, AnyName, "q">>}, version : {NoVersion, v15},
             wellFormed : BOOLEAN, bounds : BoundSets]

Candidates == [purls : {{}, {1}, {2}}, cpes : {{}, {3}, {4}, {3, 4}}, name : {Unnamed, 1},
               default : {"affected"}, source : {1, 2}]
Sources == [source : 1..3, id : {1, 2}, cves : {{}, {1}, {1, 2}}, status : {"active", "rejected"},
            field : {Missing, "x", "y"}, components : {<<>>}]

\* Linked with a record, and maybe with a vulnerability that has none.
Artifacts == [vulns : {linked \in SUBSET Vulns : linked \cap {1, 2} # {}}, content : {1, 2, 3}, type : {"t"}]
Record(active, text, labels, component) ==
    [active |-> active, text |-> text, labels |-> labels, component |-> component, severity |-> "high"]
RecordShapes == {Record(TRUE, t, {"l"}, "c") : t \in {0, 1, 2}} \cup
                {Record(FALSE, 1, {"l"}, "c"), Record(TRUE, 1, {"m"}, "c"), Record(TRUE, 1, {}, "none")}
\* Contents 1 and 2 share a chunk; content 3 is too long.
ChunkHashes(c) == IF c = 1 THEN {11, 12} ELSE IF c = 2 THEN {12, 13} ELSE {14}
Even(family) == family % 2

-----------------------------------------------------------------------------

Init ==
    \/ topic = "versions" /\ data = <<>>
    \/ topic = "nodes" /\ data = <<>>
    \/ topic = "criteria" /\ data = <<>>
    \/ topic = "components" /\ data = <<>>
    \/ topic = "sources" /\ data = <<>>
    \/ topic = "dataset" /\ data \in [records : [{1, 2} -> RecordShapes], artifacts : {<<>>}, limit : {1, 3}]
    \/ topic = "text" /\ data \in {text \in UNION {[n : {n}, newlines : SUBSET (0..(n - 1)), blanks : SUBSET (0..(n - 1))] :
                                                 n \in 0..MaxText} : text.newlines \subseteq text.blanks}

Grow(which, pieces, bound) ==
    /\ topic = which /\ Len(data) < bound
    /\ \E x \in pieces : data' = Append(data, x)
    /\ UNCHANGED topic

AddRule == Grow("versions", Rules, MaxRules)
AddNode == Grow("nodes", NodeShapes, MaxNodes)
AddCriterion == topic = "criteria" /\ data = <<>> /\ Grow("criteria", Criteria, 1)
AddTarget == topic = "criteria" /\ data # <<>> /\ Grow("criteria", Targets, 3)
AddComponent == Grow("components", Candidates, MaxComponents)
\* The property tries every order, so the records come in one.
AddSource ==
    LET Rank(s) == 3 * s.source + s.id
    IN Grow("sources", {s \in Sources : Acceptable(s) /\ \A i \in DOMAIN data : Rank(data[i]) < Rank(s)},
            MaxSources)
AddArtifact ==
    /\ topic = "dataset" /\ Len(data.artifacts) < MaxArtifacts
    /\ \E a \in Artifacts : data' = [data EXCEPT !.artifacts = Append(@, a)]
    /\ UNCHANGED topic

Next == AddRule \/ AddNode \/ AddCriterion \/ AddTarget \/ AddComponent \/ AddSource \/ AddArtifact
Spec == Init /\ [][Next]_vars

-----------------------------------------------------------------------------
(* Properties *)

\* Two versions an ecosystem orders.
UpTo(kind, v, w) == CompareVersions(v, w, kind) \in {-1, 0}

\* All a rule with bounds compares with the version can be read.
BoundsRead(component, rule, version) ==
    LET kind == InferredType(component, rule)
        read == {b.at : b \in rule.bounds} \cup
                    (IF \E b \in rule.bounds : b.key \in {"lessThan", "lessThanOrEqual"} THEN {rule.version} ELSE {})
    IN \A w \in read \cup {version} : Reads(kind, w)

\* What is known when a rule answers, and when it is passed over: a rule of one
\* version has it, or has another, or one that could not be compared.
Answers(component, rule, version) ==
    IF rule.bounds = {} THEN rule.version = version \/ CompareVersions(version, rule.version, InferredType(component, rule)) = 0
    ELSE BoundsRead(component, rule, version)
PassedOver(component, rule, version) ==
    IF rule.bounds = {} THEN rule.version \notin {NoVersion, version} ELSE BoundsRead(component, rule, version)

\* version_match: a decided answer comes from a rule whose version is meant or
\* whose bounds could all be compared, or from the default when every rule
\* with bounds could compare them and every other names one other version; a
\* rule without changes covers an interval; and a pre-release of the fixed
\* version is not yet fixed.  It may be a guess in two ways only: the
\* one version of a rule may not compare, although docs/retrieval.md says that
\* such a rule answers unknown, and a change that does not compare is ignored.
RangesDecide ==
    topic = "versions" =>
        /\ \A default \in {"affected", "unknown"}, v \in Literals :
              LET c == Component(data, default)
                  answer == Matches({c}, c.name, v, FALSE)
              IN answer \in Decided =>
                    \/ \E i \in DOMAIN data : RuleSays(c, v, data[i]) = answer /\ Answers(c, data[i], v)
                    \/ answer = default /\ \A i \in DOMAIN data : RuleSays(c, v, data[i]) = "silent" /\ PassedOver(c, data[i], v)
        /\ Len(data) = 1 /\ data[1].changes = <<>> /\ data[1].bounds # {} =>
              LET c == Component(data, "unknown")
                  kind == data[1].type
                  covered == {v \in Literals : VersionMatch(c, v) = data[1].status}
              IN /\ \A u, w \in covered, v \in Literals : UpTo(kind, u, v) /\ UpTo(kind, v, w) => v \in covered
                 /\ Bound("lessThan", v20) \in data[1].bounds /\ data[1].version = v10 =>
                        /\ kind = "semver" => v20rc \in covered
                        /\ kind = "pep440" => v20dev \in covered /\ v20post \notin covered

\* cpe_applicability never guesses: a criterion holds of a target only when
\* part, vendor, product and version are those it names, where it names one,
\* and every bound could be compared; an unreadable name leaves it unknown, and
\* an answer of the three-valued evaluation stays the same however the unknown
\* criteria turn out.
ThreeValuesAreSound ==
    /\ topic = "criteria" /\ Len(data) > 1 =>
        LET criterion == Head(data)
            targets == Tail(data)
            found == CpeMatch(criterion, targets)
        IN /\ found = "true" => \E i \in DOMAIN targets :
                 /\ \A k \in DOMAIN criterion.names : criterion.names[k] # AnyName => targets[i].names[k] = criterion.names[k]
                 /\ criterion.version # NoVersion => targets[i].version = criterion.version
                 /\ \A b \in criterion.bounds : \E kind \in {"semver", "numeric"} :
                        /\ Reads(kind, targets[i].version) /\ Reads(kind, b.at)
                        /\ Within(b.key, CompareVersions(targets[i].version, b.at, kind))
           /\ (\E i \in DOMAIN targets : ~targets[i].wellFormed) => found = "unknown"
    /\ topic = "nodes" /\ data # <<>> =>
        \A parent \in [2..Len(data) -> 1..Len(data)] :
            (\A n \in 2..Len(data) : parent[n] < n) =>
            LET tree == Tree(data, parent)
                marked == UNION {tree[n].matches : n \in DOMAIN tree}
                answer(value) == CpeApplicability({Outcome(tree, value)}, <<"target">>)
            IN \A value \in [marked -> Truth] : answer(value) # "unknown" =>
                   \A turned \in [marked -> Truth] :
                       (\A m \in marked : value[m] # "unknown" => turned[m] = value[m]) => answer(turned) = answer(value)

\* The items that give an identifier of a kind are one chain of shared ones.
Joined(items, kind) ==
    LET having == {c \in items : c[kind] # {}}
        reach[n \in Nat] == IF n = 0 THEN {CHOOSE c \in having : TRUE}
                            ELSE {c \in having : \E d \in reach[n - 1] : c[kind] \cap d[kind] # {}}
    IN having = {} \/ reach[Cardinality(having)] = having

\* disambiguate_components: assertions whose identifiers of one kind are
\* disjoint, and that no chain of assertions links by that kind, are in one
\* entity only with a finding for review.
CollapseIsReported ==
    topic = "components" =>
        \A k \in ToSet(Clusters(data)) :
            k.reported # {} \/ \A kind \in {"purls", "cpes"} : Joined(k.items, kind)

\* process: canonical records, and so their revisions, do not depend on the
\* order in which the records of the sources are read.
RevisionIgnoresOrder ==
    topic = "sources" =>
        \A order \in Bijection(DOMAIN data, DOMAIN data) : Process([i \in DOMAIN data |-> data[order[i]]]) = Process(data)

\* build_training_dataset: no text or chunk is in two splits, no row refers
\* across splits, and what is shown as unrelated to a vulnerability, a hard
\* negative or a rejected candidate, shares no artifact and no text with it.
NothingLeaks ==
    topic = "dataset" =>
        LET family == Families(data.records, data.artifacts)
            chosen == Selected(data.records, data.limit)
            docs == Docs(data.records, data.artifacts, chosen, family)
        IN /\ \A d, e \in docs : d.kind = e.kind /\ d.key = e.key => d.split = e.split
           /\ \A v \in chosen : \A d \in References(data.records, data.artifacts, chosen, family, v) :
                  d.split = SplitOf(Root(family, v))
           /\ \A v \in chosen : \A a \in {b \in ToSet(data.artifacts) : v \in b.vulns} :
                  \A b \in Rejectable(data.artifacts, chosen, family, v, a) : v \notin b.vulns
           /\ \A v \in chosen : \A w \in Negatives(data.records, chosen, family, v) :
                  /\ data.records[v].text # data.records[w].text
                  /\ \A a \in ToSet(data.artifacts) : ~({v, w} \subseteq a.vulns)

\* _chunks: the pieces cover all of the text but blanks, none is longer than the
\* size or empty.
ChunksCover ==
    topic = "text" =>
        \A size \in 2..4 : \A overlap \in 0..(size - 1) :
            LET n == data.n
                pieces == Chunks(n, data.newlines, data.blanks, size, overlap)
            IN /\ \A i \in (0..(n - 1)) \ data.blanks : \E c \in pieces : c[1] <= i /\ i < c[2]
               /\ n > 0 => \A c \in pieces : c[1] < c[2] /\ c[2] - c[1] <= size
=============================================================================
