------------------------------- MODULE Versions -------------------------------
(***************************************************************************)
(* Which versions an advisory covers (search.py).                           *)
(*                                                                          *)
(* A version string is a record: the dotted numbers it starts with, the     *)
(* numbers and words after them, and how the two are joined: "plain" (no    *)
(* tail), "hyphen" (1.0-rc.1) or "pep" (1.0rc1, 1.0.post1).  A word of the  *)
(* tail is minus its place in the alphabetical list of words.  Other texts, *)
(* "*", "n/a" and the empty string, is NoVersion, which nothing reads.      *)
(* Each ecosystem reads the strings of its syntax as a key, a sequence of   *)
(* integers; keys are compared like Python tuples.                          *)
(***************************************************************************)
EXTENDS Integers, Sequences, SequencesExt

\* The words a tail may have, in alphabetical order.
Alphabet == <<"a", "alpha", "b", "beta", "dev", "final", "post", "rc", "snapshot", "sp", "vendor">>
Word(w) == -(CHOOSE i \in DOMAIN Alphabet : Alphabet[i] = w)
IsNumber(piece) == piece >= 0
Spelled(piece) == Alphabet[-piece]

NoVersion == [nums |-> <<>>, tail |-> <<>>, form |-> "other"]
Release(nums) == [nums |-> nums, tail |-> <<>>, form |-> "plain"]

\* A comparison is -1, 0 or 1, or Unknown where it would have to be guessed.
Unknown == 2
Sign(n) == IF n > 0 THEN 1 ELSE IF n < 0 THEN -1 ELSE 0

Compare(a, b) ==
    LET differ == {i \in DOMAIN a \cap DOMAIN b : a[i] # b[i]}
        first == CHOOSE i \in differ : \A j \in differ : i <= j
    IN IF differ = {} THEN Sign(Len(a) - Len(b)) ELSE Sign(a[first] - b[first])

Filled(s, n) == [i \in 1..n |-> IF i <= Len(s) THEN s[i] ELSE 0]

-----------------------------------------------------------------------------
(* The ecosystems *)

\* s without its trailing elements of a set.
Trimmed(s, drop) ==
    LET kept == {i \in DOMAIN s : s[i] \notin drop}
    IN SubSeq(s, 1, IF kept = {} THEN 0 ELSE CHOOSE i \in kept : \A j \in kept : j <= i)

\* numeric_version: trailing zeros do not count, but for the first number.
Numeric(v) == <<Head(v.nums)>> \o Trimmed(Tail(v.nums), {0})

\* Mutant: a pre-release follows its release, as the longer tuple would.
SemverPlain(v) ==
    Filled(v.nums, 3) \o
        FlattenSeq([i \in DOMAIN v.tail |->
                       IF IsNumber(v.tail[i]) THEN <<0, v.tail[i]>> ELSE <<1, -v.tail[i]>>])
\* _semver and _compare_semver: the core, then a release above its
\* pre-releases; numeric identifiers are below words.
Semver(v) ==
    Filled(v.nums, 3) \o (IF v.tail = <<>> THEN <<1>> ELSE <<0>>) \o
        FlattenSeq([i \in DOMAIN v.tail |->
                       IF IsNumber(v.tail[i]) THEN <<0, v.tail[i]>> ELSE <<1, -v.tail[i]>>])

\* The number after a word of the tail.
After(v, w) == v.tail[1 + CHOOSE i \in DOMAIN v.tail : v.tail[i] = Word(w)]

\* _pep440: four numbers, then dev, a, b, rc, release, post.
Pep440(v) ==
    LET has == {Spelled(p) : p \in {q \in ToSet(v.tail) : ~IsNumber(q)}}
        rank == [a |-> 0, b |-> 1, rc |-> 2]
        phase == IF "dev" \in has THEN <<-1, After(v, "dev")>>
                 ELSE IF has \cap DOMAIN rank # {}
                      THEN LET w == CHOOSE x \in has \cap DOMAIN rank : TRUE IN <<rank[w], After(v, w)>>
                 ELSE IF "post" \in has THEN <<4, After(v, "post")>>
                 ELSE <<3, 0>>
    IN Filled(Numeric(v), 4) \o phase

Qualifier == [alpha |-> -5, a |-> -5, beta |-> -4, b |-> -4, rc |-> -2, snapshot |-> -1, final |-> 0, sp |-> 1]

\* _maven: numbers above words, known words by rank, others by spelling.
MavenPiece(piece) ==
    IF IsNumber(piece) THEN <<1, piece, 0>>
    ELSE IF Spelled(piece) \in DOMAIN Qualifier THEN <<0, Qualifier[Spelled(piece)], 0>>
    ELSE <<0, 0, -piece>>
Maven(v) ==
    FlattenSeq(Trimmed([i \in DOMAIN (v.nums \o v.tail) |-> MavenPiece((v.nums \o v.tail)[i])],
                       {<<1, 0, 0>>, <<0, 0, 0>>}))

\* A year and one or two numbers of at most two digits.
Dated(v) ==
    LET all == v.nums \o v.tail
    IN /\ Len(all) \in 2..3 /\ \A i \in DOMAIN all : IsNumber(all[i])
       /\ all[1] \in 1000..9999 /\ \A i \in 2..Len(all) : all[i] < 100

\* What each ecosystem can read, and the key it reads.
Reads(kind, v) ==
    CASE kind = "numeric" -> v.form = "plain"
      [] kind = "semver" -> v.form \in {"plain", "hyphen"} /\ Len(v.nums) \in 1..3
      [] kind = "pep440" -> v.form \in {"plain", "pep"}
      [] kind = "maven" -> v.form # "other"
      [] kind = "date" -> v.form # "pep" /\ Dated(v)
      [] OTHER -> FALSE
Key(kind, v) ==
    CASE kind = "numeric" -> Numeric(v)
      [] kind = "semver" -> Semver(v)
      [] kind = "pep440" -> Pep440(v)
      [] kind = "maven" -> Maven(v)
      [] kind = "date" -> v.nums \o v.tail

CompareVersions(l, r, kind) ==
    IF Reads(kind, l) /\ Reads(kind, r) THEN Compare(Key(kind, l), Key(kind, r)) ELSE Unknown

-----------------------------------------------------------------------------
(* The rules of a component *)

\* The type a rule states, or else the one of the package URL's ecosystem.
InferredType(component, rule) ==
    IF rule.type \notin {"none", "unknown", "custom"} THEN rule.type
    ELSE IF component.purl = "none" THEN rule.type ELSE component.purl

\* What a bound requires of the comparison of the version with it.
Within(key, comparison) ==
    CASE key \in {"lessThan", "versionEndExcluding"} -> comparison < 0
      [] key \in {"lessThanOrEqual", "versionEndIncluding"} -> comparison <= 0
      [] key = "versionStartIncluding" -> comparison >= 0
      [] key = "versionStartExcluding" -> comparison > 0

Decided == {"affected", "unaffected"}
Plain(status) == IF status \in Decided THEN status ELSE "unknown"

\* The status of the latest change at or below the version; the first of equals.
Changed(version, rule, kind) ==
    LET at(i) == rule.changes[i].at
        done == {i \in DOMAIN rule.changes : /\ CompareVersions(version, at(i), kind) \in {0, 1}
                                             /\ rule.changes[i].status \in Decided}
        latest == {i \in done : \A j \in done : CompareVersions(at(j), at(i), kind) # 1}
    IN IF done = {} THEN Plain(rule.status) ELSE rule.changes[Min(latest)].status

\* Mutant: a version that cannot be compared is left to the other rules.
CannotTellSkips(comparisons) == FALSE
\* A bound that cannot be compared makes the rule uncertain.
CannotTell(comparisons) == Unknown \in comparisons

\* What one rule says of a version: a status, "uncertain", or "silent".
RuleSays(component, version, rule) ==
    LET kind == InferredType(component, rule)
        lower == CompareVersions(version, rule.version, kind)
        compared == [b \in rule.bounds |-> CompareVersions(version, b.at, kind)]
        needsLower == \E b \in rule.bounds : b.key \in {"lessThan", "lessThanOrEqual"}
    IN IF rule.bounds = {} THEN
           IF rule.version = version \/ lower = 0 THEN Plain(rule.status)
           ELSE IF rule.version = NoVersion THEN "uncertain" ELSE "silent"
       ELSE IF CannotTell({compared[b] : b \in rule.bounds} \cup (IF needsLower THEN {lower} ELSE {})) THEN "uncertain"
       ELSE IF (needsLower => lower >= 0) /\ \A b \in rule.bounds : Within(b.key, compared[b])
            THEN Changed(version, rule, kind)
       ELSE "silent"

\* The first rule that says something decides.
FirstHeard(says, default) ==
    LET heard == {i \in DOMAIN says : says[i] \notin {"uncertain", "silent"}}
    IN IF heard # {} THEN says[Min(heard)]
       ELSE IF "uncertain" \in ToSet(says) THEN "unknown" ELSE Plain(default)

\* version_match
VersionMatch(component, version) ==
    FirstHeard([i \in DOMAIN component.rules |-> RuleSays(component, version, component.rules[i])], component.default)

\* matches: the filter of a search by component and version.
Matches(components, name, version, conflicted) ==
    LET named == {c \in components : c.name = name}
        found == {VersionMatch(c, version) : c \in named}
    IN IF named = {} \/ conflicted THEN "unknown"
       ELSE IF "affected" \in found THEN "affected"
       ELSE IF "unknown" \in found THEN "unknown" ELSE "unaffected"
=============================================================================
