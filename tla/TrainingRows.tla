----------------------------- MODULE TrainingRows -----------------------------
(***************************************************************************)
(* What one build of the training dataset writes (training.py): families of *)
(* vulnerabilities that share code or text, the split of each, the          *)
(* documents of the retrieval corpus and the references to them.            *)
(*                                                                          *)
(* A build reads records, a function from vulnerabilities (numbers, in the  *)
(* order of their ids) to [active, text, labels, component, severity], where *)
(* labels are the weaknesses and component may be "none", and artifacts,    *)
(* a sequence of [vulns, content, type] in the order of their ids.  text    *)
(* and content stand for the hash of a normalised text; text 0 is too short.*)
(***************************************************************************)
EXTENDS Integers, Sequences, FiniteSetsExt, SequencesExt

CONSTANTS
    Vulns,            \* identifiers, of records or only of artifacts
    ChunksOf(_),      \* the hashes of the chunks of a content
    TooLong,          \* contents over the limit, which are not written
    SplitOf(_)        \* the split a seed selects for a family

ASSUME VulnsAssumption == IsFiniteSet(Vulns) /\ Vulns \subseteq Nat

-----------------------------------------------------------------------------
(* _Families: a forest of parents *)

Up(parent, v) ==
    LET up[x \in Vulns] == IF parent[x] = x THEN {x} ELSE {x} \cup up[parent[x]] IN up[v]
Root(parent, v) == CHOOSE x \in Up(parent, v) : parent[x] = x

\* find: the nodes on the way are hung below the root.
Compressed(parent, v) == [x \in Vulns |-> IF x \in Up(parent, v) THEN Root(parent, v) ELSE parent[x]]

\* union: the smaller root becomes the parent of the larger.
Unite(parent, edge) ==
    LET short == Compressed(Compressed(parent, edge[1]), edge[2])
        roots == {short[edge[1]], short[edge[2]]}
    IN [short EXCEPT ![Max(roots)] = Min(roots)]

-----------------------------------------------------------------------------
(* The families of a build *)

First(a) == Min(a.vulns)
Texts(records) == {v \in DOMAIN records : records[v].active /\ records[v].text # 0}

\* The vulnerabilities linked with a content, by any artifact that has it.
Group(artifacts, content) ==
    UNION {artifacts[i].vulns : i \in {j \in DOMAIN artifacts : artifacts[j].content = content}}

\* What is linked at once is united with its smallest member.
Star(vulns) == {<<Min(vulns), v>> : v \in vulns}

LinkEdges(artifacts) == UNION {Star(a.vulns) : a \in ToSet(artifacts)}

\* Mutant: chunks are not compared.
NoChunkEdges(artifacts) == {}
\* The first owner of a chunk and every later one.
ChunkEdges(artifacts) ==
    LET Cut(a) == IF a.content \in TooLong THEN {} ELSE ChunksOf(a.content)
        Later(i) == {j \in DOMAIN artifacts : i <= j /\ Cut(artifacts[i]) \cap Cut(artifacts[j]) # {}}
    IN UNION {{<<First(artifacts[i]), First(artifacts[j])>> : j \in Later(i)} : i \in DOMAIN artifacts}

ContentEdges(artifacts) == UNION {Star(Group(artifacts, a.content)) : a \in ToSet(artifacts)}

TextEdges(records) ==
    {e \in Texts(records) \X Texts(records) : e[1] < e[2] /\ records[e[1]].text = records[e[2]].text}

Edges(records, artifacts) ==
    LinkEdges(artifacts) \cup ChunkEdges(artifacts) \cup ContentEdges(artifacts) \cup TextEdges(records)

Families(records, artifacts) ==
    FoldSet(LAMBDA edge, parent : Unite(parent, edge), [v \in Vulns |-> v], Edges(records, artifacts))

-----------------------------------------------------------------------------
(* The rows *)

\* The first active records up to the limit; those without a text are skipped.
Selected(records, limit) ==
    LET active == {v \in DOMAIN records : records[v].active}
    IN {v \in active : Cardinality({w \in active : w <= v}) <= limit} \cap Texts(records)

\* The contents that are written, each once, for those of its group selected.
Written(artifacts, chosen) ==
    {c \in {a.content : a \in ToSet(artifacts)} \ TooLong : Group(artifacts, c) \cap chosen # {}}

\* A document: whom it is about, its text, and its split.
TextDocs(records, chosen, family) ==
    {[kind |-> "text", of |-> {v}, key |-> records[v].text, split |-> SplitOf(Root(family, v))] : v \in chosen}
CodeDocs(artifacts, chosen, family) ==
    UNION {LET about == Group(artifacts, c) \cap chosen
           IN {[kind |-> "code", of |-> about, key |-> k, split |-> SplitOf(Root(family, Min(about)))] : k \in ChunksOf(c)} :
           c \in Written(artifacts, chosen)}
Docs(records, artifacts, chosen, family) == TextDocs(records, chosen, family) \cup CodeDocs(artifacts, chosen, family)

\* Mutant: any other record of its group will do.
StrangersAll(others, v, family) == others \ {v}
Strangers(others, v, family) == {w \in others : Root(family, w) # Root(family, v)}

\* The hard negatives of a row: of its split and another family, with a
\* weakness in common, or else the same component, or else the same severity; a
\* hash selects one of them.
Negatives(records, chosen, family, v) ==
    LET near == {w \in chosen : SplitOf(Root(family, w)) = SplitOf(Root(family, v))}
        labelled == Strangers({w \in near : records[w].labels \cap records[v].labels # {}}, v, family)
        similar == Strangers({w \in near : "none" # records[v].component /\ records[v].component = records[w].component}, v, family)
        alike == Strangers({w \in near : "unknown" # records[v].severity /\ records[v].severity = records[w].severity}, v, family)
    IN IF labelled # {} THEN labelled ELSE IF similar # {} THEN similar ELSE alike

\* The documents a row refers to: its own, and the text of a negative.
References(records, artifacts, chosen, family, v) ==
    LET docs == Docs(records, artifacts, chosen, family)
    IN {d \in docs : v \in d.of} \cup
       {d \in docs : d.kind = "text" /\ d.of \subseteq Negatives(records, chosen, family, v)}

\* A preference candidate: another artifact of the same type and split, none
\* of whose vulnerabilities is of the family.
Rejectable(artifacts, chosen, family, v, a) ==
    {b \in ToSet(artifacts) :
        /\ b.type = a.type /\ b # a /\ b.vulns \cap chosen # {}
        /\ SplitOf(Root(family, Min(b.vulns \cap chosen))) = SplitOf(Root(family, v))
        /\ \A w \in b.vulns : Root(family, w) # Root(family, v)}

-----------------------------------------------------------------------------
(* _chunks: pieces <<from, to>> of a text of length n, cut after the last *)
(* newline of their second half when there is one; of a longer text a piece  *)
(* of nothing but blanks is left out. *)

\* Mutant: the next piece starts the overlap after the end.
NextStartAfter(start, end, overlap) == end + overlap
NextStart(start, end, overlap) == Max({start + 1, end - overlap})

PieceEnd(n, newlines, size, start) ==
    LET end == Min({n, start + size})
        cuts == {x \in newlines : start + size \div 2 <= x /\ x < end}
    IN IF end < n /\ cuts # {} /\ Max(cuts) > start THEN Max(cuts) + 1 ELSE end

Pieces(n, newlines, size, overlap) ==
    LET from[start \in 0..(n - 1)] ==
            LET end == PieceEnd(n, newlines, size, start)
                next == NextStart(start, end, overlap)
            IN {<<start, end>>} \cup (IF end >= n \/ next >= n THEN {} ELSE from[next])
    IN from[0]

Chunks(n, newlines, blanks, size, overlap) ==
    IF n <= size THEN {<<0, n>>}
    ELSE {c \in Pieces(n, newlines, size, overlap) : ~(c[1]..(c[2] - 1) \subseteq blanks)}
=============================================================================
