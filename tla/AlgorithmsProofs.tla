------------------------- MODULE AlgorithmsProofs --------------------------
(*****************************************************************************)
(* Proofs about the algorithms of MCAlgorithms, for every input rather than *)
(* those TLC enumerates: chunks, families and splits of a dataset, components, *)
(* canonical records and version ranges.  InputOK says what the inputs of a *)
(* state are, and the theorems at the end state the invariants of the runs. *)
(*****************************************************************************)
EXTENDS MCAlgorithms, SearchProofs

-----------------------------------------------------------------------------
(* _chunks *)

\* _chunks: a piece is not empty, and within the text and the size.
LEMMA PieceEndBounds ==
    ASSUME NEW n \in Nat, NEW newlines \in SUBSET Int, NEW size \in Nat, size > 0,
           NEW start \in Nat, start < n
    PROVE  LET end == PieceEnd(n, newlines, size, start)
           IN end \in Nat /\ start < end /\ end <= n /\ end <= start + size
<1>. DEFINE end == Min({n, start + size})
            cuts == {x \in newlines : start + size \div 2 <= x /\ x < end}
<1>1. end \in {n, start + size} /\ end <= n /\ end <= start + size
  BY MinOf
<1>2. end \in Nat /\ start < end
  BY <1>1
<1>3. ASSUME cuts # {}, Max(cuts) > start PROVE Max(cuts) \in Int /\ Max(cuts) < end
  <2>1. cuts \in SUBSET Int /\ end \in Int /\ \A x \in cuts : x <= end /\ x < end
    <3>1. end \in Int
      BY <1>2
    <3>2. ASSUME NEW x \in cuts PROVE x \in Int /\ x < end
      OBVIOUS
    <3>3. ASSUME NEW x \in cuts PROVE x <= end
      BY <3>1, <3>2
    <3>. HIDE DEF end, cuts
    <3>. QED BY <3>1, <3>2, <3>3
  <2>2. Max(cuts) \in cuts
    <3>. HIDE DEF cuts, end
    <3>. QED BY <2>1, <1>3, MaxOf
  <2>. QED BY <2>1, <2>2
<1>. HIDE DEF end, cuts
<1>4. PieceEnd(n, newlines, size, start) = IF end < n /\ cuts # {} /\ Max(cuts) > start THEN Max(cuts) + 1 ELSE end
  BY DEF PieceEnd, end, cuts
<1>. QED BY <1>1, <1>2, <1>3, <1>4

\* _chunks: the next piece starts behind the start of the last and not behind its end.
LEMMA NextStartBounds ==
    ASSUME NEW start \in Nat, NEW end \in Nat, start < end, NEW overlap \in Nat
    PROVE  /\ NextStart(start, end, overlap) \in Nat
           /\ start < NextStart(start, end, overlap) /\ NextStart(start, end, overlap) <= end
<1>1. NextStart(start, end, overlap) \in {start + 1, end - overlap} /\ NextStart(start, end, overlap) >= start + 1
  <2>. DEFINE S == {start + 1, end - overlap}
  <2>1. S \in SUBSET Int /\ S # {} /\ end \in Int /\ \A x \in S : x <= end
    OBVIOUS
  <2>2. Max(S) \in S /\ \A y \in S : Max(S) >= y
    <3>. HIDE DEF S
    <3>. QED BY <2>1, MaxOf
  <2>. QED BY <2>2 DEF NextStart
<1>. QED BY <1>1

\* The pieces from every start on cover the rest of the text.
PiecesCover(pieces, start, n, size) ==
    /\ pieces \subseteq Int \X Int
    /\ \A i \in start..(n - 1) : \E c \in pieces : c[1] <= i /\ i < c[2]
    /\ \A c \in pieces : c[1] < c[2] /\ c[2] - c[1] <= size

\* _chunks: the windows over a longer text cover it, and are not empty.
LEMMA PiecesAlwaysCover ==
    ASSUME NEW n \in Nat, NEW newlines \in SUBSET Int, NEW size \in Nat, size > 0, NEW overlap \in Nat, n > size
    PROVE  PiecesCover(Pieces(n, newlines, size, overlap), 0, n, size)
<1>. DEFINE S == 0..(n - 1)
            rank == [s \in S |-> n - s]
<1>r. /\ \A s : s \in S <=> s \in Nat /\ s < n
      /\ rank \in [S -> Nat] /\ \A s \in S : rank[s] = n - s
  OBVIOUS
<1>. DEFINE end(start) == PieceEnd(n, newlines, size, start)
            next(start) == NextStart(start, end(start), overlap)
            Def(f, start) == {<<start, end(start)>>} \cup (IF end(start) >= n \/ next(start) >= n THEN {} ELSE f[next(start)])
            Is(f) == f = [start \in S |-> Def(f, start)]
            from == CHOOSE f : Is(f)
<1>1. Pieces(n, newlines, size, overlap) = from[0]
  BY DEF Pieces
<1>2. ASSUME NEW s \in S
      PROVE  /\ end(s) \in Nat /\ s < end(s) /\ end(s) <= n /\ end(s) <= s + size
             /\ next(s) \in Nat /\ s < next(s) /\ next(s) <= end(s)
  BY PieceEndBounds, NextStartBounds
<1>. HIDE DEF end, next, S, rank
<1>3. \E f : Is(f)
  <2>. DEFINE T == SUBSET (Int \X Int)
              step == [f \in [S -> T] |-> [start \in S |-> Def(f, start)]]
  <2>1. ASSUME NEW f \in [S -> T], NEW s \in S PROVE Def(f, s) \in T
    <3>1. next(s) < n => f[next(s)] \in T
      BY <1>2, <1>r
    <3>2. {<<s, end(s)>>} \in T
      BY <1>2, <1>r
    <3>3. next(s) < n <=> ~(next(s) >= n)
      BY <1>2
    <3>. HIDE DEF T
    <3>. QED BY <3>1, <3>2, <3>3 DEF T
  <2>2. step \in [[S -> T] -> [S -> T]]
    BY <2>1
  <2>4. ASSUME NEW g \in [S -> T], NEW h \in [S -> T], NEW x \in S,
               \A y \in S : rank[y] < rank[x] => g[y] = h[y]
        PROVE  step[g][x] = step[h][x]
    <3>1. ~(next(x) >= n) => next(x) \in S /\ rank[next(x)] < rank[x]
      BY <1>2, <1>r
    <3>2. ~(next(x) >= n) => g[next(x)] = h[next(x)]
      BY <3>1, <2>4
    <3>3. Def(g, x) = Def(h, x)
      BY <3>2
    <3>. QED BY <3>3
  <2>5. \E f \in [S -> T] : step[f] = f
    <3>1. T # {}
      OBVIOUS
    <3>2. Causal(step, S, T, rank)
      <4>. HIDE DEF step, T
      <4>. QED BY <3>1, <1>r, <2>2, <2>4 DEF Causal
    <3>. HIDE DEF T, step
    <3>. QED BY <3>2, Recursion
  <2>. QED BY <2>5
<1>4. Is(from)
  BY <1>3
<1>. HIDE DEF from, end, next
<1>5. ASSUME NEW s \in S
      PROVE from[s] = {<<s, end(s)>>} \cup (IF end(s) >= n \/ next(s) >= n THEN {} ELSE from[next(s)])
  BY <1>4
<1>6. \A s \in S : PiecesCover(from[s], s, n, size)
  <2>. DEFINE Good == {s \in S : PiecesCover(from[s], s, n, size)}
  <2>1. ASSUME NEW s \in S, \A t \in S : rank[t] < rank[s] => t \in Good
        PROVE  s \in Good
    <3>1. CASE end(s) >= n \/ next(s) >= n
      <4>2. from[s] = {<<s, end(s)>>} /\ end(s) >= n /\ s < end(s) /\ end(s) - s <= size
        BY <3>1, <1>2, <1>5, <1>r
      <4>3. s \in Nat /\ end(s) \in Nat
        BY <1>2, <1>r
      <4>4. \A i \in s..(n - 1) : s <= i /\ i < end(s)
        BY <4>2, <4>3
      <4>5. from[s] \subseteq Int \X Int
        BY <4>2, <4>3
      <4>. QED BY <4>2, <4>3, <4>4, <4>5 DEF PiecesCover
    <3>2. CASE ~(end(s) >= n \/ next(s) >= n)
      <4>1. from[s] = {<<s, end(s)>>} \cup from[next(s)]
        BY <3>2, <1>5
      <4>2. /\ next(s) \in S /\ rank[next(s)] < rank[s] /\ next(s) <= end(s)
            /\ end(s) - s <= size /\ s < end(s) /\ end(s) \in Int /\ next(s) \in Int
        BY <3>2, <1>2, <1>r
      <4>3. PiecesCover(from[next(s)], next(s), n, size)
        BY <4>2, <2>1
      <4>4. ASSUME NEW i \in s..(n - 1) PROVE \E c \in from[s] : c[1] <= i /\ i < c[2]
        <5>1. CASE i < end(s)
          <6>1. <<s, end(s)>> \in from[s] /\ s <= i
            BY <4>1, <1>r
          <6>. QED BY <6>1, <5>1
        <5>2. CASE ~(i < end(s))
          <6>1. i \in next(s)..(n - 1)
            BY <5>2, <4>2
          <6>. QED BY <6>1, <4>1, <4>3 DEF PiecesCover
        <5>. QED BY <5>1, <5>2
      <4>5. \A c \in from[s] : c[1] < c[2] /\ c[2] - c[1] <= size
        BY <4>1, <4>2, <4>3 DEF PiecesCover
      <4>6. from[s] \subseteq Int \X Int
        <5>1. s \in Int
          BY <1>r
        <5>. QED BY <5>1, <4>1, <4>2, <4>3 DEF PiecesCover
      <4>. QED BY <4>4, <4>5, <4>6 DEF PiecesCover
    <3>. QED BY <3>1, <3>2
  <2>2. rank \in [S -> Nat]
    BY <1>r
  <2>3. S \subseteq Good
    <3>. HIDE DEF Good
    <3>. QED BY <2>1, <2>2, Descent
  <2>. QED BY <2>3
<1>7. 0 \in S
  BY <1>r
<1>. QED BY <1>1, <1>6, <1>7

\* _chunks: for every length, every place of the newlines and blanks, every size
\* and every overlap, even one over the size, the pieces cover the text but for
\* its blanks, and none is empty or longer than the size.
THEOREM ChunksAlwaysCover ==
    ASSUME NEW n \in Nat, NEW newlines \in SUBSET Int, NEW blanks, NEW size \in Nat, size > 0, NEW overlap \in Nat
    PROVE  LET pieces == Chunks(n, newlines, blanks, size, overlap)
           IN /\ \A i \in (0..(n - 1)) \ blanks : \E c \in pieces : c[1] <= i /\ i < c[2]
              /\ n > 0 => \A c \in pieces : c[1] < c[2] /\ c[2] - c[1] <= size
<1>1. CASE n <= size
  <2>1. Chunks(n, newlines, blanks, size, overlap) = {<<0, n>>}
    BY <1>1 DEF Chunks
  <2>. QED BY <2>1, <1>1
<1>2. CASE n > size
  <2>. DEFINE windows == Pieces(n, newlines, size, overlap)
              pieces == {c \in windows : ~(c[1]..(c[2] - 1) \subseteq blanks)}
  <2>1. Chunks(n, newlines, blanks, size, overlap) = pieces
    BY <1>2 DEF Chunks
  <2>2. PiecesCover(windows, 0, n, size)
    BY <1>2, PiecesAlwaysCover
  <2>3. windows \subseteq Int \X Int
    BY <2>2 DEF PiecesCover
  <2>. HIDE DEF windows
  <2>4. ASSUME NEW i \in (0..(n - 1)) \ blanks PROVE \E c \in pieces : c[1] <= i /\ i < c[2]
    <3>1. PICK c \in windows : c[1] <= i /\ i < c[2]
      BY <2>2 DEF PiecesCover
    <3>2. c[1] \in Int /\ c[2] \in Int
      BY <2>3
    <3>3. i \in c[1]..(c[2] - 1)
      BY <3>1, <3>2
    <3>4. c \in pieces
      BY <3>3
    <3>. QED BY <3>1, <3>4
  <2>5. \A c \in pieces : c[1] < c[2] /\ c[2] - c[1] <= size
    BY <2>2 DEF PiecesCover
  <2>. QED BY <2>1, <2>4, <2>5
<1>. QED BY <1>1, <1>2

-----------------------------------------------------------------------------
(* _Families, and what a build keeps apart *)

\* What union keeps: a parent is never larger than its child.
Forest == {p \in [Vulns -> Vulns] : \A x \in Vulns : p[x] <= x}

\* A parent is a vulnerability, and smaller unless it is the node itself.
LEMMA Parents ==
    ASSUME NEW p \in Forest, NEW x \in Vulns
    PROVE  p[x] \in Vulns /\ p[x] <= x /\ x \in Nat /\ p[x] \in Nat /\ (p[x] # x => p[x] < x)
<1>1. p[x] \in Vulns /\ p[x] <= x
  BY DEF Forest
<1>2. x \in Nat /\ p[x] \in Nat
  BY <1>1, VulnsAssumption
<1>. QED BY <1>1, <1>2

\* Induction from the roots down.
LEMMA ForestInduction ==
    ASSUME NEW p \in Forest, NEW Good, \A x \in Vulns : (p[x] # x => p[x] \in Good) => x \in Good
    PROVE  Vulns \subseteq Good
<1>. DEFINE rank == [x \in Vulns |-> x]
<1>1. rank \in [Vulns -> Nat] /\ \A x \in Vulns : rank[x] = x
  BY VulnsAssumption
<1>. HIDE DEF rank
<1>2. ASSUME NEW x \in Vulns, \A y \in Vulns : rank[y] < rank[x] => y \in Good PROVE x \in Good
  BY <1>1, <1>2, Parents
<1>. QED BY <1>1, <1>2, Descent

\* The recursion of the walk to the root, and its solution.
UpOf(p, up) == up = [x \in Vulns |-> IF p[x] = x THEN {x} ELSE {x} \cup up[p[x]]]

\* The walk to the root has a solution.
LEMMA UpExists ==
    ASSUME NEW p \in Forest
    PROVE  \E up : UpOf(p, up)
<1>. DEFINE T == SUBSET Vulns
            rank == [x \in Vulns |-> x]
            Def(f, x) == IF p[x] = x THEN {x} ELSE {x} \cup f[p[x]]
            step == [f \in [Vulns -> T] |-> [x \in Vulns |-> Def(f, x)]]
<1>1. T # {} /\ rank \in [Vulns -> Nat] /\ p \in [Vulns -> Vulns]
  BY VulnsAssumption DEF Forest
<1>2. step \in [[Vulns -> T] -> [Vulns -> T]]
  <2>1. ASSUME NEW f \in [Vulns -> T], NEW x \in Vulns PROVE Def(f, x) \in T
    BY <1>1
  <2>. QED BY <2>1
<1>3. ASSUME NEW g \in [Vulns -> T], NEW h \in [Vulns -> T], NEW x \in Vulns,
             \A y \in Vulns : rank[y] < rank[x] => g[y] = h[y]
      PROVE  step[g][x] = step[h][x]
  <2>1. CASE p[x] = x
    BY <2>1
  <2>2. CASE p[x] # x
    <3>1. p[x] \in Vulns /\ rank[p[x]] < rank[x]
      BY <2>2, Parents
    <3>2. g[p[x]] = h[p[x]]
      BY <3>1, <1>3
    <3>. QED BY <3>2
  <2>. QED BY <2>1, <2>2
<1>4. Causal(step, Vulns, T, rank)
  <2>. HIDE DEF step, rank, T
  <2>. QED BY <1>1, <1>2, <1>3 DEF Causal
<1>5. PICK f \in [Vulns -> T] : step[f] = f
  <2>. HIDE DEF step, rank, T
  <2>. QED BY <1>4, Recursion
<1>. QED BY <1>5 DEF UpOf

\* One step of the walk to the root.
LEMMA UpStep ==
    ASSUME NEW p \in Forest, NEW x \in Vulns
    PROVE  Up(p, x) = IF p[x] = x THEN {x} ELSE {x} \cup Up(p, p[x])
<1>. DEFINE up == CHOOSE f : UpOf(p, f)
<1>1. \A v : Up(p, v) = up[v]
  BY DEF Up, UpOf
<1>2. UpOf(p, up)
  BY UpExists
<1>. HIDE DEF up
<1>. QED BY <1>1, <1>2 DEF UpOf

\* The nodes above x: x is the largest, one of them is a root, and it is the
\* root of each.
LEMMA UpHolds ==
    ASSUME NEW p \in Forest
    PROVE  \A x \in Vulns :
               /\ x \in Up(p, x) /\ Up(p, x) \subseteq Vulns /\ \A y \in Up(p, x) : y <= x
               /\ Root(p, x) \in Up(p, x) /\ p[Root(p, x)] = Root(p, x)
               /\ \A y \in Up(p, x) : p[y] = y => y = Root(p, x)
<1>. DEFINE Holds(x) == /\ x \in Up(p, x) /\ Up(p, x) \subseteq Vulns /\ \A y \in Up(p, x) : y <= x
                        /\ \E r \in Up(p, x) : p[r] = r /\ \A y \in Up(p, x) : p[y] = y => y = r
            Good == {x \in Vulns : Holds(x)}
<1>1. ASSUME NEW x \in Vulns, p[x] # x => p[x] \in Good PROVE Holds(x)
  <2>1. CASE p[x] = x
    <3>1. Up(p, x) = {x}
      BY <2>1, UpStep
    <3>. QED BY <3>1, <2>1, VulnsAssumption
  <2>2. CASE p[x] # x
    <3>1. p[x] \in Vulns /\ p[x] <= x /\ x \in Nat /\ p[x] \in Nat
      BY Parents
    <3>2. Holds(p[x])
      BY <3>1, <2>2, <1>1
    <3>3. Up(p, x) = {x} \cup Up(p, p[x])
      BY <2>2, UpStep
    <3>4. ASSUME NEW y \in Up(p, x) PROVE y \in Vulns /\ y <= x
      <4>1. CASE y = x
        BY <4>1, <3>1
      <4>2. CASE y \in Up(p, p[x])
        <5>1. y \in Vulns /\ y <= p[x]
          BY <4>2, <3>2
        <5>. QED BY <5>1, <3>1, VulnsAssumption
      <4>. QED BY <4>1, <4>2, <3>3
    <3>. QED BY <3>2, <3>3, <3>4, <2>2
  <2>. QED BY <2>1, <2>2
<1>3. Vulns \subseteq Good
  <2>1. \A x \in Vulns : (p[x] # x => p[x] \in Good) => x \in Good
    BY <1>1
  <2>. HIDE DEF Good
  <2>. QED BY <2>1, ForestInduction
<1>. QED BY <1>3 DEF Root

\* find: the root of a node is that of its parent.
LEMMA RootStep ==
    ASSUME NEW p \in Forest, NEW x \in Vulns
    PROVE  /\ Root(p, x) \in Vulns /\ Root(p, x) <= x /\ p[Root(p, x)] = Root(p, x)
           /\ Root(p, x) = IF p[x] = x THEN x ELSE Root(p, p[x])
<1>0. p[x] \in Vulns
  BY DEF Forest
<1>1. CASE p[x] = x
  BY <1>1, UpHolds
<1>2. CASE p[x] # x
  <2>1. Root(p, p[x]) \in Up(p, x) /\ p[Root(p, p[x])] = Root(p, p[x])
    BY <1>0, <1>2, UpStep, UpHolds
  <2>. QED BY <2>1, <1>2, UpHolds
<1>. QED BY <1>1, <1>2

\* The nodes on the way to a root have that root.
LEMMA RootOfUp ==
    ASSUME NEW p \in Forest
    PROVE  \A x \in Vulns : \A y \in Up(p, x) : Root(p, y) = Root(p, x)
<1>. DEFINE Good == {x \in Vulns : \A y \in Up(p, x) : Root(p, y) = Root(p, x)}
<1>1. ASSUME NEW x \in Vulns, p[x] # x => p[x] \in Good PROVE x \in Good
  <2>1. CASE p[x] = x
    BY <2>1, UpStep
  <2>2. CASE p[x] # x
    <3>1. p[x] \in Vulns
      BY Parents
    <3>2. Up(p, x) = {x} \cup Up(p, p[x]) /\ Root(p, x) = Root(p, p[x])
      BY <2>2, UpStep, RootStep
    <3>. QED BY <3>1, <3>2, <2>2, <1>1
  <2>. QED BY <2>1, <2>2
<1>3. Vulns \subseteq Good
  <2>. HIDE DEF Good
  <2>. QED BY <1>1, ForestInduction
<1>. QED BY <1>3

\* find's path compression changes no root.
LEMMA CompressedRoots ==
    ASSUME NEW p \in Forest, NEW v \in Vulns
    PROVE  /\ Compressed(p, v) \in Forest /\ Compressed(p, v)[v] = Root(p, v)
           /\ \A x \in Vulns : Root(Compressed(p, v), x) = Root(p, x)
<1>. DEFINE q == Compressed(p, v)
            Good == {x \in Vulns : Root(q, x) = Root(p, x)}
<1>1. \A x \in Vulns : q[x] = IF x \in Up(p, v) THEN Root(p, v) ELSE p[x]
  BY DEF Compressed
<1>2. q \in Forest
  <2>1. q = [x \in Vulns |-> IF x \in Up(p, v) THEN Root(p, v) ELSE p[x]]
    BY DEF Compressed
  <2>2. ASSUME NEW x \in Vulns PROVE q[x] \in Vulns /\ q[x] <= x
    <3>1. CASE x \in Up(p, v)
      BY <3>1, <1>1, RootOfUp, RootStep
    <3>2. CASE x \notin Up(p, v)
      BY <3>2, <1>1 DEF Forest
    <3>. QED BY <3>1, <3>2
  <2>. HIDE DEF q
  <2>. QED BY <2>1, <2>2 DEF Forest
<1>3. q[v] = Root(p, v)
  BY <1>1, UpHolds
<1>. HIDE DEF q
<1>4. ASSUME NEW x \in Vulns, q[x] # x => q[x] \in Good PROVE x \in Good
  <2>1. CASE q[x] = x
    <3>1. Root(q, x) = x
      BY <2>1, <1>2, RootStep
    <3>2. CASE x \in Up(p, v)
      BY <3>1, <3>2, <2>1, <1>1, RootOfUp
    <3>3. CASE x \notin Up(p, v)
      BY <3>1, <3>3, <2>1, <1>1, RootStep
    <3>. QED BY <3>2, <3>3
  <2>2. CASE q[x] # x
    <3>1. q[x] \in Vulns
      BY <1>2, Parents
    <3>2. Root(q, x) = Root(q, q[x])
      BY <2>2, <1>2, RootStep
    <3>3. Root(q, q[x]) = Root(p, q[x])
      BY <3>1, <2>2, <1>4
    <3>4. Root(p, q[x]) = Root(p, x)
      <4>1. CASE x \in Up(p, v)
        BY <4>1, <1>1, RootOfUp, RootStep
      <4>2. CASE x \notin Up(p, v)
        BY <4>2, <2>2, <1>1, RootStep
      <4>. QED BY <4>1, <4>2
    <3>. QED BY <3>2, <3>3, <3>4
  <2>. QED BY <2>1, <2>2
<1>6. Vulns \subseteq Good
  <2>. HIDE DEF Good
  <2>. QED BY <1>2, <1>4, ForestInduction
<1>. QED BY <1>2, <1>3, <1>6 DEF q

\* Max and Min of two numbers.
LEMMA MaxMinOfTwo ==
    ASSUME NEW a \in Nat, NEW b \in Nat
    PROVE  /\ Max({a, b}) \in {a, b} /\ Max({a, b}) >= a /\ Max({a, b}) >= b
           /\ Min({a, b}) \in {a, b} /\ Min({a, b}) <= a /\ Min({a, b}) <= b
           /\ {a, b} = {Max({a, b}), Min({a, b})}
<1>. DEFINE S == {a, b}
<1>1. S \in SUBSET Nat /\ S # {} /\ a + b \in Int /\ \A x \in S : x \in Int /\ x <= a + b
  OBVIOUS
<1>2. Max(S) \in S /\ (\A y \in S : Max(S) >= y) /\ Min(S) \in S /\ \A y \in S : Min(S) <= y
  <2>1. S \in SUBSET Int
    BY <1>1
  <2>. HIDE DEF S
  <2>. QED BY <1>1, <2>1, MaxOf, MinOf
<1>. QED BY <1>2

\* union: the families of the two ends become one, under the smaller root, and
\* the others stay.
LEMMA UniteJoins ==
    ASSUME NEW p \in Forest, NEW edge \in Vulns \X Vulns
    PROVE  /\ Unite(p, edge) \in Forest
           /\ Root(Unite(p, edge), edge[1]) = Root(Unite(p, edge), edge[2])
           /\ \A x, y \in Vulns : Root(p, x) = Root(p, y) => Root(Unite(p, edge), x) = Root(Unite(p, edge), y)
<1>. DEFINE once == Compressed(p, edge[1])
            short == Compressed(once, edge[2])
            a == Root(p, edge[1])
            b == Root(p, edge[2])
            q == Unite(p, edge)
            lo == Min({a, b})
            hi == Max({a, b})
            Into(x) == IF Root(p, x) \in {a, b} THEN lo ELSE Root(p, x)
            Good == {x \in Vulns : Root(q, x) = Into(x)}
<1>1. edge[1] \in Vulns /\ edge[2] \in Vulns
  OBVIOUS
<1>2. once \in Forest /\ once[edge[1]] = a /\ \A x \in Vulns : Root(once, x) = Root(p, x)
  BY <1>1, CompressedRoots
<1>3. short \in Forest /\ short[edge[2]] = Root(once, edge[2]) /\ \A x \in Vulns : Root(short, x) = Root(once, x)
  <2>. HIDE DEF once
  <2>. QED BY <1>1, <1>2, CompressedRoots
<1>4. short[edge[1]] = a /\ short[edge[2]] = b
  <2>1. short[edge[1]] = IF edge[1] \in Up(once, edge[2]) THEN Root(once, edge[2]) ELSE once[edge[1]]
    BY <1>1 DEF Compressed
  <2>2. edge[1] \in Up(once, edge[2]) => Root(once, edge[1]) = Root(once, edge[2])
    <3>. HIDE DEF once
    <3>. QED BY <1>1, <1>2, RootOfUp
  <2>. HIDE DEF once, short
  <2>. QED BY <2>1, <2>2, <1>1, <1>2, <1>3
<1>5. q = [short EXCEPT ![hi] = lo]
  <2>1. q = [short EXCEPT ![Max({short[edge[1]], short[edge[2]]})] = Min({short[edge[1]], short[edge[2]]})]
    BY DEF Unite
  <2>. HIDE DEF q, short
  <2>. QED BY <2>1, <1>4
<1>6. a \in Vulns /\ b \in Vulns /\ a \in Nat /\ b \in Nat
  BY <1>1, RootStep, VulnsAssumption
<1>7. lo \in {a, b} /\ hi \in {a, b} /\ lo <= hi /\ {a, b} = {lo, hi}
  <2>. HIDE DEF a, b
  <2>. QED BY <1>6, MaxMinOfTwo
<1>8. p[a] = a /\ p[b] = b /\ Root(p, a) = a /\ Root(p, b) = b
  BY <1>1, RootStep
<1>. HIDE DEF once, short, q, a, b, lo, hi
<1>9. short[a] = a /\ short[b] = b
  <2>1. \A r \in {a, b} : r \in Vulns /\ Root(short, r) = r
    BY <1>2, <1>3, <1>6, <1>8
  <2>2. ASSUME NEW r \in {a, b} PROVE short[r] = r
    <3>. SUFFICES ASSUME short[r] # r PROVE FALSE
      OBVIOUS
    <3>1. short[r] \in Vulns /\ short[r] < r /\ r \in Nat /\ short[r] \in Nat
      BY <2>1, <1>3, Parents
    <3>2. Root(short, r) = Root(short, short[r]) /\ Root(short, short[r]) <= short[r] /\ Root(short, short[r]) \in Vulns
      BY <2>1, <3>1, <1>3, RootStep
    <3>. QED BY <3>1, <3>2, <2>1
  <2>. QED BY <2>2
<1>10. /\ lo \in Vulns /\ hi \in Vulns /\ short[lo] = lo /\ short[hi] = hi
       /\ q[hi] = lo /\ \A x \in Vulns : x # hi => q[x] = short[x]
  BY <1>3, <1>5, <1>6, <1>7, <1>9 DEF Forest
<1>11. q \in Forest
  BY <1>3, <1>5, <1>7, <1>10 DEF Forest
<1>12. \A x \in Vulns : Root(short, x) = Root(p, x)
  BY <1>2, <1>3
<1>13. ASSUME NEW x \in Vulns, q[x] # x => q[x] \in Good PROVE x \in Good
  <2>1. CASE x = hi
    <3>1. Root(p, x) = x
      BY <2>1, <1>7, <1>8
    <3>2. Root(q, x) = lo
      <4>1. Root(q, lo) = lo
        BY <1>10, <1>11, RootStep
      <4>. QED BY <4>1, <2>1, <1>10, <1>11, RootStep
    <3>. QED BY <3>1, <3>2, <2>1, <1>7
  <2>2. CASE x # hi /\ q[x] = x
    <3>1. Root(q, x) = x /\ Root(p, x) = x
      BY <2>2, <1>3, <1>10, <1>11, <1>12, RootStep
    <3>. QED BY <3>1, <2>2, <1>7
  <2>3. CASE x # hi /\ q[x] # x
    <3>1. q[x] = short[x] /\ q[x] \in Vulns
      BY <2>3, <1>10, <1>11, Parents
    <3>2. Root(q, x) = Root(q, q[x]) /\ Root(short, x) = Root(short, q[x])
      BY <2>3, <3>1, <1>3, <1>11, RootStep
    <3>3. Root(q, q[x]) = Into(q[x])
      BY <2>3, <1>13
    <3>4. Root(p, q[x]) = Root(p, x)
      BY <3>1, <3>2, <1>12
    <3>. QED BY <3>2, <3>3, <3>4
  <2>. QED BY <2>1, <2>2, <2>3
<1>14. \A x \in Vulns : Root(q, x) = Into(x)
  <2>1. Vulns \subseteq Good
    <3>. HIDE DEF Good
    <3>. QED BY <1>11, <1>13, ForestInduction
  <2>. QED BY <2>1
<1>15. Into(edge[1]) = lo /\ Into(edge[2]) = lo
  BY DEF a, b
<1>16. \A x, y \in Vulns : Root(p, x) = Root(p, y) => Into(x) = Into(y)
  OBVIOUS
<1>. HIDE DEF Into
<1>. QED BY <1>1, <1>11, <1>14, <1>15, <1>16 DEF q

\* Every vulnerability its own family.
Alone == [v \in Vulns |-> v]

FoldOf(E, f) ==
    f = [s \in SUBSET E |-> IF s = {} THEN Alone
                            ELSE LET e == CHOOSE x \in s : TRUE IN Unite(f[s \ {e}], e)]

\* The families after any set of unions, in whatever order, join both ends of each.
LEMMA FoldJoins ==
    ASSUME NEW E \in SUBSET (Vulns \X Vulns), IsFiniteSet(E)
    PROVE  LET family == FoldSet(LAMBDA edge, parent : Unite(parent, edge), Alone, E)
           IN family \in Forest /\ \A e \in E : Root(family, e[1]) = Root(family, e[2])
<1>. DEFINE S == SUBSET E
            rank == [s \in S |-> Cardinality(s)]
            first(s) == CHOOSE x \in s : TRUE
            Def(f, s) == IF s = {} THEN Alone ELSE Unite(f[s \ {first(s)}], first(s))
            step == [f \in [S -> Forest] |-> [s \in S |-> Def(f, s)]]
            fold == CHOOSE f : FoldOf(E, f)
<1>1. Alone \in Forest
  BY VulnsAssumption DEF Alone, Forest
<1>2. /\ rank \in [S -> Nat]
      /\ \A s \in S : s # {} => /\ first(s) \in s /\ first(s) \in Vulns \X Vulns
                                /\ s \ {first(s)} \in S /\ rank[s \ {first(s)}] < rank[s]
  <2>1. ASSUME NEW s \in S PROVE IsFiniteSet(s) /\ Cardinality(s) \in Nat
    BY FS_Subset, FS_CardinalityType
  <2>2. ASSUME NEW s \in S, s # {} PROVE first(s) \in s
    BY <2>2
  <2>3. ASSUME NEW s \in S, s # {} PROVE s \ {first(s)} \in S /\ Cardinality(s \ {first(s)}) = Cardinality(s) - 1
    <3>. HIDE DEF first
    <3>. QED BY <2>1, <2>2, <2>3, FS_RemoveElement
  <2>. HIDE DEF first
  <2>. QED BY <2>1, <2>2, <2>3
<1>. HIDE DEF first, rank
<1>3. step \in [[S -> Forest] -> [S -> Forest]]
  <2>1. ASSUME NEW f \in [S -> Forest], NEW s \in S PROVE Def(f, s) \in Forest
    <3>1. CASE s = {}
      BY <3>1, <1>1
    <3>2. CASE s # {}
      <4>1. f[s \ {first(s)}] \in Forest
        BY <3>2, <1>2
      <4>. QED BY <4>1, <3>2, <1>2, UniteJoins
    <3>. QED BY <3>1, <3>2
  <2>. QED BY <2>1
<1>4. ASSUME NEW g \in [S -> Forest], NEW h \in [S -> Forest], NEW s \in S,
             \A t \in S : rank[t] < rank[s] => g[t] = h[t]
      PROVE  step[g][s] = step[h][s]
  BY <1>2, <1>4
<1>5. Causal(step, S, Forest, rank)
  <2>. HIDE DEF step, S
  <2>. QED BY <1>1, <1>2, <1>3, <1>4 DEF Causal
<1>6. \E f : FoldOf(E, f)
  <2>1. PICK f \in [S -> Forest] : step[f] = f
    <3>. HIDE DEF step, S
    <3>. QED BY <1>5, Recursion
  <2>. QED BY <2>1 DEF FoldOf, first
<1>7. FoldOf(E, fold)
  BY <1>6
<1>8. FoldSet(LAMBDA edge, parent : Unite(parent, edge), Alone, E) = fold[E]
  BY DEF FoldSet, MapThenFoldSet, FoldOf
<1>. HIDE DEF fold, step
<1>9. \A s \in S : fold[s] = IF s = {} THEN Alone ELSE Unite(fold[s \ {first(s)}], first(s))
  BY <1>7 DEF FoldOf, first
<1>. DEFINE Met(f, s) == \A e \in s : Root(f, e[1]) = Root(f, e[2])
            Good == {s \in S : fold[s] \in Forest /\ Met(fold[s], s)}
<1>10. ASSUME NEW s \in S, \A t \in S : rank[t] < rank[s] => t \in Good PROVE s \in Good
  <2>1. CASE s = {}
    BY <2>1, <1>1, <1>9
  <2>2. CASE s # {}
    <3>. DEFINE e == first(s)
                p == fold[s \ {e}]
    <3>1. p \in Forest /\ Met(p, s \ {e}) /\ e \in Vulns \X Vulns /\ fold[s] = Unite(p, e)
      BY <2>2, <1>2, <1>9, <1>10
    <3>. HIDE DEF e, p
    <3>2. /\ Unite(p, e) \in Forest
          /\ Root(Unite(p, e), e[1]) = Root(Unite(p, e), e[2])
          /\ \A x, y \in Vulns : Root(p, x) = Root(p, y) => Root(Unite(p, e), x) = Root(Unite(p, e), y)
      BY <3>1, UniteJoins
    <3>3. ASSUME NEW d \in s PROVE Root(Unite(p, e), d[1]) = Root(Unite(p, e), d[2])
      <4>1. d[1] \in Vulns /\ d[2] \in Vulns
        OBVIOUS
      <4>. QED BY <4>1, <3>1, <3>2
    <3>. QED BY <3>1, <3>2, <3>3
  <2>. QED BY <2>1, <2>2
<1>11. S \subseteq Good
  <2>. HIDE DEF S, Good
  <2>. QED BY <1>2, <1>10, Descent
<1>12. E \in Good
  BY <1>11
<1>. QED BY <1>8, <1>12

\* What a build reads.
IsInput(records, artifacts) ==
    /\ DOMAIN records \subseteq Vulns
    /\ \E n \in Nat : DOMAIN artifacts = 1..n
    /\ \A i \in DOMAIN artifacts : artifacts[i].vulns \subseteq Vulns /\ artifacts[i].vulns # {}

\* A group of vulnerabilities has a smallest.
LEMMA SmallestOf ==
    ASSUME NEW vs \in SUBSET Vulns, vs # {}
    PROVE  Min(vs) \in vs
BY MinOf, VulnsAssumption

\* The group of a content is of vulnerabilities.
LEMMA GroupTyped ==
    ASSUME NEW records, NEW artifacts, IsInput(records, artifacts), NEW c
    PROVE  Group(artifacts, c) \subseteq Vulns
BY DEF Group, IsInput

\* A build makes finitely many unions, of vulnerabilities.
LEMMA EdgesTyped ==
    ASSUME NEW records, NEW artifacts, IsInput(records, artifacts)
    PROVE  /\ Edges(records, artifacts) \in SUBSET (Vulns \X Vulns) /\ IsFiniteSet(Edges(records, artifacts))
<1>1. ASSUME NEW vs \in SUBSET Vulns PROVE Star(vs) \in SUBSET (Vulns \X Vulns)
  BY SmallestOf DEF Star
<1>2. LinkEdges(artifacts) \in SUBSET (Vulns \X Vulns)
  <2>1. \A a \in ToSet(artifacts) : a.vulns \in SUBSET Vulns
    BY DEF ToSet, IsInput
  <2>2. \A a \in ToSet(artifacts) : Star(a.vulns) \in SUBSET (Vulns \X Vulns)
    BY <1>1, <2>1
  <2>. QED BY <2>2 DEF LinkEdges
<1>3. ChunkEdges(artifacts) \in SUBSET (Vulns \X Vulns)
  <2>1. \A i \in DOMAIN artifacts : First(artifacts[i]) \in Vulns
    BY SmallestOf DEF First, IsInput
  <2>. QED BY <2>1 DEF ChunkEdges
<1>4. ContentEdges(artifacts) \in SUBSET (Vulns \X Vulns)
  <2>1. \A c : Star(Group(artifacts, c)) \in SUBSET (Vulns \X Vulns)
    BY <1>1, GroupTyped
  <2>. QED BY <2>1 DEF ContentEdges
<1>5. TextEdges(records) \in SUBSET (Vulns \X Vulns)
  BY DEF TextEdges, Texts, IsInput
<1>6. IsFiniteSet(Vulns \X Vulns)
  BY VulnsAssumption, FS_Product
<1>7. Edges(records, artifacts) \in SUBSET (Vulns \X Vulns)
  BY <1>2, <1>3, <1>4, <1>5 DEF Edges
<1>. QED BY <1>6, <1>7, FS_Subset

\* Two artifacts whose contents share a chunk are united.
LEMMA ChunkEdge ==
    ASSUME NEW artifacts, NEW i \in DOMAIN artifacts, NEW j \in DOMAIN artifacts, i <= j,
           artifacts[i].content \notin TooLong, artifacts[j].content \notin TooLong,
           ChunksOf(artifacts[i].content) \cap ChunksOf(artifacts[j].content) # {}
    PROVE  \E e \in ChunkEdges(artifacts) : e[1] = First(artifacts[i]) /\ e[2] = First(artifacts[j])
<1>1. <<First(artifacts[i]), First(artifacts[j])>> \in ChunkEdges(artifacts)
  BY DEF ChunkEdges
<1>. QED BY <1>1

\* What is linked at once is united with its smallest member.
LEMMA StarEdge ==
    ASSUME NEW vs, NEW x \in vs
    PROVE  \E e \in Star(vs) : e[1] = Min(vs) /\ e[2] = x
<1>1. <<Min(vs), x>> \in Star(vs)
  BY DEF Star
<1>. QED BY <1>1

\* Of one family.
Akin(family, v, w) == Root(family, v) = Root(family, w)

\* What the families of a build keep together: the vulnerabilities linked with
\* an artifact or with a content, those of contents that share a chunk, and
\* those of one text.
LEMMA FamiliesJoin ==
    ASSUME NEW records, NEW artifacts, IsInput(records, artifacts)
    PROVE  LET family == Families(records, artifacts)
           IN /\ \A i \in DOMAIN artifacts : \A v, w \in artifacts[i].vulns : Akin(family, v, w)
              /\ \A c : \A v, w \in Group(artifacts, c) : Akin(family, v, w)
              /\ \A i, j \in DOMAIN artifacts :
                    /\ artifacts[i].content \notin TooLong /\ artifacts[j].content \notin TooLong
                    /\ ChunksOf(artifacts[i].content) \cap ChunksOf(artifacts[j].content) # {}
                    => Akin(family, First(artifacts[i]), First(artifacts[j]))
              /\ \A v, w \in Texts(records) : records[v].text = records[w].text => Akin(family, v, w)
<1>. DEFINE family == Families(records, artifacts)
<1>1. \A e \in Edges(records, artifacts) : Akin(family, e[1], e[2])
  BY EdgesTyped, FoldJoins DEF Families, Alone, Akin
<1>. HIDE DEF family
<1>2. \A e : e \in LinkEdges(artifacts) \/ e \in ChunkEdges(artifacts) \/ e \in ContentEdges(artifacts) \/ e \in TextEdges(records)
             => Akin(family, e[1], e[2])
  BY <1>1 DEF Edges
<1>3. ASSUME NEW i \in DOMAIN artifacts, NEW v \in artifacts[i].vulns, NEW w \in artifacts[i].vulns
      PROVE  Akin(family, v, w)
  <2>1. Star(artifacts[i].vulns) \subseteq LinkEdges(artifacts)
    BY DEF LinkEdges, ToSet
  <2>2. \A x \in artifacts[i].vulns : Akin(family, Min(artifacts[i].vulns), x)
    BY <1>2, <2>1, StarEdge
  <2>. QED BY <2>2 DEF Akin
<1>4. ASSUME NEW c, NEW v \in Group(artifacts, c), NEW w \in Group(artifacts, c)
      PROVE  Akin(family, v, w)
  <2>1. PICK i \in DOMAIN artifacts : artifacts[i].content = c
    BY DEF Group
  <2>2. Star(Group(artifacts, c)) \subseteq ContentEdges(artifacts)
    BY <2>1 DEF ContentEdges, ToSet
  <2>3. \A x \in Group(artifacts, c) : Akin(family, Min(Group(artifacts, c)), x)
    BY <1>2, <2>2, StarEdge
  <2>. QED BY <2>3 DEF Akin
<1>5. ASSUME NEW i \in DOMAIN artifacts, NEW j \in DOMAIN artifacts,
             artifacts[i].content \notin TooLong, artifacts[j].content \notin TooLong,
             ChunksOf(artifacts[i].content) \cap ChunksOf(artifacts[j].content) # {}
      PROVE  Akin(family, First(artifacts[i]), First(artifacts[j]))
  <2>1. i \in Nat /\ j \in Nat
    BY DEF IsInput
  <2>2. CASE i <= j
    BY <1>5, <2>2, <1>2, ChunkEdge
  <2>3. CASE j <= i
    BY <1>5, <2>3, <1>2, ChunkEdge DEF Akin
  <2>. QED BY <2>1, <2>2, <2>3
<1>6. ASSUME NEW v \in Texts(records), NEW w \in Texts(records), records[v].text = records[w].text
      PROVE  Akin(family, v, w)
  <2>1. v \in Nat /\ w \in Nat
    BY VulnsAssumption DEF Texts, IsInput
  <2>2. CASE v < w
    <3>1. <<v, w>> \in TextEdges(records)
      BY <1>6, <2>2 DEF TextEdges
    <3>. QED BY <3>1, <1>2
  <2>3. CASE w < v
    <3>1. <<w, v>> \in TextEdges(records)
      BY <1>6, <2>3 DEF TextEdges
    <3>. QED BY <3>1, <1>2 DEF Akin
  <2>4. CASE v = w
    BY <2>4 DEF Akin
  <2>. QED BY <2>1, <2>2, <2>3, <2>4
<1>. QED BY <1>3, <1>4, <1>5, <1>6 DEF family

\* build_training_dataset: for any records and artifacts, any limit, and any
\* assignment of splits and chunks, nothing leaks between splits, and what a row
\* shows as unrelated shares no artifact and no text with it.
THEOREM NothingIsShared ==
    ASSUME NEW records, NEW artifacts, IsInput(records, artifacts), NEW limit
    PROVE  LET family == Families(records, artifacts)
               chosen == Selected(records, limit)
               docs == Docs(records, artifacts, chosen, family)
           IN /\ \A d, e \in docs : d.kind = e.kind /\ d.key = e.key => d.split = e.split
              /\ \A v \in chosen : \A d \in References(records, artifacts, chosen, family, v) :
                     d.split = SplitOf(Root(family, v))
              /\ \A v \in chosen : \A a \in {b \in ToSet(artifacts) : v \in b.vulns} :
                     \A b \in Rejectable(artifacts, chosen, family, v, a) : v \notin b.vulns
              /\ \A v \in chosen : \A w \in Negatives(records, chosen, family, v) :
                     /\ records[v].text # records[w].text
                     /\ \A a \in ToSet(artifacts) : ~({v, w} \subseteq a.vulns)
<1>. DEFINE family == Families(records, artifacts)
            chosen == Selected(records, limit)
            docs == Docs(records, artifacts, chosen, family)
            texts == TextDocs(records, chosen, family)
            codes == CodeDocs(artifacts, chosen, family)
            about(c) == Group(artifacts, c) \cap chosen
            split(v) == SplitOf(Root(family, v))
<1>1. /\ \A i \in DOMAIN artifacts : \A v, w \in artifacts[i].vulns : Akin(family, v, w)
      /\ \A c : \A v, w \in Group(artifacts, c) : Akin(family, v, w)
      /\ \A i, j \in DOMAIN artifacts :
            /\ artifacts[i].content \notin TooLong /\ artifacts[j].content \notin TooLong
            /\ ChunksOf(artifacts[i].content) \cap ChunksOf(artifacts[j].content) # {}
            => Akin(family, First(artifacts[i]), First(artifacts[j]))
      /\ \A v, w \in Texts(records) : records[v].text = records[w].text => Akin(family, v, w)
  BY FamiliesJoin
<1>. HIDE DEF family
<1>2. chosen \subseteq Texts(records) /\ chosen \subseteq Vulns
  BY DEF Selected, Texts, IsInput
<1>. HIDE DEF chosen
<1>3. \A d \in texts : \E v \in chosen : d.kind = "text" /\ d.of = {v} /\ d.key = records[v].text /\ d.split = split(v)
  BY DEF TextDocs
<1>4. \A d \in codes : \E c \in Written(artifacts, chosen) : \E k \in ChunksOf(c) :
         d.kind = "code" /\ d.of = about(c) /\ d.key = k /\ d.split = split(Min(about(c)))
  BY DEF CodeDocs
<1>5. ASSUME NEW c \in Written(artifacts, chosen)
      PROVE  /\ Min(about(c)) \in about(c)
             /\ \E i \in DOMAIN artifacts : /\ artifacts[i].content = c /\ c \notin TooLong
                                            /\ First(artifacts[i]) \in Group(artifacts, c)
  <2>1. about(c) \in SUBSET Vulns /\ about(c) # {}
    BY <1>2 DEF Written
  <2>2. PICK i \in DOMAIN artifacts : artifacts[i].content = c /\ c \notin TooLong
    BY DEF Written, ToSet
  <2>3. First(artifacts[i]) \in artifacts[i].vulns
    BY SmallestOf DEF First, IsInput
  <2>4. artifacts[i].vulns \subseteq Group(artifacts, c)
    BY <2>2 DEF Group
  <2>. HIDE DEF about
  <2>. QED BY <2>1, <2>2, <2>3, <2>4, SmallestOf
<1>6. docs = texts \cup codes
  BY DEF Docs
<1>. HIDE DEF texts, codes, docs
<1>7. ASSUME NEW d \in docs, NEW e \in docs, d.kind = e.kind, d.key = e.key PROVE d.split = e.split
  <2>1. CASE d \in texts /\ e \in texts
    <3>1. PICK v \in chosen : d.key = records[v].text /\ d.split = split(v)
      BY <1>3, <2>1
    <3>2. PICK w \in chosen : e.key = records[w].text /\ e.split = split(w)
      BY <1>3, <2>1
    <3>3. Akin(family, v, w)
      BY <1>1, <1>2, <1>7, <3>1, <3>2
    <3>. QED BY <3>1, <3>2, <3>3 DEF Akin
  <2>2. CASE d \in codes /\ e \in codes
    <3>1. PICK b \in Written(artifacts, chosen) : d.key \in ChunksOf(b) /\ d.split = split(Min(about(b)))
      BY <1>4, <2>2
    <3>2. PICK c \in Written(artifacts, chosen) : e.key \in ChunksOf(c) /\ e.split = split(Min(about(c)))
      BY <1>4, <2>2
    <3>3. PICK i \in DOMAIN artifacts : artifacts[i].content = b /\ b \notin TooLong /\ First(artifacts[i]) \in Group(artifacts, b)
      BY <1>5
    <3>4. PICK j \in DOMAIN artifacts : artifacts[j].content = c /\ c \notin TooLong /\ First(artifacts[j]) \in Group(artifacts, c)
      BY <1>5
    <3>5. Akin(family, First(artifacts[i]), First(artifacts[j]))
      BY <1>1, <1>7, <3>1, <3>2, <3>3, <3>4
    <3>6. Akin(family, Min(about(b)), First(artifacts[i])) /\ Akin(family, Min(about(c)), First(artifacts[j]))
      BY <1>1, <1>5, <3>3, <3>4
    <3>. QED BY <3>1, <3>2, <3>5, <3>6 DEF Akin
  <2>. QED BY <2>1, <2>2, <1>3, <1>4, <1>6, <1>7
<1>8. ASSUME NEW v \in chosen, NEW w \in Negatives(records, chosen, family, v)
      PROVE  w \in chosen /\ split(w) = split(v) /\ ~Akin(family, v, w)
  BY <1>8 DEF Negatives, Strangers, Akin
<1>9. ASSUME NEW v \in chosen, NEW d \in References(records, artifacts, chosen, family, v) PROVE d.split = split(v)
  <2>1. d \in docs /\ (v \in d.of \/ (d.kind = "text" /\ d.of \subseteq Negatives(records, chosen, family, v)))
    BY DEF References, docs
  <2>2. CASE d \in texts
    <3>1. PICK w \in chosen : d.of = {w} /\ d.split = split(w)
      BY <1>3, <2>2
    <3>2. CASE v = w
      BY <3>1, <3>2
    <3>3. CASE w \in Negatives(records, chosen, family, v)
      BY <3>1, <3>3, <1>8
    <3>. QED BY <2>1, <3>1, <3>2, <3>3
  <2>3. CASE d \in codes
    <3>1. PICK c \in Written(artifacts, chosen) : d.kind = "code" /\ d.of = about(c) /\ d.split = split(Min(about(c)))
      BY <1>4, <2>3
    <3>2. v \in about(c)
      BY <2>1, <3>1
    <3>3. Akin(family, v, Min(about(c)))
      BY <3>2, <1>1, <1>5
    <3>. QED BY <3>1, <3>3 DEF Akin
  <2>. QED BY <1>6, <2>1, <2>2, <2>3
<1>10. ASSUME NEW v \in chosen, NEW a, NEW b \in Rejectable(artifacts, chosen, family, v, a) PROVE v \notin b.vulns
  BY DEF Rejectable
<1>11. ASSUME NEW v \in chosen, NEW w \in Negatives(records, chosen, family, v)
       PROVE  /\ records[v].text # records[w].text
              /\ \A a \in ToSet(artifacts) : ~({v, w} \subseteq a.vulns)
  <2>1. records[v].text # records[w].text
    BY <1>1, <1>2, <1>8
  <2>2. ASSUME NEW i \in DOMAIN artifacts, {v, w} \subseteq artifacts[i].vulns PROVE FALSE
    BY <1>1, <1>8, <2>2
  <2>. QED BY <2>1, <2>2 DEF ToSet
<1>. QED BY <1>7, <1>9, <1>10, <1>11 DEF family, chosen, docs

-----------------------------------------------------------------------------
(* disambiguate_components *)

\* The kinds of identifiers, and the candidates that give one.
IdKinds == {"purls", "cpes"}
Giving(items, kind) == {c \in items : c[kind] # {}}

\* No part of the items that give a kind of identifier is cut off: a part that
\* nothing outside shares an identifier with is all of it.
Connected(H, kind) ==
    \A X \in SUBSET H : X # {} /\ (\A c \in H : (\E d \in X : c[kind] \cap d[kind] # {}) => c \in X) => X = H

\* What shares an identifier with a connected set can be added to it.
LEMMA ConnectedGrows ==
    ASSUME NEW H, NEW c, NEW kind, Connected(H, kind), H = {} \/ \E d \in H : c[kind] \cap d[kind] # {}
    PROVE  Connected(H \cup {c}, kind)
<1>. SUFFICES ASSUME NEW X \in SUBSET (H \cup {c}), X # {},
                     \A b \in H \cup {c} : (\E d \in X : b[kind] \cap d[kind] # {}) => b \in X
              PROVE  X = H \cup {c}
  BY DEF Connected
<1>1. CASE H = {}
  BY <1>1
<1>2. CASE H # {}
  <2>1. PICK d \in H : c[kind] \cap d[kind] # {}
    BY <1>2
  <2>2. X \cap H # {}
    BY <2>1
  <2>3. X \cap H = H
    <3>1. X \cap H \in SUBSET H
      OBVIOUS
    <3>2. \A b \in H : (\E e \in X \cap H : b[kind] \cap e[kind] # {}) => b \in X \cap H
      OBVIOUS
    <3>. QED BY <2>2, <3>1, <3>2 DEF Connected
  <2>4. c \in X
    BY <2>1, <2>3
  <2>. QED BY <2>3, <2>4
<1>. QED BY <1>1, <1>2

\* A cluster lists the identifiers of its items, and either reports a
\* contradiction or is held together by each kind of identifier.
Sound(k) ==
    /\ IsFiniteSet(k.items)
    /\ \A kind \in IdKinds : k[kind] = UNION {c[kind] : c \in k.items}
    /\ k.reported # {} \/ \A kind \in IdKinds : Connected(Giving(k.items, kind), kind)

\* _strong_compatible, kind by kind.
LEMMA CompatibleKinds ==
    ASSUME NEW c, NEW k
    PROVE  Compatible(c, k) <=> \A kind \in IdKinds : c[kind] # {} /\ k[kind] # {} => c[kind] \cap k[kind] # {}
BY DEF Compatible, IdKinds

\* A cluster stays sound when it takes in a compatible candidate or is reported.
LEMMA JoinSound ==
    ASSUME NEW k, Sound(k), NEW c, NEW n,
           n.items = k.items \cup {c}, \A kind \in IdKinds : n[kind] = k[kind] \cup c[kind],
           k.reported \subseteq n.reported, n.reported # {} \/ Compatible(c, k)
    PROVE  Sound(n)
<1>1. IsFiniteSet(n.items)
  BY FS_AddElement DEF Sound
<1>2. \A kind \in IdKinds : n[kind] = UNION {d[kind] : d \in n.items}
  BY DEF Sound
<1>3. ASSUME n.reported = {}, NEW kind \in IdKinds PROVE Connected(Giving(n.items, kind), kind)
  <2>. DEFINE H == Giving(k.items, kind)
  <2>1. Connected(H, kind) /\ (c[kind] # {} /\ k[kind] # {} => c[kind] \cap k[kind] # {})
    BY <1>3, CompatibleKinds DEF Sound
  <2>2. CASE c[kind] = {}
    <3>1. Giving(n.items, kind) = H
      BY <2>2 DEF Giving
    <3>. QED BY <3>1, <2>1
  <2>3. CASE c[kind] # {}
    <3>1. Giving(n.items, kind) = H \cup {c}
      BY <2>3 DEF Giving
    <3>2. k[kind] = UNION {d[kind] : d \in k.items}
      BY DEF Sound
    <3>3. ASSUME H # {} PROVE \E d \in H : c[kind] \cap d[kind] # {}
      <4>1. k[kind] # {}
        BY <3>2, <3>3 DEF Giving
      <4>2. PICK x : x \in c[kind] /\ x \in k[kind]
        BY <2>1, <2>3, <4>1
      <4>3. PICK d \in k.items : x \in d[kind]
        BY <3>2, <4>2
      <4>. QED BY <4>2, <4>3 DEF Giving
    <3>4. Connected(H \cup {c}, kind)
      <4>. HIDE DEF H
      <4>. QED BY <2>1, <3>3, ConnectedGrows
    <3>. QED BY <3>1, <3>4
  <2>. QED BY <2>2, <2>3
<1>. QED BY <1>1, <1>2, <1>3 DEF Sound

\* A cluster of one candidate is sound.
LEMMA FirstSound ==
    ASSUME NEW c, NEW n, n.items = {c}, \A kind \in IdKinds : n[kind] = c[kind]
    PROVE  Sound(n)
<1>1. IsFiniteSet(n.items)
  BY FS_Singleton
<1>. QED BY <1>1 DEF Sound, Connected, Giving

\* A reported cluster is sound.
LEMMA ReportSound ==
    ASSUME NEW k, Sound(k), NEW n, n.items = k.items, \A kind \in IdKinds : n[kind] = k[kind], n.reported # {}
    PROVE  Sound(n)
BY DEF Sound

\* The clusters that candidates of C can make.
ClusterType(C) ==
    [items : SUBSET C, purls : SUBSET UNION {c.purls : c \in C}, cpes : SUBSET UNION {c.cpes : c \in C},
     name : {c.name : c \in C}, reported : SUBSET {c.source : c \in C}]

\* One candidate placed: the clusters stay sound.
LEMMA PlaceSound ==
    ASSUME NEW C, NEW c \in C, NEW clusters \in Seq(ClusterType(C))
    PROVE  /\ Place(clusters, c) \in Seq(ClusterType(C))
           /\ (\A i \in DOMAIN clusters : Sound(clusters[i]))
              => \A i \in DOMAIN Place(clusters, c) : Sound(Place(clusters, c)[i])
<1>. DEFINE takes == {i \in DOMAIN clusters : Strong(c, clusters[i]) \/ (Named(c, clusters[i]) /\ Compatible(c, clusters[i]))}
            place == IF takes = {} THEN Len(clusters) + 1 ELSE Min(takes)
            Noted(i) == i <= place /\ (Strong(c, clusters[i]) \/ Named(c, clusters[i])) /\ ~Compatible(c, clusters[i])
            seen == [i \in DOMAIN clusters |->
                        IF Noted(i) THEN [clusters[i] EXCEPT !.reported = @ \cup {c.source}] ELSE clusters[i]]
            first == [items |-> {c}, purls |-> c.purls, cpes |-> c.cpes, name |-> c.name, reported |-> {}]
            grown(k) == Taking(k, c)
            K == ClusterType(C)
<1>1. Place(clusters, c) = IF takes = {} THEN Append(seen, first) ELSE [seen EXCEPT ![place] = grown(seen[place])]
  BY DEF Place
<1>2. takes # {} => place \in takes /\ place \in DOMAIN clusters
  <2>1. takes \in SUBSET Nat
    OBVIOUS
  <2>2. takes # {} => Min(takes) \in takes
    <3>. HIDE DEF takes
    <3>. QED BY <2>1, MinOf
  <2>. QED BY <2>2
<1>3. first \in K
  BY DEF ClusterType
<1>4. ASSUME NEW k \in K PROVE grown(k) \in K /\ [k EXCEPT !.reported = @ \cup {c.source}] \in K
  BY DEF ClusterType, Taking
<1>5. seen \in Seq(K) /\ Len(seen) = Len(clusters) /\ DOMAIN seen = DOMAIN clusters
  <2>1. \A i \in DOMAIN clusters : clusters[i] \in K
    OBVIOUS
  <2>. HIDE DEF K, grown, Noted
  <2>2. \A i \in 1..Len(clusters) : seen[i] \in K
    BY <2>1, <1>4
  <2>3. DOMAIN clusters = 1..Len(clusters) /\ Len(clusters) \in Nat
    OBVIOUS
  <2>4. DOMAIN seen = DOMAIN clusters
    OBVIOUS
  <2>. HIDE DEF seen
  <2>5. seen = [i \in 1..Len(clusters) |-> seen[i]]
    <3>1. seen = [i \in DOMAIN clusters |-> seen[i]]
      BY DEF seen
    <3>. QED BY <2>3, <3>1
  <2>6. seen \in [1..Len(clusters) -> K]
    BY <2>2, <2>5
  <2>. QED BY <2>3, <2>4, <2>6
<1>6. Place(clusters, c) \in Seq(K)
  <2>1. CASE takes = {}
    <3>. HIDE DEF seen, first, K
    <3>. QED BY <2>1, <1>1, <1>3, <1>5
  <2>2. CASE takes # {}
    <3>1. place \in 1..Len(seen) /\ seen[place] \in K
      <4>. HIDE DEF seen, takes, place, K
      <4>. QED BY <2>2, <1>2, <1>5
    <3>2. grown(seen[place]) \in K
      BY <3>1, <1>4
    <3>. HIDE DEF seen, place, K, grown, takes
    <3>3. Place(clusters, c) = [seen EXCEPT ![place] = grown(seen[place])]
      BY <1>1, <2>2
    <3>4. [seen EXCEPT ![place] = grown(seen[place])] \in Seq(K)
      BY <3>1, <3>2, <1>5
    <3>. QED BY <3>3, <3>4
  <2>. QED BY <2>1, <2>2
<1>7. ASSUME \A i \in DOMAIN clusters : Sound(clusters[i]), NEW i \in DOMAIN Place(clusters, c)
      PROVE  Sound(Place(clusters, c)[i])
  <2>1. ASSUME NEW j \in DOMAIN clusters
        PROVE  /\ Sound(seen[j]) /\ clusters[j].reported \subseteq seen[j].reported
               /\ Noted(j) => seen[j].reported # {}
               /\ seen[j].purls = clusters[j].purls /\ seen[j].cpes = clusters[j].cpes
    <3>1. clusters[j] \in K
      OBVIOUS
    <3>2. CASE Noted(j)
      <4>1. seen[j] = [clusters[j] EXCEPT !.reported = @ \cup {c.source}]
        BY <3>2
      <4>. HIDE DEF seen, Noted
      <4>2. /\ seen[j].items = clusters[j].items /\ seen[j].purls = clusters[j].purls /\ seen[j].cpes = clusters[j].cpes
            /\ seen[j].reported = clusters[j].reported \cup {c.source}
        BY <4>1, <3>1 DEF ClusterType
      <4>3. Sound(seen[j])
        BY <4>2, <1>7, ReportSound DEF IdKinds
      <4>. QED BY <4>2, <4>3
    <3>3. CASE ~Noted(j)
      BY <3>3, <1>7
    <3>. QED BY <3>2, <3>3
  <2>. HIDE DEF K
  <2>2. CASE takes = {}
    <3>1. CASE i = Len(seen) + 1
      <4>1. Place(clusters, c)[i] = first
        <5>. HIDE DEF seen, first, takes
        <5>. QED BY <3>1, <2>2, <1>1, <1>5
      <4>. QED BY <4>1, FirstSound DEF IdKinds
    <3>2. CASE i # Len(seen) + 1
      <4>1. i \in DOMAIN clusters /\ Place(clusters, c)[i] = seen[i]
        <5>. HIDE DEF seen, first, takes
        <5>. QED BY <3>2, <2>2, <1>1, <1>5
      <4>. QED BY <4>1, <2>1
    <3>. QED BY <3>1, <3>2
  <2>3. CASE takes # {}
    <3>1. i \in DOMAIN clusters
      <4>. HIDE DEF seen, takes, grown, place
      <4>. QED BY <2>3, <1>1, <1>5
    <3>2. CASE i # place
      <4>1. Place(clusters, c)[i] = seen[i]
        <5>. HIDE DEF seen, takes, grown, place
        <5>. QED BY <2>3, <1>1, <1>5, <3>1, <3>2
      <4>. QED BY <4>1, <3>1, <2>1
    <3>3. CASE i = place
      <4>1. Place(clusters, c)[i] = grown(seen[i])
        <5>. HIDE DEF seen, takes, grown, place
        <5>. QED BY <2>3, <1>1, <1>5, <3>1, <3>3
      <4>2. i \in takes
        BY <3>3, <2>3, <1>2
      <4>3. seen[i].reported # {} \/ Compatible(c, seen[i])
        <5>1. Compatible(c, clusters[i]) \/ Noted(i)
          BY <4>2, <3>3
        <5>2. Compatible(c, clusters[i]) => Compatible(c, seen[i])
          BY <3>1, <2>1 DEF Compatible
        <5>. HIDE DEF Noted
        <5>. QED BY <5>1, <5>2, <2>1, <3>1
      <4>4. Sound(seen[i]) /\ seen[i] \in K
        <5>1. Sound(seen[i])
          BY <3>1, <2>1
        <5>. HIDE DEF seen, K
        <5>. QED BY <3>1, <5>1, <1>5
      <4>. HIDE DEF seen
      <4>5. /\ grown(seen[i]).items = seen[i].items \cup {c} /\ grown(seen[i]).purls = seen[i].purls \cup c.purls
            /\ grown(seen[i]).cpes = seen[i].cpes \cup c.cpes /\ grown(seen[i]).reported = seen[i].reported
        BY <4>4 DEF ClusterType, K, Taking
      <4>6. \A kind \in IdKinds : grown(seen[i])[kind] = seen[i][kind] \cup c[kind]
        BY <4>5 DEF IdKinds
      <4>. HIDE DEF grown
      <4>7. Sound(grown(seen[i]))
        BY <4>3, <4>4, <4>5, <4>6, JoinSound
      <4>. QED BY <4>1, <4>7
    <3>. QED BY <3>2, <3>3
  <2>. QED BY <2>2, <2>3
<1>. QED BY <1>6, <1>7

\* The recursion of the fold, over the sets of positions.
PlacedBy(candidates, f) ==
    f = [s \in SUBSET DOMAIN candidates |->
            IF s = {} THEN <<>> ELSE LET x == Max(s) IN Place(f[s \ {x}], candidates[x])]

\* disambiguate_components: every cluster is sound.
LEMMA ClustersSound ==
    ASSUME NEW C, NEW candidates \in Seq(C)
    PROVE  \A i \in DOMAIN Clusters(candidates) : Sound(Clusters(candidates)[i])
<1>. DEFINE D == DOMAIN candidates
            S == SUBSET D
            T == Seq(ClusterType(C))
            rank == [s \in S |-> Cardinality(s)]
            last(s) == Max(s)
            Def(f, s) == IF s = {} THEN <<>> ELSE Place(f[s \ {last(s)}], candidates[last(s)])
            step == [f \in [S -> T] |-> [s \in S |-> Def(f, s)]]
            fold == CHOOSE f : PlacedBy(candidates, f)
<1>1. <<>> \in T
  BY DEF ClusterType
<1>2. /\ rank \in [S -> Nat]
      /\ \A s \in S : s # {} => /\ last(s) \in D /\ candidates[last(s)] \in C
                                /\ s \ {last(s)} \in S /\ rank[s \ {last(s)}] < rank[s]
  <2>0. D = 1..Len(candidates) /\ Len(candidates) \in Nat /\ \A i \in D : candidates[i] \in C
    OBVIOUS
  <2>1. ASSUME NEW s \in S PROVE IsFiniteSet(s) /\ Cardinality(s) \in Nat
    <3>1. IsFiniteSet(D)
      BY <2>0, FS_Interval
    <3>. HIDE DEF D
    <3>. QED BY <3>1, FS_Subset, FS_CardinalityType
  <2>2. ASSUME NEW s \in S, s # {} PROVE last(s) \in s
    <3>1. s \in SUBSET Int /\ s # {} /\ Len(candidates) \in Int /\ \A x \in s : x <= Len(candidates)
      BY <2>0, <2>2
    <3>2. Max(s) \in s
      BY ONLY <3>1, MaxOf
    <3>. QED BY <3>2
  <2>3. ASSUME NEW s \in S, s # {} PROVE s \ {last(s)} \in S /\ Cardinality(s \ {last(s)}) = Cardinality(s) - 1
    <3>. HIDE DEF last
    <3>. QED BY <2>1, <2>2, <2>3, FS_RemoveElement
  <2>4. rank \in [S -> Nat]
    BY <2>1
  <2>5. ASSUME NEW s \in S, s # {} PROVE rank[s \ {last(s)}] < rank[s]
    <3>. HIDE DEF last, D
    <3>. QED BY <2>1, <2>3, <2>5
  <2>. HIDE DEF last, D, rank
  <2>. QED BY <2>0, <2>2, <2>3, <2>4, <2>5
<1>. HIDE DEF last, rank, D, T
<1>3. step \in [[S -> T] -> [S -> T]]
  <2>1. ASSUME NEW f \in [S -> T], NEW s \in S PROVE Def(f, s) \in T
    <3>1. CASE s = {}
      BY <3>1, <1>1
    <3>2. CASE s # {}
      <4>1. f[s \ {last(s)}] \in T
        BY <3>2, <1>2
      <4>. QED BY <4>1, <3>2, <1>2, PlaceSound DEF T
    <3>. QED BY <3>1, <3>2
  <2>. QED BY <2>1
<1>4. ASSUME NEW g \in [S -> T], NEW h \in [S -> T], NEW s \in S,
             \A t \in S : rank[t] < rank[s] => g[t] = h[t]
      PROVE  step[g][s] = step[h][s]
  BY <1>2, <1>4
<1>5. Causal(step, S, T, rank)
  <2>. HIDE DEF step, S
  <2>. QED BY <1>1, <1>2, <1>3, <1>4 DEF Causal
<1>6. \E f : PlacedBy(candidates, f) /\ f \in [S -> T]
  <2>1. PICK f \in [S -> T] : step[f] = f
    <3>. HIDE DEF step, S
    <3>. QED BY <1>5, Recursion
  <2>. QED BY <2>1 DEF PlacedBy, last, D
<1>7. PlacedBy(candidates, fold)
  BY <1>6
<1>8. Clusters(candidates) = fold[D]
  BY DEF Clusters, FoldLeft, MapThenFoldSet, PlacedBy, D
<1>. HIDE DEF fold, step
<1>9. \A s \in S : fold[s] = IF s = {} THEN <<>> ELSE Place(fold[s \ {last(s)}], candidates[last(s)])
  BY <1>7 DEF PlacedBy, last, D
<1>. DEFINE Good == {s \in S : fold[s] \in T /\ \A i \in DOMAIN fold[s] : Sound(fold[s][i])}
<1>10. ASSUME NEW s \in S, \A t \in S : rank[t] < rank[s] => t \in Good PROVE s \in Good
  <2>1. CASE s = {}
    BY <2>1, <1>1, <1>9
  <2>2. CASE s # {}
    <3>. DEFINE p == fold[s \ {last(s)}]
                c == candidates[last(s)]
    <3>1. p \in T /\ c \in C /\ fold[s] = Place(p, c) /\ \A i \in DOMAIN p : Sound(p[i])
      BY <2>2, <1>2, <1>9, <1>10
    <3>. HIDE DEF p, c
    <3>. QED BY <3>1, PlaceSound DEF T
  <2>. QED BY <2>1, <2>2
<1>11. S \subseteq Good
  <2>. HIDE DEF S, Good
  <2>. QED BY <1>2, <1>10, Descent
<1>12. D \in Good
  BY <1>11
<1>. QED BY <1>8, <1>12

\* What a kind of identifier holds together is reached from any of its items.
ReachOf(having, kind, f) ==
    f = [n \in Nat |-> IF n = 0 THEN {CHOOSE c \in having : TRUE}
                       ELSE {c \in having : \E d \in f[n - 1] : c[kind] \cap d[kind] # {}}]

\* A connected set of candidates is one chain of shared identifiers.
LEMMA ConnectedIsJoined ==
    ASSUME NEW items, IsFiniteSet(items), NEW kind, Connected(Giving(items, kind), kind)
    PROVE  Joined(items, kind)
<1>. DEFINE H == Giving(items, kind)
            first == CHOOSE c \in H : TRUE
            Def(f, n) == IF n = 0 THEN {first} ELSE {c \in H : \E d \in f[n - 1] : c[kind] \cap d[kind] # {}}
            T == SUBSET H
            step == [f \in [Nat -> T] |-> [n \in Nat |-> Def(f, n)]]
            rank == [n \in Nat |-> n]
            reach == CHOOSE f : ReachOf(H, kind, f)
<1>. SUFFICES ASSUME H # {} PROVE reach[Cardinality(H)] = H
  BY DEF Joined, ReachOf, Giving
<1>1. first \in H /\ IsFiniteSet(H) /\ Cardinality(H) \in Nat /\ \A c \in H : c[kind] # {}
  <2>1. IsFiniteSet(H) /\ H \subseteq items /\ \A c \in H : c[kind] # {}
    BY FS_Subset DEF Giving
  <2>. HIDE DEF H
  <2>. QED BY <2>1, FS_CardinalityType
<1>. HIDE DEF H, first
<1>2. Causal(step, Nat, T, rank)
  <2>1. T # {} /\ rank \in [Nat -> Nat] /\ step \in [[Nat -> T] -> [Nat -> T]]
    BY <1>1
  <2>2. ASSUME NEW g \in [Nat -> T], NEW h \in [Nat -> T], NEW x \in Nat,
               \A y \in Nat : rank[y] < rank[x] => g[y] = h[y]
        PROVE  step[g][x] = step[h][x]
    <3>1. CASE x = 0
      BY <3>1
    <3>2. CASE x # 0
      <4>1. x - 1 \in Nat /\ rank[x - 1] < rank[x]
        BY <3>2
      <4>2. g[x - 1] = h[x - 1]
        BY <4>1, <2>2
      <4>. QED BY <4>2
    <3>. QED BY <3>1, <3>2
  <2>. HIDE DEF step, rank, T
  <2>. QED BY <2>1, <2>2 DEF Causal
<1>3. \E f : ReachOf(H, kind, f)
  <2>1. PICK f \in [Nat -> T] : step[f] = f
    <3>. HIDE DEF step, rank, T
    <3>. QED BY <1>2, Recursion
  <2>. QED BY <2>1 DEF ReachOf, first
<1>4. ReachOf(H, kind, reach)
  BY <1>3
<1>. HIDE DEF reach, step
<1>5. /\ reach[0] = {first}
      /\ \A n \in Nat : n # 0 => reach[n] = {c \in H : \E d \in reach[n - 1] : c[kind] \cap d[kind] # {}}
  BY <1>4 DEF ReachOf, first
<1>. DEFINE Good == {n \in Nat : /\ reach[n] \subseteq H /\ first \in reach[n]
                                 /\ reach[n] = H \/ Cardinality(reach[n]) > n}
<1>6. ASSUME NEW n \in Nat, \A m \in Nat : m < n => m \in Good PROVE n \in Good
  <2>1. CASE n = 0
    <3>1. Cardinality({first}) = 1
      BY FS_Singleton
    <3>2. reach[n] = {first} /\ first \in H
      BY <2>1, <1>1, <1>5
    <3>3. Cardinality(reach[n]) > n
      BY <2>1, <3>1, <3>2
    <3>. QED BY <3>2, <3>3
  <2>2. CASE n # 0
    <3>. DEFINE X == reach[n - 1]
                Y == reach[n]
    <3>1. n - 1 \in Nat /\ n - 1 < n
      BY <2>2
    <3>2. X \subseteq H /\ first \in X /\ (X = H \/ Cardinality(X) > n - 1)
      BY <3>1, <1>6
    <3>3. Y = {c \in H : \E d \in X : c[kind] \cap d[kind] # {}}
      BY <2>2, <1>5
    <3>. HIDE DEF X, Y
    <3>4. X \subseteq Y /\ Y \subseteq H
      BY <3>2, <3>3, <1>1
    <3>5. CASE X = H
      BY <3>2, <3>4, <3>5 DEF Y
    <3>6. CASE X # H
      <4>1. Y # X
        <5>1. SUFFICES ASSUME Y = X PROVE FALSE
          OBVIOUS
        <5>2. X \in SUBSET H /\ X # {} /\ \A c \in H : (\E d \in X : c[kind] \cap d[kind] # {}) => c \in X
          BY <5>1, <3>2, <3>3
        <5>3. Connected(H, kind)
          BY DEF H
        <5>. QED BY <5>2, <5>3, <3>6 DEF Connected
      <4>2. IsFiniteSet(Y) /\ Cardinality(X) < Cardinality(Y) /\ Cardinality(X) \in Nat /\ Cardinality(Y) \in Nat
        <5>1. IsFiniteSet(Y)
          BY <3>4, <1>1, FS_Subset
        <5>2. Cardinality(X) <= Cardinality(Y) /\ (Cardinality(X) = Cardinality(Y) => X = Y) /\ IsFiniteSet(X)
          BY <5>1, <3>4, FS_Subset
        <5>. QED BY <4>1, <5>1, <5>2, FS_CardinalityType
      <4>. QED BY <4>2, <3>2, <3>4, <3>6 DEF Y
    <3>. QED BY <3>5, <3>6
  <2>. QED BY <2>1, <2>2
<1>7. Nat \subseteq Good
  <2>. HIDE DEF Good
  <2>. QED BY <1>6, NatDescent
<1>8. Cardinality(H) \in Good
  BY <1>1, <1>7
<1>. DEFINE R == reach[Cardinality(H)]
<1>9. R \subseteq H /\ (R = H \/ Cardinality(R) > Cardinality(H))
  BY <1>8
<1>. HIDE DEF R
<1>10. Cardinality(R) <= Cardinality(H) /\ Cardinality(R) \in Nat
  BY <1>1, <1>9, FS_Subset, FS_CardinalityType
<1>. QED BY <1>1, <1>9, <1>10 DEF R

\* disambiguate_components: for any sequence of candidates, an entity that no
\* chain of shared identifiers of a kind joins carries a finding.
THEOREM CollapsesAreReported ==
    ASSUME NEW C, NEW candidates \in Seq(C)
    PROVE  \A k \in ToSet(Clusters(candidates)) :
               k.reported # {} \/ \A kind \in {"purls", "cpes"} : Joined(k.items, kind)
<1>1. \A k \in ToSet(Clusters(candidates)) : Sound(k)
  BY ClustersSound DEF ToSet
<1>2. ASSUME NEW k, Sound(k), k.reported = {}, NEW kind \in {"purls", "cpes"} PROVE Joined(k.items, kind)
  BY <1>2, ConnectedIsJoined DEF Sound, IdKinds
<1>. QED BY <1>1, <1>2

-----------------------------------------------------------------------------
(* process *)

\* less orders the members of own.
StrictlyOrders(less, own) ==
    /\ \A i, j \in own : i # j => <<i, j>> \in less \/ <<j, i>> \in less
    /\ \A i, j \in own : <<i, j>> \in less => <<j, i>> \notin less
    /\ \A i, j, k \in own : <<i, j>> \in less /\ <<j, k>> \in less => <<i, k>> \in less
\* The members of own below i.
Below(less, own, i) == {j \in own : <<j, i>> \in less}

\* In a finite strict total order the number of those below is a position.
LEMMA Ranked ==
    ASSUME NEW own, IsFiniteSet(own), NEW less, StrictlyOrders(less, own)
    PROVE  /\ \A i, j \in own : Cardinality(Below(less, own, i)) = Cardinality(Below(less, own, j)) => i = j
           /\ \A n \in 1..Cardinality(own) : \E i \in own : Cardinality(Below(less, own, i)) = n - 1
<1>. DEFINE C(i) == Cardinality(Below(less, own, i))
            N == Cardinality(own)
            rank == [i \in own |-> C(i) + 1]
<1>0. N \in Nat
  BY FS_CardinalityType
<1>1. ASSUME NEW i \in own PROVE C(i) \in Nat /\ C(i) < N /\ IsFiniteSet(Below(less, own, i))
  <2>1. Below(less, own, i) \in SUBSET own /\ i \notin Below(less, own, i)
    BY DEF Below, StrictlyOrders
  <2>2. IsFiniteSet(Below(less, own, i)) /\ C(i) <= N /\ C(i) # N
    BY <2>1, FS_Subset
  <2>3. C(i) \in Nat
    BY <2>2, FS_CardinalityType
  <2>. HIDE DEF C, N
  <2>. QED BY <1>0, <2>2, <2>3
<1>2. ASSUME NEW i \in own, NEW j \in own, <<i, j>> \in less PROVE C(i) < C(j)
  <2>1. Below(less, own, i) \in SUBSET Below(less, own, j) /\ i \in Below(less, own, j) /\ i \notin Below(less, own, i)
    BY <1>2 DEF Below, StrictlyOrders
  <2>2. C(i) <= C(j) /\ C(i) # C(j)
    BY <1>1, <2>1, FS_Subset
  <2>3. C(i) \in Nat /\ C(j) \in Nat
    BY <1>1
  <2>. HIDE DEF C
  <2>. QED BY <2>2, <2>3
<1>3. \A i, j \in own : C(i) = C(j) => i = j
  <2>. SUFFICES ASSUME NEW i \in own, NEW j \in own, C(i) = C(j), i # j PROVE FALSE
    OBVIOUS
  <2>1. C(i) < C(j) \/ C(j) < C(i)
    BY <1>2 DEF StrictlyOrders
  <2>2. C(i) \in Nat /\ C(j) \in Nat
    BY <1>1
  <2>. HIDE DEF C
  <2>. QED BY <2>1, <2>2
<1>4. rank \in Injection(own, 1..N)
  <2>1. \A i \in own : C(i) + 1 \in 1..N
    BY <1>0, <1>1
  <2>2. \A i, j \in own : rank[i] = rank[j] => i = j
    <3>. SUFFICES ASSUME NEW i \in own, NEW j \in own, C(i) + 1 = C(j) + 1 PROVE i = j
      OBVIOUS
    <3>1. C(i) \in Nat /\ C(j) \in Nat
      BY <1>1
    <3>2. C(i) = C(j)
      BY <3>1
    <3>. QED BY <3>2, <1>3
  <2>. HIDE DEF C
  <2>. QED BY <2>1, <2>2 DEF Injection, IsInjective
<1>5. rank \in Surjection(own, 1..N)
  <2>1. IsFiniteSet(1..N) /\ Cardinality(1..N) = N
    BY <1>0, FS_Interval
  <2>. HIDE DEF rank
  <2>. QED BY <1>4, <2>1, FS_Injection
<1>6. ASSUME NEW n \in 1..N PROVE \E i \in own : C(i) = n - 1
  <2>1. PICK i \in own : rank[i] = n
    BY <1>5 DEF Surjection
  <2>2. C(i) \in Nat /\ C(i) + 1 = n
    BY <2>1, <1>1
  <2>. HIDE DEF C
  <2>. QED BY <2>2
<1>. QED BY <1>3, <1>6

\* Records with keys, no two with the same one.
Keyed(records) ==
    /\ \A i \in DOMAIN records : records[i].source \in Int /\ records[i].id \in Int
    /\ \A i, j \in DOMAIN records :
          records[i].source = records[j].source /\ records[i].id = records[j].id => i = j
\* The records of an identity, their order by key, and the position of one.
Own(records, v) == {i \in DOMAIN records : VulnId(records[i]) = v}
KeyOrder(records, v) == {p \in Own(records, v) \X Own(records, v) : Before(records[p[1]], records[p[2]])}
PlaceOf(records, v, i) == Cardinality(Below(KeyOrder(records, v), Own(records, v), i))

\* The members of an identity are its records by the position of their keys.
LEMMA MembersByKey ==
    ASSUME NEW records, NEW k \in Nat, DOMAIN records = 1..k, Keyed(records), NEW v
    PROVE  /\ IsFiniteSet(Own(records, v))
           /\ \A i, j \in Own(records, v) : PlaceOf(records, v, i) = PlaceOf(records, v, j) => i = j
           /\ \A n \in 1..Cardinality(Own(records, v)) : \E i \in Own(records, v) : PlaceOf(records, v, i) = n - 1
           /\ Members(records, v) =
                  [n \in 1..Cardinality(Own(records, v)) |->
                      records[CHOOSE i \in Own(records, v) : PlaceOf(records, v, i) = n - 1]]
<1>. DEFINE own == Own(records, v)
            less == KeyOrder(records, v)
<1>1. own \subseteq 1..k /\ IsFiniteSet(own)
  <2>1. own \in SUBSET (1..k) /\ IsFiniteSet(1..k)
    BY FS_Interval DEF Own
  <2>. HIDE DEF own
  <2>. QED BY <2>1, FS_Subset
<1>2. ASSUME NEW i \in own, NEW j \in own
      PROVE  /\ records[i].source \in Int /\ records[i].id \in Int /\ records[j].source \in Int /\ records[j].id \in Int
             /\ records[i].source = records[j].source /\ records[i].id = records[j].id => i = j
             /\ <<i, j>> \in less <=> Before(records[i], records[j])
             /\ i \in Int /\ j \in Int
  BY <1>1 DEF Keyed, KeyOrder, Own
<1>3. StrictlyOrders(less, own)
  <2>. HIDE DEF own, less
  <2>1. \A i, j \in own : i # j => <<i, j>> \in less \/ <<j, i>> \in less
    BY <1>2 DEF Before
  <2>2. \A i, j \in own : <<i, j>> \in less => <<j, i>> \notin less
    BY <1>2 DEF Before
  <2>3. \A i, j, l \in own : <<i, j>> \in less /\ <<j, l>> \in less => <<i, l>> \in less
    BY <1>2 DEF Before
  <2>. QED BY <2>1, <2>2, <2>3 DEF StrictlyOrders
<1>4. ASSUME NEW i \in own PROVE Earlier(records, own, i) = Below(less, own, i)
  <2>. HIDE DEF own, less
  <2>. QED BY <1>2 DEF Earlier, Below, Before
<1>5. Members(records, v) =
          [n \in 1..Cardinality(own) |-> records[CHOOSE i \in own : Cardinality(Earlier(records, own, i)) = n - 1]]
  BY DEF Members, Own
<1>6. ASSUME NEW n PROVE (CHOOSE i \in own : Cardinality(Earlier(records, own, i)) = n - 1)
                            = CHOOSE i \in own : PlaceOf(records, v, i) = n - 1
  <2>1. \A i : (i \in own /\ Cardinality(Earlier(records, own, i)) = n - 1) <=> (i \in own /\ PlaceOf(records, v, i) = n - 1)
    BY <1>4 DEF PlaceOf
  <2>. HIDE DEF own
  <2>. QED BY <2>1
<1>. QED BY <1>1, <1>3, <1>5, <1>6, Ranked DEF PlaceOf

\* The members of an identity do not depend on the order of the records.
LEMMA MembersIgnoreOrder ==
    ASSUME NEW records, NEW k \in Nat, DOMAIN records = 1..k, Keyed(records), NEW v,
           NEW order \in Bijection(DOMAIN records, DOMAIN records)
    PROVE  Members([i \in DOMAIN records |-> records[order[i]]], v) = Members(records, v)
<1>. DEFINE D == DOMAIN records
            turned == [i \in D |-> records[order[i]]]
            own == Own(records, v)
            away == Own(turned, v)
<1>1. /\ order \in [D -> D] /\ \A i, j \in D : order[i] = order[j] => i = j
      /\ \A j \in D : \E i \in D : order[i] = j
  BY DEF Bijection, Injection, Surjection, IsInjective
<1>2. Keyed(turned) /\ DOMAIN turned = D
  BY <1>1 DEF Keyed
<1>3. /\ \A i \in away : i \in D /\ order[i] \in own /\ turned[i] = records[order[i]]
      /\ \A j \in own : \E i \in away : order[i] = j
  BY <1>1 DEF Own
<1>. HIDE DEF D, turned, own, away
<1>4. Cardinality(away) = Cardinality(own)
  <2>. DEFINE f == [i \in away |-> order[i]]
  <2>1. f \in Bijection(away, own)
    BY <1>1, <1>3 DEF Bijection, Injection, Surjection, IsInjective
  <2>2. IsFiniteSet(away)
    BY <1>2, MembersByKey DEF D, away
  <2>. HIDE DEF f
  <2>. QED BY <2>1, <2>2, FS_Bijection DEF ExistsBijection
<1>5. ASSUME NEW i \in away PROVE PlaceOf(turned, v, i) = PlaceOf(records, v, order[i])
  <2>. DEFINE B == Below(KeyOrder(turned, v), away, i)
              T == Below(KeyOrder(records, v), own, order[i])
              f == [j \in B |-> order[j]]
  <2>1. B \subseteq away /\ \A j \in away : j \in B <=> Before(turned[j], turned[i])
    BY DEF Below, KeyOrder, away
  <2>2. T \subseteq own /\ \A j \in own : j \in T <=> Before(records[j], records[order[i]])
    BY <1>3 DEF Below, KeyOrder, own
  <2>3. IsFiniteSet(B)
    <3>1. IsFiniteSet(away)
      BY <1>2, MembersByKey DEF D, away
    <3>. HIDE DEF B
    <3>. QED BY <3>1, <2>1, FS_Subset
  <2>. HIDE DEF B, T
  <2>4. \A j \in B : j \in D /\ order[j] \in T
    BY <2>1, <2>2, <1>3
  <2>5. \A t \in T : \E j \in B : order[j] = t
    BY <2>1, <2>2, <1>3
  <2>6. f \in Bijection(B, T)
    BY <1>1, <2>4, <2>5 DEF Bijection, Injection, Surjection, IsInjective
  <2>. HIDE DEF f
  <2>7. Cardinality(B) = Cardinality(T)
    BY <2>3, <2>6, FS_Bijection DEF ExistsBijection
  <2>. QED BY <2>7 DEF B, T, PlaceOf, own, away
<1>6. ASSUME NEW n \in 1..Cardinality(own)
      PROVE  turned[CHOOSE i \in away : PlaceOf(turned, v, i) = n - 1]
                = records[CHOOSE i \in own : PlaceOf(records, v, i) = n - 1]
  <2>. DEFINE a == CHOOSE i \in away : PlaceOf(turned, v, i) = n - 1
              b == CHOOSE i \in own : PlaceOf(records, v, i) = n - 1
  <2>1. \E i \in away : PlaceOf(turned, v, i) = n - 1
    BY <1>2, <1>4, MembersByKey DEF D, away
  <2>2. a \in away /\ PlaceOf(turned, v, a) = n - 1
    BY <2>1
  <2>3. \E i \in own : PlaceOf(records, v, i) = n - 1
    BY <1>2, <1>4, MembersByKey DEF D, own
  <2>4. b \in own /\ PlaceOf(records, v, b) = n - 1
    BY <2>3
  <2>. HIDE DEF a, b
  <2>5. order[a] \in own /\ PlaceOf(records, v, order[a]) = n - 1
    BY <2>2, <1>3, <1>5
  <2>6. order[a] = b
    BY <2>4, <2>5, MembersByKey DEF own
  <2>7. turned[a] = records[b]
    BY <2>2, <2>6, <1>3
  <2>. QED BY <2>7 DEF a, b
<1>7. Members(turned, v) = [n \in 1..Cardinality(away) |-> turned[CHOOSE i \in away : PlaceOf(turned, v, i) = n - 1]]
  BY <1>2, MembersByKey DEF D, away
<1>8. Members(records, v) = [n \in 1..Cardinality(own) |-> records[CHOOSE i \in own : PlaceOf(records, v, i) = n - 1]]
  BY MembersByKey DEF own
<1>9. Members(turned, v) = Members(records, v)
  BY <1>4, <1>6, <1>7, <1>8
<1>. QED BY <1>9 DEF turned, D

\* process: for any records with distinct keys, the canonical records do not
\* depend on the order in which the records are read.
THEOREM ProcessIgnoresOrder ==
    ASSUME NEW records, NEW k \in Nat, DOMAIN records = 1..k, Keyed(records),
           NEW order \in Bijection(DOMAIN records, DOMAIN records)
    PROVE  Process([i \in DOMAIN records |-> records[order[i]]]) = Process(records)
<1>. DEFINE turned == [i \in DOMAIN records |-> records[order[i]]]
<1>1. {VulnId(turned[i]) : i \in DOMAIN turned} = {VulnId(records[i]) : i \in DOMAIN records}
  BY DEF Bijection, Injection, Surjection
<1>2. \A v : Members(turned, v) = Members(records, v)
  BY MembersIgnoreOrder
<1>. HIDE DEF turned
<1>3. Process(turned) = Process(records)
  BY <1>1, <1>2 DEF Process
<1>. QED BY <1>3 DEF turned

-----------------------------------------------------------------------------
(* version_match *)

\* What a rule can say of a version.
Told == Decided \cup {"unknown"}

\* Every version of V that an ecosystem of the runs reads is well written.
LegibleIn(V) == \A kind \in Kinds : \A v \in V : Reads(kind, v) => Legible(v)

\* The status after the changes of a rule is one a record can state.
LEMMA ChangedTells ==
    ASSUME NEW kind \in Kinds, NEW V, LegibleIn(V), NEW version \in V, NEW rule, NEW n \in Nat,
           DOMAIN rule.changes = 1..n, \A i \in 1..n : rule.changes[i].at \in V
    PROVE  /\ Changed(version, rule, kind) \in Told
           /\ rule.changes = <<>> => Changed(version, rule, kind) = Plain(rule.status)
<1>. DEFINE at(i) == rule.changes[i].at
            done == {i \in DOMAIN rule.changes : /\ CompareVersions(version, at(i), kind) \in {0, 1}
                                                 /\ rule.changes[i].status \in Decided}
            Above(i) == {j \in done : CompareVersions(at(j), at(i), kind) = 1}
            latest == {i \in done : \A j \in done : CompareVersions(at(j), at(i), kind) # 1}
            rank == [i \in done |-> Cardinality(Above(i))]
            Good == {i \in done : latest # {}}
<1>1. Changed(version, rule, kind) = IF done = {} THEN Plain(rule.status) ELSE rule.changes[Min(latest)].status
  BY DEF Changed
<1>2. done \subseteq 1..n /\ \A i \in done : rule.changes[i].status \in Decided
  OBVIOUS
<1>3. Plain(rule.status) \in Told
  BY DEF Plain, Told
<1>4. \A i, j \in done : /\ CompareVersions(at(i), at(i), kind) # 1
                         /\ CompareVersions(at(j), at(i), kind) = 1 <=> CompareVersions(at(i), at(j), kind) = -1
                         /\ \A k \in done : CompareVersions(at(i), at(j), kind) = -1 /\ CompareVersions(at(j), at(k), kind) = -1
                                              => CompareVersions(at(i), at(k), kind) = -1
  <2>. DEFINE W == {at(i) : i \in done} 
  <2>1. /\ kind \in {"semver", "pep440", "numeric", "custom"}
        /\ \A v \in V : Reads(kind, v) => Legible(v)
    BY DEF Kinds, LegibleIn
  <2>2. \A i \in done : at(i) \in V /\ Reads(kind, at(i))
    <3>1. ASSUME NEW i \in done PROVE at(i) \in V /\ CompareVersions(version, at(i), kind) # Unknown
      BY DEF Unknown
    <3>. QED BY <3>1 DEF CompareVersions
  <2>. HIDE DEF at, done
  <2>3. ASSUME NEW i \in done, NEW j \in done
        PROVE  /\ CompareVersions(at(i), at(j), kind) \in {-1, 0, 1}
               /\ CompareVersions(at(j), at(i), kind) = -CompareVersions(at(i), at(j), kind)
               /\ \A k \in done : CompareVersions(at(i), at(j), kind) = -1 /\ CompareVersions(at(j), at(k), kind) = -1
                                    => CompareVersions(at(i), at(k), kind) = -1
    BY <2>1, <2>2, VersionsCompare
  <2>. QED BY <2>3
<1>5. IsFiniteSet(done)
  <2>1. IsFiniteSet(1..n)
    BY FS_Interval
  <2>. HIDE DEF done
  <2>. QED BY <1>2, <2>1, FS_Subset
<1>6. ASSUME NEW i \in done
      PROVE  IsFiniteSet(Above(i)) /\ Cardinality(Above(i)) \in Nat /\ Above(i) \in SUBSET done /\ (Above(i) = {} => latest # {})
  <2>1. Above(i) \in SUBSET done /\ (Above(i) = {} => latest # {})
    OBVIOUS
  <2>. HIDE DEF Above, done, latest
  <2>. QED BY <2>1, <1>5, FS_Subset, FS_CardinalityType
<1>7. ASSUME NEW i \in done, NEW j \in Above(i) PROVE j \in done /\ Cardinality(Above(j)) < Cardinality(Above(i))
  <2>1. j \in done /\ CompareVersions(at(i), at(j), kind) = -1
    BY <1>4
  <2>2. Above(j) \in SUBSET Above(i) /\ j \in Above(i) /\ j \notin Above(j)
    <3>. HIDE DEF done, at
    <3>. QED BY <2>1, <1>4
  <2>. HIDE DEF Above, done
  <2>3. Cardinality(Above(j)) <= Cardinality(Above(i)) /\ Cardinality(Above(j)) # Cardinality(Above(i))
    BY <2>2, <1>6, FS_Subset
  <2>. QED BY <2>1, <2>3, <1>6
<1>. HIDE DEF done, latest, Above
<1>8. ASSUME NEW i \in done, \A j \in done : rank[j] < rank[i] => j \in Good PROVE i \in Good
  BY <1>6, <1>7, <1>8
<1>9. rank \in [done -> Nat]
  BY <1>6
<1>10. done \subseteq Good
  <2>. HIDE DEF rank, Good
  <2>. QED BY <1>8, <1>9, Descent
<1>11. ASSUME done # {} PROVE rule.changes[Min(latest)].status \in Decided
  <2>1. latest # {} /\ latest \subseteq done
    BY <1>10, <1>11 DEF latest
  <2>2. latest \in SUBSET Nat
    BY <2>1, <1>2
  <2>3. Min(latest) \in done
    BY <2>1, <2>2, MinOf
  <2>. QED BY <2>3, <1>2
<1>12. rule.changes = <<>> => done = {}
  BY DEF done
<1>. QED BY <1>1, <1>3, <1>11, <1>12 DEF Told

\* version_match: a rule that answers names the version or has compared everything
\* it read; a rule that is passed over names one other version or has compared.
LEMMA RuleTells ==
    ASSUME NEW V, LegibleIn(V), NEW version \in V, NEW component, NEW rule, NEW n \in Nat,
           InferredType(component, rule) \in Kinds,
           DOMAIN rule.changes = 1..n, \A i \in 1..n : rule.changes[i].at \in V
    PROVE  /\ RuleSays(component, version, rule) \in Told \cup {"uncertain", "silent"}
           /\ RuleSays(component, version, rule) \notin {"uncertain", "silent"} => Answers(component, rule, version)
           /\ RuleSays(component, version, rule) = "silent" => PassedOver(component, rule, version)
<1>. DEFINE kind == InferredType(component, rule)
            lower == CompareVersions(version, rule.version, kind)
            compared == [b \in rule.bounds |-> CompareVersions(version, b.at, kind)]
            needsLower == \E b \in rule.bounds : b.key \in {"lessThan", "lessThanOrEqual"}
            met == {compared[b] : b \in rule.bounds} \cup (IF needsLower THEN {lower} ELSE {})
            says == RuleSays(component, version, rule)
<1>1. says = IF rule.bounds = {} THEN
                 IF rule.version = version \/ lower = 0 THEN Plain(rule.status)
                 ELSE IF rule.version = NoVersion THEN "uncertain" ELSE "silent"
             ELSE IF CannotTell(met) THEN "uncertain"
             ELSE IF (needsLower => lower >= 0) /\ \A b \in rule.bounds : Within(b.key, compared[b])
                  THEN Changed(version, rule, kind)
             ELSE "silent"
  BY DEF RuleSays
<1>2. Changed(version, rule, kind) \in Told /\ Plain(rule.status) \in Told
  BY ChangedTells DEF Plain, Told
<1>3. says \in Told \cup {"uncertain", "silent"}
  <2>. HIDE DEF says, lower, met, needsLower, compared, kind
  <2>. QED BY <1>1, <1>2
<1>4. ASSUME says # "uncertain"
      PROVE  /\ says # "silent" => Answers(component, rule, version)
             /\ says = "silent" => PassedOver(component, rule, version)
  <2>1. CASE rule.bounds = {}
    <3>1. says # "silent" => rule.version = version \/ lower = 0
      <4>. HIDE DEF lower, met, needsLower, compared, kind
      <4>. QED BY <1>1, <1>4, <2>1
    <3>2. says = "silent" => rule.version \notin {NoVersion, version}
      <4>1. Plain(rule.status) # "silent"
        BY DEF Plain, Decided
      <4>. HIDE DEF lower, met, needsLower, compared, kind
      <4>. QED BY <1>1, <4>1, <2>1
    <3>. QED BY <3>1, <3>2, <2>1 DEF Answers, PassedOver
  <2>2. CASE rule.bounds # {}
    <3>1. ~CannotTell(met)
      <4>. HIDE DEF says, lower, met, needsLower, compared, kind
      <4>. QED BY <1>1, <1>4, <2>2
    <3>2. Unknown \notin met
      BY <3>1 DEF CannotTell
    <3>3. \A b \in rule.bounds : CompareVersions(version, b.at, kind) # Unknown
      BY <3>2
    <3>4. needsLower => CompareVersions(version, rule.version, kind) # Unknown
      BY <3>2
    <3>5. \A b \in rule.bounds : Reads(kind, b.at) /\ Reads(kind, version)
      BY <3>3 DEF CompareVersions
    <3>6. needsLower => Reads(kind, rule.version)
      BY <3>4 DEF CompareVersions
    <3>. HIDE DEF kind
    <3>. QED BY <3>5, <3>6, <2>2 DEF Answers, PassedOver, BoundsRead, kind
  <2>. QED BY <2>1, <2>2
<1>. QED BY <1>3, <1>4

\* version_match: the answer is of a rule, or of the default when all are silent.
LEMMA MatchIsHeard ==
    ASSUME NEW component, NEW n \in Nat, DOMAIN component.rules = 1..n, NEW version
    PROVE  LET says(i) == RuleSays(component, version, component.rules[i])
               match == VersionMatch(component, version)
           IN \/ \E i \in 1..n : says(i) \notin {"uncertain", "silent"} /\ match = says(i)
              \/ (\A i \in 1..n : says(i) = "silent") /\ match = Plain(component.default)
              \/ match = "unknown"
<1>. DEFINE says == [i \in DOMAIN component.rules |-> RuleSays(component, version, component.rules[i])]
            heard == {i \in DOMAIN says : says[i] \notin {"uncertain", "silent"}}
<1>1. VersionMatch(component, version) =
          IF heard # {} THEN says[Min(heard)]
          ELSE IF "uncertain" \in ToSet(says) THEN "unknown" ELSE Plain(component.default)
  BY DEF VersionMatch, FirstHeard
<1>2. heard # {} => Min(heard) \in heard
  <2>1. heard \in SUBSET Nat
    OBVIOUS
  <2>. HIDE DEF heard
  <2>. QED BY <2>1, MinOf
<1>3. CASE heard # {}
  BY <1>1, <1>2, <1>3
<1>4. CASE heard = {} /\ "uncertain" \in ToSet(says)
  BY <1>1, <1>4
<1>5. CASE heard = {} /\ "uncertain" \notin ToSet(says)
  BY <1>1, <1>5 DEF ToSet
<1>. QED BY <1>3, <1>4, <1>5

\* The versions of the instance.
Known == Literals \cup {NoVersion}

\* The literals of the instance can be read as versions.
LEMMA KnownLegible ==
    /\ LegibleIn(Known)
    /\ \A v \in {v10, v15, v20, v20rc, v20post, v20dev} : Legible(v)
<1>1. Word("rc") = -8 /\ Word("post") = -7 /\ Word("dev") = -5
  <2>1. Alphabet[8] = "rc" /\ Alphabet[7] = "post" /\ Alphabet[5] = "dev"
    BY DEF Alphabet
  <2>2. 8 \in 1..11 /\ 7 \in 1..11 /\ 5 \in 1..11
    OBVIOUS
  <2>. QED BY <2>1, <2>2, WordSpelled
<1>2. \A nums \in Seq(Nat) : nums # <<>> => Legible(Release(nums))
  BY DEF Legible, Release, Keys
<1>3. <<1, 0>> \in Seq(Nat) /\ <<1, 5>> \in Seq(Nat) /\ <<2>> \in Seq(Nat) /\ <<2, 0>> \in Seq(Nat) /\ <<2, 0, 0>> \in Seq(Nat)
  OBVIOUS
<1>4. <<1, 0>> # <<>> /\ <<1, 5>> # <<>> /\ <<2>> # <<>> /\ <<2, 0>> # <<>> /\ <<2, 0, 0>> # <<>>
  OBVIOUS
<1>5. Legible(v10) /\ Legible(v15) /\ Legible(v20)
  BY <1>2, <1>3, <1>4 DEF v10, v15, v20
<1>6. ASSUME NEW word \in {-8, -7, -5}, NEW m \in Nat, NEW nums \in Seq(Nat), nums # <<>>, NEW form \in {"hyphen", "pep"}
      PROVE  Legible([nums |-> nums, tail |-> <<word, m>>, form |-> form])
  <2>1. <<word, m>> \in Keys /\ DOMAIN <<word, m>> = 1..2 /\ <<word, m>>[1] = word /\ <<word, m>>[2] = m
    BY DEF Keys
  <2>2. IsNumber(m) /\ -word \in 1..11
    BY DEF IsNumber
  <2>3. \A i \in 1..2 : ~IsNumber(<<word, m>>[i]) => -<<word, m>>[i] \in 1..11 /\ i + 1 \in 1..2
    BY <2>1, <2>2
  <2>. QED BY <2>1, <2>3, <1>6 DEF Legible
<1>7. Legible(v20rc) /\ Legible(v20post) /\ Legible(v20dev)
  BY <1>1, <1>3, <1>4, <1>6 DEF v20rc, v20post, v20dev
<1>8. \A kind \in Kinds : ~Reads(kind, built) /\ ~Reads(kind, NoVersion)
  BY DEF Kinds, Reads, built, NoVersion
<1>. QED BY <1>5, <1>7, <1>8 DEF LegibleIn, Known, Literals

\* The rules of the instance are rules.
LEMMA RulesKnown ==
    ASSUME NEW rule \in Rules
    PROVE  /\ rule.version \in Known /\ rule.status \in Decided /\ rule.type \in Kinds
           /\ \A b \in rule.bounds : /\ b.at \in Known
                                     /\ b.key \in {"lessThan", "lessThanOrEqual", "versionStartExcluding", "versionEndExcluding"}
           /\ \E n \in Nat : DOMAIN rule.changes = 1..n /\ \A i \in 1..n : rule.changes[i].at \in Known
           /\ \A rules, default : InferredType(Component(rules, default), rule) = rule.type
<1>1. /\ rule.version \in {NoVersion, v10, built} /\ rule.status \in {"affected", "unaffected"} /\ rule.type \in Kinds
      /\ rule.bounds \in BoundSets /\ rule.changes \in ChangeLists
  BY DEF Rules, BoundSets
<1>2. rule.version \in Known /\ rule.status \in Decided
  BY <1>1 DEF Known, Literals, Decided
<1>3. \A b \in rule.bounds : /\ b.at \in Known
                             /\ b.key \in {"lessThan", "lessThanOrEqual", "versionStartExcluding", "versionEndExcluding"}
  <2>1. \A b \in rule.bounds : \E key \in {"lessThan", "lessThanOrEqual", "versionStartExcluding", "versionEndExcluding"}, at \in {v10, v15, v20, built} :
            b = [key |-> key, at |-> at]
    BY <1>1 DEF BoundSets, Bound
  <2>. QED BY <2>1 DEF Known, Literals
<1>4. \E n \in Nat : DOMAIN rule.changes = 1..n /\ \A i \in 1..n : rule.changes[i].at \in Known
  <2>. DEFINE T == [at : {v15, v20, built}, status : {"affected", "unaffected"}]
  <2>1. rule.changes \in Seq(T)
    <3>1. [at |-> v15, status |-> "unaffected"] \in T /\ [at |-> built, status |-> "unaffected"] \in T /\ [at |-> v20, status |-> "affected"] \in T
      OBVIOUS
    <3>. HIDE DEF T
    <3>2. \A x, y \in T : <<>> \in Seq(T) /\ <<x>> \in Seq(T) /\ <<x, y>> \in Seq(T)
      OBVIOUS
    <3>. QED BY <1>1, <3>1, <3>2 DEF ChangeLists
  <2>2. \A t \in T : t.at \in Known
    BY DEF Known, Literals
  <2>. HIDE DEF T
  <2>3. Len(rule.changes) \in Nat /\ DOMAIN rule.changes = 1..Len(rule.changes)
        /\ \A i \in 1..Len(rule.changes) : rule.changes[i] \in T
    BY <2>1
  <2>. QED BY <2>2, <2>3
<1>5. \A rules, default : InferredType(Component(rules, default), rule) = rule.type
  BY DEF InferredType, Component
<1>. QED BY <1>1, <1>2, <1>3, <1>4, <1>5

\* version_match: for any number of rules, a decided answer comes from a rule that
\* names the version or has compared its bounds, or from the default when every
\* rule names one other version or has compared its bounds.
THEOREM DecidedByRules ==
    ASSUME NEW rules \in Seq(Rules), NEW default \in {"affected", "unknown"}, NEW v \in Known
    PROVE  LET c == Component(rules, default)
               answer == Matches({c}, c.name, v, FALSE)
           IN answer \in Decided =>
                 \/ \E i \in DOMAIN rules : RuleSays(c, v, rules[i]) = answer /\ Answers(c, rules[i], v)
                 \/ answer = default /\ \A i \in DOMAIN rules : RuleSays(c, v, rules[i]) = "silent" /\ PassedOver(c, rules[i], v)
<1>. DEFINE c == Component(rules, default)
            answer == Matches({c}, c.name, v, FALSE)
            match == VersionMatch(c, v)
<1>1. c.rules = rules /\ c.default = default /\ Len(rules) \in Nat /\ DOMAIN rules = 1..Len(rules)
      /\ \A i \in 1..Len(rules) : rules[i] \in Rules
  BY DEF Component
<1>2. ASSUME NEW i \in 1..Len(rules)
      PROVE  /\ RuleSays(c, v, rules[i]) \in Told \cup {"uncertain", "silent"}
             /\ RuleSays(c, v, rules[i]) \notin {"uncertain", "silent"} => Answers(c, rules[i], v)
             /\ RuleSays(c, v, rules[i]) = "silent" => PassedOver(c, rules[i], v)
  <2>1. rules[i] \in Rules
    BY <1>1
  <2>2. InferredType(c, rules[i]) \in Kinds
    BY <2>1, RulesKnown
  <2>3. PICK n \in Nat : DOMAIN rules[i].changes = 1..n /\ \A j \in 1..n : rules[i].changes[j].at \in Known
    BY <2>1, RulesKnown
  <2>. HIDE DEF c
  <2>. QED BY <2>2, <2>3, KnownLegible, RuleTells
<1>3. answer = IF match = "affected" THEN "affected" ELSE IF match = "unknown" THEN "unknown" ELSE "unaffected"
  BY DEF Matches
<1>. HIDE DEF c
<1>4. \/ \E i \in 1..Len(rules) : RuleSays(c, v, rules[i]) \notin {"uncertain", "silent"} /\ match = RuleSays(c, v, rules[i])
      \/ (\A i \in 1..Len(rules) : RuleSays(c, v, rules[i]) = "silent") /\ match = Plain(default)
      \/ match = "unknown"
  BY <1>1, MatchIsHeard
<1>. HIDE DEF answer, match
<1>5. SUFFICES ASSUME answer \in Decided
               PROVE  \/ \E i \in DOMAIN rules : RuleSays(c, v, rules[i]) = answer /\ Answers(c, rules[i], v)
                      \/ answer = default /\ \A i \in DOMAIN rules : RuleSays(c, v, rules[i]) = "silent" /\ PassedOver(c, rules[i], v)
  BY DEF answer, c
<1>6. ASSUME NEW i \in 1..Len(rules), RuleSays(c, v, rules[i]) \notin {"uncertain", "silent"}, match = RuleSays(c, v, rules[i])
      PROVE  RuleSays(c, v, rules[i]) = answer /\ Answers(c, rules[i], v)
  BY <1>2, <1>3, <1>5, <1>6 DEF Told, Decided
<1>7. ASSUME \A i \in 1..Len(rules) : RuleSays(c, v, rules[i]) = "silent", match = Plain(default)
      PROVE  answer = default /\ \A i \in 1..Len(rules) : PassedOver(c, rules[i], v)
  BY <1>2, <1>3, <1>5, <1>7 DEF Plain, Decided
<1>8. match # "unknown"
  BY <1>3, <1>5 DEF Decided
<1>. QED BY <1>1, <1>4, <1>6, <1>7, <1>8

\* What a rule without changes requires of a version to cover it.
Covers(rule, v) ==
    /\ \A b \in rule.bounds : /\ CompareVersions(v, b.at, rule.type) # Unknown
                              /\ Within(b.key, CompareVersions(v, b.at, rule.type))
    /\ (\E b \in rule.bounds : b.key \in {"lessThan", "lessThanOrEqual"}) =>
           /\ CompareVersions(v, rule.version, rule.type) # Unknown
           /\ CompareVersions(v, rule.version, rule.type) >= 0

\* A rule without changes answers its status exactly where it covers.
LEMMA CoveredBy ==
    ASSUME NEW rule \in Rules, rule.changes = <<>>, rule.bounds # {}, NEW v \in Known
    PROVE  VersionMatch(Component(<<rule>>, "unknown"), v) = rule.status <=> Covers(rule, v)
<1>. DEFINE c == Component(<<rule>>, "unknown")
            kind == rule.type
            lower == CompareVersions(v, rule.version, kind)
            compared == [b \in rule.bounds |-> CompareVersions(v, b.at, kind)]
            needsLower == \E b \in rule.bounds : b.key \in {"lessThan", "lessThanOrEqual"}
            met == {compared[b] : b \in rule.bounds} \cup (IF needsLower THEN {lower} ELSE {})
            says == RuleSays(c, v, rule)
            match == VersionMatch(c, v)
<1>1. c.rules = <<rule>> /\ c.default = "unknown" /\ DOMAIN c.rules = 1..1 /\ c.rules[1] = rule /\ InferredType(c, rule) = kind
  BY RulesKnown DEF Component
<1>. HIDE DEF c
<1>2. says = IF CannotTell(met) THEN "uncertain"
             ELSE IF (needsLower => lower >= 0) /\ \A b \in rule.bounds : Within(b.key, compared[b])
                  THEN Changed(v, rule, kind)
             ELSE "silent"
  BY <1>1 DEF RuleSays
<1>3. Changed(v, rule, kind) = rule.status
  <2>1. rule.status \in Decided /\ kind \in Kinds
    BY RulesKnown
  <2>2. PICK n \in Nat : DOMAIN rule.changes = 1..n /\ \A i \in 1..n : rule.changes[i].at \in Known
    BY RulesKnown
  <2>3. Changed(v, rule, kind) = Plain(rule.status)
    BY <2>1, <2>2, KnownLegible, ChangedTells
  <2>. QED BY <2>1, <2>3 DEF Plain
<1>4. ~CannotTell(met) /\ (needsLower => lower >= 0) /\ (\A b \in rule.bounds : Within(b.key, compared[b])) <=> Covers(rule, v)
  <2>1. ~CannotTell(met) <=> /\ \A b \in rule.bounds : CompareVersions(v, b.at, kind) # Unknown
                             /\ needsLower => lower # Unknown
    BY DEF CannotTell
  <2>2. \A b \in rule.bounds : compared[b] = CompareVersions(v, b.at, kind)
    OBVIOUS
  <2>. HIDE DEF compared, met
  <2>. QED BY <2>1, <2>2 DEF Covers
<1>5. rule.status \in Decided
  BY RulesKnown
<1>6. says = IF Covers(rule, v) THEN rule.status ELSE IF CannotTell(met) THEN "uncertain" ELSE "silent"
  <2>. HIDE DEF says, met, needsLower, lower, compared, kind
  <2>. QED BY <1>2, <1>3, <1>4
<1>7. match = IF says \notin {"uncertain", "silent"} THEN says ELSE IF says = "uncertain" THEN "unknown" ELSE Plain("unknown")
  <2>. DEFINE own == [i \in DOMAIN c.rules |-> RuleSays(c, v, c.rules[i])]
              heard == {i \in DOMAIN own : own[i] \notin {"uncertain", "silent"}}
  <2>1. match = IF heard # {} THEN own[Min(heard)]
                ELSE IF "uncertain" \in ToSet(own) THEN "unknown" ELSE Plain("unknown")
    BY <1>1 DEF VersionMatch, FirstHeard
  <2>2. DOMAIN own = 1..1 /\ own[1] = says
    BY <1>1
  <2>3. heard = IF says \notin {"uncertain", "silent"} THEN {1} ELSE {}
    BY <2>2
  <2>4. Min({1}) = 1 /\ ToSet(own) = {says}
    BY <2>2 DEF Min, ToSet
  <2>. HIDE DEF own, heard, says
  <2>. QED BY <2>1, <2>2, <2>3, <2>4
<1>9. rule.status \notin {"uncertain", "silent", "unknown"}
  BY <1>5 DEF Decided
<1>. HIDE DEF says, match
<1>10. match = rule.status <=> Covers(rule, v)
  BY <1>6, <1>7, <1>9 DEF Plain, Decided
<1>. QED BY <1>10 DEF match, c

\* Between two versions a bound allows it allows every version.
LEMMA WithinBetween ==
    ASSUME NEW kind \in Kinds, NEW u \in Known, NEW v \in Known, NEW w \in Known, NEW x \in Known,
           CompareVersions(u, v, kind) \in {-1, 0}, CompareVersions(v, w, kind) \in {-1, 0},
           CompareVersions(u, x, kind) # Unknown
    PROVE  /\ CompareVersions(v, x, kind) # Unknown
           /\ CompareVersions(u, x, kind) >= 0 => CompareVersions(v, x, kind) >= 0
           /\ CompareVersions(u, x, kind) > 0 => CompareVersions(v, x, kind) > 0
           /\ CompareVersions(w, x, kind) <= 0 => CompareVersions(v, x, kind) <= 0
           /\ CompareVersions(w, x, kind) < 0 => CompareVersions(v, x, kind) < 0
<1>1. kind \in {"semver", "pep440", "numeric", "custom"} /\ \A y \in Known : Reads(kind, y) => Legible(y)
  BY KnownLegible DEF Kinds, LegibleIn
<1>2. Reads(kind, u) /\ Reads(kind, v) /\ Reads(kind, w) /\ Reads(kind, x)
  BY <1>1, VersionsCompare DEF Unknown
<1>3. \A y, z \in {u, v, w, x} :
          /\ CompareVersions(y, z, kind) \in {-1, 0, 1}
          /\ CompareVersions(z, y, kind) = -CompareVersions(y, z, kind)
  BY <1>1, <1>2, VersionsCompare DEF Unknown
<1>4. \A y, z, t \in {u, v, w, x} :
          CompareVersions(y, z, kind) \in {-1, 0} /\ CompareVersions(z, t, kind) \in {-1, 0}
             => /\ CompareVersions(y, t, kind) \in {-1, 0}
                /\ -1 \in {CompareVersions(y, z, kind), CompareVersions(z, t, kind)} => CompareVersions(y, t, kind) = -1
  BY <1>1, VersionsCompare
<1>. DEFINE uv == CompareVersions(u, v, kind)
            vw == CompareVersions(v, w, kind)
            ux == CompareVersions(u, x, kind)
            xu == CompareVersions(x, u, kind)
            vx == CompareVersions(v, x, kind)
            xv == CompareVersions(x, v, kind)
            wx == CompareVersions(w, x, kind)
<1>5. /\ uv \in {-1, 0} /\ vw \in {-1, 0} /\ ux \in {-1, 0, 1} /\ vx \in {-1, 0, 1} /\ wx \in {-1, 0, 1}
      /\ xu = -ux /\ xv = -vx
  BY <1>3
<1>6. xu \in {-1, 0} /\ uv \in {-1, 0} => xv \in {-1, 0} /\ (-1 \in {xu, uv} => xv = -1)
  BY <1>4
<1>7. vw \in {-1, 0} /\ wx \in {-1, 0} => vx \in {-1, 0} /\ (-1 \in {vw, wx} => vx = -1)
  BY <1>4
<1>. HIDE DEF uv, vw, ux, xu, vx, xv, wx
<1>8. /\ vx # Unknown /\ (ux >= 0 => vx >= 0) /\ (ux > 0 => vx > 0) /\ (wx <= 0 => vx <= 0) /\ (wx < 0 => vx < 0)
  BY <1>5, <1>6, <1>7 DEF Unknown
<1>. QED BY <1>8 DEF ux, vx, wx

\* What a rule covers is an interval.
LEMMA CoveredAreConvex ==
    ASSUME NEW rule \in Rules, NEW u \in Known, NEW v \in Known, NEW w \in Known,
           Covers(rule, u), Covers(rule, w), UpTo(rule.type, u, v), UpTo(rule.type, v, w)
    PROVE  Covers(rule, v)
<1>. DEFINE kind == rule.type
<1>1. /\ kind \in Kinds /\ rule.version \in Known
      /\ \A b \in rule.bounds : /\ b.at \in Known
                                /\ b.key \in {"lessThan", "lessThanOrEqual", "versionStartExcluding", "versionEndExcluding"}
  BY RulesKnown
<1>2. CompareVersions(u, v, kind) \in {-1, 0} /\ CompareVersions(v, w, kind) \in {-1, 0}
  BY DEF UpTo
<1>3. ASSUME NEW b \in rule.bounds
      PROVE  CompareVersions(v, b.at, kind) # Unknown /\ Within(b.key, CompareVersions(v, b.at, kind))
  <2>. DEFINE ux == CompareVersions(u, b.at, kind)
              vx == CompareVersions(v, b.at, kind)
              wx == CompareVersions(w, b.at, kind)
  <2>1. ux # Unknown /\ Within(b.key, ux) /\ Within(b.key, wx)
    BY DEF Covers
  <2>2. /\ vx # Unknown /\ (ux >= 0 => vx >= 0) /\ (ux > 0 => vx > 0) /\ (wx <= 0 => vx <= 0) /\ (wx < 0 => vx < 0)
    BY <1>1, <1>2, <2>1, WithinBetween
  <2>3. b.key \in {"lessThan", "lessThanOrEqual", "versionStartExcluding", "versionEndExcluding"}
    BY <1>1
  <2>. HIDE DEF ux, vx, wx
  <2>4. Within(b.key, vx)
    BY <2>1, <2>2, <2>3 DEF Within
  <2>. QED BY <2>2, <2>4 DEF vx
<1>4. ASSUME \E b \in rule.bounds : b.key \in {"lessThan", "lessThanOrEqual"}
      PROVE  CompareVersions(v, rule.version, kind) # Unknown /\ CompareVersions(v, rule.version, kind) >= 0
  <2>1. CompareVersions(u, rule.version, kind) # Unknown /\ CompareVersions(u, rule.version, kind) >= 0
    BY <1>4 DEF Covers
  <2>. QED BY <1>1, <1>2, <2>1, WithinBetween
<1>. QED BY <1>3, <1>4 DEF Covers

\* Two keys compare as they do at their first difference.
LEMMA FirstDifference ==
    ASSUME NEW a \in Keys, NEW b \in Keys, NEW i \in Nat, 1 <= i, i <= Len(a), i <= Len(b),
           \A j \in 1..(i - 1) : a[j] = b[j]
    PROVE  (a[i] < b[i] => Compare(a, b) = -1) /\ (b[i] < a[i] => Compare(a, b) = 1)
<1>1. a[i] \in Int /\ b[i] \in Int
  BY DEF Keys
<1>2. a[i] # b[i] => Compare(a, b) = Sign(a[i] - b[i])
  BY SplitsAt, CompareSplits
<1>. DEFINE x == a[i]
            y == b[i]
<1>3. x \in Int /\ y \in Int /\ (x # y => Compare(a, b) = Sign(x - y))
  BY <1>1, <1>2
<1>. HIDE DEF x, y
<1>4. (x < y => Compare(a, b) = -1) /\ (y < x => Compare(a, b) = 1)
  <2>1. x < y => Sign(x - y) = -1
    BY <1>3 DEF Sign
  <2>2. y < x => Sign(x - y) = 1
    BY <1>3 DEF Sign
  <2>. QED BY <1>3, <2>1, <2>2
<1>. QED BY <1>4 DEF x, y

\* A release candidate of 2.0 is between 1.0 and 2.0 as SemVer.
LEMMA CandidateAt20 ==
    CompareVersions(v20rc, v20, "semver") = -1 /\ CompareVersions(v20rc, v10, "semver") = 1
<1>1. Legible(v20rc) /\ Legible(v20) /\ Legible(v10)
  BY KnownLegible
<1>2. /\ v20rc.nums = <<2, 0, 0>> /\ v20.nums = <<2>> /\ v10.nums = <<1, 0>>
      /\ v20rc.tail # <<>> /\ v20.tail = <<>> /\ v10.tail = <<>>
      /\ v20rc.form = "hyphen" /\ v20.form = "plain" /\ v10.form = "plain"
  BY DEF v20rc, v20, v10, Release
<1>3. Len(v20rc.nums) = 3 /\ Len(v20.nums) = 1 /\ Len(v10.nums) = 2
  BY <1>2
<1>4. Reads("semver", v20rc) /\ Reads("semver", v20) /\ Reads("semver", v10)
  BY <1>2, <1>3 DEF Reads
<1>. DEFINE a == Semver(v20rc)
            b == Semver(v20)
            c == Semver(v10)
<1>5. /\ a \in Keys /\ b \in Keys /\ c \in Keys /\ 4 <= Len(a) /\ 4 <= Len(b) /\ 4 <= Len(c)
      /\ Len(a) \in Nat /\ Len(b) \in Nat /\ Len(c) \in Nat
  BY <1>1, SemverIsKey DEF Keys
<1>6. a[1] = 2 /\ a[2] = 0 /\ a[3] = 0 /\ a[4] = 0
  BY <1>1, <1>2, <1>3, SemverIsKey
<1>7. b[1] = 2 /\ b[2] = 0 /\ b[3] = 0 /\ b[4] = 1
  <2>1. \A i \in 1..3 : b[i] = IF i <= Len(v20.nums) THEN v20.nums[i] ELSE 0
    BY <1>1, SemverIsKey
  <2>2. v20.nums[1] = 2 /\ Len(v20.nums) = 1
    BY <1>2
  <2>3. b[4] = 1
    BY <1>1, <1>2, SemverIsKey
  <2>. HIDE DEF b
  <2>4. b[1] = v20.nums[1] /\ b[2] = 0 /\ b[3] = 0
    BY ONLY <2>1, <2>2
  <2>. QED BY <2>2, <2>3, <2>4
<1>8. c[1] = 1
  BY <1>1, <1>2, <1>3, SemverIsKey
<1>. HIDE DEF a, b, c
<1>9. Compare(a, b) = -1
  <2>1. \A j \in 1..(4 - 1) : a[j] = b[j]
    BY <1>6, <1>7
  <2>2. 4 \in Nat /\ 1 <= 4
    OBVIOUS
  <2>3. a[4] < b[4] => Compare(a, b) = -1
    BY ONLY <1>5, <2>1, <2>2, FirstDifference
  <2>. QED BY <1>6, <1>7, <2>3
<1>10. Compare(a, c) = 1
  <2>1. \A j \in 1..(1 - 1) : a[j] = c[j]
    OBVIOUS
  <2>2. 1 \in Nat /\ 1 <= 1 /\ 1 <= Len(a) /\ 1 <= Len(c)
    BY <1>5
  <2>3. c[1] < a[1] => Compare(a, c) = 1
    BY ONLY <1>5, <2>1, <2>2, FirstDifference
  <2>. QED BY <1>6, <1>8, <2>3
<1>. QED BY <1>4, <1>9, <1>10 DEF CompareVersions, Key, a, b, c

\* A development release of 2.0 is between 1.0 and 2.0, a post release behind it.
LEMMA Pep440At20 ==
    /\ CompareVersions(v20dev, v20, "pep440") = -1 /\ CompareVersions(v20dev, v10, "pep440") = 1
    /\ CompareVersions(v20post, v20, "pep440") = 1
<1>1. Legible(v20dev) /\ Legible(v20post) /\ Legible(v20) /\ Legible(v10)
  BY KnownLegible
<1>2. /\ v20dev.nums = <<2>> /\ v20post.nums = <<2, 0>> /\ v20.nums = <<2>> /\ v10.nums = <<1, 0>>
      /\ v20.tail = <<>> /\ v10.tail = <<>> /\ v20dev.tail = <<Word("dev"), 3>> /\ v20post.tail = <<Word("post"), 1>>
      /\ v20dev.form = "pep" /\ v20post.form = "pep" /\ v20.form = "plain" /\ v10.form = "plain"
  BY DEF v20dev, v20post, v20, v10, Release
<1>3. \A v \in {v20dev, v20post, v20, v10} :
          Reads("pep440", v) /\ Legible(v) /\ v.form \in {"plain", "pep"}
  BY <1>1, <1>2 DEF Reads
<1>4. Word("dev") = -5 /\ Word("post") = -7 /\ Spelled(-5) = "dev" /\ Spelled(-7) = "post"
  <2>1. Alphabet[7] = "post" /\ Alphabet[5] = "dev"
    BY DEF Alphabet
  <2>2. 7 \in 1..11 /\ 5 \in 1..11
    OBVIOUS
  <2>. QED BY <2>1, <2>2, WordSpelled
<1>5. Words(v20) = {} /\ Words(v20dev) = {"dev"} /\ Words(v20post) = {"post"}
  <2>1. ToSet(<<>>) = {} /\ \A x, y : ToSet(<<x, y>>) = {x, y}
    <3>1. \A x, y : DOMAIN <<x, y>> = {1, 2} /\ <<x, y>>[1] = x /\ <<x, y>>[2] = y
      OBVIOUS
    <3>. QED BY <3>1 DEF ToSet
  <2>2. {q \in ToSet(v20dev.tail) : ~IsNumber(q)} = {-5} /\ {q \in ToSet(v20post.tail) : ~IsNumber(q)} = {-7}
    BY <1>2, <1>4, <2>1 DEF IsNumber
  <2>. QED BY <1>2, <1>4, <2>1, <2>2 DEF Words
<1>6. /\ Len(Numeric(v20dev)) = 1 /\ Len(Numeric(v20post)) = 1 /\ Len(Numeric(v20)) = 1
      /\ Numeric(v20dev)[1] = 2 /\ Numeric(v20post)[1] = 2 /\ Numeric(v20)[1] = 2
      /\ Numeric(v10)[1] = 1 /\ Len(Numeric(v10)) >= 1
  <2>1. /\ \A i \in 2..Len(v20dev.nums) : v20dev.nums[i] = 0
        /\ \A i \in 2..Len(v20post.nums) : v20post.nums[i] = 0
        /\ \A i \in 2..Len(v20.nums) : v20.nums[i] = 0
    BY <1>2
  <2>2. v20dev.nums[1] = 2 /\ v20post.nums[1] = 2 /\ v20.nums[1] = 2 /\ v10.nums[1] = 1
    BY <1>2
  <2>. QED BY <1>1, <2>1, <2>2, NumericIsKey
<1>. DEFINE a == Pep440(v20dev)
            b == Pep440(v20)
            c == Pep440(v10)
            d == Pep440(v20post)
<1>7. /\ a \in Keys /\ b \in Keys /\ c \in Keys /\ d \in Keys
      /\ Len(a) = 6 /\ Len(b) = 6 /\ Len(c) = 6 /\ Len(d) = 6
  BY <1>3, Pep440IsKey
<1>8. \A j \in 1..4 : a[j] = b[j] /\ d[j] = b[j]
  BY <1>3, <1>6, Pep440IsKey
<1>9. a[5] = -1 /\ b[5] = 3 /\ d[5] = 4
  BY <1>3, <1>5, Pep440IsKey
<1>10. a[1] = 2 /\ c[1] = 1
  BY <1>3, <1>6, Pep440IsKey
<1>. HIDE DEF a, b, c, d
<1>11. Compare(a, b) = -1 /\ Compare(d, b) = 1
  <2>1. (\A j \in 1..(5 - 1) : a[j] = b[j]) /\ \A j \in 1..(5 - 1) : d[j] = b[j]
    BY <1>8
  <2>2. 5 \in Nat /\ 1 <= 5 /\ 5 <= Len(a) /\ 5 <= Len(b) /\ 5 <= Len(d)
    BY <1>7
  <2>3. a[5] < b[5] => Compare(a, b) = -1
    BY ONLY <1>7, <2>1, <2>2, FirstDifference
  <2>4. b[5] < d[5] => Compare(d, b) = 1
    BY ONLY <1>7, <2>1, <2>2, FirstDifference
  <2>. QED BY <1>9, <2>3, <2>4
<1>12. Compare(a, c) = 1
  <2>1. \A j \in 1..(1 - 1) : a[j] = c[j]
    OBVIOUS
  <2>2. 1 \in Nat /\ 1 <= 1 /\ 1 <= Len(a) /\ 1 <= Len(c)
    BY <1>7
  <2>3. c[1] < a[1] => Compare(a, c) = 1
    BY ONLY <1>7, <2>1, <2>2, FirstDifference
  <2>. QED BY <1>10, <2>3
<1>. QED BY <1>3, <1>11, <1>12 DEF CompareVersions, Key, a, b, c, d

\* A rule without changes covers an interval, and a pre-release of the fixed
\* version is in it.
LEMMA RangesCover ==
    ASSUME NEW rule \in Rules, rule.changes = <<>>, rule.bounds # {}
    PROVE  LET c == Component(<<rule>>, "unknown")
               kind == rule.type
               covered == {v \in Literals : VersionMatch(c, v) = rule.status}
           IN /\ \A u, w \in covered, v \in Literals : UpTo(kind, u, v) /\ UpTo(kind, v, w) => v \in covered
              /\ Bound("lessThan", v20) \in rule.bounds /\ rule.version = v10 =>
                     /\ kind = "semver" => v20rc \in covered
                     /\ kind = "pep440" => v20dev \in covered /\ v20post \notin covered
<1>. DEFINE c == Component(<<rule>>, "unknown")
            kind == rule.type
            covered == {v \in Literals : VersionMatch(c, v) = rule.status}
<1>1. \A v \in Literals : v \in covered <=> Covers(rule, v)
  BY CoveredBy DEF Known
<1>. HIDE DEF covered
<1>2. ASSUME NEW u \in covered, NEW w \in covered, NEW v \in Literals, UpTo(kind, u, v), UpTo(kind, v, w)
      PROVE  v \in covered
  <2>1. u \in Literals /\ w \in Literals
    BY DEF covered
  <2>2. Covers(rule, u) /\ Covers(rule, w)
    BY <1>1, <2>1
  <2>. QED BY <1>1, <1>2, <2>1, <2>2, CoveredAreConvex DEF Known
<1>3. ASSUME Bound("lessThan", v20) \in rule.bounds, rule.version = v10, NEW v \in Known
      PROVE  Covers(rule, v) <=> /\ CompareVersions(v, v20, kind) # Unknown /\ CompareVersions(v, v20, kind) < 0
                                 /\ CompareVersions(v, v10, kind) # Unknown /\ CompareVersions(v, v10, kind) >= 0
  <2>1. v20 # built
    <3>1. v20.nums[1] = 2 /\ built.nums[1] = 7
      BY DEF v20, built, Release
    <3>. QED BY <3>1
  <2>2. rule.bounds \in BoundSets
    BY DEF Rules, BoundSets
  <2>3. Bound("lessThan", v20) # Bound("lessThan", built)
    <3>1. Bound("lessThan", v20).at = v20 /\ Bound("lessThan", built).at = built
      BY DEF Bound
    <3>. QED BY <2>1, <3>1
  <2>4. \A at : /\ Bound("lessThan", v20) # Bound("lessThanOrEqual", at)
                /\ Bound("lessThan", v20) # Bound("versionStartExcluding", at)
                /\ Bound("lessThan", v20) # Bound("versionEndExcluding", at)
    <3>1. \A key, at : Bound(key, at).key = key
      BY DEF Bound
    <3>. QED BY <3>1
  <2>5. rule.bounds = {Bound("lessThan", v20)}
    BY <1>3, <2>2, <2>3, <2>4 DEF BoundSets
  <2>6. Bound("lessThan", v20).key = "lessThan" /\ Bound("lessThan", v20).at = v20
    BY DEF Bound
  <2>. QED BY <1>3, <2>5, <2>6 DEF Covers, Within
<1>4. v20rc \in Known /\ v20dev \in Known /\ v20post \in Known
      /\ v20rc \in Literals /\ v20dev \in Literals /\ v20post \in Literals
  BY DEF Known, Literals
<1>5. ASSUME Bound("lessThan", v20) \in rule.bounds, rule.version = v10
      PROVE  /\ kind = "semver" => v20rc \in covered
             /\ kind = "pep440" => v20dev \in covered /\ v20post \notin covered
  <2>1. kind = "semver" => Covers(rule, v20rc)
    BY <1>3, <1>4, <1>5, CandidateAt20 DEF Unknown
  <2>2. kind = "pep440" => Covers(rule, v20dev) /\ ~Covers(rule, v20post)
    BY <1>3, <1>4, <1>5, Pep440At20 DEF Unknown
  <2>. QED BY <1>1, <1>4, <2>1, <2>2
<1>. QED BY <1>2, <1>5 DEF covered

-----------------------------------------------------------------------------
(* The invariants of the instance *)

\* What the input of a state is: a piece more than the state it grew from.
Ascending(records) ==
    \A i, j \in DOMAIN records :
        i < j => 3 * records[i].source + records[i].id < 3 * records[j].source + records[j].id
InputOK ==
    /\ topic = "versions" => data \in Seq(Rules)
    /\ topic = "nodes" => data \in Seq(NodeShapes)
    /\ topic = "criteria" => data \in Seq(Criteria \cup Targets)
    /\ topic = "components" => data \in Seq(Candidates)
    /\ topic = "sources" => data \in Seq(Sources) /\ Ascending(data)
    /\ topic = "dataset" =>
           data \in [records : [{1, 2} -> RecordShapes], artifacts : Seq(Artifacts), limit : {1, 3}]
    /\ topic = "text" => \E n \in 0..MaxText : data \in [n : {n}, newlines : SUBSET (0..(n - 1)), blanks : SUBSET (0..(n - 1))]

\* Grow appends one of the pieces.
LEMMA GrowAppends ==
    ASSUME NEW which, NEW pieces, NEW bound, NEW T, pieces \subseteq T,
           topic = which => data \in Seq(T), Grow(which, pieces, bound)
    PROVE  /\ topic = which /\ topic' = which /\ data \in Seq(T) /\ data' \in Seq(T)
           /\ \E x \in pieces : data' = Append(data, x)
BY DEF Grow

\* A record that comes after all others keeps the order.
LEMMA StaysAscending ==
    ASSUME NEW T, NEW records \in Seq(T), Ascending(records), NEW x \in T,
           \A i \in DOMAIN records : 3 * records[i].source + records[i].id < 3 * x.source + x.id
    PROVE  Ascending(Append(records, x))
<1>. DEFINE longer == Append(records, x)
            n == Len(records)
<1>1. /\ n \in Nat /\ DOMAIN records = 1..n /\ DOMAIN longer = 1..(n + 1) /\ longer[n + 1] = x
      /\ \A i \in 1..n : longer[i] = records[i]
  OBVIOUS
<1>. HIDE DEF longer, n
<1>2. ASSUME NEW i \in 1..(n + 1), NEW j \in 1..(n + 1), i < j
      PROVE  3 * longer[i].source + longer[i].id < 3 * longer[j].source + longer[j].id
  <2>1. i \in 1..n /\ longer[i] = records[i]
    BY <1>1, <1>2
  <2>2. CASE j = n + 1
    <3>1. longer[j] = x
      BY <1>1, <2>2
    <3>. QED BY <1>1, <2>1, <3>1
  <2>3. CASE j # n + 1
    <3>1. j \in 1..n /\ longer[j] = records[j]
      BY <1>1, <2>3
    <3>. QED BY <1>1, <1>2, <2>1, <3>1 DEF Ascending
  <2>. QED BY <2>2, <2>3
<1>. QED BY <1>1, <1>2 DEF Ascending, longer

\* Every state is an input the algorithms take.
THEOREM InputsAreTyped == Spec => []InputOK
<1>1. Init => InputOK
  <2>. SUFFICES ASSUME Init PROVE InputOK
    OBVIOUS
  <2>1. \A T : <<>> \in Seq(T)
    OBVIOUS
  <2>2. CASE topic = "sources"
    BY <2>1, <2>2 DEF Init, InputOK, Ascending
  <2>3. CASE topic = "dataset"
    BY <2>1, <2>3 DEF Init, InputOK
  <2>4. CASE topic = "text"
    <3>1. data \in UNION {[n : {n}, newlines : SUBSET (0..(n - 1)), blanks : SUBSET (0..(n - 1))] : n \in 0..MaxText}
      BY <2>4 DEF Init
    <3>2. \E n \in 0..MaxText : data \in [n : {n}, newlines : SUBSET (0..(n - 1)), blanks : SUBSET (0..(n - 1))]
      BY <3>1
    <3>. QED BY <2>4, <3>2 DEF InputOK
  <2>5. CASE topic \in {"versions", "nodes", "criteria", "components"}
    BY <2>1, <2>5 DEF Init, InputOK
  <2>. QED BY <2>2, <2>3, <2>4, <2>5 DEF Init
<1>2. InputOK /\ [Next]_vars => InputOK'
  <2>. SUFFICES ASSUME InputOK, [Next]_vars PROVE InputOK'
    OBVIOUS
  <2>1. CASE AddRule
    <3>1. topic' = "versions" /\ data' \in Seq(Rules)
      BY <2>1, GrowAppends DEF AddRule, InputOK
    <3>. QED BY <3>1 DEF InputOK
  <2>2. CASE AddNode
    <3>1. topic' = "nodes" /\ data' \in Seq(NodeShapes)
      BY <2>2, GrowAppends DEF AddNode, InputOK
    <3>. QED BY <3>1 DEF InputOK
  <2>3. CASE AddCriterion
    <3>1. topic' = "criteria" /\ data' \in Seq(Criteria \cup Targets)
      BY <2>3, GrowAppends DEF AddCriterion, InputOK
    <3>. QED BY <3>1 DEF InputOK
  <2>4. CASE AddTarget
    <3>1. topic' = "criteria" /\ data' \in Seq(Criteria \cup Targets)
      BY <2>4, GrowAppends DEF AddTarget, InputOK
    <3>. QED BY <3>1 DEF InputOK
  <2>5. CASE AddComponent
    <3>1. topic' = "components" /\ data' \in Seq(Candidates)
      BY <2>5, GrowAppends DEF AddComponent, InputOK
    <3>. QED BY <3>1 DEF InputOK
  <2>6. CASE AddSource
    <3>. DEFINE later == {s \in Sources : Acceptable(s) /\ \A i \in DOMAIN data :
                              3 * data[i].source + data[i].id < 3 * s.source + s.id}
    <3>1. Grow("sources", later, MaxSources)
      BY <2>6 DEF AddSource
    <3>2. later \subseteq Sources
      OBVIOUS
    <3>3. topic = "sources" => data \in Seq(Sources) /\ Ascending(data)
      BY DEF InputOK
    <3>4. /\ topic = "sources" /\ topic' = "sources" /\ data \in Seq(Sources) /\ data' \in Seq(Sources)
          /\ \E x \in later : data' = Append(data, x)
      <4>. HIDE DEF later
      <4>. QED BY <3>1, <3>2, <3>3, GrowAppends
    <3>5. PICK x \in later : data' = Append(data, x)
      BY <3>4
    <3>6. Ascending(data')
      BY <3>3, <3>4, <3>5, StaysAscending
    <3>. QED BY <3>4, <3>6 DEF InputOK
  <2>7. CASE AddArtifact
    <3>1. topic = "dataset" /\ topic' = "dataset"
      BY <2>7 DEF AddArtifact
    <3>2. PICK a \in Artifacts : data' = [data EXCEPT !.artifacts = Append(@, a)]
      BY <2>7 DEF AddArtifact
    <3>3. data \in [records : [{1, 2} -> RecordShapes], artifacts : Seq(Artifacts), limit : {1, 3}]
      BY <3>1 DEF InputOK
    <3>4. data' \in [records : [{1, 2} -> RecordShapes], artifacts : Seq(Artifacts), limit : {1, 3}]
      <4>1. Append(data.artifacts, a) \in Seq(Artifacts)
        BY <3>3
      <4>. QED BY <3>2, <3>3, <4>1
    <3>. QED BY <3>1, <3>4 DEF InputOK
  <2>8. CASE UNCHANGED vars
    BY <2>8 DEF InputOK, Ascending, vars
  <2>. QED BY <2>1, <2>2, <2>3, <2>4, <2>5, <2>6, <2>7, <2>8 DEF Next
<1>. QED BY <1>1, <1>2, PTL DEF Spec

\* version_match: for any number of rules a decided answer is no guess; a rule
\* covers an interval, and of the fixed version it covers the pre-releases.
THEOREM DecisionsHold == Spec => []RangesDecide
<1>1. InputOK => RangesDecide
  <2>. SUFFICES ASSUME InputOK, topic = "versions" PROVE RangesDecide
    BY DEF RangesDecide
  <2>1. data \in Seq(Rules)
    BY DEF InputOK
  <2>2. ASSUME NEW default \in {"affected", "unknown"}, NEW v \in Literals
        PROVE  LET c == Component(data, default)
                   answer == Matches({c}, c.name, v, FALSE)
               IN answer \in Decided =>
                     \/ \E i \in DOMAIN data : RuleSays(c, v, data[i]) = answer /\ Answers(c, data[i], v)
                     \/ answer = default /\ \A i \in DOMAIN data : RuleSays(c, v, data[i]) = "silent" /\ PassedOver(c, data[i], v)
    <3>1. v \in Known
      BY DEF Known
    <3>. QED BY <2>1, <3>1, DecidedByRules
  <2>3. ASSUME Len(data) = 1, data[1].changes = <<>>, data[1].bounds # {}
        PROVE  LET c == Component(data, "unknown")
                   kind == data[1].type
                   covered == {v \in Literals : VersionMatch(c, v) = data[1].status}
               IN /\ \A u, w \in covered, v \in Literals : UpTo(kind, u, v) /\ UpTo(kind, v, w) => v \in covered
                  /\ Bound("lessThan", v20) \in data[1].bounds /\ data[1].version = v10 =>
                         /\ kind = "semver" => v20rc \in covered
                         /\ kind = "pep440" => v20dev \in covered /\ v20post \notin covered
    <3>. DEFINE rule == data[1]
    <3>1. data = <<rule>> /\ rule \in Rules
      BY <2>1, <2>3
    <3>. HIDE DEF rule
    <3>2. rule.changes = <<>> /\ rule.bounds # {}
      BY <2>3 DEF rule
    <3>3. LET c == Component(<<rule>>, "unknown")
              kind == rule.type
              covered == {v \in Literals : VersionMatch(c, v) = rule.status}
          IN /\ \A u, w \in covered, v \in Literals : UpTo(kind, u, v) /\ UpTo(kind, v, w) => v \in covered
             /\ Bound("lessThan", v20) \in rule.bounds /\ rule.version = v10 =>
                    /\ kind = "semver" => v20rc \in covered
                    /\ kind = "pep440" => v20dev \in covered /\ v20post \notin covered
      BY <3>1, <3>2, RangesCover
    <3>4. <<rule>> = data /\ rule = data[1]
      BY <3>1 DEF rule
    <3>. QED BY <3>3, <3>4
  <2>. QED BY <2>2, <2>3 DEF RangesDecide
<1>. QED BY <1>1, InputsAreTyped, PTL

\* A tree whose nodes hang below smaller ones.
LEMMA ShapesAreTrees ==
    ASSUME NEW k \in Nat, NEW shapes, DOMAIN shapes = 1..k, NEW parent,
           \A n \in 2..k : parent[n] < n
    PROVE  IsTree(Tree(shapes, parent), k)
<1>. DEFINE tree == Tree(shapes, parent)
<1>1. DOMAIN tree = 1..k /\ \A n \in 1..k : tree[n].children = {m \in 1..k : m # 1 /\ parent[m] = n}
  BY DEF Tree
<1>. HIDE DEF tree
<1>2. ASSUME NEW n \in 1..k, NEW m \in 1..k, m # 1, parent[m] = n PROVE m \in (n + 1)..k
  <2>1. m \in 2..k /\ parent[m] < m
    BY <1>2
  <2>. QED BY <1>2, <2>1
<1>. QED BY <1>1, <1>2 DEF IsTree, tree

\* cpe_applicability: for any number of targets and any tree of nodes, a
\* criterion that holds was compared, an unreadable target leaves it unknown,
\* and a decided answer stays however the unknown criteria turn out.
THEOREM UnknownIsKept == Spec => []ThreeValuesAreSound
<1>1. ASSUME InputOK, topic = "criteria", Len(data) > 1
      PROVE  LET criterion == Head(data)
                 targets == Tail(data)
                 found == CpeMatch(criterion, targets)
             IN /\ found = "true" => \E i \in DOMAIN targets :
                     /\ \A k \in DOMAIN criterion.names : criterion.names[k] # AnyName => targets[i].names[k] = criterion.names[k]
                     /\ criterion.version # NoVersion => targets[i].version = criterion.version
                     /\ \A b \in criterion.bounds : \E kind \in {"semver", "numeric"} :
                            /\ Reads(kind, targets[i].version) /\ Reads(kind, b.at)
                            /\ Within(b.key, CompareVersions(targets[i].version, b.at, kind))
                /\ (\E i \in DOMAIN targets : ~targets[i].wellFormed) => found = "unknown"
  <2>. DEFINE criterion == Head(data)
              targets == Tail(data)
  <2>1. \E n \in Nat : DOMAIN targets = 1..n
    <3>1. data \in Seq(Criteria \cup Targets)
      BY <1>1 DEF InputOK
    <3>2. targets \in Seq(Criteria \cup Targets)
      BY <1>1, <3>1
    <3>. QED BY <3>2
  <2>. HIDE DEF criterion, targets
  <2>2. (\E i \in DOMAIN targets : ~targets[i].wellFormed) => CpeMatch(criterion, targets) = "unknown"
    BY DEF CpeMatch
  <2>3. ASSUME CpeMatch(criterion, targets) = "true"
        PROVE  \E i \in DOMAIN targets :
                   /\ \A k \in DOMAIN criterion.names : criterion.names[k] # AnyName => targets[i].names[k] = criterion.names[k]
                   /\ criterion.version # NoVersion => targets[i].version = criterion.version
                   /\ \A b \in criterion.bounds : \E kind \in {"semver", "numeric"} :
                          /\ Reads(kind, targets[i].version) /\ Reads(kind, b.at)
                          /\ Within(b.key, CompareVersions(targets[i].version, b.at, kind))
    BY <2>1, <2>3, CriterionCompares
  <2>. QED BY <2>2, <2>3 DEF criterion, targets
<1>2. ASSUME InputOK, topic = "nodes", NEW parent \in [2..Len(data) -> 1..Len(data)], data # <<>>,
             \A n \in 2..Len(data) : parent[n] < n
      PROVE  LET tree == Tree(data, parent)
                 marked == UNION {tree[n].matches : n \in DOMAIN tree}
                 answer(value) == CpeApplicability({Outcome(tree, value)}, <<"target">>)
             IN \A value \in [marked -> Truth] : answer(value) # "unknown" =>
                    \A turned \in [marked -> Truth] :
                        (\A m \in marked : value[m] # "unknown" => turned[m] = value[m]) => answer(turned) = answer(value)
  <2>. DEFINE tree == Tree(data, parent)
              marked == UNION {tree[n].matches : n \in DOMAIN tree}
              k == Len(data)
  <2>1. k \in Nat /\ k > 0 /\ DOMAIN data = 1..k
    <3>1. data \in Seq(NodeShapes)
      BY <1>2 DEF InputOK
    <3>. QED BY <1>2, <3>1
  <2>. HIDE DEF k
  <2>2. IsTree(tree, k)
    BY <1>2, <2>1, ShapesAreTrees DEF k
  <2>. HIDE DEF tree
  <2>3. marked = CriteriaOf(tree)
    BY DEF CriteriaOf
  <2>. HIDE DEF marked
  <2>4. ASSUME NEW value \in [marked -> Truth], NEW turned \in [marked -> Truth],
               \A m \in marked : value[m] # "unknown" => turned[m] = value[m],
               CpeApplicability({Outcome(tree, value)}, <<"target">>) # "unknown"
        PROVE  CpeApplicability({Outcome(tree, turned)}, <<"target">>) = CpeApplicability({Outcome(tree, value)}, <<"target">>)
    <3>1. \A m \in CriteriaOf(tree) : Refines(value[m], turned[m])
      BY <2>3, <2>4 DEF Refines
    <3>2. Refines(Outcome(tree, value), Outcome(tree, turned))
      BY <2>1, <2>2, <2>3, <3>1, OutcomeStays
    <3>3. Outcome(tree, value) # "unknown"
      BY <2>4 DEF CpeApplicability, AnyOf
    <3>4. Outcome(tree, turned) = Outcome(tree, value)
      BY <3>2, <3>3 DEF Refines
    <3>. QED BY <3>4
  <2>. QED BY <2>4 DEF marked, tree
<1>3. InputOK => ThreeValuesAreSound
  BY <1>1, <1>2 DEF ThreeValuesAreSound
<1>. QED BY <1>3, InputsAreTyped, PTL

\* disambiguate_components: for any number of candidates an entity without a
\* finding is one chain of shared identifiers of each kind it has.
THEOREM CollapsesHaveFindings == Spec => []CollapseIsReported
<1>1. InputOK => CollapseIsReported
  BY CollapsesAreReported DEF InputOK, CollapseIsReported
<1>. QED BY <1>1, InputsAreTyped, PTL

\* process: for any number of acceptable records the revisions do not depend on
\* the order in which they are read.
THEOREM RevisionsHold == Spec => []RevisionIgnoresOrder
<1>1. ASSUME InputOK, topic = "sources" PROVE Keyed(data) /\ \E k \in Nat : DOMAIN data = 1..k
  <2>1. data \in Seq(Sources) /\ Ascending(data)
    BY <1>1 DEF InputOK
  <2>2. \E k \in Nat : DOMAIN data = 1..k
    BY <2>1
  <2>3. \A i \in DOMAIN data : data[i].source \in Int /\ data[i].id \in Int
    <3>1. \A i \in DOMAIN data : data[i] \in Sources
      BY <2>1
    <3>2. \A s \in Sources : s.source \in Int /\ s.id \in Int
      BY DEF Sources
    <3>. QED BY <3>1, <3>2
  <2>4. ASSUME NEW i \in DOMAIN data, NEW j \in DOMAIN data,
               data[i].source = data[j].source, data[i].id = data[j].id, i # j
        PROVE  FALSE
    <3>1. i < j \/ j < i
      BY <2>2, <2>4
    <3>2. i < j => 3 * data[i].source + data[i].id < 3 * data[j].source + data[j].id
      BY <2>1 DEF Ascending
    <3>3. j < i => 3 * data[j].source + data[j].id < 3 * data[i].source + data[i].id
      BY <2>1 DEF Ascending
    <3>4. 3 * data[i].source + data[i].id \in Int
      BY <2>3
    <3>. QED BY <2>4, <3>1, <3>2, <3>3, <3>4
  <2>. QED BY <2>2, <2>3, <2>4 DEF Keyed
<1>2. InputOK => RevisionIgnoresOrder
  BY <1>1, ProcessIgnoresOrder DEF RevisionIgnoresOrder
<1>. QED BY <1>2, InputsAreTyped, PTL

\* build_training_dataset: for any number of artifacts of any vulnerabilities,
\* any chunks and any assignment of splits, nothing leaks between splits.
THEOREM SplitsAreApart == Spec => []NothingLeaks
<1>1. ASSUME InputOK, topic = "dataset" PROVE IsInput(data.records, data.artifacts)
  <2>1. data.records \in [{1, 2} -> RecordShapes] /\ data.artifacts \in Seq(Artifacts)
    BY <1>1 DEF InputOK
  <2>2. DOMAIN data.records \subseteq Vulns
    BY <2>1, InstanceAssumption
  <2>3. \E n \in Nat : DOMAIN data.artifacts = 1..n
    BY <2>1
  <2>4. \A i \in DOMAIN data.artifacts : data.artifacts[i] \in Artifacts
    BY <2>1
  <2>5. \A a \in Artifacts : a.vulns \subseteq Vulns /\ a.vulns # {}
    BY DEF Artifacts
  <2>. QED BY <2>2, <2>3, <2>4, <2>5 DEF IsInput
<1>2. InputOK => NothingLeaks
  BY <1>1, NothingIsShared DEF NothingLeaks
<1>. QED BY <1>2, InputsAreTyped, PTL

\* _chunks: for every length of a text and every place of its newlines and blanks.
THEOREM PiecesCoverTexts == Spec => []ChunksCover
<1>1. ASSUME InputOK, topic = "text" PROVE data.n \in Nat /\ data.newlines \in SUBSET Int
  <2>1. PICK n \in 0..MaxText : data \in [n : {n}, newlines : SUBSET (0..(n - 1)), blanks : SUBSET (0..(n - 1))]
    BY <1>1 DEF InputOK
  <2>2. n \in Nat
    BY InstanceAssumption
  <2>. QED BY <2>1, <2>2
<1>2. ASSUME NEW n \in Nat, NEW newlines \in SUBSET Int, NEW blanks, NEW size \in 2..4, NEW overlap \in 0..(size - 1)
      PROVE  LET pieces == Chunks(n, newlines, blanks, size, overlap)
             IN /\ \A i \in (0..(n - 1)) \ blanks : \E c \in pieces : c[1] <= i /\ i < c[2]
                /\ n > 0 => \A c \in pieces : c[1] < c[2] /\ c[2] - c[1] <= size
  <2>1. size \in Nat /\ size > 0 /\ overlap \in Nat
    OBVIOUS
  <2>. QED BY ONLY <2>1, n \in Nat, newlines \in SUBSET Int, ChunksAlwaysCover
<1>3. InputOK => ChunksCover
  BY <1>1, <1>2 DEF ChunksCover
<1>. QED BY <1>3, InputsAreTyped, PTL
=============================================================================
