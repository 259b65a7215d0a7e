--------------------------- MODULE SearchProofs ----------------------------
(*****************************************************************************)
(* Proofs about Versions and Applicability, for every version key, every    *)
(* configuration tree and any number of targets.  Induction over data is    *)
(* descent to a counterexample of least rank: Descent takes the set of what *)
(* is good where an induction theorem takes a predicate, and Recursion says *)
(* that the functions the model defines by recursion exist.                 *)
(*****************************************************************************)
EXTENDS Applicability, FiniteSetsExt, FiniteSetTheorems, SequenceTheorems,
        WellFoundedInduction, TLAPS

-----------------------------------------------------------------------------
(* Least members, and recursion by rank *)

\* A set of naturals that is not empty has a least member.
LEMMA LeastNatural ==
    ASSUME NEW S \in SUBSET Nat, S # {}
    PROVE  \E m \in S : \A k \in S : m <= k
<1>. DEFINE R == {ss \in Nat \X Nat : ss[1] < ss[2]}
<1>1. IsWellFoundedOn(R, Nat)
  BY NatLessThanWellFounded DEF OpToRel
<1>2. PICK m \in S : \A k \in S : ~(<<k, m>> \in R)
  BY <1>1, WFMin
<1>3. \A k \in S : ~(k < m)
  BY <1>2
<1>. QED BY <1>2, <1>3

\* Induction over a rank, with the set of the elements known to be good
\* in the place of a predicate.
LEMMA Descent ==
    ASSUME NEW S, NEW rank \in [S -> Nat], NEW Good,
           \A x \in S : (\A y \in S : rank[y] < rank[x] => y \in Good) => x \in Good
    PROVE  S \subseteq Good
<1>. DEFINE Ranks == {rank[x] : x \in S \ Good}
<1>. SUFFICES ASSUME S \ Good # {} PROVE FALSE
  OBVIOUS
<1>1. PICK r \in Ranks : \A k \in Ranks : r <= k
  <2>1. Ranks \in SUBSET Nat /\ Ranks # {}
    OBVIOUS
  <2>. HIDE DEF Ranks
  <2>. QED BY <2>1, LeastNatural
<1>2. PICK x \in S \ Good : r = rank[x]
  BY <1>1
<1>3. ASSUME NEW y \in S, rank[y] < rank[x] PROVE y \in Good
  BY <1>1, <1>2, <1>3
<1>. QED BY <1>2, <1>3

\* Strong induction over the naturals, for a set.
LEMMA NatDescent ==
    ASSUME NEW Good, \A n \in Nat : (\A m \in Nat : m < n => m \in Good) => n \in Good
    PROVE  Nat \subseteq Good
<1>. DEFINE id == [n \in Nat |-> n]
<1>1. id \in [Nat -> Nat] /\ \A x \in Nat : (\A y \in Nat : id[y] < id[x] => y \in Good) => x \in Good
  OBVIOUS
<1>. HIDE DEF id
<1>. QED BY <1>1, Descent

\* A recursion over S by rank: what step makes of a function at x depends only
\* on its values at what is of lower rank.
Causal(step, S, T, rank) ==
    /\ T # {} /\ rank \in [S -> Nat]
    /\ step \in [[S -> T] -> [S -> T]]
    /\ \A g, h \in [S -> T], x \in S :
          (\A y \in S : rank[y] < rank[x] => g[y] = h[y]) => step[g][x] = step[h][x]

\* A recursion by rank has a solution: what a recursive function of the
\* model chooses exists.
LEMMA Recursion ==
    ASSUME NEW S, NEW T, NEW rank, NEW step, Causal(step, S, T, rank)
    PROVE  \E f \in [S -> T] : step[f] = f
<1>. USE DEF Causal
<1>. DEFINE Good(g, n) == g \in [S -> T] /\ \A x \in S : rank[x] < n => step[g][x] = g[x]
            Reached == {n \in Nat : \E g : Good(g, n)}
<1>1. Nat \subseteq Reached
  <2>1. ASSUME NEW n \in Nat, \A m \in Nat : m < n => m \in Reached PROVE n \in Reached
    <3>1. CASE n = 0
      <4>1. PICK t \in T : TRUE
        OBVIOUS
      <4>2. Good([x \in S |-> t], 0)
        OBVIOUS
      <4>. QED BY <4>2, <3>1
    <3>2. CASE n # 0
      <4>1. n - 1 \in Nat /\ n - 1 < n
        BY <3>2
      <4>2. n - 1 \in Reached
        BY <4>1, <2>1
      <4>3. PICK g : Good(g, n - 1)
        BY <4>2
      <4>4. step[g] \in [S -> T]
        BY <4>3
      <4>5. ASSUME NEW x \in S, rank[x] < n PROVE step[step[g]][x] = step[g][x]
        <5>1. \A y \in S : rank[y] < rank[x] => step[g][y] = g[y]
          BY <4>1, <4>3, <4>5
        <5>. QED BY <5>1, <4>3, <4>4
      <4>6. Good(step[g], n)
        BY <4>4, <4>5
      <4>. QED BY <4>6
    <3>. QED BY <3>1, <3>2
  <2>. HIDE DEF Reached
  <2>. QED BY <2>1, NatDescent
<1>2. ASSUME NEW g, NEW h, NEW n \in Nat, Good(g, n), NEW m \in Nat, Good(h, m)
      PROVE  \A x \in S : rank[x] < n /\ rank[x] < m => g[x] = h[x]
  <2>. DEFINE Same == {x \in S : rank[x] < n /\ rank[x] < m => g[x] = h[x]}
  <2>1. ASSUME NEW x \in S, \A y \in S : rank[y] < rank[x] => y \in Same PROVE x \in Same
    <3>. SUFFICES ASSUME rank[x] < n, rank[x] < m PROVE g[x] = h[x]
      OBVIOUS
    <3>1. \A y \in S : rank[y] < rank[x] => g[y] = h[y]
      BY <2>1
    <3>2. step[g][x] = step[h][x]
      BY <3>1, <1>2
    <3>. QED BY <3>2, <1>2
  <2>. HIDE DEF Same
  <2>2. S \subseteq Same
    BY <2>1, Descent
  <2>. QED BY <2>2 DEF Same
<1>. DEFINE upto(n) == CHOOSE g : Good(g, n)
            f == [x \in S |-> upto(rank[x] + 1)[x]]
<1>3. ASSUME NEW n \in Nat PROVE Good(upto(n), n)
  BY <1>1
<1>. HIDE DEF upto, Reached
<1>4. f \in [S -> T]
  <2>. SUFFICES ASSUME NEW x \in S PROVE upto(rank[x] + 1)[x] \in T
    OBVIOUS
  <2>. QED BY <1>3
<1>5. ASSUME NEW x \in S PROVE step[f][x] = f[x]
  <2>. DEFINE g == upto(rank[x] + 1)
  <2>1. Good(g, rank[x] + 1)
    BY <1>3
  <2>. HIDE DEF g
  <2>2. ASSUME NEW y \in S, rank[y] < rank[x] PROVE f[y] = g[y]
    <3>1. rank[y] + 1 \in Nat /\ rank[x] + 1 \in Nat /\ rank[y] < rank[y] + 1 /\ rank[y] < rank[x] + 1
      BY <2>2
    <3>2. Good(upto(rank[y] + 1), rank[y] + 1)
      BY <1>3, <3>1
    <3>. HIDE DEF Good
    <3>. QED BY <2>1, <3>1, <3>2, <1>2
  <2>3. step[f][x] = step[g][x]
    BY <1>4, <2>1, <2>2
  <2>4. step[g][x] = g[x]
    BY <2>1
  <2>. QED BY <2>3, <2>4 DEF g
<1>6. step[f] = f
  BY <1>4, <1>5
<1>. QED BY <1>4, <1>6

\* Max of a set of integers with an upper bound.
LEMMA MaxOf ==
    ASSUME NEW S \in SUBSET Int, S # {}, NEW top \in Int, \A x \in S : x <= top
    PROVE  Max(S) \in S /\ \A y \in S : Max(S) >= y
<1>. DEFINE G == {g \in Nat : top - g \in S}
<1>1. G # {}
  <2>1. PICK x \in S : TRUE
    OBVIOUS
  <2>. QED BY <2>1, top - (top - x) = x, top - x \in Nat
<1>2. PICK g \in G : \A k \in G : g <= k
  BY <1>1, LeastNatural
<1>3. \A y \in S : top - g >= y
  <2>. TAKE y \in S
  <2>1. y \in Int /\ top - y \in G
    BY top - (top - y) = y, top - y \in Nat
  <2>2. g \in Int /\ g <= top - y
    BY <2>1, <1>2
  <2>. QED BY <2>1, <2>2
<1>. QED BY <1>2, <1>3 DEF Max

\* Min of a set of naturals.
LEMMA MinOf ==
    ASSUME NEW S \in SUBSET Nat, S # {}
    PROVE  Min(S) \in S /\ \A y \in S : Min(S) <= y
BY LeastNatural DEF Min

-----------------------------------------------------------------------------
(* compare_versions *)

\* What Compare finds, without a choice: where two keys first differ, or which
\* of them the other begins with.
Splits(a, b, i) == i \in DOMAIN a \cap DOMAIN b /\ a[i] # b[i] /\ \A j \in DOMAIN a \cap DOMAIN b : j < i => a[j] = b[j]
Agree(a, b) == \A i \in DOMAIN a \cap DOMAIN b : a[i] = b[i]
\* The keys versions are compared by.
Keys == Seq(Int)

\* Compare decides at the first difference, or by the lengths.
LEMMA CompareIs ==
    ASSUME NEW a \in Keys, NEW b \in Keys
    PROVE  \/ Agree(a, b) /\ Compare(a, b) = Sign(Len(a) - Len(b))
           \/ \E i \in 1..Len(a) \cap 1..Len(b) : Splits(a, b, i) /\ Compare(a, b) = Sign(a[i] - b[i])
<1>. DEFINE differ == {i \in DOMAIN a \cap DOMAIN b : a[i] # b[i]}
            first == CHOOSE i \in differ : \A j \in differ : i <= j
<1>1. DOMAIN a = 1..Len(a) /\ DOMAIN b = 1..Len(b)
  BY DEF Keys
<1>2. Compare(a, b) = IF differ = {} THEN Sign(Len(a) - Len(b)) ELSE Sign(a[first] - b[first])
  BY DEF Compare
<1>3. differ \in SUBSET Nat
  BY <1>1
<1>4. CASE differ = {}
  BY <1>2, <1>4 DEF Agree
<1>5. CASE differ # {}
  <2>1. \E i \in differ : \A j \in differ : i <= j
    <3>. HIDE DEF differ
    <3>. QED BY <1>3, <1>5, LeastNatural
  <2>2. first \in differ /\ \A j \in differ : first <= j
    <3>. HIDE DEF differ
    <3>. QED BY <2>1
  <2>. HIDE DEF first
  <2>3. Splits(a, b, first)
    BY <1>1, <2>2 DEF Splits
  <2>. QED BY <1>1, <1>2, <1>5, <2>2, <2>3
<1>. QED BY <1>4, <1>5

\* Compare at the first difference.
LEMMA CompareSplits ==
    ASSUME NEW a \in Keys, NEW b \in Keys, NEW i, Splits(a, b, i)
    PROVE  Compare(a, b) = Sign(a[i] - b[i])
<1>1. DOMAIN a = 1..Len(a) /\ DOMAIN b = 1..Len(b) /\ Len(a) \in Nat /\ Len(b) \in Nat
  BY DEF Keys
<1>2. ~Agree(a, b)
  BY DEF Agree, Splits
<1>3. ASSUME NEW k \in 1..Len(a) \cap 1..Len(b), Splits(a, b, k) PROVE k = i
  <2>1. i \in Int /\ k \in Int /\ ~(k < i) /\ ~(i < k)
    BY <1>1, <1>3 DEF Splits
  <2>. QED BY <2>1
<1>. QED BY <1>2, <1>3, CompareIs

\* Compare of two keys of which one is a prefix of the other.
LEMMA CompareAgrees ==
    ASSUME NEW a \in Keys, NEW b \in Keys, Agree(a, b)
    PROVE  Compare(a, b) = Sign(Len(a) - Len(b))
BY CompareIs DEF Agree, Splits

\* The sign of a difference.
LEMMA SignOpposes ==
    ASSUME NEW x \in Int, NEW y \in Int
    PROVE  /\ Sign(x - y) \in {-1, 0, 1} /\ Sign(y - x) = -Sign(x - y)
           /\ Sign(x - y) = 0 <=> x = y
           /\ Sign(x - y) = -1 <=> x < y
BY DEF Sign

\* Compare is antisymmetric, and zero only of equal keys.
LEMMA CompareOpposes ==
    ASSUME NEW a \in Keys, NEW b \in Keys
    PROVE  /\ Compare(a, b) \in {-1, 0, 1}
           /\ Compare(b, a) = -Compare(a, b)
           /\ Compare(a, b) = 0 <=> a = b
<1>1. DOMAIN a = 1..Len(a) /\ DOMAIN b = 1..Len(b) /\ Len(a) \in Nat /\ Len(b) \in Nat
      /\ (\A i \in 1..Len(a) : a[i] \in Int) /\ \A i \in 1..Len(b) : b[i] \in Int
  BY DEF Keys
<1>2. CASE Agree(a, b)
  <2>1. Agree(b, a)
    BY <1>2 DEF Agree
  <2>2. Compare(a, b) = Sign(Len(a) - Len(b)) /\ Compare(b, a) = Sign(Len(b) - Len(a))
    BY <1>2, <2>1, CompareAgrees
  <2>3. Len(a) = Len(b) => a = b
    <3>1. ASSUME Len(a) = Len(b) PROVE \A i \in 1..Len(a) : a[i] = b[i]
      BY <1>1, <1>2, <3>1 DEF Agree
    <3>. QED BY <1>1, <3>1 DEF Keys
  <2>4. a = b => Len(a) = Len(b)
    OBVIOUS
  <2>. DEFINE x == Len(a)
              y == Len(b)
  <2>5. x \in Int /\ y \in Int
    BY <1>1
  <2>7. Sign(x - y) \in {-1, 0, 1} /\ Sign(y - x) = -Sign(x - y) /\ (Sign(x - y) = 0 <=> x = y)
    BY <2>5, SignOpposes
  <2>8. Compare(a, b) = Sign(x - y) /\ Compare(b, a) = Sign(y - x)
    BY <2>2
  <2>9. x = y <=> a = b
    BY <2>3, <2>4
  <2>. HIDE DEF x, y
  <2>. QED BY <2>5, <2>7, <2>8, <2>9
<1>3. ASSUME NEW i \in 1..Len(a) \cap 1..Len(b), Splits(a, b, i)
      PROVE  Compare(a, b) \in {-1, 0, 1} /\ Compare(b, a) = -Compare(a, b) /\ Compare(a, b) # 0 /\ a # b
  <2>1. Splits(b, a, i)
    BY <1>3 DEF Splits
  <2>2. Compare(a, b) = Sign(a[i] - b[i]) /\ Compare(b, a) = Sign(b[i] - a[i])
    BY <1>3, <2>1, CompareSplits
  <2>3. a[i] # b[i] /\ a[i] \in Int /\ b[i] \in Int
    BY <1>1, <1>3 DEF Splits
  <2>5. PICK x \in Int : x = a[i]
    BY <2>3
  <2>6. PICK y \in Int : y = b[i]
    BY <2>3
  <2>7. Sign(x - y) \in {-1, 0, 1} /\ Sign(y - x) = -Sign(x - y) /\ (Sign(x - y) = 0 <=> x = y)
    BY SignOpposes
  <2>8. Compare(a, b) = Sign(x - y) /\ Compare(b, a) = Sign(y - x)
    BY <2>2, <2>5, <2>6
  <2>. QED BY <2>3, <2>5, <2>6, <2>7, <2>8
<1>. QED BY <1>2, <1>3, CompareIs

\* When a key is less than another.
LEMMA LessThan ==
    ASSUME NEW a \in Keys, NEW b \in Keys
    PROVE  Compare(a, b) = -1 <=>
               \/ Agree(a, b) /\ Len(a) < Len(b)
               \/ \E i \in 1..Len(a) \cap 1..Len(b) : Splits(a, b, i) /\ a[i] < b[i]
<1>1. DOMAIN a = 1..Len(a) /\ DOMAIN b = 1..Len(b) /\ Len(a) \in Nat /\ Len(b) \in Nat
      /\ (\A i \in 1..Len(a) : a[i] \in Int) /\ \A i \in 1..Len(b) : b[i] \in Int
  BY DEF Keys
<1>2. Agree(a, b) => (Compare(a, b) = -1 <=> Len(a) < Len(b))
  BY <1>1, CompareAgrees, SignOpposes
<1>3. \A i \in 1..Len(a) \cap 1..Len(b) : Splits(a, b, i) => (Compare(a, b) = -1 <=> a[i] < b[i])
  <2>1. ASSUME NEW i \in 1..Len(a) \cap 1..Len(b), Splits(a, b, i) PROVE Compare(a, b) = -1 <=> a[i] < b[i]
    <3>1. PICK x \in Int : x = a[i]
      BY <1>1
    <3>2. PICK y \in Int : y = b[i]
      BY <1>1
    <3>3. Sign(x - y) = -1 <=> x < y
      BY SignOpposes
    <3>4. Compare(a, b) = Sign(x - y)
      BY <2>1, <3>1, <3>2, CompareSplits
    <3>. QED BY <3>1, <3>2, <3>3, <3>4
  <2>. QED BY <2>1
<1>4. Agree(a, b) => \A i : ~Splits(a, b, i)
  BY DEF Agree, Splits
<1>. QED BY <1>2, <1>3, <1>4, CompareIs

\* The first difference of two keys.
LEMMA SplitsAt ==
    ASSUME NEW a \in Keys, NEW b \in Keys, NEW i \in Nat
    PROVE  Splits(a, b, i) <=> /\ 1 <= i /\ i <= Len(a) /\ i <= Len(b) /\ a[i] # b[i]
                               /\ \A j \in 1..(i - 1) : a[j] = b[j]
<1>1. DOMAIN a = 1..Len(a) /\ DOMAIN b = 1..Len(b) /\ Len(a) \in Nat /\ Len(b) \in Nat
  BY DEF Keys
<1>. QED BY <1>1 DEF Splits

\* Compare is transitive.
LEMMA LessThanTransitive ==
    ASSUME NEW a \in Keys, NEW b \in Keys, NEW c \in Keys, Compare(a, b) = -1, Compare(b, c) = -1
    PROVE  Compare(a, c) = -1
<1>. DEFINE la == Len(a)
            lb == Len(b)
            lc == Len(c)
            Prefix(x, lx, y, ly) == lx < ly /\ \A k \in 1..lx : x[k] = y[k]
            Split(x, lx, y, ly, i) == /\ 1 <= i /\ i <= lx /\ i <= ly /\ x[i] < y[i]
                                      /\ \A k \in 1..(i - 1) : x[k] = y[k]
            Less(x, y) == Prefix(x, Len(x), y, Len(y)) \/ \E i \in Nat : Split(x, Len(x), y, Len(y), i)
<1>1. ASSUME NEW x \in Keys, NEW y \in Keys PROVE Compare(x, y) = -1 <=> Less(x, y)
  <2>1. DOMAIN x = 1..Len(x) /\ DOMAIN y = 1..Len(y) /\ Len(x) \in Nat /\ Len(y) \in Nat
        /\ (\A i \in 1..Len(x) : x[i] \in Int) /\ \A i \in 1..Len(y) : y[i] \in Int
    BY DEF Keys
  <2>2. Agree(x, y) /\ Len(x) < Len(y) <=> Prefix(x, Len(x), y, Len(y))
    BY <2>1 DEF Agree
  <2>3. ASSUME NEW i \in Nat
        PROVE  i \in 1..Len(x) \cap 1..Len(y) /\ Splits(x, y, i) /\ x[i] < y[i] <=> Split(x, Len(x), y, Len(y), i)
    <3>1. Splits(x, y, i) <=> /\ 1 <= i /\ i <= Len(x) /\ i <= Len(y) /\ x[i] # y[i]
                              /\ \A j \in 1..(i - 1) : x[j] = y[j]
      BY SplitsAt
    <3>2. 1 <= i /\ i <= Len(x) /\ i <= Len(y) => (i \in 1..Len(x) \cap 1..Len(y) /\ (x[i] < y[i] => x[i] # y[i]))
      BY <2>1
    <3>. QED BY <3>1, <3>2
  <2>4. \A i \in 1..Len(x) \cap 1..Len(y) : i \in Nat
    BY <2>1
  <2>5. Compare(x, y) = -1 <=>
               \/ Agree(x, y) /\ Len(x) < Len(y)
               \/ \E i \in 1..Len(x) \cap 1..Len(y) : Splits(x, y, i) /\ x[i] < y[i]
    BY LessThan
  <2>. HIDE DEF Split, Prefix
  <2>. QED BY <2>2, <2>3, <2>4, <2>5
<1>2. /\ la \in Nat /\ lb \in Nat /\ lc \in Nat
      /\ (\A i \in 1..la : a[i] \in Int) /\ (\A i \in 1..lb : b[i] \in Int) /\ \A i \in 1..lc : c[i] \in Int
  BY DEF Keys
<1>3. Prefix(a, la, b, lb) \/ \E i \in Nat : Split(a, la, b, lb, i)
  BY <1>1
<1>4. Prefix(b, lb, c, lc) \/ \E i \in Nat : Split(b, lb, c, lc, i)
  BY <1>1
<1>5. SUFFICES Prefix(a, la, c, lc) \/ \E i \in Nat : Split(a, la, c, lc, i)
  BY <1>1
<1>. HIDE DEF la, lb, lc
<1>6. ASSUME Prefix(a, la, b, lb), Prefix(b, lb, c, lc) PROVE Prefix(a, la, c, lc)
  BY <1>2, <1>6
<1>7. ASSUME Prefix(a, la, b, lb), NEW j \in Nat, Split(b, lb, c, lc, j)
      PROVE  Prefix(a, la, c, lc) \/ Split(a, la, c, lc, j)
  <2>1. CASE j <= la
    BY <1>2, <1>7, <2>1
  <2>2. CASE la < j
    BY <1>2, <1>7, <2>2
  <2>. QED BY <1>2, <2>1, <2>2
<1>8. ASSUME NEW i \in Nat, Split(a, la, b, lb, i), Prefix(b, lb, c, lc) PROVE Split(a, la, c, lc, i)
  BY <1>2, <1>8
<1>9. ASSUME NEW i \in Nat, Split(a, la, b, lb, i), NEW j \in Nat, Split(b, lb, c, lc, j)
      PROVE  Split(a, la, c, lc, i) \/ Split(a, la, c, lc, j)
  <2>1. CASE i < j
    BY <1>2, <1>9, <2>1
  <2>2. CASE j < i
    BY <1>2, <1>9, <2>2
  <2>3. CASE i = j
    BY <1>2, <1>9, <2>3
  <2>. QED BY <2>1, <2>2, <2>3
<1>. HIDE DEF Split, Prefix
<1>. QED BY <1>3, <1>4, <1>6, <1>7, <1>8, <1>9

\* A version as it is read: it starts with numbers, a plain one has no tail,
\* and the words of a PEP 440 one are each followed by a number.
Legible(v) ==
    /\ v.nums \in Seq(Nat) /\ v.nums # <<>>
    /\ v.tail \in Keys
    /\ v.form = "plain" => v.tail = <<>>
    /\ v.form = "pep" => \A i \in DOMAIN v.tail : ~IsNumber(v.tail[i]) => -v.tail[i] \in 1..11 /\ i + 1 \in DOMAIN v.tail

\* A concatenation of keys.
LEMMA ConcatIsKey ==
    ASSUME NEW a \in Keys, NEW b \in Keys, NEW c, c = a \o b
    PROVE  /\ c \in Keys /\ Len(c) = Len(a) + Len(b)
           /\ \A i \in 1..Len(a) : c[i] = a[i]
           /\ \A i \in 1..Len(b) : c[Len(a) + i] = b[i]
<1>. DEFINE m == Len(a)
            n == Len(b)
<1>1. c \in Seq(Int) /\ Len(c) = m + n /\ m \in Nat /\ n \in Nat
  BY ConcatProperties DEF Keys
<1>2. \A i \in 1..(m + n) : c[i] = IF i <= m THEN a[i] ELSE b[i - m]
  BY ConcatProperties DEF Keys
<1>. HIDE DEF m, n
<1>3. ASSUME NEW i \in 1..n PROVE c[m + i] = b[i]
  <2>1. m + i \in 1..(m + n) /\ ~(m + i <= m) /\ (m + i) - m = i
    BY <1>1
  <2>. QED BY <1>2, <2>1
<1>4. \A i \in 1..m : c[i] = a[i]
  BY <1>1, <1>2
<1>. QED BY <1>1, <1>3, <1>4 DEF Keys, m, n

\* A flattened sequence of keys is a key.
LEMMA FlattenIsKey ==
    ASSUME NEW seqs \in Seq(Keys)
    PROVE  FlattenSeq(seqs) \in Keys
<1>. DEFINE n == Len(seqs)
            S == 1..n
            rank == [i \in S |-> i]
            Def(f, i) == IF i = 1 THEN seqs[i] ELSE f[i - 1] \o seqs[i]
            step == [f \in [S -> Keys] |-> [i \in S |-> Def(f, i)]]
            FlatBy(f) == f = [i \in 1..Len(seqs) |-> IF i = 1 THEN seqs[i] ELSE f[i - 1] \o seqs[i]]
            flatten == CHOOSE f : FlatBy(f)
<1>1. n \in Nat /\ \A i \in S : seqs[i] \in Keys
  OBVIOUS
<1>2. CASE n = 0
  <2>1. FlattenSeq(seqs) = seqs
    BY <1>2 DEF FlattenSeq
  <2>2. seqs = <<>>
    BY <1>2
  <2>. QED BY <2>1, <2>2 DEF Keys
<1>3. CASE n # 0
  <2>1. FlattenSeq(seqs) = flatten[n]
    BY <1>3 DEF FlattenSeq
  <2>. HIDE DEF n
  <2>2. ASSUME NEW f \in [S -> Keys], NEW i \in S PROVE Def(f, i) \in Keys
    <3>1. CASE i = 1
      BY <3>1, <1>1
    <3>2. CASE i # 1
      <4>1. f[i - 1] \in Keys
        BY <3>2, <1>1
      <4>. QED BY <4>1, <3>2, <1>1 DEF Keys
    <3>. QED BY <3>1, <3>2
  <2>3. step \in [[S -> Keys] -> [S -> Keys]]
    <3>. HIDE DEF Def, S
    <3>. QED BY <2>2
  <2>4. ASSUME NEW g \in [S -> Keys], NEW h \in [S -> Keys], NEW i \in S,
               \A j \in S : rank[j] < rank[i] => g[j] = h[j]
        PROVE  step[g][i] = step[h][i]
    <3>1. CASE i = 1
      BY <3>1
    <3>2. CASE i # 1
      <4>1. i - 1 \in S /\ rank[i - 1] < rank[i]
        BY <3>2, <1>1
      <4>2. g[i - 1] = h[i - 1]
        BY <4>1, <2>4
      <4>. QED BY <4>2
    <3>. QED BY <3>1, <3>2
  <2>5. Keys # {} /\ rank \in [S -> Nat]
    BY <1>1 DEF Keys
  <2>6. PICK f \in [S -> Keys] : step[f] = f
    <3>1. Causal(step, S, Keys, rank)
      <4>. HIDE DEF step, S, rank
      <4>. QED BY <2>3, <2>4, <2>5 DEF Causal
    <3>. HIDE DEF step, S, rank
    <3>. QED BY <3>1, Recursion
  <2>7. FlatBy(f)
    <3>1. f = [i \in S |-> Def(f, i)]
      BY <2>6
    <3>. QED BY <3>1 DEF n
  <2>8. FlatBy(flatten)
    BY <2>7
  <2>. HIDE DEF flatten
  <2>9. \A i \in S : flatten[i] = Def(flatten, i)
    BY <2>8 DEF n
  <2>. DEFINE Good == {i \in S : flatten[i] \in Keys}
  <2>10. ASSUME NEW i \in S, \A j \in S : rank[j] < rank[i] => j \in Good PROVE i \in Good
    <3>1. CASE i = 1
      BY <3>1, <1>1, <2>9
    <3>2. CASE i # 1
      <4>1. i - 1 \in S /\ rank[i - 1] < rank[i]
        BY <3>2, <1>1
      <4>2. flatten[i - 1] \in Keys
        BY <4>1, <2>10
      <4>3. flatten[i] = flatten[i - 1] \o seqs[i]
        BY <3>2, <2>9
      <4>. QED BY <4>2, <4>3, <1>1, ConcatIsKey
    <3>. QED BY <3>1, <3>2
  <2>11. S \subseteq Good
    <3>. HIDE DEF S, rank, Good
    <3>. QED BY <2>5, <2>10, Descent
  <2>. QED BY <1>1, <1>3, <2>1, <2>11
<1>. QED BY <1>2, <1>3

\* Trimming keeps what a sequence is of, and leaves nothing of one that is all
\* dropped.
LEMMA TrimmedIsOf ==
    ASSUME NEW T, NEW s \in Seq(T), NEW drop
    PROVE  /\ Trimmed(s, drop) \in Seq(T)
           /\ (\A i \in DOMAIN s : s[i] \in drop) => Trimmed(s, drop) = <<>>
<1>. DEFINE kept == {i \in DOMAIN s : s[i] \notin drop}
            last == CHOOSE i \in kept : \A j \in kept : j <= i
            m == IF kept = {} THEN 0 ELSE last
<1>1. DOMAIN s = 1..Len(s) /\ Len(s) \in Nat /\ \A i \in 1..Len(s) : s[i] \in T
  OBVIOUS
<1>2. kept # {} => last \in kept
  <2>1. kept \in SUBSET Int /\ Len(s) \in Int /\ \A i \in kept : i <= Len(s)
    BY <1>1
  <2>2. \A i, j \in kept : i >= j <=> j <= i
    BY <2>1
  <2>. HIDE DEF kept
  <2>3. ASSUME kept # {} PROVE Max(kept) \in kept /\ \A j \in kept : Max(kept) >= j
    BY <2>1, <2>3, MaxOf
  <2>. QED BY <2>2, <2>3
<1>3. m \in 0..Len(s)
  BY <1>1, <1>2
<1>4. Trimmed(s, drop) = SubSeq(s, 1, m)
  BY DEF Trimmed
<1>5. (\A i \in DOMAIN s : s[i] \in drop) => m = 0
  OBVIOUS
<1>. HIDE DEF m
<1>6. SubSeq(s, 1, m) \in Seq(T) /\ (m = 0 => SubSeq(s, 1, m) = <<>>)
  BY <1>1, <1>3
<1>. QED BY <1>4, <1>5, <1>6

\* numeric_version: the numbers without the zeros at the end, the first kept.
LEMMA NumericIsKey ==
    ASSUME NEW v, Legible(v)
    PROVE  /\ Numeric(v) \in Keys /\ Len(Numeric(v)) >= 1 /\ Numeric(v)[1] = v.nums[1]
           /\ (\A i \in 2..Len(v.nums) : v.nums[i] = 0) => Len(Numeric(v)) = 1
<1>. DEFINE t == Trimmed(Tail(v.nums), {0})
<1>1. /\ v.nums \in Seq(Nat) /\ Len(v.nums) \in Nat /\ Len(v.nums) >= 1 /\ Head(v.nums) = v.nums[1] /\ v.nums[1] \in Nat
      /\ Tail(v.nums) \in Seq(Nat)
  BY DEF Legible
<1>2. Tail(v.nums) \in Keys /\ DOMAIN Tail(v.nums) = 1..(Len(v.nums) - 1)
      /\ \A i \in 1..(Len(v.nums) - 1) : Tail(v.nums)[i] = v.nums[i + 1]
  BY <1>1 DEF Keys
<1>3. t \in Keys /\ ((\A i \in 2..Len(v.nums) : v.nums[i] = 0) => t = <<>>)
  <2>1. (\A i \in 2..Len(v.nums) : v.nums[i] = 0) => \A i \in DOMAIN Tail(v.nums) : Tail(v.nums)[i] \in {0}
    BY <1>1, <1>2
  <2>. QED BY <1>2, <2>1, TrimmedIsOf DEF Keys
<1>4. Numeric(v) = <<v.nums[1]>> \o t
  BY <1>1 DEF Numeric
<1>. HIDE DEF t
<1>5. <<v.nums[1]>> \o t \in Keys /\ Len(<<v.nums[1]>> \o t) = 1 + Len(t) /\ (<<v.nums[1]>> \o t)[1] = v.nums[1] /\ Len(t) \in Nat
  BY <1>1, <1>3 DEF Keys
<1>. QED BY <1>3, <1>4, <1>5

\* A key filled up with zeros to a length, or cut at it.
LEMMA FilledIsKey ==
    ASSUME NEW s \in Keys, NEW n \in Nat
    PROVE  /\ Filled(s, n) \in Keys /\ Len(Filled(s, n)) = n
           /\ \A i \in 1..n : Filled(s, n)[i] = IF i <= Len(s) THEN s[i] ELSE 0
BY DEF Filled, Keys

\* _semver: three numbers, then 0 before a pre-release and 1 before none.
LEMMA SemverIsKey ==
    ASSUME NEW v, Legible(v)
    PROVE  /\ Semver(v) \in Keys /\ Len(Semver(v)) >= 4
           /\ \A i \in 1..3 : Semver(v)[i] = IF i <= Len(v.nums) THEN v.nums[i] ELSE 0
           /\ Semver(v)[4] = IF v.tail = <<>> THEN 1 ELSE 0
<1>. DEFINE core == Filled(v.nums, 3)
            mark == IF v.tail = <<>> THEN <<1>> ELSE <<0>>
            pieces == [i \in DOMAIN v.tail |-> IF IsNumber(v.tail[i]) THEN <<0, v.tail[i]>> ELSE <<1, -v.tail[i]>>]
            rest == FlattenSeq(pieces)
<1>1. v.nums \in Keys /\ v.tail \in Keys
  BY DEF Legible, Keys
<1>2. core \in Keys /\ Len(core) = 3 /\ \A i \in 1..3 : core[i] = IF i <= Len(v.nums) THEN v.nums[i] ELSE 0
  BY <1>1, FilledIsKey
<1>3. rest \in Keys
  <2>1. v.tail \in Seq(Int) /\ DOMAIN v.tail = 1..Len(v.tail) /\ Len(v.tail) \in Nat
    BY <1>1 DEF Keys
  <2>2. \A i \in 1..Len(v.tail) : v.tail[i] \in Int
    BY <2>1
  <2>3. \A i \in 1..Len(v.tail) : <<0, v.tail[i]>> \in Keys /\ <<1, -v.tail[i]>> \in Keys
    BY <2>2 DEF Keys
  <2>4. pieces = [i \in 1..Len(v.tail) |-> IF IsNumber(v.tail[i]) THEN <<0, v.tail[i]>> ELSE <<1, -v.tail[i]>>]
    BY <2>1
  <2>5. pieces \in Seq(Keys)
    BY <2>1, <2>3, <2>4
  <2>. HIDE DEF pieces
  <2>. QED BY <2>5, FlattenIsKey
<1>4. mark \in Keys /\ Len(mark) = 1 /\ mark[1] = IF v.tail = <<>> THEN 1 ELSE 0
  BY DEF Keys
<1>. DEFINE both == core \o mark
<1>5. Semver(v) = both \o rest /\ both = core \o mark
  BY DEF Semver
<1>. HIDE DEF core, mark, rest, both
<1>6. both \in Keys /\ Len(both) = 4 /\ (\A i \in 1..3 : both[i] = core[i]) /\ both[4] = mark[1]
  <2>0. core \in Keys /\ mark \in Keys /\ both = core \o mark
    BY <1>2, <1>4, <1>5
  <2>1. both \in Keys /\ Len(both) = Len(core) + Len(mark)
    BY ONLY <2>0, ConcatIsKey
  <2>2. (\A i \in 1..Len(core) : both[i] = core[i]) /\ \A i \in 1..Len(mark) : both[Len(core) + i] = mark[i]
    BY ONLY <2>0, ConcatIsKey
  <2>. QED BY <1>2, <1>4, <2>1, <2>2
<1>7. Semver(v) \in Keys /\ Len(Semver(v)) >= 4 /\ \A i \in 1..4 : Semver(v)[i] = both[i]
  <2>0. both \in Keys /\ rest \in Keys /\ Semver(v) = both \o rest
    BY <1>3, <1>5, <1>6
  <2>1. Semver(v) \in Keys /\ Len(Semver(v)) = Len(both) + Len(rest)
    BY ONLY <2>0, ConcatIsKey
  <2>3. \A i \in 1..Len(both) : Semver(v)[i] = both[i]
    BY ONLY <2>0, ConcatIsKey
  <2>2. Len(rest) \in Nat
    BY <1>3 DEF Keys
  <2>. QED BY <1>6, <2>1, <2>2, <2>3
<1>. QED BY <1>2, <1>4, <1>6, <1>7

\* The words of the alphabet are distinct.
LEMMA WordsDiffer ==
    /\ \A i, j \in 1..11 : Alphabet[i] = Alphabet[j] => i = j
    /\ DOMAIN Alphabet = 1..11
BY DEF Alphabet

\* A word is read as it was written.
LEMMA WordSpelled ==
    ASSUME NEW j \in 1..11
    PROVE  Word(Alphabet[j]) = -j /\ Spelled(-j) = Alphabet[j]
<1>1. (CHOOSE i \in DOMAIN Alphabet : Alphabet[i] = Alphabet[j]) = j
  BY WordsDiffer
<1>2. -(-j) = j
  OBVIOUS
<1>. QED BY <1>1, <1>2 DEF Word, Spelled

\* The words of the tail of a version.
Words(v) == {Spelled(p) : p \in {q \in ToSet(v.tail) : ~IsNumber(q)}}

\* The number after a word.
LEMMA AfterIsNumber ==
    ASSUME NEW v, Legible(v), v.form = "pep", NEW w \in Words(v)
    PROVE  After(v, w) \in Int
<1>1. PICK i \in DOMAIN v.tail : ~IsNumber(v.tail[i]) /\ w = Spelled(v.tail[i])
  BY DEF Words, ToSet
<1>2. v.tail \in Seq(Int) /\ DOMAIN v.tail = 1..Len(v.tail) /\ \A j \in DOMAIN v.tail : v.tail[j] \in Int
  BY DEF Legible, Keys
<1>3. -v.tail[i] \in 1..11
  BY <1>1 DEF Legible
<1>4. v.tail[i] = Word(w)
  <2>1. PICK j \in 1..11 : j = -v.tail[i]
    BY <1>3
  <2>2. v.tail[i] = -j /\ j \in Int
    BY <2>1, <1>2
  <2>. QED BY <2>2, <1>1, WordSpelled
<1>. DEFINE at == CHOOSE k \in DOMAIN v.tail : v.tail[k] = Word(w)
<1>5. at \in DOMAIN v.tail /\ v.tail[at] = Word(w)
  BY <1>4
<1>. HIDE DEF at
<1>6. at + 1 \in DOMAIN v.tail /\ at \in Int
  BY <1>1, <1>2, <1>4, <1>5 DEF Legible
<1>7. 1 + at = at + 1
  BY <1>6
<1>8. After(v, w) = v.tail[1 + at]
  BY DEF After, at
<1>. QED BY <1>2, <1>6, <1>7, <1>8

\* _pep440: four numbers, then -1 for a development release, 3 for a final
\* and 4 for a post release.
LEMMA Pep440IsKey ==
    ASSUME NEW v, Legible(v), v.form \in {"plain", "pep"}
    PROVE  /\ Pep440(v) \in Keys /\ Len(Pep440(v)) = 6
           /\ \A i \in 1..4 : Pep440(v)[i] = IF i <= Len(Numeric(v)) THEN Numeric(v)[i] ELSE 0
           /\ Words(v) = {} => Pep440(v)[5] = 3
           /\ "dev" \in Words(v) => Pep440(v)[5] = -1
           /\ Words(v) = {"post"} => Pep440(v)[5] = 4
<1>. DEFINE rank == [a |-> 0, b |-> 1, rc |-> 2]
            number == Filled(Numeric(v), 4)
            word == CHOOSE x \in Words(v) \cap DOMAIN rank : TRUE
            phase == IF "dev" \in Words(v) THEN <<-1, After(v, "dev")>>
                     ELSE IF Words(v) \cap DOMAIN rank # {} THEN <<rank[word], After(v, word)>>
                     ELSE IF "post" \in Words(v) THEN <<4, After(v, "post")>>
                     ELSE <<3, 0>>
<1>1. number \in Keys /\ Len(number) = 4
      /\ \A i \in 1..4 : number[i] = IF i <= Len(Numeric(v)) THEN Numeric(v)[i] ELSE 0
  <2>1. Numeric(v) \in Keys
    BY NumericIsKey
  <2>. QED BY <2>1, FilledIsKey
<1>2. \A w \in Words(v) : After(v, w) \in Int
  <2>1. CASE v.form = "pep"
    BY <2>1, AfterIsNumber
  <2>2. CASE v.form = "plain"
    BY <2>2 DEF Legible, Words, ToSet
  <2>. QED BY <2>1, <2>2
<1>3. Words(v) \cap DOMAIN rank # {} => word \in Words(v) /\ rank[word] \in Int
  OBVIOUS
<1>. HIDE DEF word
<1>4. /\ phase \in Keys /\ Len(phase) = 2
      /\ Words(v) = {} => phase[1] = 3
      /\ "dev" \in Words(v) => phase[1] = -1
      /\ Words(v) = {"post"} => phase[1] = 4
  <2>. DEFINE Two(x) == x \in Keys /\ Len(x) = 2
  <2>1. \A m, n \in Int : Two(<<m, n>>) /\ <<m, n>>[1] = m
    BY DEF Keys
  <2>2. CASE "dev" \in Words(v)
    <3>1. phase = <<-1, After(v, "dev")>> /\ After(v, "dev") \in Int
      BY <2>2, <1>2
    <3>. HIDE DEF phase, Two
    <3>2. Two(phase) /\ phase[1] = -1
      BY <3>1, <2>1
    <3>. QED BY <3>2, <2>2 DEF Two
  <2>3. CASE "dev" \notin Words(v) /\ Words(v) \cap DOMAIN rank # {}
    <3>1. phase = <<rank[word], After(v, word)>> /\ After(v, word) \in Int /\ rank[word] \in Int
      BY <2>3, <1>2, <1>3
    <3>2. Words(v) # {} /\ Words(v) # {"post"}
      BY <2>3
    <3>. HIDE DEF phase, Two, rank
    <3>3. Two(phase)
      BY <3>1, <2>1
    <3>. QED BY <3>2, <3>3, <2>3 DEF Two
  <2>4. CASE "dev" \notin Words(v) /\ Words(v) \cap DOMAIN rank = {} /\ "post" \in Words(v)
    <3>1. phase = <<4, After(v, "post")>> /\ After(v, "post") \in Int
      BY <2>4, <1>2
    <3>. HIDE DEF phase, Two, rank
    <3>2. Two(phase) /\ phase[1] = 4
      BY <3>1, <2>1
    <3>. QED BY <3>2, <2>4 DEF Two
  <2>5. CASE "dev" \notin Words(v) /\ Words(v) \cap DOMAIN rank = {} /\ "post" \notin Words(v)
    <3>1. phase = <<3, 0>>
      BY <2>5
    <3>. HIDE DEF phase, Two, rank
    <3>2. Two(phase) /\ phase[1] = 3
      BY <3>1, <2>1
    <3>. QED BY <3>2, <2>5 DEF Two
  <2>. QED BY <2>2, <2>3, <2>4, <2>5
<1>5. Pep440(v) = number \o phase
  BY DEF Pep440, Words, word
<1>. HIDE DEF number, phase
<1>6. /\ Pep440(v) \in Keys /\ Len(Pep440(v)) = 6
      /\ (\A i \in 1..4 : Pep440(v)[i] = number[i])
      /\ Pep440(v)[5] = phase[1]
  <2>0. number \in Keys /\ phase \in Keys /\ Pep440(v) = number \o phase
    BY <1>1, <1>4, <1>5
  <2>1. Pep440(v) \in Keys /\ Len(Pep440(v)) = Len(number) + Len(phase)
    BY ONLY <2>0, ConcatIsKey
  <2>2. (\A i \in 1..Len(number) : Pep440(v)[i] = number[i])
        /\ \A i \in 1..Len(phase) : Pep440(v)[Len(number) + i] = phase[i]
    BY ONLY <2>0, ConcatIsKey
  <2>. QED BY <1>1, <1>4, <2>1, <2>2
<1>. QED BY <1>1, <1>4, <1>6

\* _maven: a key of the pieces that are left of a version.
LEMMA MavenIsKey ==
    ASSUME NEW v, Legible(v)
    PROVE  Maven(v) \in Keys
<1>. DEFINE all == v.nums \o v.tail
            pieces == [i \in DOMAIN all |-> MavenPiece(all[i])]
            left == Trimmed(pieces, {<<1, 0, 0>>, <<0, 0, 0>>})
<1>1. all \in Seq(Int)
  BY DEF Legible, Keys
<1>. HIDE DEF all
<1>2. ASSUME NEW piece \in Int PROVE MavenPiece(piece) \in Keys
  <2>1. \A word \in DOMAIN Qualifier : Qualifier[word] \in Int
    BY DEF Qualifier
  <2>2. \A x, y, z \in Int : <<x, y, z>> \in Keys
    BY DEF Keys
  <2>. QED BY <2>1, <2>2 DEF MavenPiece
<1>3. pieces \in Seq(Keys)
  BY <1>1, <1>2
<1>. HIDE DEF pieces
<1>4. left \in Seq(Keys)
  BY <1>3, TrimmedIsOf
<1>. HIDE DEF left
<1>5. FlattenSeq(left) \in Keys
  BY <1>4, FlattenIsKey
<1>. QED BY <1>5 DEF Maven, left, pieces, all

\* The key of a version a kind reads.
LEMMA KeyIsKey ==
    ASSUME NEW v, NEW kind, Reads(kind, v), Legible(v)
    PROVE  Key(kind, v) \in Keys
<1>1. CASE kind = "semver"
  BY <1>1, SemverIsKey DEF Key
<1>2. CASE kind = "pep440"
  <2>1. v.form \in {"plain", "pep"}
    BY <1>2 DEF Reads
  <2>. QED BY <1>2, <2>1, Pep440IsKey DEF Key
<1>3. CASE kind = "numeric"
  BY <1>3, NumericIsKey DEF Key
<1>4. CASE kind = "maven"
  BY <1>4, MavenIsKey DEF Key
<1>5. CASE kind = "date"
  <2>1. v.nums \o v.tail \in Keys
    BY DEF Legible, Keys
  <2>. QED BY <1>5, <2>1 DEF Key
<1>6. kind \in {"semver", "pep440", "numeric", "maven", "date"}
  BY DEF Reads
<1>. QED BY <1>1, <1>2, <1>3, <1>4, <1>5, <1>6

\* compare_versions, of any versions: within every kind it is a total preorder
\* of those it reads, and unknown where one of them cannot be read.
THEOREM VersionsCompare ==
    ASSUME NEW kind, NEW V, \A v \in V : Reads(kind, v) => Legible(v)
    PROVE  \A u, v, w \in V :
               /\ CompareVersions(u, v, kind) \in {-1, 0, 1, Unknown}
               /\ CompareVersions(u, v, kind) # Unknown <=> Reads(kind, u) /\ Reads(kind, v)
               /\ Reads(kind, u) /\ Reads(kind, v) => CompareVersions(v, u, kind) = -CompareVersions(u, v, kind)
               /\ /\ CompareVersions(u, v, kind) \in {-1, 0} /\ CompareVersions(v, w, kind) \in {-1, 0}
                  => /\ CompareVersions(u, w, kind) \in {-1, 0}
                     /\ -1 \in {CompareVersions(u, v, kind), CompareVersions(v, w, kind)} => CompareVersions(u, w, kind) = -1
<1>. SUFFICES ASSUME NEW u \in V, NEW v \in V, NEW w \in V
     PROVE  /\ CompareVersions(u, v, kind) \in {-1, 0, 1, Unknown}
            /\ CompareVersions(u, v, kind) # Unknown <=> Reads(kind, u) /\ Reads(kind, v)
            /\ Reads(kind, u) /\ Reads(kind, v) => CompareVersions(v, u, kind) = -CompareVersions(u, v, kind)
            /\ /\ CompareVersions(u, v, kind) \in {-1, 0} /\ CompareVersions(v, w, kind) \in {-1, 0}
               => /\ CompareVersions(u, w, kind) \in {-1, 0}
                  /\ -1 \in {CompareVersions(u, v, kind), CompareVersions(v, w, kind)} => CompareVersions(u, w, kind) = -1
  OBVIOUS
<1>1. ASSUME NEW x \in V, Reads(kind, x) PROVE Key(kind, x) \in Keys
  BY <1>1, KeyIsKey
<1>2. ASSUME NEW x \in V, NEW y \in V
      PROVE  /\ CompareVersions(x, y, kind) \in {-1, 0, 1, Unknown}
             /\ CompareVersions(x, y, kind) # Unknown <=> Reads(kind, x) /\ Reads(kind, y)
             /\ CompareVersions(x, y, kind) # Unknown =>
                    /\ Key(kind, x) \in Keys /\ Key(kind, y) \in Keys
                    /\ CompareVersions(x, y, kind) = Compare(Key(kind, x), Key(kind, y))
  BY <1>1, CompareOpposes DEF CompareVersions, Unknown
<1>3. ASSUME Reads(kind, u), Reads(kind, v) PROVE CompareVersions(v, u, kind) = -CompareVersions(u, v, kind)
  BY <1>1, <1>3, CompareOpposes DEF CompareVersions
<1>4. ASSUME CompareVersions(u, v, kind) \in {-1, 0}, CompareVersions(v, w, kind) \in {-1, 0}
      PROVE  /\ CompareVersions(u, w, kind) \in {-1, 0}
             /\ -1 \in {CompareVersions(u, v, kind), CompareVersions(v, w, kind)} => CompareVersions(u, w, kind) = -1
  <2>. DEFINE a == Key(kind, u)
              b == Key(kind, v)
              c == Key(kind, w)
  <2>1. /\ a \in Keys /\ b \in Keys /\ c \in Keys
        /\ CompareVersions(u, v, kind) = Compare(a, b) /\ CompareVersions(v, w, kind) = Compare(b, c)
        /\ CompareVersions(u, w, kind) = Compare(a, c)
    <3>1. CompareVersions(u, v, kind) # Unknown /\ CompareVersions(v, w, kind) # Unknown
      BY <1>4 DEF Unknown
    <3>. HIDE DEF Unknown
    <3>2. CompareVersions(u, w, kind) # Unknown
      BY <3>1, <1>2
    <3>. QED BY <3>1, <3>2, <1>2
  <2>. HIDE DEF a, b, c
  <2>2. CASE Compare(a, b) = 0
    BY <2>1, <2>2, <1>4, CompareOpposes
  <2>3. CASE Compare(b, c) = 0
    BY <2>1, <2>3, <1>4, CompareOpposes
  <2>4. CASE Compare(a, b) = -1 /\ Compare(b, c) = -1
    BY <2>1, <2>4, LessThanTransitive
  <2>. QED BY <2>1, <2>2, <2>3, <2>4, <1>4
<1>. QED BY <1>2, <1>3, <1>4

-----------------------------------------------------------------------------
(* cpe_applicability *)

\* b says whatever a says, and may say more.
Refines(a, b) == a = "unknown" \/ b = a

\* Every part of b refines one of a, and the other way round.
PartsRefine(a, b) == /\ \A x \in a : \E y \in b : Refines(x, y)
                     /\ \A y \in b : \E x \in a : Refines(x, y)

\* A node has one of the three values.
LEMMA ValuesAreTruths ==
    \A node, parts : NodeValue(node, parts) \in Truth
BY DEF NodeValue, AnyOf, AllOf, Opposite, Truth

\* any and all keep what they have decided when more of their parts are decided.
LEMMA OperatorsRefine ==
    ASSUME NEW a \in SUBSET Truth, NEW b \in SUBSET Truth, PartsRefine(a, b)
    PROVE  Refines(AnyOf(a), AnyOf(b)) /\ Refines(AllOf(a), AllOf(b)) /\ (a = {} <=> b = {})
BY DEF AnyOf, AllOf, Refines, PartsRefine, Truth

\* A node keeps its value when more of its parts are decided.
LEMMA NodeRefines ==
    ASSUME NEW node, NEW a \in SUBSET Truth, NEW b \in SUBSET Truth, PartsRefine(a, b)
    PROVE  Refines(NodeValue(node, a), NodeValue(node, b))
BY OperatorsRefine DEF NodeValue, Opposite, Refines

\* The nodes are numbered so that the children of a node have larger numbers.
IsTree(tree, k) ==
    /\ k \in Nat /\ DOMAIN tree = 1..k
    /\ \A n \in 1..k : tree[n].children \subseteq (n + 1)..k
CriteriaOf(tree) == UNION {tree[n].matches : n \in DOMAIN tree}

\* The recursion of CpeNode, and its solution for a valuation.
EvalOf(tree, value, eval) ==
    eval = [n \in DOMAIN tree |->
               NodeValue(tree[n], {value[m] : m \in tree[n].matches} \cup {eval[c] : c \in tree[n].children})]

\* The recursion of _cpe_node over a tree has a solution.
LEMMA EvalExists ==
    ASSUME NEW tree, NEW k, IsTree(tree, k), NEW value
    PROVE  \E eval \in [1..k -> Truth] : EvalOf(tree, value, eval)
<1>. DEFINE S == 1..k
            rank == [n \in S |-> k - n]
            Def(f, n) == NodeValue(tree[n], {value[m] : m \in tree[n].matches} \cup {f[c] : c \in tree[n].children})
            step == [f \in [S -> Truth] |-> [n \in S |-> Def(f, n)]]
<1>1. k \in Nat /\ rank \in [S -> Nat] /\ Truth # {}
  BY DEF IsTree, Truth
<1>2. step \in [[S -> Truth] -> [S -> Truth]]
  BY ValuesAreTruths
<1>3. ASSUME NEW g \in [S -> Truth], NEW h \in [S -> Truth], NEW x \in S,
             \A y \in S : rank[y] < rank[x] => g[y] = h[y]
      PROVE  step[g][x] = step[h][x]
  <2>1. ASSUME NEW c \in tree[x].children PROVE g[c] = h[c]
    <3>1. c \in (x + 1)..k /\ k \in Nat
      BY DEF IsTree
    <3>2. c \in S /\ rank[c] < rank[x]
      BY <3>1
    <3>. QED BY <3>2, <1>3
  <2>2. {g[c] : c \in tree[x].children} = {h[c] : c \in tree[x].children}
    BY <2>1
  <2>. QED BY <2>2
<1>4. Causal(step, S, Truth, rank)
  <2>. HIDE DEF step, S, rank
  <2>. QED BY <1>1, <1>2, <1>3 DEF Causal
<1>5. PICK f \in [S -> Truth] : step[f] = f
  <2>. HIDE DEF step, S, rank
  <2>. QED BY <1>4, Recursion
<1>6. DOMAIN tree = S
  BY DEF IsTree
<1>7. step[f] = [n \in S |-> Def(f, n)]
  OBVIOUS
<1>. QED BY <1>5, <1>6, <1>7 DEF EvalOf

\* _cpe_node is a value of that recursion at the root.
LEMMA NodeIsEval ==
    ASSUME NEW tree, NEW k, IsTree(tree, k), NEW value
    PROVE  \E eval : EvalOf(tree, value, eval) /\ CpeNode(tree, value) = eval[1]
<1>1. CpeNode(tree, value) = (CHOOSE eval : EvalOf(tree, value, eval))[1]
  BY DEF CpeNode, EvalOf
<1>. QED BY <1>1, EvalExists

\* _cpe_node: the value of the root stays however unknown criteria turn out.
LEMMA NodeStays ==
    ASSUME NEW tree, NEW k, IsTree(tree, k), k > 0,
           NEW value \in [CriteriaOf(tree) -> Truth], NEW turned \in [CriteriaOf(tree) -> Truth],
           \A m \in CriteriaOf(tree) : Refines(value[m], turned[m])
    PROVE  Refines(CpeNode(tree, value), CpeNode(tree, turned))
<1>1. PICK e : EvalOf(tree, value, e) /\ CpeNode(tree, value) = e[1]
  BY NodeIsEval
<1>2. PICK t : EvalOf(tree, turned, t) /\ CpeNode(tree, turned) = t[1]
  BY NodeIsEval
<1>. DEFINE S == 1..k
            rank == [n \in S |-> k - n]
            Good == {n \in S : Refines(e[n], t[n])}
            Parts(v, f, n) == {v[m] : m \in tree[n].matches} \cup {f[c] : c \in tree[n].children}
<1>3. /\ k \in Nat /\ DOMAIN tree = S
      /\ \A n \in S : e[n] = NodeValue(tree[n], Parts(value, e, n)) /\ t[n] = NodeValue(tree[n], Parts(turned, t, n))
      /\ \A n \in S : e[n] \in Truth /\ t[n] \in Truth
  <2>1. k \in Nat /\ DOMAIN tree = S
    BY DEF IsTree
  <2>2. ASSUME NEW n \in S
        PROVE  e[n] = NodeValue(tree[n], Parts(value, e, n)) /\ t[n] = NodeValue(tree[n], Parts(turned, t, n))
    BY <2>1, <1>1, <1>2 DEF EvalOf
  <2>. HIDE DEF Parts
  <2>. QED BY <2>1, <2>2, ValuesAreTruths
<1>4. ASSUME NEW n \in S, \A m \in S : rank[m] < rank[n] => m \in Good PROVE n \in Good
  <2>1. ASSUME NEW c \in tree[n].children PROVE c \in S /\ c \in Good
    <3>1. c \in (n + 1)..k
      BY DEF IsTree
    <3>2. c \in S /\ rank[c] < rank[n]
      BY <3>1, <1>3
    <3>. QED BY <3>2, <1>4
  <2>2. ASSUME NEW m \in tree[n].matches PROVE m \in CriteriaOf(tree)
    BY <1>3 DEF CriteriaOf
  <2>3. Parts(value, e, n) \in SUBSET Truth /\ Parts(turned, t, n) \in SUBSET Truth
    BY <2>1, <2>2, <1>3
  <2>4. PartsRefine(Parts(value, e, n), Parts(turned, t, n))
    BY <2>1, <2>2 DEF PartsRefine
  <2>5. Refines(NodeValue(tree[n], Parts(value, e, n)), NodeValue(tree[n], Parts(turned, t, n)))
    <3>. HIDE DEF Parts
    <3>. QED BY <2>3, <2>4, NodeRefines
  <2>. QED BY <2>5, <1>3
<1>5. rank \in [S -> Nat]
  BY <1>3
<1>6. S \subseteq Good
  <2>. HIDE DEF S, rank, Good
  <2>. QED BY <1>4, <1>5, Descent
<1>7. 1 \in S
  BY <1>3
<1>. QED BY <1>1, <1>2, <1>6, <1>7

\* _vulnerable_cpe_present stays too, and so does the answer for a configuration,
\* for every tree and every valuation of its criteria.
THEOREM OutcomeStays ==
    ASSUME NEW tree, NEW k, IsTree(tree, k), k > 0,
           NEW value \in [CriteriaOf(tree) -> Truth], NEW turned \in [CriteriaOf(tree) -> Truth],
           \A m \in CriteriaOf(tree) : Refines(value[m], turned[m])
    PROVE  Refines(Outcome(tree, value), Outcome(tree, turned))
<1>1. Refines(CpeNode(tree, value), CpeNode(tree, turned))
  BY NodeStays
<1>2. Refines(VulnerablePresent(tree, value), VulnerablePresent(tree, turned))
  <2>. DEFINE marked == {m \in CriteriaOf(tree) : m.vulnerable}
              a == {value[m] : m \in marked}
              b == {turned[m] : m \in marked}
  <2>1. a \in SUBSET Truth /\ b \in SUBSET Truth /\ PartsRefine(a, b)
    BY DEF PartsRefine
  <2>2. Refines(AnyOf(a), AnyOf(b))
    <3>. HIDE DEF a, b
    <3>. QED BY <2>1, OperatorsRefine
  <2>3. /\ VulnerablePresent(tree, value) = IF marked = {} THEN "unknown" ELSE AnyOf(a)
        /\ VulnerablePresent(tree, turned) = IF marked = {} THEN "unknown" ELSE AnyOf(b)
    BY DEF VulnerablePresent, CriteriaOf
  <2>. QED BY <2>2, <2>3 DEF Refines
<1>. QED BY <1>1, <1>2 DEF Outcome, Refines

\* cpe_applicability over any configurations: a decided answer stays.
THEOREM ApplicabilityStays ==
    ASSUME NEW a \in SUBSET Truth, NEW b \in SUBSET Truth, PartsRefine(a, b), NEW targets,
           CpeApplicability(a, targets) # "unknown"
    PROVE  CpeApplicability(b, targets) = CpeApplicability(a, targets)
BY OperatorsRefine DEF CpeApplicability, Refines

\* _cpe_match: a criterion holds of a target only when each name and the version
\* it gives are the target's and every bound could be compared, for any number
\* of names and targets.
THEOREM CriterionCompares ==
    ASSUME NEW match, NEW targets, NEW n \in Nat, DOMAIN targets = 1..n,
           CpeMatch(match, targets) = "true"
    PROVE  \E i \in DOMAIN targets :
               /\ \A k \in DOMAIN match.names : match.names[k] # AnyName => targets[i].names[k] = match.names[k]
               /\ match.version # NoVersion => targets[i].version = match.version
               /\ \A b \in match.bounds : \E kind \in {"semver", "numeric"} :
                      /\ Reads(kind, targets[i].version) /\ Reads(kind, b.at)
                      /\ Within(b.key, CompareVersions(targets[i].version, b.at, kind))
<1>. DEFINE open == {i \in DOMAIN targets : MatchTarget(match, targets[i]) # "false"}
            i == Min(open)
<1>1. open # {} /\ MatchTarget(match, targets[i]) = "true"
  BY DEF CpeMatch
<1>2. i \in DOMAIN targets
  <2>1. open \in SUBSET Nat
    OBVIOUS
  <2>2. i \in open
    <3>. HIDE DEF open
    <3>. QED BY <1>1, <2>1, MinOf
  <2>. QED BY <2>2
<1>. HIDE DEF open, i
<1>. DEFINE target == targets[i]
            kind == IF \A v \in {target.version} \cup {b.at : b \in match.bounds} : Reads("semver", v)
                    THEN "semver" ELSE "numeric"
<1>3. kind \in {"semver", "numeric"}
  OBVIOUS
<1>4. /\ \A k \in DOMAIN match.names : match.names[k] \in {AnyName, target.names[k]}
      /\ match.version \in {NoVersion, target.version}
      /\ \A b \in match.bounds : /\ CompareVersions(target.version, b.at, kind) # Unknown
                                 /\ Within(b.key, CompareVersions(target.version, b.at, kind))
  <2>. HIDE DEF kind
  <2>1. MatchTarget(match, target) =
            LET compared == [b \in match.bounds |-> CompareVersions(target.version, b.at, kind)]
                meant == /\ \A k \in DOMAIN match.names : match.names[k] \in {AnyName, target.names[k]}
                         /\ match.version \in {NoVersion, target.version}
            IN IF ~meant THEN "false"
               ELSE IF \E b \in match.bounds : compared[b] = Unknown THEN "unknown"
               ELSE IF \A b \in match.bounds : Within(b.key, compared[b]) THEN "true" ELSE "false"
    BY DEF MatchTarget, kind
  <2>. QED BY <2>1, <1>1
<1>5. \A b \in match.bounds : Reads(kind, target.version) /\ Reads(kind, b.at)
  <2>. HIDE DEF kind
  <2>. QED BY <1>4 DEF CompareVersions
<1>. QED BY <1>2, <1>3, <1>4, <1>5
=============================================================================
