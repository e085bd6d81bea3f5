---------------------------- MODULE AnswersProofs ----------------------------
(***************************************************************************)
(* Theorems about the algorithms the answers are built from, for inputs of *)
(* any length: the scanner of SqlText, the columns of Results and the      *)
(* registry.  The induction they need is derived here from the library's   *)
(* theorem that a well-founded relation has minimal elements.              *)
(***************************************************************************)
EXTENDS Listings, SqlTexts, NaturalsInduction, WellFoundedInduction, TLAPS

-----------------------------------------------------------------------------
(* Induction and recursion.                                                *)

(* Induction over the natural numbers, for a set instead of a predicate.   *)
LEMMA NatSetInduction ==
  ASSUME NEW S, 0 \in S, \A n \in Nat : n \in S => n + 1 \in S
  PROVE  Nat \subseteq S
<1> SUFFICES ASSUME Nat \ S # {} PROVE FALSE
  OBVIOUS
<1> DEFINE R == OpToRel(<, Nat)
<1>1. IsWellFoundedOn(R, Nat)
  BY NatLessThanWellFounded, Zenon
<1>2. ASSUME NEW a \in Nat, NEW b \in Nat, a < b PROVE <<a, b>> \in R
  <2>1. R = {ss \in Nat \X Nat : ss[1] < ss[2]}
    BY Zenon DEF OpToRel
  <2> HIDE DEF R
  <2>. QED
    BY <2>1, <1>2
<1> HIDE DEF R
<1>3. PICK m \in Nat \ S : \A y \in Nat \ S : ~(<<y, m>> \in R)
  <2>1. Nat \ S \subseteq Nat
    OBVIOUS
  <2>. QED
    BY <1>1, <2>1, WFMin, Zenon
<1>4. m # 0 /\ m - 1 \in Nat /\ m = (m - 1) + 1 /\ m - 1 < m
  BY <1>3
<1>5. m - 1 \in S
  BY <1>2, <1>3, <1>4
<1>. QED
  BY <1>3, <1>4, <1>5


(* What is below the successor of m is m or below it.                      *)
LEMMA BelowNext == \A r, m \in Nat : r < m + 1 => r = m \/ r < m
  OBVIOUS

(* What H gives x depends only on the elements of a lower rank.            *)
DependsBelow(S, V, rank, H) ==
  \A x \in S, g \in [S -> V], h \in [S -> V] :
    (\A y \in S : rank[y] < rank[x] => g[y] = h[y]) => H[x][g] = H[x][h]

(* Some function is what H makes of it.                                    *)
HasSolution(S, V, H) == \E f \in [S -> V] : \A x \in S : f[x] = H[x][f]

(* A recursive definition whose recursion descends in a bounded rank has a *)
(* solution.                                                               *)
LEMMA BoundedRecursion ==
  ASSUME NEW S, NEW V, V # {}, NEW N \in Nat, NEW rank \in [S -> 0..N],
         NEW H \in [S -> [[S -> V] -> V]],
         DependsBelow(S, V, rank, H)
  PROVE  HasSolution(S, V, H)
<1> DEFINE T == {m \in Nat : \E g \in [S -> V] : \A x \in S : rank[x] < m => g[x] = H[x][g]}
<1>1. 0 \in T
  <2>1. PICK v \in V : TRUE
    OBVIOUS
  <2>2. [x \in S |-> v] \in [S -> V] /\ \A x \in S : ~(rank[x] < 0)
    OBVIOUS
  <2>. QED
    BY <2>2
<1>2. ASSUME NEW m \in Nat, m \in T PROVE m + 1 \in T
  <2>1. PICK g \in [S -> V] : \A x \in S : rank[x] < m => g[x] = H[x][g]
    BY <1>2
  <2> DEFINE h == [x \in S |-> IF rank[x] = m THEN H[x][g] ELSE g[x]]
  <2>2. h \in [S -> V]
    <3>2. \A x \in S : H[x][g] \in V
      OBVIOUS
    <3>. QED
      BY <3>2
  <2>3. ASSUME NEW x \in S, rank[x] < m + 1 PROVE h[x] = H[x][h]
    <3>1. \A y \in S : rank[y] < rank[x] => g[y] = h[y]
      BY <2>3
    <3> HIDE DEF h
    <3>2. H[x][g] = H[x][h]
      BY <3>1, <2>2 DEF DependsBelow
    <3>3. rank[x] = m \/ rank[x] < m
      <4>1. rank[x] \in Nat
        OBVIOUS
      <4>. QED
        BY <2>3, <4>1, BelowNext, Zenon
    <3>. QED
      BY <2>1, <3>2, <3>3 DEF h
  <2>4. \A x \in S : rank[x] < m + 1 => h[x] = H[x][h]
    BY <2>3
  <2> HIDE DEF h
  <2>5. m + 1 \in Nat
    OBVIOUS
  <2>. QED
    BY <2>2, <2>4, <2>5, Zenon
<1> HIDE DEF T
<1>3. N + 1 \in T
  BY <1>1, <1>2, NatSetInduction
<1>4. PICK f \in [S -> V] : \A x \in S : rank[x] < N + 1 => f[x] = H[x][f]
  BY <1>3 DEF T
<1>5. \A x \in S : rank[x] < N + 1
  OBVIOUS
<1>. QED
  BY <1>4, <1>5 DEF HasSolution

(* From the end of a text backwards.                                       *)
LEMMA BackwardInduction ==
  ASSUME NEW n \in Nat, NEW P, n + 1 \in P,
         \A i \in 1..n : (\A k \in (i + 1)..(n + 1) : k \in P) => i \in P
  PROVE  1..(n + 1) \subseteq P
<1> DEFINE S == {m \in Nat : \A k \in 1..(n + 1) : n + 1 - k <= m => k \in P}
<1>1. 0 \in S
  OBVIOUS
<1>2. ASSUME NEW m \in Nat, m \in S PROVE m + 1 \in S
  <2> SUFFICES ASSUME NEW i \in 1..(n + 1), n + 1 - i <= m + 1 PROVE i \in P
    OBVIOUS
  <2>1. CASE n + 1 - i <= m
    BY <1>2, <2>1
  <2>2. CASE ~(n + 1 - i <= m)
    <3>1. i \in 1..n /\ \A k \in (i + 1)..(n + 1) : k \in 1..(n + 1) /\ n + 1 - k <= m
      BY <2>2
    <3>2. \A k \in (i + 1)..(n + 1) : k \in P
      BY <3>1, <1>2
    <3>. QED
      BY <3>1, <3>2
  <2>. QED
    BY <2>1, <2>2
<1> HIDE DEF S
<1>3. n \in S
  BY <1>1, <1>2, NatSetInduction
<1>. QED
  BY <1>3 DEF S

(* What H gives x depends only on what comes after x.                      *)
DependsAfter(S, V, n, H) ==
  \A x \in S, g \in [S -> V], h \in [S -> V] :
    (x <= n => \A y \in S : x < y => g[y] = h[y]) => H[x][g] = H[x][h]

(* A recursive definition that looks only further on in a text has one.    *)
LEMMA BackwardRecursion ==
  ASSUME NEW S, S \subseteq Nat, NEW V, V # {}, NEW n \in Nat, NEW H \in [S -> [[S -> V] -> V]],
         DependsAfter(S, V, n, H)
  PROVE  HasSolution(S, V, H)
<1> DEFINE rank == [x \in S |-> IF x > n THEN 0 ELSE n + 1 - x]
<1>1. rank \in [S -> 0..(n + 1)]
  <2>1. \A x \in S : x \in Nat
    OBVIOUS
  <2>2. \A x \in Nat : (IF x > n THEN 0 ELSE n + 1 - x) \in 0..(n + 1)
    OBVIOUS
  <2>. QED
    BY <2>1, <2>2
<1>2. ASSUME NEW x \in S, NEW y \in S, x <= n, x < y PROVE rank[y] < rank[x]
  <2>1. x \in Nat /\ y \in Nat
    OBVIOUS
  <2>2. rank[x] = n + 1 - x /\ (rank[y] = 0 \/ rank[y] = n + 1 - y)
    BY <1>2, <2>1
  <2>. QED
    BY <2>1, <2>2, <1>2
<1> HIDE DEF rank
<1>3. DependsBelow(S, V, rank, H)
  <2> SUFFICES ASSUME NEW x \in S, NEW g \in [S -> V], NEW h \in [S -> V],
                      \A y \in S : rank[y] < rank[x] => g[y] = h[y]
               PROVE  H[x][g] = H[x][h]
    BY DEF DependsBelow
  <2>1. x <= n => \A y \in S : x < y => g[y] = h[y]
    BY <1>2
  <2>. QED
    BY <2>1 DEF DependsAfter
<1>4. PICK N \in Nat : rank \in [S -> 0..N]
  BY <1>1
<1>. QED
  BY <1>3, <1>4, BoundedRecursion

(* The results of a loop, before the first turn and after each of n.       *)
LoopRuns(n, V, base, G) ==
  \E f \in [0..n -> V] : f[0] = base /\ \A k \in 1..n : f[k] = G[k][f[k - 1]]

(* A loop of n turns has such results.                                     *)
LEMMA ForwardRecursion ==
  ASSUME NEW n \in Nat, NEW V, NEW base, base \in V, NEW G \in [1..n -> [V -> V]]
  PROVE  LoopRuns(n, V, base, G)
<1> DEFINE T == {m \in Nat : m <= n => \E f \in [0..n -> V] :
                   f[0] = base /\ \A k \in 1..n : k <= m => f[k] = G[k][f[k - 1]]}
<1>1. 0 \in T
  <2>1. [k \in 0..n |-> base] \in [0..n -> V] /\ [k \in 0..n |-> base][0] = base
    OBVIOUS
  <2>2. \A k \in 1..n : ~(k <= 0)
    OBVIOUS
  <2>. QED
    BY <2>1, <2>2
<1>2. ASSUME NEW m \in Nat, m \in T PROVE m + 1 \in T
  <2> SUFFICES ASSUME m + 1 <= n
               PROVE  \E f \in [0..n -> V] :
                        f[0] = base /\ \A k \in 1..n : k <= m + 1 => f[k] = G[k][f[k - 1]]
    OBVIOUS
  <2>1. PICK f \in [0..n -> V] : f[0] = base /\ \A k \in 1..n : k <= m => f[k] = G[k][f[k - 1]]
    BY <1>2
  <2> DEFINE h == [k \in 0..n |-> IF k = m + 1 THEN G[m + 1][f[m]] ELSE f[k]]
  <2>2. m \in 0..n /\ m + 1 \in 1..n
    OBVIOUS
  <2>3. G[m + 1][f[m]] \in V
    BY <2>2
  <2>4. h \in [0..n -> V]
    BY <2>3
  <2>5. h[0] = base
    BY <2>1
  <2>6. ASSUME NEW k \in 1..n, k <= m + 1 PROVE h[k] = G[k][h[k - 1]]
    <3>1. k - 1 \in 0..n /\ k \in 0..n /\ k - 1 # m + 1 /\ (k = m + 1 => k - 1 = m) /\ (k # m + 1 => k <= m)
      BY <2>6
    <3>2. h[k - 1] = f[k - 1]
      BY <3>1
    <3>. QED
      BY <3>1, <3>2, <2>1
  <2> HIDE DEF h
  <2>. QED
    BY <2>4, <2>5, <2>6
<1> HIDE DEF T
<1>3. n \in T
  BY <1>1, <1>2, NatSetInduction
<1>4. \A k \in 1..n : k <= n
  OBVIOUS
<1>. QED
  BY <1>3, <1>4 DEF T, LoopRuns

(* By induction up to n.                                                   *)
LEMMA UpTo ==
  ASSUME NEW n \in Nat, NEW P, 0 \in P, \A k \in 1..n : k - 1 \in P => k \in P
  PROVE  0..n \subseteq P
<1> DEFINE T == {m \in Nat : m <= n => m \in P}
<1>1. 0 \in T
  OBVIOUS
<1>2. ASSUME NEW m \in Nat, m \in T PROVE m + 1 \in T
  <2>1. m + 1 <= n => m + 1 \in 1..n /\ (m + 1) - 1 = m /\ m <= n
    OBVIOUS
  <2>. QED
    BY <2>1, <1>2
<1> HIDE DEF T
<1>3. Nat \subseteq T
  BY <1>1, <1>2, NatSetInduction
<1>4. \A m \in 0..n : m \in Nat /\ m <= n
  OBVIOUS
<1>. QED
  BY <1>3, <1>4 DEF T

-----------------------------------------------------------------------------
(* The scanner.                                                            *)

(* The atoms of a text: any string but the empty one.  The backends do not *)
(* know that a literal is a STRING, so those of the lexemes are named.     *)
Atoms == (STRING \cup Punctuation \cup {"a", "e", "1"}) \ {""}

(* What a function makes of QuoteEnds, BlockEnds and Codes at one place.   *)
QuoteStep(s, q, escapes, end, j) ==
  IF j > Len(s) THEN j
  ELSE IF escapes /\ s[j] = BS /\ j < Len(s) THEN end[j + 2]
  ELSE IF s[j] # q THEN end[j + 1]
  ELSE IF At(s, j + 1) = q THEN end[j + 2]
  ELSE j + 1

(* A set of natural numbers that is not empty has a least element.         *)
LEMMA MinOfNat ==
  ASSUME NEW S, S \subseteq Nat, S # {}
  PROVE  Min(S) \in S /\ \A y \in S : Min(S) <= y
<1> DEFINE T == {m \in Nat : \A y \in S : m <= y}
<1>1. PICK z \in S : TRUE
  OBVIOUS
<1>2. 0 \in T /\ z + 1 \notin T /\ z + 1 \in Nat
  <2>1. z \in Nat /\ ~(z + 1 <= z)
    OBVIOUS
  <2>2. \A y \in S : 0 <= y
    OBVIOUS
  <2>. QED
    BY <2>1, <2>2
<1>3. PICK m \in T : m + 1 \notin T
  <2> HIDE DEF T
  <2>. QED
    BY <1>2, NatSetInduction
<1>4. PICK x \in S : ~(m + 1 <= x)
  BY <1>3
<1>5. x = m
  <2>1. x \in Nat /\ m \in Nat /\ m <= x
    BY <1>3, <1>4
  <2>. QED
    BY <2>1, <1>4
<1>6. \E v \in S : \A y \in S : v <= y
  BY <1>3, <1>4, <1>5
<1>. QED
  BY <1>6, Zenon DEF Min

(* There is nothing outside the text ...                                   *)
LEMMA AtOutside ==
  ASSUME NEW s \in Seq(Atoms), NEW i \in Int, i < 1 \/ i > Len(s) PROVE At(s, i) = ""
<1>1. i \notin 1..Len(s)
  OBVIOUS
<1>. QED
  BY <1>1, Zenon DEF At

(* ... and an atom at every place of it.                                   *)
LEMMA AtInside ==
  ASSUME NEW s \in Seq(Atoms), NEW i \in 1..Len(s) PROVE At(s, i) = s[i] /\ s[i] \in Atoms
  BY DEF At

(* QuoteEnds satisfies its equation.                                       *)
LEMMA QuoteRec ==
  ASSUME NEW s \in Seq(Atoms), NEW q, NEW escapes, NEW j \in Nat
  PROVE  QuoteEnds(s, q, escapes)[j] = QuoteStep(s, q, escapes, QuoteEnds(s, q, escapes), j)
<1> DEFINE H == [k \in Nat |-> [g \in [Nat -> Nat] |-> QuoteStep(s, q, escapes, g, k)]]
<1>1. H \in [Nat -> [[Nat -> Nat] -> Nat]]
  <2>1. ASSUME NEW k \in Nat, NEW g \in [Nat -> Nat] PROVE QuoteStep(s, q, escapes, g, k) \in Nat
    <3>1. g[k + 1] \in Nat /\ g[k + 2] \in Nat /\ k + 1 \in Nat
      OBVIOUS
    <3>. QED
      BY <3>1, Zenon DEF QuoteStep
  <2>. QED
    BY <2>1, Zenon
<1>2. DependsAfter(Nat, Nat, Len(s), H)
  <2> SUFFICES ASSUME NEW x \in Nat, NEW g \in [Nat -> Nat], NEW h \in [Nat -> Nat],
                      x <= Len(s) => \A y \in Nat : x < y => g[y] = h[y]
               PROVE  QuoteStep(s, q, escapes, g, x) = QuoteStep(s, q, escapes, h, x)
    BY Zenon DEF DependsAfter
  <2>1. x > Len(s) \/ (g[x + 1] = h[x + 1] /\ g[x + 2] = h[x + 2])
    <3>1. x + 1 \in Nat /\ x < x + 1 /\ x + 2 \in Nat /\ x < x + 2
      OBVIOUS
    <3>2. x <= Len(s) \/ x > Len(s)
      OBVIOUS
    <3>. QED
      BY <3>1, <3>2, Zenon
  <2>. QED
    BY <2>1, Zenon DEF QuoteStep
<1>3. HasSolution(Nat, Nat, H)
  <2> HIDE DEF H
  <2>1. Len(s) \in Nat /\ 0 \in Nat
    OBVIOUS
  <2>. QED
    BY <1>1, <1>2, <2>1, BackwardRecursion
<1>4. PICK f \in [Nat -> Nat] : \A k \in Nat : f[k] = H[k][f]
  BY <1>3, Zenon DEF HasSolution
<1>5. f = [k \in Nat |-> QuoteStep(s, q, escapes, f, k)]
  BY <1>4
<1> DEFINE E == QuoteEnds(s, q, escapes)
<1>6. E = [k \in Nat |-> QuoteStep(s, q, escapes, E, k)]
  BY <1>5, Zenon DEF QuoteEnds, QuoteStep
<1>. QED
  BY <1>6

BlockStep(d, s, end, j, depth) ==
  IF j > Len(s) \/ depth = 0 THEN j
  ELSE IF s[j] = "*" /\ At(s, j + 1) = "/" THEN end[j + 2][depth - 1]
  ELSE IF d = "Postgres" /\ s[j] = "/" /\ At(s, j + 1) = "*" THEN end[j + 2][depth + 1]
  ELSE end[j + 1][depth]

(* BlockEnds satisfies its equation.                                       *)
LEMMA BlockRec ==
  ASSUME NEW d, NEW s \in Seq(Atoms), NEW j \in Nat, NEW depth \in Nat
  PROVE  BlockEnds(d, s)[j][depth] = BlockStep(d, s, BlockEnds(d, s), j, depth)
<1> DEFINE V == [Nat -> Nat]
           H == [k \in Nat |-> [g \in [Nat -> V] |-> [e \in Nat |-> BlockStep(d, s, g, k, e)]]]
<1>1. H \in [Nat -> [[Nat -> V] -> V]]
  <2>1. ASSUME NEW k \in Nat, NEW g \in [Nat -> V], NEW e \in Nat PROVE BlockStep(d, s, g, k, e) \in Nat
    <3>0. k + 1 \in Nat /\ k + 2 \in Nat
      OBVIOUS
    <3>1. g[k + 1] \in V /\ g[k + 2] \in V
      BY <3>0, Zenon
    <3>3. e + 1 \in Nat /\ (e # 0 => e - 1 \in Nat)
      OBVIOUS
    <3>2. /\ g[k + 1][e] \in Nat /\ g[k + 2][e + 1] \in Nat
          /\ e # 0 => g[k + 2][e - 1] \in Nat
      BY <3>1, <3>3, Zenon
    <3>. QED
      BY <3>2, Zenon DEF BlockStep
  <2>. QED
    BY <2>1, Zenon
<1>2. DependsAfter(Nat, V, Len(s), H)
  <2> SUFFICES ASSUME NEW x \in Nat, NEW g \in [Nat -> V], NEW h \in [Nat -> V],
                      x <= Len(s) => \A y \in Nat : x < y => g[y] = h[y]
               PROVE  [e \in Nat |-> BlockStep(d, s, g, x, e)] = [e \in Nat |-> BlockStep(d, s, h, x, e)]
    <3> HIDE DEF V
    <3>. QED
      BY Zenon DEF DependsAfter
  <2>1. x > Len(s) \/ (g[x + 1] = h[x + 1] /\ g[x + 2] = h[x + 2])
    <3>1. x + 1 \in Nat /\ x < x + 1 /\ x + 2 \in Nat /\ x < x + 2
      OBVIOUS
    <3>2. x <= Len(s) \/ x > Len(s)
      OBVIOUS
    <3>. QED
      BY <3>1, <3>2, Zenon
  <2>. QED
    BY <2>1, Zenon DEF BlockStep
<1>3. HasSolution(Nat, V, H)
  <2>1. Len(s) \in Nat /\ [k \in Nat |-> 0] \in V
    OBVIOUS
  <2> HIDE DEF H, V
  <2>. QED
    BY <1>1, <1>2, <2>1, BackwardRecursion
<1>4. PICK f \in [Nat -> V] : \A k \in Nat : f[k] = H[k][f]
  BY <1>3, Zenon DEF HasSolution
<1>5. f = [k \in Nat |-> [e \in Nat |-> BlockStep(d, s, f, k, e)]]
  BY <1>4
<1> DEFINE E == BlockEnds(d, s)
<1>6. E = [k \in Nat |-> [e \in Nat |-> BlockStep(d, s, E, k, e)]]
  BY <1>5, Zenon DEF BlockEnds, BlockStep
<1> HIDE DEF E
<1>7. E[j] = [e \in Nat |-> BlockStep(d, s, E, j, e)]
  BY <1>6, Zenon
<1>. QED
  BY <1>7, Zenon DEF E

(* A literal ends after its opening quote and within the text.             *)
LEMMA QuoteBounds ==
  ASSUME NEW s \in Seq(Atoms), NEW q \in Atoms, NEW escapes, NEW j \in 1..(Len(s) + 1)
  PROVE  /\ QuoteEnds(s, q, escapes)[j] \in j..(Len(s) + 1)
         /\ j <= Len(s) => QuoteEnds(s, q, escapes)[j] > j
<1> DEFINE n == Len(s)
           E == QuoteEnds(s, q, escapes)
           P == {k \in 1..(n + 1) : E[k] \in k..(n + 1) /\ (k <= n => E[k] > k)}
<1>0. n \in Nat
  OBVIOUS
<1>1. \A k \in Nat : E[k] = QuoteStep(s, q, escapes, E, k)
  BY QuoteRec
<1>2. ASSUME NEW k \in Nat, k >= n PROVE At(s, k + 1) # q
  <2>1. k + 1 \in Int /\ k + 1 > Len(s)
    BY <1>2
  <2>2. At(s, k + 1) = ""
    BY <2>1, AtOutside
  <2>. QED
    BY <2>2 DEF Atoms
<1> HIDE DEF E
<1>3. n + 1 \in P
  BY <1>1 DEF QuoteStep
<1>4. ASSUME NEW i \in 1..n, \A k \in (i + 1)..(n + 1) : k \in P PROVE i \in P
  <2>1. i + 1 \in P /\ (i < n => i + 2 \in P)
    BY <1>4
  <2>2. E[i] = QuoteStep(s, q, escapes, E, i)
    BY <1>1
  <2>3. i < n \/ At(s, i + 1) # q
    BY <1>2
  <2>4. \/ E[i] = i + 1
        \/ E[i] = E[i + 1]
        \/ i < n /\ E[i] = E[i + 2]
    BY <2>2, <2>3 DEF QuoteStep
  <2>. QED
    BY <2>1, <2>4
<1>. QED
  <2> HIDE DEF P, n
  <2>1. 1..(n + 1) \subseteq P
    BY <1>0, <1>3, <1>4, BackwardInduction
  <2>. QED
    BY <2>1 DEF P, E, n

(* A comment that is open at j ends there or later, within the text.       *)
LEMMA BlockBounds ==
  ASSUME NEW d, NEW s \in Seq(Atoms), NEW j \in 1..(Len(s) + 1), NEW depth \in Nat
  PROVE  BlockEnds(d, s)[j][depth] \in j..(Len(s) + 1)
<1> DEFINE n == Len(s)
           E == BlockEnds(d, s)
           P == {k \in 1..(n + 1) : \A e \in Nat : E[k][e] \in k..(n + 1)}
<1>0. n \in Nat
  OBVIOUS
<1>1. \A k \in Nat, e \in Nat : E[k][e] = BlockStep(d, s, E, k, e)
  BY BlockRec
<1>2. ASSUME NEW k \in Nat, k >= n PROVE At(s, k + 1) = ""
  <2>1. k + 1 \in Int /\ k + 1 > Len(s)
    BY <1>2
  <2>. QED
    BY <2>1, AtOutside
<1> HIDE DEF E
<1>3. n + 1 \in P
  <2>1. \A e \in Nat : E[n + 1][e] = n + 1
    BY <1>0, <1>1 DEF BlockStep
  <2>. QED
    BY <2>1, <1>0
<1>4. ASSUME NEW i \in 1..n, \A k \in (i + 1)..(n + 1) : k \in P PROVE i \in P
  <2> SUFFICES ASSUME NEW e \in Nat PROVE E[i][e] \in i..(n + 1)
    OBVIOUS
  <2>1. i + 1 \in P /\ (i < n => i + 2 \in P)
    BY <1>4
  <2>2. E[i][e] = BlockStep(d, s, E, i, e)
    BY <1>1
  <2>3. i < n \/ At(s, i + 1) = ""
    <3>1. i \in Nat /\ (i < n \/ i >= n)
      OBVIOUS
    <3>. QED
      BY <3>1, <1>2, Zenon
  <2>4. e + 1 \in Nat /\ (e # 0 => e - 1 \in Nat)
    OBVIOUS
  <2>5. \/ E[i][e] = i
        \/ E[i][e] = E[i + 1][e]
        \/ i < n /\ E[i][e] = E[i + 2][e + 1]
        \/ i < n /\ e # 0 /\ E[i][e] = E[i + 2][e - 1]
    BY <2>2, <2>3, Zenon DEF BlockStep
  <2>. QED
    BY <2>1, <2>4, <2>5
<1>. QED
  <2> HIDE DEF P, n
  <2>1. 1..(n + 1) \subseteq P
    BY <1>0, <1>3, <1>4, BackwardInduction
  <2>. QED
    BY <2>1 DEF P, E, n

(* A line comment ends at the next line feed or with the text.             *)
LEMMA LineEndIs ==
  ASSUME NEW s \in Seq(Atoms), NEW i \in 1..Len(s)
  PROVE  /\ LineEnd(s, i) \in i..(Len(s) + 1)
         /\ LineEnd(s, i) <= Len(s) => s[LineEnd(s, i)] = NL
         /\ \A k \in i..(LineEnd(s, i) - 1) : s[k] # NL
<1> DEFINE S == {j \in i..Len(s) : s[j] = NL} \cup {Len(s) + 1}
<1>1. S \subseteq Nat /\ S # {}
  OBVIOUS
<1>2. LineEnd(s, i) \in S /\ \A y \in S : LineEnd(s, i) <= y
  BY <1>1, MinOfNat, Zenon DEF LineEnd
<1>. QED
  BY <1>2

(* The tag after a dollar sign ends at the first atom that is no word.     *)
LEMMA TagEndIs ==
  ASSUME NEW s \in Seq(Atoms), NEW i \in 1..Len(s)
  PROVE  /\ TagEnd(s, i) \in (i + 1)..(Len(s) + 1)
         /\ ~IsIdent(At(s, TagEnd(s, i)))
         /\ \A k \in (i + 1)..(TagEnd(s, i) - 1) : IsIdent(At(s, k))
<1> DEFINE S == {k \in (i + 1)..(Len(s) + 1) : ~IsIdent(At(s, k))}
<1>1. S \subseteq Nat
  OBVIOUS
<1>2. Len(s) + 1 \in S
  <2>1. At(s, Len(s) + 1) = ""
    <3>1. Len(s) + 1 \in Int /\ Len(s) + 1 > Len(s)
      OBVIOUS
    <3>. QED
      BY <3>1, AtOutside
  <2>2. ~IsIdent(At(s, Len(s) + 1))
    BY <2>1, Zenon DEF IsIdent
  <2>. QED
    BY <2>2
<1>3. TagEnd(s, i) \in S /\ \A y \in S : TagEnd(s, i) <= y
  BY <1>1, <1>2, MinOfNat, Zenon DEF TagEnd
<1>. QED
  BY <1>3

(* The tag that opens at i and ends at j stands again right before e.      *)
ClosesAt(s, i, j, e) ==
  /\ e - (j - i) - 1 > j
  /\ \A x \in 0..(j - i) : s[e - (j - i) - 1 + x] = s[i + x]

(* A dollar-quoted string ends after the first repetition of its tag, else *)
(* with the text; without a tag the dollar sign is code.                   *)
LEMMA DollarEndIs ==
  ASSUME NEW s \in Seq(Atoms), NEW i \in 1..Len(s)
  PROVE  /\ At(s, TagEnd(s, i)) # "$" => DollarEnd(s, i) = i
         /\ At(s, TagEnd(s, i)) = "$" =>
              /\ TagEnd(s, i) <= Len(s)
              /\ DollarEnd(s, i) \in (TagEnd(s, i) + 1)..(Len(s) + 1)
              /\ DollarEnd(s, i) = Len(s) + 1 \/ ClosesAt(s, i, TagEnd(s, i), DollarEnd(s, i))
              /\ \A f \in 1..(DollarEnd(s, i) - 1) : ~ClosesAt(s, i, TagEnd(s, i), f)
<1> DEFINE j == TagEnd(s, i)
           closes == {k \in (j + 1)..(Len(s) - (j - i)) : \A x \in 0..(j - i) : s[k + x] = s[i + x]}
           S == {k + (j - i) + 1 : k \in closes} \cup {Len(s) + 1}
<1>1. CASE At(s, j) # "$"
  BY <1>1, Zenon DEF DollarEnd
<1>2. CASE At(s, j) = "$"
  <2>0. j \in (i + 1)..(Len(s) + 1)
    BY TagEndIs
  <2>1. j <= Len(s)
    <3>1. j = Len(s) + 1 => At(s, j) = ""
      <4>1. Len(s) + 1 \in Int /\ Len(s) + 1 > Len(s)
        OBVIOUS
      <4>. QED
        BY <4>1, AtOutside
    <3> HIDE DEF j
    <3>2. "$" # ""
      OBVIOUS
    <3>3. j # Len(s) + 1
      BY <1>2, <3>1, <3>2, Zenon
    <3>. QED
      BY <2>0, <3>3
  <2>2. DollarEnd(s, i) = Min(S)
    BY <1>2, Zenon DEF DollarEnd
  <2> HIDE DEF j
  <2>3. S \subseteq Nat /\ S # {}
    BY <2>0
  <2>4. DollarEnd(s, i) \in S /\ \A y \in S : DollarEnd(s, i) <= y
    BY <2>2, <2>3, MinOfNat, Zenon
  <2> DEFINE e == DollarEnd(s, i)
  <2> HIDE DEF e
  <2>5. e \in S /\ \A y \in S : e <= y
    BY <2>4 DEF e
  <2>6. ASSUME NEW f \in 1..Len(s) PROVE f \in S <=> ClosesAt(s, i, j, f)
    <3>1. ASSUME ClosesAt(s, i, j, f) PROVE f \in S
      <4> DEFINE k == f - (j - i) - 1
      <4>1. k \in (j + 1)..(Len(s) - (j - i)) /\ f = k + (j - i) + 1
        BY <2>0, <3>1 DEF ClosesAt
      <4>2. k \in closes
        BY <4>1, <3>1 DEF ClosesAt
      <4>. QED
        BY <4>1, <4>2
    <3>2. ASSUME f \in S PROVE ClosesAt(s, i, j, f)
      <4>1. PICK k \in closes : f = k + (j - i) + 1
        BY <3>2
      <4>2. f - (j - i) - 1 = k /\ k > j
        BY <2>0, <4>1
      <4>. QED
        BY <4>1, <4>2 DEF ClosesAt
    <3>. QED
      BY <3>1, <3>2
  <2>7. e \in (j + 1)..(Len(s) + 1)
    BY <2>0, <2>1, <2>5
  <2>8. e = Len(s) + 1 \/ ClosesAt(s, i, j, e)
    <3>1. e # Len(s) + 1 => e \in 1..Len(s)
      BY <2>0, <2>7
    <3>. QED
      BY <3>1, <2>5, <2>6
  <2>9. \A f \in 1..(e - 1) : ~ClosesAt(s, i, j, f)
    <3> SUFFICES ASSUME NEW f \in 1..(e - 1) PROVE ~ClosesAt(s, i, j, f)
      OBVIOUS
    <3>1. f \in 1..Len(s) /\ ~(e <= f)
      BY <2>0, <2>7
    <3>. QED
      BY <3>1, <2>5, <2>6
  <2>. QED
    BY <1>2, <2>1, <2>7, <2>8, <2>9 DEF e, j
<1>. QED
  BY <1>1, <1>2

(* Position i opens no comment, literal or quoted identifier.              *)
Plain(d, s, i) ==
  /\ ~OpensLineComment(d, s, i)
  /\ ~OpensBlockComment(s, i)
  /\ ~OpensQuote(d, s, i)
  /\ d = "Postgres" /\ s[i] = "$" => At(s, TagEnd(s, i)) # "$"

(* A region ends further on, within the text, and position i is code when  *)
(* nothing opens there.                                                    *)
LEMMA RegionEndIs ==
  ASSUME NEW d, NEW s \in Seq(Atoms), NEW i \in 1..Len(s)
  PROVE  /\ RegionEnd(d, s, i) \in i..(Len(s) + 1)
         /\ RegionEnd(d, s, i) = i <=> Plain(d, s, i)
<1> DEFINE n == Len(s)
<1>0. n \in Nat /\ i \in 1..n
  OBVIOUS
<1>1. CASE OpensLineComment(d, s, i)
  <2>1. RegionEnd(d, s, i) = LineEnd(s, i)
    BY <1>1, Zenon DEF RegionEnd
  <2>2. s[i] # NL
    BY <1>1 DEF OpensLineComment, NL
  <2>3. LineEnd(s, i) # i
    BY <2>2, LineEndIs
  <2>. QED
    BY <1>1, <2>1, <2>3, LineEndIs DEF Plain
<1>2. CASE ~OpensLineComment(d, s, i) /\ OpensBlockComment(s, i)
  <2>1. RegionEnd(d, s, i) = BlockEnds(d, s)[i + 2][1]
    BY <1>2, Zenon DEF RegionEnd, BlockEnd
  <2>2. i + 2 \in 1..(n + 1)
    <3>1. At(s, i + 1) # ""
      BY <1>2 DEF OpensBlockComment
    <3>2. i # n
      <4>1. n + 1 \in Int /\ n + 1 > Len(s)
        OBVIOUS
      <4>2. At(s, n + 1) = ""
        BY <4>1, AtOutside
      <4>. QED
        BY <3>1, <4>2
    <3>. QED
      BY <3>2
  <2>3. BlockEnds(d, s)[i + 2][1] \in (i + 2)..(n + 1)
    BY <2>2, BlockBounds
  <2>. QED
    BY <1>2, <2>1, <2>3 DEF Plain
<1>3. CASE ~OpensLineComment(d, s, i) /\ ~OpensBlockComment(s, i) /\ OpensQuote(d, s, i)
  <2> DEFINE e == BackslashEscapes(d, s, i)
  <2>1. RegionEnd(d, s, i) = QuoteEnds(s, s[i], e)[i + 1]
    BY <1>3, Zenon DEF RegionEnd, QuoteEnd
  <2>2. i + 1 \in 1..(n + 1) /\ s[i] \in Atoms
    OBVIOUS
  <2>3. QuoteEnds(s, s[i], e)[i + 1] \in (i + 1)..(n + 1)
    BY <2>2, QuoteBounds
  <2> HIDE DEF e
  <2>. QED
    BY <1>3, <2>1, <2>3 DEF Plain
<1>4. CASE ~OpensLineComment(d, s, i) /\ ~OpensBlockComment(s, i) /\ ~OpensQuote(d, s, i)
  <2>1. CASE d = "Postgres" /\ s[i] = "$"
    <3>1. RegionEnd(d, s, i) = DollarEnd(s, i)
      BY <1>4, <2>1, Zenon DEF RegionEnd
    <3>2. TagEnd(s, i) \in (i + 1)..(n + 1)
      BY TagEndIs
    <3>3. CASE At(s, TagEnd(s, i)) # "$"
      BY <1>4, <2>1, <3>1, <3>3, DollarEndIs DEF Plain
    <3>4. CASE At(s, TagEnd(s, i)) = "$"
      <4>1. DollarEnd(s, i) \in (TagEnd(s, i) + 1)..(n + 1)
        BY <3>4, DollarEndIs
      <4>2. DollarEnd(s, i) \in i..(n + 1) /\ DollarEnd(s, i) # i
        BY <3>2, <4>1
      <4>. QED
        BY <2>1, <3>1, <3>4, <4>2, Zenon DEF Plain
    <3>. QED
      BY <3>3, <3>4
  <2>2. CASE ~(d = "Postgres" /\ s[i] = "$")
    <3>1. RegionEnd(d, s, i) = i
      BY <1>4, <2>2, Zenon DEF RegionEnd
    <3>2. i \in i..(n + 1)
      OBVIOUS
    <3>. QED
      BY <1>4, <2>2, <3>1, <3>2, Zenon DEF Plain
  <2>. QED
    BY <2>1, <2>2
<1>. QED
  BY <1>1, <1>2, <1>3, <1>4

CodeStep(d, s, rest, i) ==
  IF i > Len(s) THEN {}
  ELSE IF RegionEnd(d, s, i) = i THEN {i} \cup rest[i + 1]
  ELSE rest[RegionEnd(d, s, i)]

(* Codes satisfies its equation.                                           *)
LEMMA CodeRec ==
  ASSUME NEW d, NEW s \in Seq(Atoms), NEW i \in 1..(Len(s) + 1)
  PROVE  Codes(d, s)[i] = CodeStep(d, s, Codes(d, s), i)
<1> DEFINE n == Len(s)
           S == 1..(n + 1)
           V == SUBSET Nat
           H == [k \in S |-> [g \in [S -> V] |-> CodeStep(d, s, g, k)]]
<1>0. n \in Nat
  OBVIOUS
<1>1. ASSUME NEW k \in S, k <= n
      PROVE  /\ k + 1 \in S /\ k < k + 1
             /\ RegionEnd(d, s, k) # k => RegionEnd(d, s, k) \in S /\ k < RegionEnd(d, s, k)
  <2>1. k \in 1..Len(s)
    BY <1>0, <1>1
  <2>2. RegionEnd(d, s, k) \in k..(n + 1)
    BY <2>1, RegionEndIs
  <2>. QED
    BY <1>0, <2>1, <2>2
<1>2. H \in [S -> [[S -> V] -> V]]
  <2>1. ASSUME NEW k \in S, NEW g \in [S -> V] PROVE CodeStep(d, s, g, k) \in V
    <3>1. CASE k > n
      BY <3>1 DEF CodeStep
    <3>2. CASE k <= n
      <4>1. g[k + 1] \in V /\ (RegionEnd(d, s, k) # k => g[RegionEnd(d, s, k)] \in V)
        <5> HIDE DEF V, S
        <5>. QED
          BY <3>2, <1>1, Zenon
      <4>2. {k} \cup g[k + 1] \in V
        BY <4>1
      <4>3. {} \in V
        OBVIOUS
      <4> HIDE DEF V
      <4>. QED
        BY <4>1, <4>2, <4>3, Zenon DEF CodeStep
    <3>. QED
      BY <1>0, <3>1, <3>2
  <2> HIDE DEF V, S
  <2>. QED
    BY <2>1, Zenon
<1>3. DependsAfter(S, V, n, H)
  <2> HIDE DEF S, V
  <2> SUFFICES ASSUME NEW x \in S, NEW g \in [S -> V], NEW h \in [S -> V],
                      x <= n => \A y \in S : x < y => g[y] = h[y]
               PROVE  CodeStep(d, s, g, x) = CodeStep(d, s, h, x)
    BY Zenon DEF DependsAfter
  <2>1. CASE x > n
    BY <2>1, Zenon DEF CodeStep
  <2>2. CASE x <= n
    <3>1. g[x + 1] = h[x + 1] /\ (RegionEnd(d, s, x) # x => g[RegionEnd(d, s, x)] = h[RegionEnd(d, s, x)])
      BY <2>2, <1>1, Zenon
    <3>. QED
      BY <3>1, Zenon DEF CodeStep
  <2>. QED
    BY <1>0, <2>1, <2>2 DEF S
<1>4. HasSolution(S, V, H)
  <2>1. S \subseteq Nat /\ {} \in V
    BY <1>0
  <2> HIDE DEF H, V, S, n
  <2>. QED
    BY <1>0, <1>2, <1>3, <2>1, BackwardRecursion
<1>5. PICK f \in [S -> V] : \A k \in S : f[k] = H[k][f]
  BY <1>4, Zenon DEF HasSolution
<1>6. f = [k \in S |-> CodeStep(d, s, f, k)]
  BY <1>5
<1> DEFINE E == Codes(d, s)
<1>7. E = [k \in S |-> CodeStep(d, s, E, k)]
  BY <1>6, Zenon DEF Codes, CodeStep
<1> HIDE DEF E
<1>. QED
  BY <1>7, Zenon DEF E

(* What the scan finds from i on: code, and from each position of it the   *)
(* rest of it.                                                             *)
LEMMA CodesIs ==
  ASSUME NEW d, NEW s \in Seq(Atoms), NEW i \in 1..(Len(s) + 1)
  PROVE  /\ Codes(d, s)[i] \subseteq i..Len(s)
         /\ \A k \in Codes(d, s)[i] :
              RegionEnd(d, s, k) = k /\ Codes(d, s)[k] = {x \in Codes(d, s)[i] : k <= x}
<1> DEFINE n == Len(s)
           E == Codes(d, s)
           Holds(k) == /\ E[k] \subseteq k..n
                       /\ \A m \in E[k] : RegionEnd(d, s, m) = m /\ E[m] = {x \in E[k] : m <= x}
           P == {k \in 1..(n + 1) : Holds(k)}
<1>0. n \in Nat
  OBVIOUS
<1>1. \A k \in 1..(n + 1) : E[k] = CodeStep(d, s, E, k)
  BY CodeRec
<1> HIDE DEF E
<1>2. n + 1 \in P
  <2>1. E[n + 1] = {}
    <3>1. n + 1 \in 1..(n + 1) /\ n + 1 > Len(s)
      BY <1>0
    <3>. QED
      BY <3>1, <1>1, Zenon DEF CodeStep
  <2>. QED
    BY <2>1, <1>0
<1>3. ASSUME NEW k \in 1..n, \A m \in (k + 1)..(n + 1) : m \in P PROVE k \in P
  <2>1. E[k] = CodeStep(d, s, E, k) /\ ~(k > n)
    BY <1>0, <1>1
  <2>2. CASE RegionEnd(d, s, k) = k
    <3>1. E[k] = {k} \cup E[k + 1]
      BY <2>1, <2>2 DEF CodeStep
    <3>2. Holds(k + 1)
      BY <1>3
    <3> DEFINE C == E[k + 1]
    <3>3. C \subseteq (k + 1)..n
      BY <3>2
    <3>4. E[k] \subseteq k..n
      BY <3>1, <3>3
    <3>5. ASSUME NEW m \in E[k] PROVE RegionEnd(d, s, m) = m /\ E[m] = {x \in E[k] : m <= x}
      <4>1. CASE m = k
        <5>1. \A x \in E[k] : k <= x
          BY <3>4
        <5>. QED
          BY <4>1, <5>1, <2>2
      <4>2. CASE m # k
        <5>1. m \in C /\ ~(m <= k)
          BY <3>1, <3>3, <4>2
        <5>2. RegionEnd(d, s, m) = m /\ E[m] = {x \in C : m <= x}
          BY <5>1, <3>2
        <5>3. {x \in C : m <= x} = {x \in E[k] : m <= x}
          BY <5>1, <3>1
        <5>. QED
          BY <5>2, <5>3
      <4>. QED
        BY <4>1, <4>2
    <3>. QED
      BY <3>4, <3>5
  <2>3. CASE RegionEnd(d, s, k) # k
    <3>1. E[k] = E[RegionEnd(d, s, k)]
      BY <2>1, <2>3 DEF CodeStep
    <3>2. RegionEnd(d, s, k) \in (k + 1)..(n + 1)
      <4>1. RegionEnd(d, s, k) \in k..(n + 1)
        BY RegionEndIs
      <4>. QED
        BY <2>3, <4>1
    <3>3. Holds(RegionEnd(d, s, k))
      BY <1>3, <3>2
    <3>4. E[k] \subseteq k..n
      BY <3>1, <3>2, <3>3
    <3>. QED
      BY <3>1, <3>3, <3>4
  <2>. QED
    BY <2>2, <2>3
<1> HIDE DEF P, Holds
<1>4. 1..(n + 1) \subseteq P
  BY <1>0, <1>2, <1>3, BackwardInduction
<1>5. Holds(i)
  BY <1>4 DEF P
<1>. QED
  BY <1>5 DEF E, Holds

(* A text in which nothing opens a region is all code.                     *)
LEMMA AllPlain ==
  ASSUME NEW d, NEW s \in Seq(Atoms), \A i \in 1..Len(s) : Plain(d, s, i)
  PROVE  CodeMask(d, s) = 1..Len(s)
<1> DEFINE n == Len(s)
           E == Codes(d, s)
           P == {k \in 1..(n + 1) : E[k] = k..n}
<1>0. n \in Nat
  OBVIOUS
<1>1. \A k \in 1..(n + 1) : E[k] = CodeStep(d, s, E, k)
  BY CodeRec
<1>2. \A k \in 1..n : RegionEnd(d, s, k) = k
  BY RegionEndIs
<1> HIDE DEF E
<1>3. n + 1 \in P
  <2>1. E[n + 1] = {}
    <3>1. n + 1 \in 1..(n + 1) /\ n + 1 > Len(s)
      BY <1>0
    <3>. QED
      BY <3>1, <1>1, Zenon DEF CodeStep
  <2>2. (n + 1)..n = {} /\ n + 1 \in 1..(n + 1)
    BY <1>0
  <2>. QED
    BY <2>1, <2>2, Zenon
<1>4. ASSUME NEW k \in 1..n, \A m \in (k + 1)..(n + 1) : m \in P PROVE k \in P
  <2>1. E[k] = CodeStep(d, s, E, k) /\ ~(k > n) /\ k \in 1..(n + 1)
    BY <1>0, <1>1
  <2>2. E[k] = {k} \cup E[k + 1]
    BY <2>1, <1>2 DEF CodeStep
  <2>3. E[k + 1] = (k + 1)..n
    BY <1>4
  <2>4. k..n = {k} \cup ((k + 1)..n)
    BY <1>0
  <2>. QED
    BY <2>1, <2>2, <2>3, <2>4, Zenon
<1> HIDE DEF P
<1>5. 1..(n + 1) \subseteq P
  BY <1>0, <1>3, <1>4, BackwardInduction
<1>6. 1 \in P
  BY <1>0, <1>5
<1>. QED
  BY <1>6 DEF P, E, CodeMask

(* Blanks and the dollar sign are no part of a word.                       *)
LEMMA NotIdent ==
  ~IsIdent(SP) /\ ~IsIdent(NL) /\ ~IsIdent("$")
  BY Zenon DEF IsIdent, Punctuation, Spaces

(* A blank opens no region.                                                *)
LEMMA BlankIs ==
  /\ SP \in Atoms
  /\ \A c \in {"-", "#", "/", "*", SQ, DQ, BQ, "$"} : SP # c /\ NL # c
<1>1. SP \in Atoms
  BY Zenon DEF SP, Spaces, Punctuation, Atoms
<1>2. ASSUME NEW c \in {"-", "#", "/", "*", SQ, DQ, BQ, "$"} PROVE SP # c
  BY Zenon DEF SP, SQ, DQ, BQ
<1>3. ASSUME NEW c \in {"-", "#", "/", "*", SQ, DQ, BQ, "$"} PROVE NL # c
  BY DEF NL, SQ, DQ, BQ
<1>. QED
  BY <1>1, <1>2, <1>3, Zenon

(* A redacted text holds no quote, comment or dollar tag that would open a *)
(* region when a classifier scans it again (redact).                       *)
THEOREM RedactedIsAllCode ==
  ASSUME NEW d, NEW s \in Seq(Atoms)
  PROVE  CodeMask(d, Redact(d, s)) = 1..Len(s)
<1> DEFINE n == Len(s)
           M == CodeMask(d, s)
           r == Redact(d, s)
<1>0. n \in Nat
  OBVIOUS
<1>1. r = [i \in 1..n |-> IF i \in M \/ s[i] \in {NL} THEN s[i] ELSE SP]
  BY Zenon DEF Redact, Blanked
<1>2. M \subseteq 1..n /\ \A k \in M : Plain(d, s, k)
  <2>1. 1 \in 1..(n + 1)
    BY <1>0
  <2>2. M \subseteq 1..n /\ \A k \in M : RegionEnd(d, s, k) = k
    BY <2>1, CodesIs DEF CodeMask
  <2>. QED
    BY <2>2, RegionEndIs
<1> HIDE DEF M, r
<1>3. r \in Seq(Atoms) /\ Len(r) = n
  <2>1. \A i \in 1..n : r[i] \in Atoms
    BY <1>1, BlankIs
  <2>. QED
    BY <1>0, <1>1, <2>1
<1>4. ASSUME NEW i \in 1..n, r[i] # SP, r[i] # NL PROVE i \in M /\ r[i] = s[i] /\ Plain(d, s, i)
  BY <1>1, <1>2, <1>4
<1>5. ASSUME NEW i \in 1..n PROVE ~OpensLineComment(d, r, i)
  <2> SUFFICES ASSUME OpensLineComment(d, r, i) PROVE FALSE
    OBVIOUS
  <2>1. CASE r[i] = "-" /\ At(r, i + 1) = "-"
    <3>1. i + 1 \in 1..n /\ r[i + 1] = "-"
      BY <2>1, <1>3 DEF At
    <3>2. r[i] = s[i] /\ r[i + 1] = s[i + 1] /\ Plain(d, s, i)
      BY <2>1, <3>1, <1>4, BlankIs
    <3>3. At(s, i + 1) = "-" /\ s[i] = "-"
      BY <2>1, <3>1, <3>2 DEF At
    <3>. QED
      BY <3>2, <3>3 DEF Plain, OpensLineComment
  <2>2. CASE d = "MySQL" /\ r[i] = "#"
    BY <2>2, <1>4, BlankIs DEF Plain, OpensLineComment
  <2>. QED
    BY <2>1, <2>2 DEF OpensLineComment
<1>6. ASSUME NEW i \in 1..n PROVE ~OpensBlockComment(r, i)
  <2> SUFFICES ASSUME OpensBlockComment(r, i) PROVE FALSE
    OBVIOUS
  <2>1. r[i] = "/" /\ At(r, i + 1) = "*"
    BY DEF OpensBlockComment
  <2>2. i + 1 \in 1..n /\ r[i + 1] = "*"
    BY <2>1, <1>3 DEF At
  <2>3. r[i] = s[i] /\ r[i + 1] = s[i + 1] /\ Plain(d, s, i)
    BY <2>1, <2>2, <1>4, BlankIs
  <2>4. At(s, i + 1) = "*" /\ s[i] = "/"
    BY <2>1, <2>2, <2>3 DEF At
  <2>. QED
    BY <2>3, <2>4 DEF Plain, OpensBlockComment
<1>7. ASSUME NEW i \in 1..n PROVE ~OpensQuote(d, r, i)
  <2> SUFFICES ASSUME OpensQuote(d, r, i) PROVE FALSE
    OBVIOUS
  <2>1. r[i] \in {SQ, DQ, BQ}
    BY DEF OpensQuote
  <2>. QED
    BY <2>1, <1>4, BlankIs DEF Plain, OpensQuote
<1>8. ASSUME NEW i \in 1..n, d = "Postgres", r[i] = "$", At(r, TagEnd(r, i)) = "$" PROVE FALSE
  <2> DEFINE t == TagEnd(r, i)
             u == TagEnd(s, i)
  <2>1. /\ t \in (i + 1)..n /\ r[t] = "$"
        /\ \A k \in (i + 1)..(t - 1) : IsIdent(At(r, k))
    <3>1. t \in (i + 1)..(n + 1) /\ \A k \in (i + 1)..(t - 1) : IsIdent(At(r, k))
      BY <1>3, TagEndIs
    <3>2. t \in 1..Len(r)
      BY <1>8, Zenon DEF At
    <3>3. r[t] = "$"
      BY <1>8, <3>2, Zenon DEF At
    <3> HIDE DEF t
    <3>4. t \in (i + 1)..n
      BY <1>3, <3>1, <3>2
    <3>. QED
      BY <3>1, <3>3, <3>4
  <2>2. u \in (i + 1)..(n + 1) /\ ~IsIdent(At(s, u)) /\ \A k \in (i + 1)..(u - 1) : IsIdent(At(s, k))
    BY TagEndIs
  <2> HIDE DEF t, u
  <2>3. s[t] = "$" /\ At(s, t) = "$"
    <3>1. t \in 1..n
      BY <2>1
    <3>. QED
      BY <2>1, <3>1, <1>4, BlankIs DEF At
  <2>4. ASSUME NEW k \in (i + 1)..(t - 1) PROVE IsIdent(At(s, k))
    <3>1. k \in 1..n
      BY <2>1
    <3>2. IsIdent(r[k])
      BY <2>1, <3>1, <1>3 DEF At
    <3>3. r[k] = s[k]
      BY <3>1, <3>2, <1>4, NotIdent
    <3>. QED
      BY <3>1, <3>2, <3>3 DEF At
  <2>5. u = t
    <3>1. ~(u < t)
      BY <2>1, <2>2, <2>4
    <3>2. ~(t < u)
      BY <2>1, <2>2, <2>3, NotIdent
    <3>. QED
      BY <2>1, <2>2, <3>1, <3>2
  <2>6. Plain(d, s, i) /\ s[i] = "$"
    BY <1>8, <1>4, BlankIs
  <2>. QED
    BY <2>3, <2>5, <2>6, <1>8 DEF Plain, u
<1>9. \A i \in 1..Len(r) : Plain(d, r, i)
  BY <1>3, <1>5, <1>6, <1>7, <1>8 DEF Plain
<1>10. CodeMask(d, r) = 1..Len(r)
  BY <1>3, <1>9, AllPlain
<1>. QED
  BY <1>3, <1>10 DEF r

(* t is the part of s that begins after position o.                        *)
Slice(s, t, o) ==
  /\ s \in Seq(Atoms) /\ t \in Seq(Atoms) /\ o \in Nat
  /\ o + Len(t) <= Len(s)
  /\ \A k \in 1..Len(t) : t[k] = s[k + o]

(* The next atom of a slice, as far as it goes.                            *)
LEMMA SliceNext ==
  ASSUME NEW s, NEW t, NEW o, Slice(s, t, o), NEW i \in 1..Len(t)
  PROVE  /\ i < Len(t) => At(t, i + 1) = At(s, i + o + 1)
         /\ ~(i < Len(t)) => At(t, i + 1) = ""
<1>0. s \in Seq(Atoms) /\ t \in Seq(Atoms) /\ o \in Nat /\ o + Len(t) <= Len(s)
  BY DEF Slice
<1>1. CASE i < Len(t)
  <2>1. i + 1 \in 1..Len(t) /\ i + o + 1 \in 1..Len(s) /\ (i + 1) + o = i + o + 1
    BY <1>0, <1>1
  <2>2. t[i + 1] = s[i + o + 1]
    BY <2>1 DEF Slice
  <2>. QED
    BY <1>1, <2>1, <2>2, Zenon DEF At
<1>2. CASE ~(i < Len(t))
  <2>1. i + 1 \in Int /\ i + 1 > Len(t)
    BY <1>0, <1>2
  <2>. QED
    BY <1>0, <1>2, <2>1, AtOutside
<1>. QED
  BY <1>1, <1>2

(* A literal that ends within the slice ends there in the slice too.       *)
LEMMA QuoteSlice ==
  ASSUME NEW s, NEW t, NEW o, Slice(s, t, o), NEW c \in Atoms, NEW escapes,
         NEW j \in 1..(Len(t) + 1), QuoteEnds(s, c, escapes)[j + o] <= o + Len(t) + 1
  PROVE  QuoteEnds(s, c, escapes)[j + o] = QuoteEnds(t, c, escapes)[j] + o
<1> DEFINE n == Len(s)
           m == Len(t)
           F == QuoteEnds(s, c, escapes)
           E == QuoteEnds(t, c, escapes)
           P == {k \in 1..(m + 1) : F[k + o] <= o + m + 1 => F[k + o] = E[k] + o}
<1>0. /\ s \in Seq(Atoms) /\ t \in Seq(Atoms) /\ o \in Nat
      /\ n \in Nat /\ m \in Nat /\ o + m <= n
  BY DEF Slice
<1>1. \A k \in Nat : F[k] = QuoteStep(s, c, escapes, F, k)
  BY <1>0, QuoteRec
<1>2. \A k \in Nat : E[k] = QuoteStep(t, c, escapes, E, k)
  BY <1>0, QuoteRec
<1>3. \A k \in 1..(n + 1) : F[k] \in k..(n + 1)
  BY <1>0, QuoteBounds
<1> HIDE DEF E, F
<1>4. m + 1 \in P
  <2>1. m + 1 \in Nat /\ m + 1 > Len(t) /\ m + 1 \in 1..(m + 1)
    BY <1>0
  <2>2. E[m + 1] = m + 1
    BY <2>1, <1>2, Zenon DEF QuoteStep
  <2>3. F[m + 1 + o] \in (m + 1 + o)..(n + 1)
    BY <1>0, <1>3
  <2>. QED
    BY <1>0, <2>1, <2>2, <2>3
<1>5. ASSUME NEW i \in 1..m, \A k \in (i + 1)..(m + 1) : k \in P PROVE i \in P
  <2>1. SUFFICES ASSUME F[i + o] <= o + m + 1 PROVE F[i + o] = E[i] + o
    BY <1>0
  <2>2. /\ i + o \in Nat /\ ~(i + o > Len(s)) /\ i \in Nat /\ ~(i > Len(t))
        /\ i + 1 \in 1..(m + 1) /\ (i < m => i + 2 \in (i + 1)..(m + 1) /\ i + o < n)
        /\ (i + 1) + o = (i + o) + 1 /\ (i + 2) + o = (i + o) + 2
    BY <1>0
  <2>3. s[i + o] = t[i]
    BY DEF Slice
  <2>4. F[i + o] = QuoteStep(s, c, escapes, F, i + o) /\ E[i] = QuoteStep(t, c, escapes, E, i)
    BY <1>1, <1>2, <2>2, Zenon
  <2>5. i + 1 \in P /\ (i < m => i + 2 \in P)
    BY <1>5, <2>2
  <2>11. (i < m => At(t, i + 1) = At(s, i + o + 1)) /\ (~(i < m) => At(t, i + 1) = "")
    BY SliceNext, Zenon
  <2>6. i + o < n => F[i + o + 2] \in (i + o + 2)..(n + 1)
    BY <1>0, <1>3
  <2>7. CASE escapes /\ t[i] = BS /\ i + o < n
    <3>1. F[i + o] = F[i + o + 2]
      BY <2>2, <2>3, <2>4, <2>7, Zenon DEF QuoteStep
    <3>2. i < m
      BY <1>0, <2>1, <2>6, <2>7, <3>1
    <3>3. E[i] = E[i + 2]
      BY <2>2, <2>4, <2>7, <3>2, Zenon DEF QuoteStep
    <3>. QED
      BY <2>1, <2>2, <2>5, <3>1, <3>2, <3>3
  <2>8. CASE ~(escapes /\ t[i] = BS /\ i + o < n) /\ t[i] # c
    <3>1. F[i + o] = F[i + o + 1]
      BY <2>2, <2>3, <2>4, <2>8, Zenon DEF QuoteStep
    <3>2. E[i] = E[i + 1]
      BY <2>2, <2>4, <2>8, Zenon DEF QuoteStep
    <3>. QED
      BY <2>1, <2>2, <2>5, <3>1, <3>2
  <2>9. CASE ~(escapes /\ t[i] = BS /\ i + o < n) /\ t[i] = c /\ At(s, i + o + 1) = c
    <3>1. F[i + o] = F[i + o + 2]
      BY <2>2, <2>3, <2>4, <2>9, Zenon DEF QuoteStep
    <3>2. i + o < n
      <4>1. i + o = n => At(s, i + o + 1) = ""
        <5>1. i + o + 1 \in Int /\ (i + o = n => i + o + 1 > Len(s))
          BY <1>0
        <5>. QED
          BY <5>1, <1>0, AtOutside
      <4>2. i + o # n
        BY <4>1, <2>9 DEF Atoms
      <4>. QED
        BY <4>2, <2>2, <1>0
    <3>3. i < m
      BY <1>0, <2>1, <2>6, <3>1, <3>2
    <3>4. At(t, i + 1) = c
      BY <2>9, <2>11, <3>3, Zenon
    <3>5. E[i] = E[i + 2]
      BY <2>2, <2>4, <2>9, <3>4, Zenon DEF QuoteStep
    <3>. QED
      BY <2>1, <2>2, <2>5, <3>1, <3>3, <3>5
  <2>10. CASE ~(escapes /\ t[i] = BS /\ i + o < n) /\ t[i] = c /\ At(s, i + o + 1) # c
    <3>1. F[i + o] = i + o + 1
      BY <2>2, <2>3, <2>4, <2>10, Zenon DEF QuoteStep
    <3>2. At(t, i + 1) # c
      BY <2>10, <2>11, Zenon DEF Atoms
    <3>3. E[i] = i + 1
      BY <2>2, <2>4, <2>10, <3>2, Zenon DEF QuoteStep
    <3>. QED
      BY <2>2, <3>1, <3>3
  <2>. QED
    BY <2>7, <2>8, <2>9, <2>10
<1> HIDE DEF P, n, m
<1>6. 1..(m + 1) \subseteq P
  BY <1>0, <1>4, <1>5, BackwardInduction
<1>. QED
  BY <1>6 DEF P, E, F, m

(* A block comment that ends within the slice ends there in the slice too. *)
LEMMA BlockSlice ==
  ASSUME NEW d, NEW s, NEW t, NEW o, Slice(s, t, o), NEW j \in 1..(Len(t) + 1), NEW depth \in Nat,
         BlockEnds(d, s)[j + o][depth] <= o + Len(t) + 1
  PROVE  BlockEnds(d, s)[j + o][depth] = BlockEnds(d, t)[j][depth] + o
<1> DEFINE n == Len(s)
           m == Len(t)
           F == BlockEnds(d, s)
           E == BlockEnds(d, t)
           P == {k \in 1..(m + 1) : \A e \in Nat :
                   F[k + o][e] <= o + m + 1 => F[k + o][e] = E[k][e] + o}
<1>0. /\ s \in Seq(Atoms) /\ t \in Seq(Atoms) /\ o \in Nat
      /\ n \in Nat /\ m \in Nat /\ o + m <= n
  BY DEF Slice
<1>1. \A k \in Nat, e \in Nat : F[k][e] = BlockStep(d, s, F, k, e)
  BY <1>0, BlockRec
<1>2. \A k \in Nat, e \in Nat : E[k][e] = BlockStep(d, t, E, k, e)
  BY <1>0, BlockRec
<1>3. \A k \in 1..(n + 1), e \in Nat : F[k][e] \in k..(n + 1)
  BY <1>0, BlockBounds
<1> HIDE DEF E, F
<1>4. m + 1 \in P
  <2>1. m + 1 \in Nat /\ m + 1 > Len(t) /\ m + 1 \in 1..(m + 1) /\ m + 1 + o \in 1..(n + 1)
    BY <1>0
  <2>2. \A e \in Nat : E[m + 1][e] = m + 1
    BY <2>1, <1>2, Zenon DEF BlockStep
  <2>3. \A e \in Nat : F[m + 1 + o][e] \in (m + 1 + o)..(n + 1)
    BY <2>1, <1>3, Zenon
  <2>4. ASSUME NEW e \in Nat, F[m + 1 + o][e] <= o + m + 1 PROVE F[m + 1 + o][e] = E[m + 1][e] + o
    <3>1. F[m + 1 + o][e] \in (m + 1 + o)..(n + 1) /\ E[m + 1][e] = m + 1
      BY <2>2, <2>3
    <3>2. \A x \in (m + 1 + o)..(n + 1) : x <= o + m + 1 => x = m + 1 + o
      BY <1>0
    <3>. QED
      BY <2>4, <3>1, <3>2, Zenon
  <2>. QED
    BY <2>1, <2>4
<1>5. ASSUME NEW i \in 1..m, \A k \in (i + 1)..(m + 1) : k \in P PROVE i \in P
  <2>1. SUFFICES ASSUME NEW e \in Nat, F[i + o][e] <= o + m + 1 PROVE F[i + o][e] = E[i][e] + o
    BY <1>0
  <2>2. /\ i + o \in Nat /\ ~(i + o > Len(s)) /\ i \in Nat /\ ~(i > Len(t))
        /\ i + 1 \in 1..(m + 1) /\ (i < m => i + 2 \in (i + 1)..(m + 1) /\ i + o < n)
        /\ (i + 1) + o = (i + o) + 1 /\ (i + 2) + o = (i + o) + 2
    BY <1>0
  <2>3. s[i + o] = t[i]
    BY DEF Slice
  <2>4. F[i + o][e] = BlockStep(d, s, F, i + o, e) /\ E[i][e] = BlockStep(d, t, E, i, e)
    BY <1>1, <1>2, <2>2, Zenon
  <2>5. i + 1 \in P /\ (i < m => i + 2 \in P)
    BY <1>5, <2>2
  <2>6. (i < m => At(t, i + 1) = At(s, i + o + 1)) /\ (~(i < m) => At(t, i + 1) = "")
    BY SliceNext, Zenon
  <2>7. At(s, i + o + 1) # "" => \A g \in Nat : F[i + o + 2][g] \in (i + o + 2)..(n + 1)
    <3>1. i + o = n => At(s, i + o + 1) = ""
      <4>1. i + o + 1 \in Int /\ (i + o = n => i + o + 1 > Len(s))
        BY <1>0
      <4>. QED
        BY <4>1, <1>0, AtOutside
    <3>2. i + o # n => i + o + 2 \in 1..(n + 1)
      BY <1>0
    <3>. QED
      BY <3>1, <3>2, <1>3, Zenon
  <2>8. CASE e = 0
    <3>1. F[i + o][e] = i + o /\ E[i][e] = i
      BY <2>4, <2>8, Zenon DEF BlockStep
    <3>. QED
      BY <3>1
  <2>9. CASE e # 0 /\ t[i] = "*" /\ At(s, i + o + 1) = "/"
    <3>1. F[i + o][e] = F[i + o + 2][e - 1] /\ e - 1 \in Nat
      <4>1. F[i + o][e] = F[i + o + 2][e - 1]
        BY <2>2, <2>3, <2>4, <2>9, Zenon DEF BlockStep
      <4>. QED
        BY <4>1, <2>9
    <3>2. F[i + o + 2][e - 1] \in (i + o + 2)..(n + 1)
      BY <2>7, <2>9, <3>1
    <3>3. i < m
      BY <1>0, <2>1, <3>1, <3>2
    <3>4. E[i][e] = E[i + 2][e - 1]
      BY <2>2, <2>4, <2>6, <2>9, <3>3, Zenon DEF BlockStep
    <3>. QED
      BY <2>1, <2>2, <2>5, <3>1, <3>3, <3>4
  <2>10. CASE /\ e # 0 /\ ~(t[i] = "*" /\ At(s, i + o + 1) = "/")
              /\ d = "Postgres" /\ t[i] = "/" /\ At(s, i + o + 1) = "*"
    <3>1. F[i + o][e] = F[i + o + 2][e + 1] /\ e + 1 \in Nat
      <4>1. F[i + o][e] = F[i + o + 2][e + 1]
        BY <2>2, <2>3, <2>4, <2>10, Zenon DEF BlockStep
      <4>. QED
        BY <4>1
    <3>2. F[i + o + 2][e + 1] \in (i + o + 2)..(n + 1)
      BY <2>7, <2>10, <3>1
    <3>3. i < m
      BY <1>0, <2>1, <3>1, <3>2
    <3>4. E[i][e] = E[i + 2][e + 1]
      BY <2>2, <2>4, <2>6, <2>10, <3>3, Zenon DEF BlockStep
    <3>. QED
      BY <2>1, <2>2, <2>5, <3>1, <3>3, <3>4
  <2>11. CASE /\ e # 0 /\ ~(t[i] = "*" /\ At(s, i + o + 1) = "/")
              /\ ~(d = "Postgres" /\ t[i] = "/" /\ At(s, i + o + 1) = "*")
    <3>1. F[i + o][e] = F[i + o + 1][e]
      BY <2>2, <2>3, <2>4, <2>11, Zenon DEF BlockStep
    <3>2. /\ ~(t[i] = "*" /\ At(t, i + 1) = "/")
          /\ ~(d = "Postgres" /\ t[i] = "/" /\ At(t, i + 1) = "*")
      BY <2>6, <2>11
    <3>3. E[i][e] = E[i + 1][e]
      BY <2>2, <2>4, <2>11, <3>2, Zenon DEF BlockStep
    <3>. QED
      BY <2>1, <2>2, <2>5, <3>1, <3>3
  <2>. QED
    BY <2>8, <2>9, <2>10, <2>11
<1> HIDE DEF P, n, m
<1>6. 1..(m + 1) \subseteq P
  BY <1>0, <1>4, <1>5, BackwardInduction
<1>. QED
  BY <1>6 DEF P, E, F, m

(* So does a line comment.                                                 *)
LEMMA LineSlice ==
  ASSUME NEW s, NEW t, NEW o, Slice(s, t, o), NEW i \in 1..Len(t),
         LineEnd(s, i + o) <= o + Len(t) + 1
  PROVE  LineEnd(s, i + o) = LineEnd(t, i) + o
<1> DEFINE n == Len(s)
           m == Len(t)
           e == LineEnd(s, i + o)
           f == LineEnd(t, i)
<1>0. /\ s \in Seq(Atoms) /\ t \in Seq(Atoms) /\ o \in Nat
      /\ n \in Nat /\ m \in Nat /\ o + m <= n /\ i + o \in 1..n
  BY DEF Slice
<1>1. e \in (i + o)..(n + 1) /\ (e <= n => s[e] = NL) /\ \A k \in (i + o)..(e - 1) : s[k] # NL
  BY <1>0, LineEndIs
<1>2. f \in i..(m + 1) /\ (f <= m => t[f] = NL) /\ \A k \in i..(f - 1) : t[k] # NL
  BY <1>0, LineEndIs
<1>3. e <= o + m + 1
  OBVIOUS
<1> HIDE DEF e, f
<1>4. \A k \in 1..m : t[k] = s[k + o]
  BY DEF Slice
<1>5. ~(f + o < e)
  <2> SUFFICES ASSUME f + o < e PROVE FALSE
    OBVIOUS
  <2>1. f \in 1..m /\ f + o \in (i + o)..(e - 1)
    BY <1>0, <1>1, <1>2, <1>3
  <2>. QED
    BY <2>1, <1>1, <1>2, <1>4
<1>6. ~(e < f + o)
  <2> SUFFICES ASSUME e < f + o PROVE FALSE
    OBVIOUS
  <2>1. e - o \in 1..m /\ e - o \in i..(f - 1) /\ e <= n /\ (e - o) + o = e
    BY <1>0, <1>1, <1>2, <1>3
  <2>2. t[e - o] = s[e]
    BY <2>1, <1>4
  <2>3. t[e - o] # NL
    BY <2>1, <1>2, Zenon
  <2>. QED
    BY <2>1, <2>2, <2>3, <1>1, Zenon
<1>7. e = f + o
  <2>1. e \in Int /\ f \in Int /\ o \in Int
    BY <1>0, <1>1, <1>2
  <2>. QED
    BY <2>1, <1>5, <1>6
<1>. QED
  BY <1>7 DEF e, f

(* And a dollar-quoted string.                                             *)
LEMMA DollarSlice ==
  ASSUME NEW s, NEW t, NEW o, Slice(s, t, o), NEW i \in 1..Len(t),
         DollarEnd(s, i + o) <= o + Len(t) + 1
  PROVE  DollarEnd(s, i + o) = DollarEnd(t, i) + o
<1> DEFINE n == Len(s)
           m == Len(t)
           e == DollarEnd(s, i + o)
           f == DollarEnd(t, i)
           u == TagEnd(s, i + o)
           v == TagEnd(t, i)
<1>0. /\ s \in Seq(Atoms) /\ t \in Seq(Atoms) /\ o \in Nat
      /\ n \in Nat /\ m \in Nat /\ o + m <= n /\ i + o \in 1..n
  BY DEF Slice
<1>1. \A k \in 1..m : t[k] = s[k + o]
  BY DEF Slice
<1>2. ASSUME NEW k \in 1..m PROVE At(t, k) = At(s, k + o)
  <2>1. k \in 1..Len(t) /\ k + o \in 1..Len(s) /\ t[k] = s[k + o]
    BY <1>0, <1>1
  <2>. QED
    BY <2>1, Zenon DEF At
<1>3. u \in (i + o + 1)..(n + 1) /\ ~IsIdent(At(s, u)) /\ \A k \in (i + o + 1)..(u - 1) : IsIdent(At(s, k))
  BY <1>0, TagEndIs
<1>4. v \in (i + 1)..(m + 1) /\ ~IsIdent(At(t, v)) /\ \A k \in (i + 1)..(v - 1) : IsIdent(At(t, k))
  BY <1>0, TagEndIs
<1>5. /\ At(s, u) # "$" => e = i + o
      /\ At(s, u) = "$" => /\ e \in (u + 1)..(n + 1)
                           /\ e = n + 1 \/ ClosesAt(s, i + o, u, e)
                           /\ \A g \in 1..(e - 1) : ~ClosesAt(s, i + o, u, g)
  BY <1>0, DollarEndIs
<1>6. /\ At(t, v) # "$" => f = i
      /\ At(t, v) = "$" => /\ f \in (v + 1)..(m + 1)
                           /\ f = m + 1 \/ ClosesAt(t, i, v, f)
                           /\ \A g \in 1..(f - 1) : ~ClosesAt(t, i, v, g)
  BY <1>0, DollarEndIs
<1>7. e <= o + m + 1
  OBVIOUS
<1> HIDE DEF e, f, u, v
<1>8. ~(u < v + o)
  <2> SUFFICES ASSUME u < v + o PROVE FALSE
    OBVIOUS
  <2>1. u - o \in 1..m /\ u - o \in (i + 1)..(v - 1) /\ (u - o) + o = u
    BY <1>0, <1>3, <1>4
  <2>2. At(t, u - o) = At(s, u)
    BY <2>1, <1>2
  <2>. QED
    BY <2>1, <2>2, <1>3, <1>4
<1>9. v <= m => u = v + o
  <2> SUFFICES ASSUME v <= m, v + o < u PROVE FALSE
    BY <1>0, <1>3, <1>4, <1>8
  <2>1. v \in 1..m /\ v + o \in (i + o + 1)..(u - 1)
    BY <1>0, <1>3, <1>4
  <2>. QED
    BY <2>1, <1>2, <1>3, <1>4
<1>10. v = m + 1 => At(t, v) = ""
  <2>1. m + 1 \in Int /\ m + 1 > Len(t)
    BY <1>0
  <2>. QED
    BY <1>0, <2>1, AtOutside
<1>11. CASE At(s, u) # "$"
  <2>1. At(t, v) # "$"
    <3>1. v \in 1..m \/ v = m + 1
      BY <1>0, <1>4
    <3>2. v \in 1..m => At(t, v) = At(s, u)
      BY <1>2, <1>9, <1>0
    <3>. QED
      BY <1>10, <1>11, <3>1, <3>2
  <2>. QED
    BY <1>5, <1>6, <1>11, <2>1 DEF e, f
<1>12. CASE At(s, u) = "$"
  <2>1. e \in (u + 1)..(n + 1) /\ (e = n + 1 \/ ClosesAt(s, i + o, u, e))
        /\ \A g \in 1..(e - 1) : ~ClosesAt(s, i + o, u, g)
    BY <1>5, <1>12
  <2>2. v \in 1..m /\ u = v + o
    BY <1>0, <1>3, <1>4, <1>7, <1>8, <1>9, <2>1
  <2>3. At(t, v) = "$"
    BY <1>2, <1>12, <2>2
  <2>4. f \in (v + 1)..(m + 1) /\ (f = m + 1 \/ ClosesAt(t, i, v, f))
        /\ \A g \in 1..(f - 1) : ~ClosesAt(t, i, v, g)
    BY <1>6, <2>3
  <2>5. ASSUME NEW g \in 1..(m + 1) PROVE ClosesAt(t, i, v, g) <=> ClosesAt(s, i + o, u, g + o)
    <3> DEFINE w == g - (v - i) - 1
    <3>1. (g + o) - (u - (i + o)) - 1 = w + o /\ u - (i + o) = v - i /\ w \in Int
      BY <1>0, <1>4, <2>2
    <3>2. w + o > u <=> w > v
      BY <1>0, <1>4, <2>2, <3>1
    <3> HIDE DEF w
    <3>3. ASSUME w > v, NEW x \in 0..(v - i)
          PROVE  t[w + x] = s[(w + o) + x] /\ t[i + x] = s[(i + o) + x]
      <4>1. /\ w + x \in 1..m /\ (w + x) + o = (w + o) + x
            /\ i + x \in 1..m /\ (i + x) + o = (i + o) + x
        BY <1>0, <1>4, <2>2, <3>3, <3>1 DEF w
      <4>. QED
        BY <4>1, <1>1
    <3>4. ClosesAt(t, i, v, g) <=> w > v /\ \A x \in 0..(v - i) : t[w + x] = t[i + x]
      BY DEF ClosesAt, w
    <3>5. ClosesAt(s, i + o, u, g + o)
          <=> w + o > u /\ \A x \in 0..(v - i) : s[(w + o) + x] = s[(i + o) + x]
      BY <3>1, Zenon DEF ClosesAt
    <3>. QED
      BY <3>2, <3>3, <3>4, <3>5
  <2>6. ~(f + o < e)
    <3> SUFFICES ASSUME f + o < e PROVE FALSE
      OBVIOUS
    <3>1. f # m + 1 /\ f \in 1..(m + 1) /\ f + o \in 1..(e - 1)
      BY <1>0, <1>7, <2>1, <2>2, <2>4
    <3>. QED
      BY <2>1, <2>4, <2>5, <3>1
  <2>7. ~(e < f + o)
    <3> SUFFICES ASSUME e < f + o PROVE FALSE
      OBVIOUS
    <3>1. e # n + 1 /\ e - o \in 1..(m + 1) /\ e - o \in 1..(f - 1) /\ (e - o) + o = e
      BY <1>0, <2>1, <2>2, <2>4
    <3>2. ClosesAt(t, i, v, e - o)
      BY <2>1, <2>5, <3>1
    <3>. QED
      BY <2>4, <3>1, <3>2
  <2>8. e = f + o
    BY <1>0, <2>1, <2>2, <2>4, <2>6, <2>7
  <2>. QED
    BY <2>8 DEF e, f
<1>. QED
  BY <1>11, <1>12

(* No word of s goes on across the cut: what comes before an e that is the *)
(* first atom of the slice is no part of a longer identifier.              *)
CutBetweenWords(s, o) == ~(o >= 1 /\ IsIdent(At(s, o + 1)) /\ IsIdent(At(s, o)))

(* The e of an escape string is a word.                                    *)
LEMMA EIsIdent == IsIdent("e")
  BY Zenon DEF IsIdent, Punctuation, Spaces, SP, NL, SQ, DQ, BQ, BS

(* Whether a backslash escapes looks two atoms back, as far as the cut.    *)
LEMMA EscapeSlice ==
  ASSUME NEW d, NEW s, NEW t, NEW o, Slice(s, t, o), CutBetweenWords(s, o), NEW i \in 2..Len(t)
  PROVE  BackslashEscapes(d, s, i + o) = BackslashEscapes(d, t, i)
<1>0. /\ s \in Seq(Atoms) /\ t \in Seq(Atoms) /\ o \in Nat /\ o + Len(t) <= Len(s)
      /\ i \in 1..Len(t)
  BY DEF Slice
<1>1. t[i] = s[i + o]
  BY <1>0 DEF Slice
<1>2. ASSUME NEW k \in 1..Len(t) PROVE At(t, k) = At(s, k + o)
  <2>1. k + o \in 1..Len(s) /\ t[k] = s[k + o]
    BY <1>0 DEF Slice
  <2>. QED
    BY <2>1, Zenon DEF At
<1>3. At(t, i - 1) = At(s, (i + o) - 1)
  <2>1. i - 1 \in 1..Len(t) /\ (i - 1) + o = (i + o) - 1
    BY <1>0
  <2>. QED
    BY <2>1, <1>2
<1>4. At(t, i - 1) = "e" => (IsIdent(At(t, i - 2)) <=> IsIdent(At(s, (i + o) - 2)))
  <2>1. CASE i > 2
    <3>1. i - 2 \in 1..Len(t) /\ (i - 2) + o = (i + o) - 2
      BY <1>0, <2>1
    <3>. QED
      BY <3>1, <1>2
  <2>2. CASE i = 2
    <3>1. i - 2 = 0 /\ (i + o) - 2 = o /\ (i + o) - 1 = o + 1 /\ i - 2 \in Int
      BY <1>0, <2>2
    <3>2. At(t, i - 2) = ""
      <4>1. i - 2 < 1
        BY <3>1
      <4>. QED
        BY <3>1, <4>1, <1>0, AtOutside, Zenon
    <3>3. ~IsIdent(At(t, i - 2))
      BY <3>2, Zenon DEF IsIdent
    <3>4. At(t, i - 1) = "e" => ~IsIdent(At(s, o))
      <4>1. CASE o = 0
        <5>1. At(s, o) = ""
          <6>1. o \in Int /\ o < 1
            BY <4>1
          <6>. QED
            BY <6>1, <1>0, AtOutside, Zenon
        <5>. QED
          BY <5>1, Zenon DEF IsIdent
      <4>2. CASE o >= 1
        BY <4>2, <1>3, <3>1, EIsIdent DEF CutBetweenWords
      <4>. QED
        BY <1>0, <4>1, <4>2
    <3>. QED
      BY <3>1, <3>3, <3>4
  <2>. QED
    BY <2>1, <2>2
<1>. QED
  BY <1>1, <1>3, <1>4, Zenon DEF BackslashEscapes

(* A region that ends within the slice is the same region in the slice.    *)
LEMMA RegionSlice ==
  ASSUME NEW d, NEW s, NEW t, NEW o, Slice(s, t, o), CutBetweenWords(s, o), NEW i \in 1..Len(t),
         RegionEnd(d, s, i + o) <= o + Len(t) + 1,
         i = 1 => RegionEnd(d, s, i + o) = i + o
  PROVE  RegionEnd(d, s, i + o) = RegionEnd(d, t, i) + o
<1> DEFINE n == Len(s)
           m == Len(t)
           e == RegionEnd(d, s, i + o)
<1>0. /\ s \in Seq(Atoms) /\ t \in Seq(Atoms) /\ o \in Nat
      /\ n \in Nat /\ m \in Nat /\ o + m <= n /\ i + o \in 1..n
  BY DEF Slice
<1>1. t[i] = s[i + o] /\ t[i] \in Atoms
  BY <1>0 DEF Slice
<1>2. (i < m => At(t, i + 1) = At(s, i + o + 1)) /\ (~(i < m) => At(t, i + 1) = "")
  BY SliceNext, Zenon
<1>3. At(s, i + o + 1) # "" => i + o + 1 \in 1..n /\ At(s, i + o + 1) = s[i + o + 1]
  <2>1. At(s, i + o + 1) # "" => i + o + 1 \in 1..n
    BY Zenon DEF At
  <2>. QED
    BY <2>1, Zenon DEF At
<1>4. OpensLineComment(d, s, i + o) <=> OpensLineComment(d, t, i)
  <2>1. CASE i < m
    BY <2>1, <1>1, <1>2 DEF OpensLineComment
  <2>2. CASE ~(i < m) /\ s[i + o] = "-" /\ At(s, i + o + 1) = "-"
    <3>1. OpensLineComment(d, s, i + o)
      BY <2>2 DEF OpensLineComment
    <3>2. e = LineEnd(s, i + o)
      BY <3>1, Zenon DEF RegionEnd
    <3>3. i + o + 1 \in 1..n /\ s[i + o + 1] = "-"
      BY <2>2, <1>3
    <3>4. /\ LineEnd(s, i + o) \in (i + o)..(n + 1)
          /\ LineEnd(s, i + o) <= n => s[LineEnd(s, i + o)] = NL
      BY <1>0, LineEndIs
    <3>5. e \in (i + o)..(n + 1) /\ (e <= n => s[e] = NL) /\ e <= o + m + 1
      BY <3>2, <3>4
    <3> HIDE DEF e
    <3>6. e # i + o /\ e # i + o + 1
      BY <1>0, <2>2, <3>3, <3>5 DEF NL
    <3>. QED
      BY <1>0, <2>2, <3>5, <3>6
  <2>3. CASE ~(i < m) /\ ~(s[i + o] = "-" /\ At(s, i + o + 1) = "-")
    BY <2>3, <1>1, <1>2 DEF OpensLineComment
  <2>. QED
    BY <2>1, <2>2, <2>3
<1>5. ASSUME ~OpensLineComment(d, s, i + o)
      PROVE  OpensBlockComment(s, i + o) <=> OpensBlockComment(t, i)
  <2>1. CASE i < m
    BY <2>1, <1>1, <1>2 DEF OpensBlockComment
  <2>2. CASE ~(i < m) /\ OpensBlockComment(s, i + o)
    <3>1. e = BlockEnds(d, s)[i + o + 2][1]
      BY <1>5, <2>2, Zenon DEF RegionEnd, BlockEnd
    <3>2. i + o + 1 \in 1..n
      BY <2>2, <1>3 DEF OpensBlockComment
    <3>3. i + o + 2 \in 1..(n + 1)
      BY <1>0, <3>2
    <3>4. BlockEnds(d, s)[i + o + 2][1] \in (i + o + 2)..(n + 1)
      BY <1>0, <3>3, BlockBounds
    <3>5. e \in (i + o + 2)..(n + 1) /\ e <= o + m + 1
      BY <3>1, <3>4
    <3> HIDE DEF e
    <3>. QED
      BY <1>0, <2>2, <3>5
  <2>3. CASE ~(i < m) /\ ~OpensBlockComment(s, i + o)
    BY <2>3, <1>2 DEF OpensBlockComment
  <2>. QED
    BY <2>1, <2>2, <2>3
<1>6. OpensQuote(d, s, i + o) <=> OpensQuote(d, t, i)
  BY <1>1 DEF OpensQuote
<1>7. CASE OpensLineComment(d, s, i + o)
  <2>1. e = LineEnd(s, i + o) /\ RegionEnd(d, t, i) = LineEnd(t, i)
    BY <1>4, <1>7, Zenon DEF RegionEnd
  <2>. QED
    BY <2>1, LineSlice
<1>8. CASE ~OpensLineComment(d, s, i + o) /\ OpensBlockComment(s, i + o)
  <2>1. e = BlockEnds(d, s)[i + o + 2][1] /\ RegionEnd(d, t, i) = BlockEnds(d, t)[i + 2][1]
    BY <1>4, <1>5, <1>8, Zenon DEF RegionEnd, BlockEnd
  <2>2. i < m
    BY <1>2, <1>5, <1>8 DEF OpensBlockComment
  <2>3. i + 2 \in 1..(Len(t) + 1) /\ (i + 2) + o = i + o + 2 /\ 1 \in Nat
    BY <1>0, <2>2
  <2>4. BlockEnds(d, s)[(i + 2) + o][1] <= o + Len(t) + 1
    BY <2>1, <2>3
  <2>5. BlockEnds(d, s)[(i + 2) + o][1] = BlockEnds(d, t)[i + 2][1] + o
    <3>1. ASSUME NEW j \in 1..(Len(t) + 1), BlockEnds(d, s)[j + o][1] <= o + Len(t) + 1
          PROVE  BlockEnds(d, s)[j + o][1] = BlockEnds(d, t)[j][1] + o
      BY <2>3, <3>1, BlockSlice
    <3>. QED
      BY <2>3, <2>4, <3>1, Zenon
  <2>. QED
    BY <2>1, <2>3, <2>5
<1>9. CASE ~OpensLineComment(d, s, i + o) /\ ~OpensBlockComment(s, i + o) /\ OpensQuote(d, s, i + o)
  <2> DEFINE c == s[i + o]
             esc == BackslashEscapes(d, s, i + o)
  <2>1. i # 1
    <3>1. ~Plain(d, s, i + o)
      BY <1>9 DEF Plain
    <3>2. RegionEnd(d, s, i + o) # i + o
      BY <1>0, <3>1, RegionEndIs
    <3>. QED
      BY <3>2
  <2>2. BackslashEscapes(d, t, i) = esc
    <3>1. i \in 2..Len(t)
      BY <1>0, <2>1
    <3>. QED
      BY <3>1, EscapeSlice
  <2>3. e = QuoteEnds(s, c, esc)[i + o + 1]
    BY <1>9, Zenon DEF RegionEnd, QuoteEnd
  <2>4. RegionEnd(d, t, i) = QuoteEnds(t, c, esc)[i + 1]
    BY <1>1, <1>4, <1>5, <1>6, <1>9, <2>2, Zenon DEF RegionEnd, QuoteEnd
  <2>5. i + 1 \in 1..(Len(t) + 1) /\ (i + 1) + o = i + o + 1 /\ c \in Atoms
    BY <1>0, <1>1
  <2> HIDE DEF c, esc
  <2>6. QuoteEnds(s, c, esc)[(i + 1) + o] <= o + Len(t) + 1
    BY <2>3, <2>5
  <2>7. QuoteEnds(s, c, esc)[(i + 1) + o] = QuoteEnds(t, c, esc)[i + 1] + o
    <3>1. ASSUME NEW j \in 1..(Len(t) + 1), QuoteEnds(s, c, esc)[j + o] <= o + Len(t) + 1
          PROVE  QuoteEnds(s, c, esc)[j + o] = QuoteEnds(t, c, esc)[j] + o
      BY <2>5, <3>1, QuoteSlice
    <3>. QED
      BY <2>5, <2>6, <3>1, Zenon
  <2>. QED
    BY <2>3, <2>4, <2>5, <2>7
<1>10. CASE /\ ~OpensLineComment(d, s, i + o) /\ ~OpensBlockComment(s, i + o)
            /\ ~OpensQuote(d, s, i + o) /\ d = "Postgres" /\ s[i + o] = "$"
  <2>1. e = DollarEnd(s, i + o) /\ RegionEnd(d, t, i) = DollarEnd(t, i)
    BY <1>1, <1>4, <1>5, <1>6, <1>10, Zenon DEF RegionEnd
  <2>. QED
    BY <2>1, DollarSlice
<1>11. CASE /\ ~OpensLineComment(d, s, i + o) /\ ~OpensBlockComment(s, i + o)
            /\ ~OpensQuote(d, s, i + o) /\ ~(d = "Postgres" /\ s[i + o] = "$")
  <2>1. e = i + o /\ RegionEnd(d, t, i) = i
    BY <1>1, <1>4, <1>5, <1>6, <1>11, Zenon DEF RegionEnd
  <2>. QED
    BY <2>1
<1>. QED
  BY <1>7, <1>8, <1>9, <1>10, <1>11

(* The scan of a slice that starts at code and ends where the scan of the  *)
(* whole text comes by finds the same code.                                *)
LEMMA CodeSlice ==
  ASSUME NEW d, NEW s, NEW t, NEW o, Slice(s, t, o), CutBetweenWords(s, o), Len(t) >= 1,
         RegionEnd(d, s, 1 + o) = 1 + o,
         o + Len(t) = Len(s) \/ o + Len(t) + 1 \in Codes(d, s)[1 + o]
  PROVE  \A x \in 1..Len(t) : x \in Codes(d, t)[1] <=> x + o \in Codes(d, s)[1 + o]
<1> DEFINE n == Len(s)
           m == Len(t)
           q == o + m + 1
           F == Codes(d, s)
           E == Codes(d, t)
           Met(k) == q = n + 1 \/ q \in F[k + o]
           Same(k) == \A x \in 1..m : x \in E[k] <=> x + o \in F[k + o]
           P == {k \in 1..(m + 1) : Met(k) => Same(k)}
<1>0. /\ s \in Seq(Atoms) /\ t \in Seq(Atoms) /\ o \in Nat
      /\ n \in Nat /\ m \in Nat /\ o + m <= n
  BY DEF Slice
<1>1. \A k \in 1..(n + 1) : F[k] = CodeStep(d, s, F, k) /\ F[k] \subseteq k..n
  BY <1>0, CodeRec, CodesIs
<1>2. \A k \in 1..(m + 1) : E[k] = CodeStep(d, t, E, k) /\ E[k] \subseteq k..m
  BY <1>0, CodeRec, CodesIs
<1>3. RegionEnd(d, s, 1 + o) = 1 + o /\ Met(1)
  BY <1>0
<1> HIDE DEF E, F
<1>4. m + 1 \in P
  <2>1. m + 1 \in 1..(m + 1) /\ (m + 1) + o \in 1..(n + 1)
    BY <1>0
  <2>2. E[m + 1] \subseteq (m + 1)..m /\ F[(m + 1) + o] \subseteq ((m + 1) + o)..n
    BY <1>1, <1>2, <2>1
  <2>3. ASSUME NEW x \in 1..m PROVE x \notin E[m + 1] /\ x + o \notin F[(m + 1) + o]
    BY <1>0, <2>2
  <2>. QED
    BY <2>1, <2>3
<1>5. ASSUME NEW i \in 1..m, \A k \in (i + 1)..(m + 1) : k \in P PROVE i \in P
  <2>1. SUFFICES ASSUME Met(i) PROVE Same(i)
    BY <1>0
  <2> DEFINE e == RegionEnd(d, s, i + o)
  <2>2. i \in 1..(m + 1) /\ i + o \in 1..n /\ ~(i + o > Len(s)) /\ ~(i > Len(t)) /\ i + o \in 1..(n + 1)
    BY <1>0
  <2>3. F[i + o] = CodeStep(d, s, F, i + o) /\ E[i] = CodeStep(d, t, E, i)
    BY <1>1, <1>2, <2>2
  <2>4. e \in (i + o)..(n + 1)
    BY <1>0, <2>2, RegionEndIs
  <2>5. i = 1 => e = i + o
    BY <1>0, <1>3
  <2>6. e <= q => e = RegionEnd(d, t, i) + o
    BY <2>5, RegionSlice
  <2>7. RegionEnd(d, t, i) \in i..(m + 1)
    BY <1>0, RegionEndIs
  <2> DEFINE r == RegionEnd(d, t, i)
  <2>8. F[i + o] = IF e = i + o THEN {i + o} \cup F[i + o + 1] ELSE F[e]
    BY <2>2, <2>3, Zenon DEF CodeStep
  <2>9. E[i] = IF r = i THEN {i} \cup E[i + 1] ELSE E[r]
    BY <2>2, <2>3, Zenon DEF CodeStep
  <2> HIDE DEF e, r
  <2>10. CASE e = i + o
    <3>1. r = i
      BY <1>0, <2>6, <2>7, <2>10 DEF r
    <3>2. F[i + o] = {i + o} \cup F[(i + 1) + o] /\ E[i] = {i} \cup E[i + 1]
      <4>1. i + o + 1 = (i + 1) + o
        BY <1>0
      <4>. QED
        BY <2>8, <2>9, <2>10, <3>1, <4>1, Zenon
    <3>3. Met(i + 1)
      BY <1>0, <2>1, <3>2
    <3>4. Same(i + 1)
      BY <1>5, <3>3
    <3>5. ASSUME NEW x \in 1..m PROVE x = i <=> x + o = i + o
      BY <1>0
    <3>. QED
      BY <3>2, <3>4, <3>5
  <2>11. CASE e # i + o
    <3>1. F[i + o] = F[e]
      BY <2>8, <2>11
    <3>2. e <= q
      <4>1. CASE q = n + 1
        BY <2>4, <4>1 DEF e
      <4>2. CASE q \in F[i + o]
        <5>1. e \in 1..(n + 1)
          BY <2>2, <2>4 DEF e
        <5>2. q \in e..n
          BY <1>1, <3>1, <4>2, <5>1
        <5>. QED
          BY <5>1, <5>2
      <4>. QED
        BY <2>1, <4>1, <4>2
    <3>3. e = r + o /\ r \in (i + 1)..(m + 1)
      <4>1. e = r + o
        BY <2>6, <3>2 DEF e, r
      <4>. QED
        BY <1>0, <2>7, <2>11, <4>1 DEF r
    <3>4. E[i] = E[r]
      BY <2>9, <3>3
    <3>5. Met(r)
      BY <2>1, <3>1, <3>3
    <3>6. Same(r)
      BY <1>5, <3>3, <3>5
    <3>. QED
      BY <3>1, <3>3, <3>4, <3>6
  <2>. QED
    BY <2>10, <2>11
<1> HIDE DEF P, n, m, q, Met, Same
<1>6. 1..(m + 1) \subseteq P
  BY <1>0, <1>4, <1>5, BackwardInduction
<1>7. Same(1)
  BY <1>0, <1>3, <1>6 DEF P
<1>. QED
  BY <1>7 DEF Same, E, F, m

(* Any slice between code positions, cut at a word boundary, scans on its  *)
(* own as it does in place.                                                *)
THEOREM SliceScansAlike ==
  ASSUME NEW d, NEW s \in Seq(Atoms), NEW p \in CodeMask(d, s),
         NEW q \in CodeMask(d, s) \cup {Len(s) + 1}, p < q,
         ~(p > 1 /\ IsIdent(s[p]) /\ IsIdent(s[p - 1]))
  PROVE  CodeMask(d, SubSeq(s, p, q - 1))
           = {i - p + 1 : i \in {k \in CodeMask(d, s) : p <= k /\ k < q}}
<1> DEFINE n == Len(s)
           M == CodeMask(d, s)
           F == Codes(d, s)
           t == SubSeq(s, p, q - 1)
           o == p - 1
<1>0. n \in Nat /\ 1 \in 1..(n + 1)
  OBVIOUS
<1>1. M = F[1] /\ M \subseteq 1..n /\ \A k \in M : RegionEnd(d, s, k) = k /\ F[k] = {x \in M : k <= x}
  BY <1>0, CodesIs DEF CodeMask
<1>2. p \in 1..n /\ q \in 1..(n + 1) /\ p < q /\ (q = n + 1 \/ q \in M)
  BY <1>0, <1>1
<1>3. /\ t \in Seq(Atoms) /\ Len(t) = q - p
      /\ \A k \in 1..(q - p) : t[k] = s[k + o]
  BY <1>2
<1>4. Slice(s, t, o)
  <2>1. o \in Nat /\ o + Len(t) <= Len(s)
    BY <1>2, <1>3
  <2> HIDE DEF t, o
  <2>. QED
    BY <1>3, <2>1 DEF Slice
<1>5. CutBetweenWords(s, o)
  <2>1. CASE p > 1
    <3>1. p \in 1..Len(s) /\ p - 1 \in 1..Len(s) /\ o + 1 = p
      BY <1>2, <2>1
    <3>2. At(s, o + 1) = s[p] /\ At(s, o) = s[p - 1]
      BY <3>1, Zenon DEF At
    <3>. QED
      BY <2>1, <3>2 DEF CutBetweenWords
  <2>2. CASE ~(p > 1)
    <3>1. ~(o >= 1)
      BY <1>2, <2>2
    <3>. QED
      BY <3>1, Zenon DEF CutBetweenWords
  <2>. QED
    BY <2>1, <2>2
<1>6. 1 + o = p /\ o + Len(t) + 1 = q /\ Len(t) >= 1 /\ o \in Int
  BY <1>2, <1>3
<1>7. RegionEnd(d, s, p) = p /\ F[p] = {x \in M : p <= x}
  BY <1>1
<1>8. o + Len(t) = Len(s) \/ q \in F[p]
  BY <1>0, <1>2, <1>3, <1>6, <1>7
<1> HIDE DEF t, o, F, M
<1>9. \A x \in 1..Len(t) : x \in Codes(d, t)[1] <=> x + o \in F[p]
  BY <1>4, <1>5, <1>6, <1>7, <1>8, CodeSlice DEF F
<1>10. CodeMask(d, t) \subseteq 1..Len(t)
  <2>1. 1 \in 1..(Len(t) + 1) /\ t \in Seq(Atoms)
    BY <1>3
  <2>. QED
    BY <2>1, CodesIs DEF CodeMask
<1>11. ASSUME NEW x \in CodeMask(d, t)
       PROVE  x \in {i - p + 1 : i \in {k \in M : p <= k /\ k < q}}
  <2>1. x \in 1..(q - p) /\ x + o \in M
    BY <1>3, <1>7, <1>9, <1>10, <1>11 DEF CodeMask
  <2>2. p <= x + o /\ x + o < q /\ x = (x + o) - p + 1
    BY <1>2, <1>6, <2>1
  <2>. QED
    BY <2>1, <2>2
<1>12. ASSUME NEW i \in M, p <= i, i < q PROVE i - p + 1 \in CodeMask(d, t)
  <2>1. i \in 1..n
    BY <1>1
  <2>2. i - p + 1 \in 1..(q - p) /\ (i - p + 1) + o = i
    BY <1>2, <1>6, <1>12, <2>1
  <2>3. i \in F[p]
    BY <1>7, <1>12
  <2>. QED
    BY <1>3, <1>9, <2>2, <2>3 DEF CodeMask
<1>13. CodeMask(d, t) = {i - p + 1 : i \in {k \in M : p <= k /\ k < q}}
  BY <1>11, <1>12
<1>. QED
  BY <1>13 DEF t, M

(* Short tuples as sequences.                                              *)
LEMMA TuplesAreSequences ==
  ASSUME NEW S
  PROVE  /\ \A a \in S : <<a>> \in Seq(S)
         /\ \A a, b \in S : <<a, b>> \in Seq(S)
         /\ \A a, b, c \in S : <<a, b, c>> \in Seq(S)
         /\ \A a, b, c, d \in S : <<a, b, c, d>> \in Seq(S)
         /\ \A a, b, c, d, e \in S : <<a, b, c, d, e>> \in Seq(S)
         /\ \A a, b, c, d, e, f \in S : <<a, b, c, d, e, f>> \in Seq(S)
         /\ \A a, b, c, d, e, f, g \in S : <<a, b, c, d, e, f, g>> \in Seq(S)
         /\ \A a, b, c, d, e, f, g, h, j \in S : <<a, b, c, d, e, f, g, h, j>> \in Seq(S)
         /\ \A a, b, c, d, e, f, g, h, j, k \in S : <<a, b, c, d, e, f, g, h, j, k>> \in Seq(S)
  OBVIOUS

(* The text of a lexeme.                                                   *)
LEMMA TextOf ==
  ASSUME NEW x, NEW t, NEW C, x = Code(t) \/ x = Opaque(t) \/ x = [text |-> t, code |-> C]
  PROVE  x.text = t
  BY DEF Code, Opaque

(* Every lexeme is made of atoms.                                          *)
LEMMA LexemesAreAtoms ==
  ASSUME NEW d \in Dialects, NEW x \in Lexemes[d] \cup OpenEnded
  PROVE  x.text \in Seq(Atoms)
<1>1. SP \in Atoms /\ SQ \in Atoms /\ DQ \in Atoms /\ BQ \in Atoms /\ BS \in Atoms /\ NL \in Atoms
  BY Zenon DEF SP, SQ, DQ, BQ, BS, NL, Spaces, Punctuation, Atoms
<1>2. /\ "a" \in Atoms /\ "e" \in Atoms /\ "1" \in Atoms /\ ";" \in Atoms /\ "," \in Atoms
      /\ "(" \in Atoms /\ ")" \in Atoms /\ "-" \in Atoms /\ "#" \in Atoms /\ "$" \in Atoms
      /\ "/" \in Atoms /\ "*" \in Atoms
  BY Zenon DEF Punctuation, Atoms
<1>3. ASSUME NEW y \in Common PROVE y.text \in Seq(Atoms)
  <2>1. /\ <<"a">> \in Seq(Atoms)
        /\ <<";">> \in Seq(Atoms)
        /\ <<SP>> \in Seq(Atoms)
        /\ <<",">> \in Seq(Atoms)
        /\ <<"(">> \in Seq(Atoms)
        /\ <<")">> \in Seq(Atoms)
        /\ <<"-", "-", SQ, NL>> \in Seq(Atoms)
        /\ <<SQ, ";", SQ, SQ, DQ, SQ>> \in Seq(Atoms)
    BY <1>1, <1>2, TuplesAreSequences, Zenon
  <2>. QED
    BY <1>3, <2>1, TextOf, Zenon DEF Common
<1>4. ASSUME NEW y \in OpenEnded PROVE y.text \in Seq(Atoms)
  <2>1. /\ <<SQ, ";">> \in Seq(Atoms)
        /\ <<"/", "*", ";">> \in Seq(Atoms)
        /\ <<"-", "-", ";">> \in Seq(Atoms)
    BY <1>1, <1>2, TuplesAreSequences, Zenon
  <2>2. \/ y = Opaque(<<SQ, ";">>)
        \/ y = Opaque(<<"/", "*", ";">>)
        \/ y = Opaque(<<"-", "-", ";">>)
    BY <1>4, Zenon DEF OpenEnded
  <2>. QED
    BY <2>1, <2>2, TextOf, Zenon
<1>5. ASSUME x \in Lexemes[d], x \notin Common PROVE x.text \in Seq(Atoms)
  <2>1. CASE d = "Postgres"
    <3>1. /\ <<"a", "e">> \in Seq(Atoms)
          /\ <<"#">> \in Seq(Atoms)
          /\ <<"$", "1", SP>> \in Seq(Atoms)
          /\ <<SQ, ";", BS, SQ>> \in Seq(Atoms)
          /\ <<DQ, SQ, BS, DQ>> \in Seq(Atoms)
          /\ <<SP, "e", SQ, BS, SQ, ";", SQ>> \in Seq(Atoms)
          /\ <<"$", "a", "$", "$", "$", ";", "$", "a", "$">> \in Seq(Atoms)
          /\ <<"/", "*", "/", "*", SQ, "*", "/", ";", "*", "/">> \in Seq(Atoms)
      BY <1>1, <1>2, TuplesAreSequences, Zenon
    <3>. QED
      BY <1>5, <2>1, <3>1, TextOf, Zenon DEF Lexemes
  <2>2. CASE d # "Postgres"
    <3>1. /\ <<"$">> \in Seq(Atoms)
          /\ <<SQ, BS, SQ, ";", SQ>> \in Seq(Atoms)
          /\ <<DQ, BS, DQ, SQ, DQ>> \in Seq(Atoms)
          /\ <<BQ, SQ, BS, BQ>> \in Seq(Atoms)
          /\ <<"/", "*", "/", "*", SQ, "*", "/">> \in Seq(Atoms)
          /\ <<"#", "/", "*", NL>> \in Seq(Atoms)
      BY <1>1, <1>2, TuplesAreSequences, Zenon
    <3>. QED
      BY <1>5, <2>2, <3>1, TextOf, Zenon DEF Lexemes
  <2>. QED
    BY <2>1, <2>2, Zenon
<1>. QED
  BY <1>3, <1>4, <1>5, Zenon

(* The texts made of lexemes are texts of atoms.                           *)
TextOfAtoms == family = "lexemes" => text \in Seq(Atoms) /\ dialect \in Dialects

(* Any text of lexemes, however long, is sliced and redacted safely.       *)
THEOREM SlicesAlwaysScanAlike == Typing => []SlicesScanAlike
<1>1. TextInit => TextOfAtoms
  BY DEF TextInit, TextOfAtoms
<1>2. TextOfAtoms /\ [TextNext]_textVars => TextOfAtoms'
  <2> SUFFICES ASSUME TextOfAtoms, [TextNext]_textVars PROVE TextOfAtoms'
    OBVIOUS
  <2>1. CASE AddLexeme
    <3>1. PICK x \in Lexemes[dialect] \cup OpenEnded : text' = text \o x.text
      BY <2>1 DEF AddLexeme
    <3>2. text \in Seq(Atoms) /\ dialect \in Dialects /\ UNCHANGED <<family, dialect>>
      BY <2>1 DEF AddLexeme, TextOfAtoms
    <3>3. x.text \in Seq(Atoms)
      BY <3>2, LexemesAreAtoms
    <3>. QED
      BY <3>1, <3>2, <3>3 DEF TextOfAtoms
  <2>2. CASE AddWord
    BY <2>2 DEF AddWord, TextOfAtoms
  <2>3. CASE UNCHANGED textVars
    BY <2>3 DEF textVars, TextOfAtoms
  <2>. QED
    BY <2>1, <2>2, <2>3 DEF TextNext
<1>3. TextOfAtoms => SlicesScanAlike
  <2> SUFFICES ASSUME family = "lexemes", text \in Seq(Atoms) PROVE SlicesScanAlike
    BY DEF TextOfAtoms, SlicesScanAlike
  <2> DEFINE mask == CodeMask(dialect, text)
  <2>1. ASSUME NEW p \in mask, NEW q \in mask \cup {Len(text) + 1}, p < q,
               ~(p > 1 /\ IsIdent(text[p]) /\ IsIdent(text[p - 1]))
        PROVE  CodeMask(dialect, SubSeq(text, p, q - 1))
                 = {i - p + 1 : i \in {k \in mask : p <= k /\ k < q}}
    BY <2>1, SliceScansAlike
  <2>2. CodeMask(dialect, Redact(dialect, text)) = 1..Len(text)
    BY RedactedIsAllCode
  <2>. QED
    BY <2>1, <2>2, Zenon DEF SlicesScanAlike
<1>. QED
  BY <1>1, <1>2, <1>3, PTL DEF Typing

-----------------------------------------------------------------------------
(* The columns of a result.                                                *)

(* The type go-mysql derives for the values of a column of some kind.      *)
TypeOfKind(kind) ==
  IF kind \in {"bool", "int"} THEN "int64" ELSE IF kind = "float" THEN "float64" ELSE "text"

(* The kind of a column decides the type of every value that is not NULL.  *)
LEMMA OneTypePerColumn ==
  ASSUME NEW type \in ColumnTypes, NEW rows \in Seq(Values), NEW k \in DOMAIN rows,
         rows[k].is # "null"
  PROVE  FieldType(MyColumn(type, rows)[k].go) = TypeOfKind(ColumnKind(type, rows))
<1> DEFINE v == rows[k]
           kind == ColumnKind(type, rows)
<1>1. v \in NonNull(rows)
  BY DEF NonNull
<1>2. MyColumn(type, rows)[k] = ConvertValue(v, type, kind)
  BY DEF MyColumn
<1>3. /\ kind \in {"bool", "int", "float", "string"}
      /\ kind = "bool" => v.is # "nested"
      /\ kind = "int" => AsInt64(v)
      /\ kind = "float" => AsExactFloat64(v)
  BY <1>1 DEF ColumnKind
<1> HIDE DEF kind
<1>4. FieldType(ConvertValue(v, type, kind).go) = TypeOfKind(kind)
  BY <1>3 DEF ConvertValue, FieldType, AsInt64, AsExactFloat64, TypeOfKind
<1>. QED
  BY <1>2, <1>4 DEF kind

(* What becomes of a value of a MySQL column: NULL stays NULL and nothing  *)
(* else becomes NULL, a number keeps its text, only short ones become      *)
(* floats, and an empty string is not handed over as a Go string.          *)
Kept(type, v, c) ==
  /\ (c.go = "nil") = (v.is = "null")
  /\ (v.is = "number" /\ type # "boolean") => c.text = v.text
  /\ c.go = "float64" => Digits[v.text] <= 15
  /\ (v.is = "string" /\ v.text = Empty) => c.go # "string"

(* Converting a value keeps it.                                            *)
LEMMA ValueKeeps ==
  ASSUME NEW type \in ColumnTypes, NEW kind \in {"bool", "int", "float", "string"}, NEW v,
         kind = "bool" => type = "boolean"
  PROVE  Kept(type, v, ConvertValue(v, type, kind))
<1>1. (ConvertValue(v, type, kind).go = "nil") = (v.is = "null")
  BY DEF ConvertValue
<1>2. (v.is = "number" /\ type # "boolean") => ConvertValue(v, type, kind).text = v.text
  BY DEF ConvertValue
<1>3. ConvertValue(v, type, kind).go = "float64" => Digits[v.text] <= 15
  BY DEF ConvertValue, AsExactFloat64
<1>4. (v.is = "string" /\ v.text = Empty) => ConvertValue(v, type, kind).go # "string"
  BY DEF ConvertValue
<1>. QED
  BY <1>1, <1>2, <1>3, <1>4 DEF Kept

(* Whatever a Redash column holds, go-mysql gets one type per column, and  *)
(* the values as they are (columnKind, convertValue, buildResultset).      *)
THEOREM MyColumnsKeepTheirType ==
  \A type \in ColumnTypes, rows \in Seq(Values) : MyColumnKeeps(type, rows)
<1> SUFFICES ASSUME NEW type \in ColumnTypes, NEW rows \in Seq(Values)
             PROVE  MyColumnKeeps(type, rows)
  OBVIOUS
<1> DEFINE column == MyColumn(type, rows)
           kind == ColumnKind(type, rows)
<1>1. DOMAIN column = DOMAIN rows /\ \A k \in DOMAIN rows : column[k] = ConvertValue(rows[k], type, kind)
  BY DEF MyColumn
<1>2. kind \in {"bool", "int", "float", "string"} /\ (kind = "bool" => type = "boolean")
  BY DEF ColumnKind
<1>3. ASSUME NEW k \in DOMAIN rows
      PROVE  Kept(type, rows[k], column[k])
  <2> HIDE DEF column, kind
  <2>. QED
    BY <1>1, <1>2, ValueKeeps
<1>4. ASSUME NEW i \in DOMAIN column, NEW k \in DOMAIN column,
             column[i].go # "nil", column[k].go # "nil"
      PROVE  FieldType(column[i].go) = FieldType(column[k].go)
  <2>1. rows[i].is # "null" /\ rows[k].is # "null"
    BY <1>1, <1>3, <1>4 DEF Kept
  <2>. QED
    BY <1>1, <2>1, OneTypePerColumn
<1>. QED
  BY <1>3, <1>4 DEF Kept, MyColumnKeeps, BuildSimpleResultset

(* A value that is not NULL has one of the other kinds.                    *)
LEMMA NonNullKind ==
  ASSUME NEW rows \in Seq(Values), NEW v \in NonNull(rows) PROVE v.is \in Kinds \ {"null"}
<1>1. PICK k \in DOMAIN rows : v = rows[k] /\ rows[k].is # "null"
  BY DEF NonNull
<1>2. rows[k] \in Values
  OBVIOUS
<1>. QED
  BY <1>1, <1>2 DEF Values

(* A datetime column is sent as the type all its values have, or as text.  *)
LEMMA DatetimeKeeps ==
  ASSUME NEW rows \in Seq(Values), NEW v \in NonNull(rows)
  PROVE  DataForm(v, "datetime", rows) \in Promised(AdvertisedOID("datetime", rows))
<1> DEFINE kinds == {ParseDatetime(w) : w \in NonNull(rows)}
           kind == DatetimeColumnKind(rows)
<1>1. v.is \in Kinds \ {"null"}
  BY NonNullKind
<1>2. ParseDatetime(v) \in kinds
  OBVIOUS
<1>3. /\ kind \in {"naive", "aware", "text"}
      /\ kind = "naive" => ParseDatetime(v) = "naive"
      /\ kind = "aware" => ParseDatetime(v) = "aware"
  BY <1>2 DEF DatetimeColumnKind
<1>4. CASE ColumnIsJSON(rows)
  <2>1. v.is = "nested"
    BY <1>4 DEF ColumnIsJSON
  <2>2. DataForm(v, "datetime", rows) = "json"
    BY <2>1 DEF DataForm, FormatDatetime, ParseDatetime, FormatValue
  <2>3. AdvertisedOID("datetime", rows) = "jsonb"
    BY <1>4 DEF AdvertisedOID
  <2>. QED
    BY <2>2, <2>3 DEF Promised
<1>5. CASE ~ColumnIsJSON(rows) /\ kind = "naive"
  <2>1. AdvertisedOID("datetime", rows) = "timestamp"
    BY <1>5 DEF AdvertisedOID, RedashTypeToPgOID
  <2>2. DataForm(v, "datetime", rows) = "local"
    BY <1>1, <1>3, <1>5 DEF DataForm, FormatDatetime
  <2>. QED
    BY <2>1, <2>2 DEF Promised
<1>6. CASE ~ColumnIsJSON(rows) /\ kind = "aware"
  <2>1. AdvertisedOID("datetime", rows) = "timestamptz"
    BY <1>6 DEF AdvertisedOID
  <2>2. DataForm(v, "datetime", rows) = "utc"
    BY <1>1, <1>3, <1>6 DEF DataForm, FormatDatetime
  <2>. QED
    BY <2>1, <2>2 DEF Promised
<1>7. CASE ~ColumnIsJSON(rows) /\ kind = "text"
  <2>1. AdvertisedOID("datetime", rows) = "text"
    BY <1>7 DEF AdvertisedOID
  <2>2. DataForm(v, "datetime", rows) = FormatValue(v, "")
    BY <1>1, <1>7 DEF DataForm, FormatDatetime
  <2>3. FormatValue(v, "") \in {"json", "tf", "truefalse", "integer", "number", "date", "verbatim"}
    BY DEF FormatValue
  <2>. QED
    BY <2>1, <2>2, <2>3 DEF Promised
<1>. QED
  BY <1>3, <1>4, <1>5, <1>6, <1>7

(* A column of another type sends each value in the form of that type.     *)
LEMMA PlainKeeps ==
  ASSUME NEW type \in ColumnTypes \ {"datetime"}, NEW rows \in Seq(Values), NEW v \in NonNull(rows),
         \A w \in NonNull(rows) : OfType(w, type)
  PROVE  DataForm(v, type, rows) \in Promised(AdvertisedOID(type, rows))
<1>1. v.is \in Kinds \ {"null"}
  BY NonNullKind
<1>2. DataForm(v, type, rows) = FormatValue(v, type)
  BY <1>1 DEF DataForm
<1>3. CASE ColumnIsJSON(rows)
  <2>1. v.is = "nested"
    BY <1>3 DEF ColumnIsJSON
  <2>2. AdvertisedOID(type, rows) = "jsonb" /\ FormatValue(v, type) = "json"
    BY <1>3, <2>1 DEF AdvertisedOID, FormatValue
  <2>. QED
    BY <1>2, <2>2 DEF Promised
<1>4. CASE ~ColumnIsJSON(rows)
  <2>1. AdvertisedOID(type, rows) = RedashTypeToPgOID(type) /\ OfType(v, type)
    BY <1>4 DEF AdvertisedOID
  <2>2. FormatValue(v, type) \in Promised(RedashTypeToPgOID(type))
    <3>1. CASE type = "integer"
      BY <2>1, <3>1 DEF OfType, FormatValue, RedashTypeToPgOID, Promised
    <3>2. CASE type = "float"
      BY <2>1, <3>2 DEF OfType, FormatValue, RedashTypeToPgOID, Promised
    <3>3. CASE type = "boolean"
      BY <2>1, <3>3 DEF OfType, FormatValue, RedashTypeToPgOID, Promised
    <3>4. CASE type = "date"
      BY <2>1, <3>4 DEF OfType, FormatValue, RedashTypeToPgOID, Promised
    <3>5. CASE type = "json"
      BY <2>1, <3>5 DEF OfType, FormatValue, RedashTypeToPgOID, Promised
    <3>6. CASE type = "string"
      BY <1>1, <3>6 DEF FormatValue, RedashTypeToPgOID, Promised, Kinds
    <3>. QED
      BY <3>1, <3>2, <3>3, <3>4, <3>5, <3>6 DEF ColumnTypes
  <2>. QED
    BY <1>2, <2>1, <2>2
<1>. QED
  BY <1>3, <1>4

(* A PostgreSQL client reads every value in the form its advertised type   *)
(* promises: in a datetime column whatever it holds, in any other as long  *)
(* as Redash typed the values rightly (BuildRowDescription, BuildDataRows). *)
THEOREM PgColumnsKeepTheirType ==
  \A type \in ColumnTypes, rows \in Seq(Values) : PgColumnKeeps(type, rows)
BY DatetimeKeeps, PlainKeeps DEF PgColumnKeeps

(* The columns of the listing hold values.                                 *)
RowsAreValues == form \in ColumnTypes => items \in Seq(Values)

(* However many rows Redash returns, both wires keep a column's type.      *)
THEOREM ColumnsAlwaysKeepTheirType == Listing => []ColumnsKeepTheirType
<1>1. ListInit => RowsAreValues
  BY DEF ListInit, RowsAreValues
<1>2. RowsAreValues /\ [AddRow \/ ListSource]_<<form, items>> => RowsAreValues'
  <2> SUFFICES ASSUME RowsAreValues, [AddRow \/ ListSource]_<<form, items>>
               PROVE  RowsAreValues'
    OBVIOUS
  <2>1. CASE AddRow
    <3>1. PICK v \in RowValues : items' = Append(items, v)
      BY <2>1 DEF AddRow
    <3>2. v \in Values
      BY ListingsAssumption
    <3>3. items \in Seq(Values) /\ form' = form
      BY <2>1 DEF AddRow, RowsAreValues
    <3>. QED
      BY <3>1, <3>2, <3>3 DEF RowsAreValues
  <2>2. CASE ListSource
    BY <2>2 DEF ListSource, RowsAreValues, ColumnTypes
  <2>3. CASE UNCHANGED <<form, items>>
    BY <2>3 DEF RowsAreValues
  <2>. QED
    BY <2>1, <2>2, <2>3
<1>3. RowsAreValues => ColumnsKeepTheirType
  BY MyColumnsKeepTheirType, PgColumnsKeepTheirType DEF RowsAreValues, ColumnsKeepTheirType
<1>. QED
  BY <1>1, <1>2, <1>3, PTL DEF Listing

-----------------------------------------------------------------------------
(* The registry (NewDataSourceRegistry, Lookup).                           *)

(* The sources of one answer of Redash: their ids and names are distinct.  *)
Distinct(s, n) ==
  /\ \A k \in 1..n : s[k] \in ListedSources
  /\ \A j, k \in 1..n : s[j].id = s[k].id \/ s[j].name = s[k].name => j = k

Listed(s) == s \in Seq(ListedSources) /\ Distinct(s, Len(s))

(* The maps from names to sources.                                         *)
AnyName == DOMAIN Lower \cup DOMAIN Rank
Maps == UNION {[D -> ListedSources] : D \in SUBSET AnyName}

(* What is known of a listed source.                                       *)
LEMMA SourceFacts ==
  ASSUME NEW ds \in ListedSources
  PROVE  /\ ds.id \in Int /\ ds.name \in DOMAIN Lower /\ ds.name \in AnyName
         /\ Lower[ds.name] \in DOMAIN Rank /\ Lower[ds.name] \in AnyName
         /\ Rank[Lower[ds.name]] \in Int
  BY ListingsAssumption, RegistryAssumption DEF AnyName

LEMMA PutIsMap ==
  ASSUME NEW map \in Maps, NEW key \in AnyName, NEW ds \in ListedSources
  PROVE  /\ Put(map, key, ds) \in Maps
         /\ DOMAIN Put(map, key, ds) = DOMAIN map \cup {key}
         /\ Put(map, key, ds)[key] = ds
         /\ \A k \in DOMAIN map : k # key => Put(map, key, ds)[k] = map[k]
<1>1. PICK D \in SUBSET AnyName : map \in [D -> ListedSources]
  BY DEF Maps
<1>2. Put(map, key, ds) \in [D \cup {key} -> ListedSources]
  BY <1>1 DEF Put
<1>3. D \cup {key} \in SUBSET AnyName
  BY <1>1
<1>4. Put(map, key, ds) \in Maps
  BY <1>2, <1>3 DEF Maps
<1>. QED
  BY <1>1, <1>4 DEF Put

LEMMA NoSourcesIsMap == NoSources \in Maps /\ DOMAIN NoSources = {}
<1>1. NoSources \in [{} -> ListedSources] /\ DOMAIN NoSources = {}
  BY DEF NoSources
<1>. QED
  BY <1>1 DEF Maps

(* The exact map after n turns: every source under its name.               *)
UnderItsName(s, n, map) ==
  /\ DOMAIN map = {s[j].name : j \in 1..n}
  /\ \A j \in 1..n : map[s[j].name] = s[j]

(* The loop that fills byExact.                                            *)
ExactLoop(s, n, f) ==
  f = [k \in 0..n |-> IF k = 0 THEN NoSources ELSE Put(f[k - 1], s[k].name, s[k])]

LEMMA ExactLoopEnds ==
  ASSUME NEW n \in Nat, NEW s, Distinct(s, n) PROVE \E f : ExactLoop(s, n, f)
<1> DEFINE G == [k \in 1..n |-> [map \in Maps |-> Put(map, s[k].name, s[k])]]
<1>1. \A k \in 1..n : s[k] \in ListedSources /\ s[k].name \in AnyName
  BY SourceFacts DEF Distinct
<1>2. G \in [1..n -> [Maps -> Maps]]
  BY <1>1, PutIsMap
<1>3. PICK f \in [0..n -> Maps] : f[0] = NoSources /\ \A k \in 1..n : f[k] = G[k][f[k - 1]]
  <2>1. LoopRuns(n, Maps, NoSources, G)
    <3> HIDE DEF G
    <3>. QED
      BY <1>2, NoSourcesIsMap, ForwardRecursion
  <2>. QED
    BY <2>1, Zenon DEF LoopRuns
<1>4. ASSUME NEW k \in 0..n, k # 0 PROVE f[k] = Put(f[k - 1], s[k].name, s[k])
  <2>1. k \in 1..n /\ k - 1 \in 0..n
    BY <1>4
  <2>. QED
    BY <2>1, <1>3
<1>5. ExactLoop(s, n, f)
  BY <1>3, <1>4 DEF ExactLoop
<1>. QED
  BY <1>5

(* After k turns byExact has the first k sources under their names.        *)
LEMMA ExactLoopKeeps ==
  ASSUME NEW n \in Nat, NEW s, Distinct(s, n), NEW f, ExactLoop(s, n, f)
  PROVE  UnderItsName(s, n, f[n])
<1> DEFINE P == {k \in 0..n : /\ f[k] \in Maps
                              /\ DOMAIN f[k] = {s[j].name : j \in 1..k}
                              /\ \A j \in 1..k : f[k][s[j].name] = s[j]}
<1>1. f[0] = NoSources /\ \A k \in 1..n : f[k] = Put(f[k - 1], s[k].name, s[k])
  BY DEF ExactLoop
<1>2. 0 \in P
  BY <1>1, NoSourcesIsMap
<1>3. ASSUME NEW k \in 1..n, k - 1 \in P PROVE k \in P
  <2>1. s[k] \in ListedSources /\ s[k].name \in AnyName
    BY SourceFacts DEF Distinct
  <2>2. /\ f[k - 1] \in Maps /\ DOMAIN f[k - 1] = {s[j].name : j \in 1..(k - 1)}
        /\ \A j \in 1..(k - 1) : f[k - 1][s[j].name] = s[j]
    BY <1>3
  <2>3. /\ f[k] \in Maps /\ DOMAIN f[k] = DOMAIN f[k - 1] \cup {s[k].name}
        /\ f[k][s[k].name] = s[k]
        /\ \A x \in DOMAIN f[k - 1] : x # s[k].name => f[k][x] = f[k - 1][x]
    <3> DEFINE m == f[k - 1]
    <3>1. /\ Put(m, s[k].name, s[k]) \in Maps
          /\ DOMAIN Put(m, s[k].name, s[k]) = DOMAIN m \cup {s[k].name}
          /\ Put(m, s[k].name, s[k])[s[k].name] = s[k]
          /\ \A x \in DOMAIN m : x # s[k].name => Put(m, s[k].name, s[k])[x] = m[x]
      <4>1. m \in Maps
        BY <2>2
      <4> HIDE DEF m
      <4>. QED
        BY <4>1, <2>1, PutIsMap, Zenon
    <3>. QED
      BY <3>1, <1>1, Zenon
  <2>4. \A j \in 1..k : j = k \/ j \in 1..(k - 1)
    OBVIOUS
  <2>5. k \in 1..k /\ \A j \in 1..(k - 1) : j \in 1..k /\ j \in 1..n /\ j # k
    OBVIOUS
  <2>6. DOMAIN f[k] = {s[j].name : j \in 1..k}
    <3>1. \A x \in DOMAIN f[k] : x \in {s[j].name : j \in 1..k}
      BY <2>2, <2>3, <2>5
    <3>2. \A j \in 1..k : s[j].name \in DOMAIN f[k]
      BY <2>2, <2>3, <2>4
    <3>. QED
      BY <3>1, <3>2
  <2>7. ASSUME NEW j \in 1..k PROVE f[k][s[j].name] = s[j]
    <3>1. CASE j = k
      BY <3>1, <2>3
    <3>2. CASE j \in 1..(k - 1)
      <4>1. s[j].name \in DOMAIN f[k - 1] /\ s[j].name # s[k].name
        BY <3>2, <2>2, <2>5 DEF Distinct
      <4>. QED
        BY <4>1, <3>2, <2>2, <2>3
    <3>. QED
      BY <2>4, <3>1, <3>2
  <2>8. k \in 0..n
    OBVIOUS
  <2>. QED
    BY <2>3, <2>6, <2>7, <2>8
<1> HIDE DEF P
<1>4. n \in P
  BY <1>2, <1>3, UpTo
<1>. QED
  BY <1>4, Zenon DEF P, UnderItsName

(* The exact map has every source under its name.                          *)
LEMMA ByExactIs ==
  ASSUME NEW s, NEW n \in Nat, n = Len(s), Distinct(s, n)
  PROVE  UnderItsName(s, n, ByExact(s))
<1>1. \E f : ExactLoop(s, n, f)
  BY ExactLoopEnds
<1>2. PICK f : ExactLoop(s, n, f) /\ ByExact(s) = f[n]
  BY <1>1, Zenon DEF ByExact, ExactLoop
<1>. QED
  BY <1>2, ExactLoopKeeps, Zenon
(* The case-insensitive map after k turns: under every lower-case name the *)
(* lowest id that has it.                                                  *)
LowestById(s, k, map) ==
  /\ map \in Maps
  /\ DOMAIN map = {Lower[s[j].name] : j \in 1..k}
  /\ \A x \in DOMAIN map :
       /\ \E j \in 1..k : map[x] = s[j] /\ Lower[s[j].name] = x
       /\ \A j \in 1..k : Lower[s[j].name] = x => map[x].id <= s[j].id

(* A turn keeps it so.                                                     *)
LEMMA PutLowerKeeps ==
  ASSUME NEW n \in Nat, NEW s, Distinct(s, n), NEW k \in 1..n, NEW map, LowestById(s, k - 1, map)
  PROVE  LowestById(s, k, PutLower(map, s[k]))
<1> DEFINE key == Lower[s[k].name]
           new == PutLower(map, s[k])
<1>1. \A j \in 1..n : s[j] \in ListedSources /\ s[j].id \in Int /\ Lower[s[j].name] \in AnyName
  BY SourceFacts DEF Distinct
<1>2. /\ k \in 1..k /\ \A j \in 1..(k - 1) : j \in 1..k /\ j \in 1..n
      /\ \A j \in 1..k : j = k \/ j \in 1..(k - 1)
  OBVIOUS
<1>3. /\ map \in Maps /\ DOMAIN map = {Lower[s[j].name] : j \in 1..(k - 1)}
      /\ \A x \in DOMAIN map :
           /\ \E j \in 1..(k - 1) : map[x] = s[j] /\ Lower[s[j].name] = x
           /\ \A j \in 1..(k - 1) : Lower[s[j].name] = x => map[x].id <= s[j].id
  BY DEF LowestById
<1>4. CASE key \in DOMAIN map /\ s[k].id >= map[key].id
  <2>1. new = map
    BY <1>4 DEF PutLower
  <2>2. map[key].id <= s[k].id
    <3>1. map[key].id \in Int /\ s[k].id \in Int
      BY <1>1, <1>2, <1>3, <1>4
    <3>. QED
      BY <3>1, <1>4
  <2>3. DOMAIN map = {Lower[s[j].name] : j \in 1..k}
    <3>1. \A x \in DOMAIN map : x \in {Lower[s[j].name] : j \in 1..k}
      BY <1>2, <1>3
    <3>2. \A j \in 1..k : Lower[s[j].name] \in DOMAIN map
      BY <1>2, <1>3, <1>4
    <3>. QED
      BY <3>1, <3>2
  <2>4. ASSUME NEW x \in DOMAIN map
        PROVE  /\ \E j \in 1..k : map[x] = s[j] /\ Lower[s[j].name] = x
               /\ \A j \in 1..k : Lower[s[j].name] = x => map[x].id <= s[j].id
    BY <1>2, <1>3, <2>2, Zenon
  <2>. QED
    BY <1>3, <2>1, <2>3, <2>4, Zenon DEF LowestById
<1>5. CASE ~(key \in DOMAIN map /\ s[k].id >= map[key].id)
  <2>1. new = Put(map, key, s[k])
    BY <1>5 DEF PutLower
  <2>2. /\ new \in Maps /\ DOMAIN new = DOMAIN map \cup {key} /\ new[key] = s[k]
        /\ \A x \in DOMAIN map : x # key => new[x] = map[x]
    <3>1. s[k] \in ListedSources /\ key \in AnyName
      BY <1>1
    <3>2. /\ Put(map, key, s[k]) \in Maps
          /\ DOMAIN Put(map, key, s[k]) = DOMAIN map \cup {key}
          /\ Put(map, key, s[k])[key] = s[k]
          /\ \A x \in DOMAIN map : x # key => Put(map, key, s[k])[x] = map[x]
      <4>1. map \in Maps
        BY <1>3
      <4> HIDE DEF key, new
      <4>. QED
        BY <3>1, <4>1, PutIsMap, Zenon
    <3> HIDE DEF key, new
    <3>. QED
      BY <3>2, <2>1, Zenon
  <2>3. DOMAIN new = {Lower[s[j].name] : j \in 1..k}
    <3> HIDE DEF new
    <3>1. \A x \in DOMAIN new : x \in {Lower[s[j].name] : j \in 1..k}
      BY <1>2, <1>3, <2>2
    <3>2. \A j \in 1..k : Lower[s[j].name] \in DOMAIN new
      BY <1>2, <1>3, <2>2
    <3>. QED
      BY <3>1, <3>2
  <2>4. ASSUME NEW j \in 1..k, Lower[s[j].name] = key PROVE s[k].id <= s[j].id
    <3>1. CASE j = k
      BY <1>1, <3>1
    <3>2. CASE j \in 1..(k - 1)
      <4>1. key \in DOMAIN map
        BY <1>3, <2>4, <3>2
      <4>2. map[key].id <= s[j].id
        BY <1>3, <2>4, <3>2, <4>1
      <4>3. map[key].id \in Int /\ s[k].id \in Int /\ s[j].id \in Int
        BY <1>1, <1>2, <1>3, <4>1, <3>2
      <4>4. ~(s[k].id >= map[key].id)
        BY <1>5, <4>1
      <4>. QED
        BY <4>2, <4>3, <4>4
    <3>. QED
      BY <1>2, <3>1, <3>2
  <2>5. ASSUME NEW x \in DOMAIN new
        PROVE  /\ \E j \in 1..k : new[x] = s[j] /\ Lower[s[j].name] = x
               /\ \A j \in 1..k : Lower[s[j].name] = x => new[x].id <= s[j].id
    <3> HIDE DEF new
    <3>1. CASE x = key
      BY <1>2, <2>2, <2>4, <3>1, Zenon
    <3>2. CASE x # key
      <4>1. x \in DOMAIN map /\ new[x] = map[x]
        BY <2>2, <2>5, <3>2
      <4>. QED
        BY <1>2, <1>3, <3>2, <4>1, Zenon
    <3>. QED
      BY <3>1, <3>2
  <2> HIDE DEF new
  <2>6. LowestById(s, k, new)
    BY <2>2, <2>3, <2>5, Zenon DEF LowestById
  <2>. QED
    BY <2>6 DEF new
<1>. QED
  BY <1>4, <1>5

(* The loop that fills byLower.                                            *)
LowerLoop(s, n, f) ==
  f = [k \in 0..n |-> IF k = 0 THEN NoSources ELSE PutLower(f[k - 1], s[k])]

LEMMA LowerLoopEnds ==
  ASSUME NEW n \in Nat, NEW s, Distinct(s, n) PROVE \E f : LowerLoop(s, n, f)
<1> DEFINE G == [k \in 1..n |-> [map \in Maps |-> PutLower(map, s[k])]]
<1>1. \A k \in 1..n : s[k] \in ListedSources /\ Lower[s[k].name] \in AnyName
  BY SourceFacts DEF Distinct
<1>2. G \in [1..n -> [Maps -> Maps]]
  <2>1. ASSUME NEW k \in 1..n, NEW map \in Maps PROVE PutLower(map, s[k]) \in Maps
    <3>1. Put(map, Lower[s[k].name], s[k]) \in Maps
      BY <1>1, PutIsMap
    <3>. QED
      BY <3>1, Zenon DEF PutLower
  <2>. QED
    BY <2>1
<1>3. PICK f \in [0..n -> Maps] : f[0] = NoSources /\ \A k \in 1..n : f[k] = G[k][f[k - 1]]
  <2>1. LoopRuns(n, Maps, NoSources, G)
    <3> HIDE DEF G
    <3>. QED
      BY <1>2, NoSourcesIsMap, ForwardRecursion
  <2>. QED
    BY <2>1, Zenon DEF LoopRuns
<1>4. ASSUME NEW k \in 0..n, k # 0 PROVE f[k] = PutLower(f[k - 1], s[k])
  <2>1. k \in 1..n /\ k - 1 \in 0..n
    BY <1>4
  <2>. QED
    BY <2>1, <1>3
<1>5. LowerLoop(s, n, f)
  BY <1>3, <1>4 DEF LowerLoop
<1>. QED
  BY <1>5

(* The case-insensitive map has the lowest id of every name.               *)
LEMMA ByLowerIs ==
  ASSUME NEW s, NEW n \in Nat, n = Len(s), Distinct(s, n)
  PROVE  LowestById(s, n, ByLower(s))
<1>1. \E f : LowerLoop(s, n, f)
  BY LowerLoopEnds
<1>2. PICK f : LowerLoop(s, n, f) /\ ByLower(s) = f[n]
  BY <1>1, Zenon DEF ByLower, LowerLoop
<1> DEFINE P == {k \in 0..n : LowestById(s, k, f[k])}
<1>3. 0 \in P /\ \A k \in 1..n : k - 1 \in P => k \in P
  <2>1. 0 \in 0..n /\ \A k \in 1..n : k \in 0..n /\ k # 0
    OBVIOUS
  <2>2. f[0] = NoSources /\ \A k \in 1..n : f[k] = PutLower(f[k - 1], s[k])
    BY <1>2, <2>1, Zenon DEF LowerLoop
  <2>3. LowestById(s, 0, NoSources)
    BY NoSourcesIsMap DEF LowestById
  <2>4. ASSUME NEW k \in 1..n, LowestById(s, k - 1, f[k - 1]) PROVE LowestById(s, k, f[k])
    BY <2>2, <2>4, PutLowerKeeps, Zenon
  <2>. QED
    BY <2>1, <2>2, <2>3, <2>4, Zenon
<1> HIDE DEF P
<1>4. n \in P
  <2>1. n \in 0..n
    OBVIOUS
  <2>. QED
    BY <2>1, <1>3, UpTo, Zenon
<1>. QED
  BY <1>2, <1>4, Zenon DEF P
(* The two maps of the registry.                                           *)
LEMMA RegistryHas ==
  ASSUME NEW s
  PROVE  /\ NewDataSourceRegistry(s).byExact = ByExact(s)
         /\ NewDataSourceRegistry(s).byLower = ByLower(s)
  BY DEF NewDataSourceRegistry

(* A name stands for the source it should, whatever the order (Lookup).    *)
LEMMA LooksUpTheMeant ==
  ASSUME Listed(items), NEW name \in DOMAIN Lower
  PROVE  Lookup(NewDataSourceRegistry(items), name) = Meant(name)
<1>1. PICK n \in Nat : n = Len(items) /\ Distinct(items, n) /\ DOMAIN items = 1..n
  BY DEF Listed
<1> DEFINE E == ByExact(items)
           L == ByLower(items)
           exact == {ds \in {items[k] : k \in DOMAIN items} : ds.name = name}
           any == {ds \in {items[k] : k \in DOMAIN items} : Lower[ds.name] = Lower[name]}
<1>2. DOMAIN E = {items[j].name : j \in 1..n} /\ \A j \in 1..n : E[items[j].name] = items[j]
  <2>1. UnderItsName(items, n, E)
    BY <1>1, ByExactIs, Zenon
  <2>. QED
    BY <2>1, Zenon DEF UnderItsName
<1>3. LowestById(items, n, L)
  BY <1>1, ByLowerIs, Zenon
<1>4. Lookup(NewDataSourceRegistry(items), name)
        = IF name \in DOMAIN E THEN {E[name]}
          ELSE {L[k] : k \in {Lower[name]} \cap DOMAIN L}
  BY RegistryHas, Zenon DEF Lookup
<1>5. Meant(name) = IF exact # {} THEN exact ELSE {ds \in any : \A e \in any : ds.id <= e.id}
  BY Zenon DEF Meant
<1>6. /\ \A j \in 1..n : items[j].id \in Int
      /\ \A j, k \in 1..n : items[j].id = items[k].id \/ items[j].name = items[k].name => j = k
  BY <1>1, SourceFacts DEF Distinct
<1> HIDE DEF E, L
<1>7. CASE name \in DOMAIN E
  <2>1. PICK j \in 1..n : items[j].name = name
    BY <1>2, <1>7
  <2>2. exact = {items[j]}
    BY <1>1, <1>6, <2>1, Zenon
  <2>3. E[name] = items[j]
    BY <1>2, <2>1, Zenon
  <2> HIDE DEF exact, any
  <2>4. exact # {}
    BY <2>2, Zenon
  <2>. QED
    BY <1>4, <1>5, <1>7, <2>2, <2>3, <2>4, Zenon
<1>8. CASE name \notin DOMAIN E
  <2>1. exact = {}
    BY <1>1, <1>2, <1>8, Zenon
  <2>2. CASE Lower[name] \in DOMAIN L
    <3>1. PICK j \in 1..n : L[Lower[name]] = items[j] /\ Lower[items[j].name] = Lower[name]
      BY <1>3, <2>2, Zenon DEF LowestById
    <3>2. \A k \in 1..n : Lower[items[k].name] = Lower[name] => items[j].id <= items[k].id
      BY <1>3, <2>2, <3>1, Zenon DEF LowestById
    <3>3. items[j] \in any /\ \A e \in any : items[j].id <= e.id
      BY <1>1, <3>1, <3>2, Zenon
    <3>4. ASSUME NEW ds \in any, \A e \in any : ds.id <= e.id PROVE ds = items[j]
      <4>1. PICK k \in 1..n : ds = items[k]
        BY <1>1, <3>4, Zenon
      <4>2. items[k].id <= items[j].id
        BY <3>3, <3>4, <4>1, Zenon
      <4>3. items[j].id <= items[k].id
        BY <3>3, <3>4, <4>1, Zenon
      <4>4. items[j].id = items[k].id
        <5>1. items[j].id \in Int /\ items[k].id \in Int
          BY <1>6
        <5> HIDE <1>1
        <5>. QED
          BY <5>1, <4>2, <4>3
      <4>. QED
        BY <1>6, <4>1, <4>4, Zenon
    <3>5. {ds \in any : \A e \in any : ds.id <= e.id} = {items[j]}
      <4> HIDE DEF any
      <4>. QED
        BY <3>3, <3>4, Zenon
    <3>6. {L[k] : k \in {Lower[name]} \cap DOMAIN L} = {items[j]}
      BY <2>2, <3>1, Zenon
    <3> HIDE DEF exact, any
    <3>. QED
      BY <1>4, <1>5, <1>8, <2>1, <3>5, <3>6, Zenon
  <2>3. CASE Lower[name] \notin DOMAIN L
    <3>1. any = {}
      <4> SUFFICES ASSUME NEW k \in DOMAIN items, Lower[items[k].name] = Lower[name] PROVE FALSE
        BY Zenon
      <4>. QED
        BY <1>1, <1>3, <2>3, Zenon DEF LowestById
    <3>2. {L[k] : k \in {Lower[name]} \cap DOMAIN L} = {}
      BY <2>3, Zenon
    <3>3. {ds \in any : \A e \in any : ds.id <= e.id} = {}
      BY <3>1
    <3> HIDE DEF exact, any
    <3>. QED
      BY <1>4, <1>5, <1>8, <2>1, <3>2, <3>3, Zenon
  <2>. QED
    BY <2>2, <2>3
<1>. QED
  BY <1>7, <1>8

-----------------------------------------------------------------------------
(* The sources each wire serves (FilterByType).                            *)

(* After k turns the filtered list has each of the first k sources of the  *)
(* types once, and no other.                                               *)
HasOfTypes(s, k, types, r) ==
  /\ r \in Seq(ListedSources)
  /\ {r[x] : x \in DOMAIN r} = {s[j] : j \in {i \in 1..k : s[i].type \in types}}
  /\ \A x, y \in DOMAIN r : r[x] = r[y] => x = y

(* A turn of the filter.                                                   *)
Filtered(r, ds, types) == IF ds.type \in types THEN Append(r, ds) ELSE r

LEMMA FilteredKeeps ==
  ASSUME NEW n \in Nat, NEW s, Distinct(s, n), NEW types, NEW k \in 1..n, NEW r,
         HasOfTypes(s, k - 1, types, r)
  PROVE  HasOfTypes(s, k, types, Filtered(r, s[k], types))
<1>1. /\ k \in 1..k /\ \A j \in 1..(k - 1) : j \in 1..k /\ j \in 1..n /\ j # k
      /\ \A j \in 1..k : j = k \/ j \in 1..(k - 1)
  OBVIOUS
<1>2. /\ r \in Seq(ListedSources)
      /\ {r[x] : x \in DOMAIN r} = {s[j] : j \in {i \in 1..(k - 1) : s[i].type \in types}}
      /\ \A x, y \in DOMAIN r : r[x] = r[y] => x = y
  BY DEF HasOfTypes
<1>3. s[k] \in ListedSources /\ \A j \in 1..(k - 1) : s[j] # s[k]
  BY <1>1 DEF Distinct
<1>4. CASE s[k].type \notin types
  <2>1. {j \in 1..(k - 1) : s[j].type \in types} = {j \in 1..k : s[j].type \in types}
    BY <1>1, <1>4, Zenon
  <2>2. Filtered(r, s[k], types) = r
    BY <1>4 DEF Filtered
  <2>. QED
    BY <1>2, <2>1, <2>2, Zenon DEF HasOfTypes
<1>5. CASE s[k].type \in types
  <2> DEFINE t == Append(r, s[k])
  <2>1. PICK m \in Nat : m = Len(r)
    BY <1>2
  <2>2. /\ t \in Seq(ListedSources) /\ DOMAIN r = 1..m /\ DOMAIN t = 1..(m + 1)
        /\ t[m + 1] = s[k] /\ \A x \in 1..m : t[x] = r[x]
    BY <1>2, <1>3, <2>1
  <2>3. /\ m + 1 \in 1..(m + 1) /\ \A x \in 1..m : x \in 1..(m + 1)
        /\ \A x \in 1..(m + 1) : x = m + 1 \/ x \in 1..m
    OBVIOUS
  <2> HIDE DEF t
  <2>4. ASSUME NEW x \in 1..m PROVE \E j \in 1..(k - 1) : r[x] = s[j] /\ s[j].type \in types
    <3>1. r[x] \in {r[y] : y \in DOMAIN r}
      BY <2>2, Zenon
    <3>2. r[x] \in {s[j] : j \in {i \in 1..(k - 1) : s[i].type \in types}}
      BY <1>2, <3>1, Zenon
    <3>. QED
      BY <3>2, Zenon
  <2>5. ASSUME NEW j \in 1..(k - 1), s[j].type \in types PROVE \E x \in 1..m : r[x] = s[j]
    <3>1. s[j] \in {s[i] : i \in {i \in 1..(k - 1) : s[i].type \in types}}
      BY <2>5, Zenon
    <3>2. s[j] \in {r[y] : y \in DOMAIN r}
      BY <1>2, <3>1, Zenon
    <3>. QED
      BY <2>2, <3>2, Zenon
  <2>6. ASSUME NEW x \in 1..(m + 1)
        PROVE  t[x] \in {s[j] : j \in {i \in 1..k : s[i].type \in types}}
    <3>1. CASE x = m + 1
      BY <3>1, <1>1, <1>5, <2>2, Zenon
    <3>2. CASE x \in 1..m
      BY <3>2, <1>1, <2>2, <2>4, Zenon
    <3>. QED
      BY <2>3, <3>1, <3>2, Zenon
  <2>7. ASSUME NEW j \in 1..k, s[j].type \in types PROVE \E x \in 1..(m + 1) : t[x] = s[j]
    BY <1>1, <2>2, <2>3, <2>5, <2>7, Zenon
  <2>8. {t[x] : x \in DOMAIN t} = {s[j] : j \in {i \in 1..k : s[i].type \in types}}
    BY <2>2, <2>6, <2>7, Zenon
  <2>9. ASSUME NEW x \in 1..(m + 1), NEW y \in 1..(m + 1), t[x] = t[y] PROVE x = y
    <3>1. CASE x = m + 1 /\ y \in 1..m
      <4>1. r[y] = s[k]
        BY <2>2, <2>9, <3>1, Zenon
      <4>. QED
        BY <1>3, <2>4, <3>1, <4>1, Zenon
    <3>2. CASE y = m + 1 /\ x \in 1..m
      <4>1. r[x] = s[k]
        BY <2>2, <2>9, <3>2, Zenon
      <4>. QED
        BY <1>3, <2>4, <3>2, <4>1, Zenon
    <3>3. CASE x \in 1..m /\ y \in 1..m
      BY <1>2, <2>2, <2>9, <3>3, Zenon
    <3>. QED
      BY <2>3, <3>1, <3>2, <3>3, Zenon
  <2>10. HasOfTypes(s, k, types, t)
    BY <2>2, <2>8, <2>9, Zenon DEF HasOfTypes
  <2>. QED
    BY <1>5, <2>10, Zenon DEF Filtered, t
<1>. QED
  BY <1>4, <1>5

(* The loop of FilterByType.                                               *)
FilterLoop(s, n, types, f) ==
  f = [k \in 0..n |-> IF k = 0 THEN <<>> ELSE Filtered(f[k - 1], s[k], types)]

LEMMA FilterLoopEnds ==
  ASSUME NEW n \in Nat, NEW s, Distinct(s, n), NEW types PROVE \E f : FilterLoop(s, n, types, f)
<1> DEFINE R == Seq(ListedSources)
           G == [k \in 1..n |-> [r \in R |-> Filtered(r, s[k], types)]]
<1>1. \A k \in 1..n : s[k] \in ListedSources
  BY DEF Distinct
<1>2. G \in [1..n -> [R -> R]] /\ <<>> \in R
  BY <1>1 DEF Filtered
<1> HIDE DEF R
<1>3. PICK f \in [0..n -> R] : f[0] = <<>> /\ \A k \in 1..n : f[k] = G[k][f[k - 1]]
  <2>1. LoopRuns(n, R, <<>>, G)
    <3> HIDE DEF G
    <3>. QED
      BY <1>2, ForwardRecursion, Zenon
  <2>. QED
    BY <2>1, Zenon DEF LoopRuns
<1>4. ASSUME NEW k \in 0..n, k # 0 PROVE f[k] = Filtered(f[k - 1], s[k], types)
  <2>1. k \in 1..n /\ k - 1 \in 0..n
    BY <1>4
  <2>. QED
    BY <2>1, <1>3, Zenon
<1>5. FilterLoop(s, n, types, f)
  BY <1>3, <1>4, Zenon DEF FilterLoop
<1>. QED
  BY <1>5

(* What FilterByType returns.                                              *)
LEMMA FilterByTypeIs ==
  ASSUME NEW s, NEW n \in Nat, n = Len(s), Distinct(s, n), NEW types
  PROVE  HasOfTypes(s, n, types, FilterByType(s, types))
<1>1. \E f : FilterLoop(s, n, types, f)
  BY FilterLoopEnds
<1>2. PICK f : FilterLoop(s, n, types, f) /\ FilterByType(s, types) = f[n]
  BY <1>1, Zenon DEF FilterByType, FilterLoop, Filtered
<1> DEFINE P == {k \in 0..n : HasOfTypes(s, k, types, f[k])}
<1>3. 0 \in P /\ \A k \in 1..n : k - 1 \in P => k \in P
  <2>1. 0 \in 0..n /\ \A k \in 1..n : k \in 0..n /\ k # 0
    OBVIOUS
  <2>2. f[0] = <<>> /\ \A k \in 1..n : f[k] = Filtered(f[k - 1], s[k], types)
    BY <1>2, <2>1, Zenon DEF FilterLoop
  <2>3. HasOfTypes(s, 0, types, <<>>)
    BY DEF HasOfTypes
  <2>4. ASSUME NEW k \in 1..n, HasOfTypes(s, k - 1, types, f[k - 1])
        PROVE  HasOfTypes(s, k, types, f[k])
    BY <2>2, <2>4, FilteredKeeps, Zenon
  <2>. QED
    BY <2>1, <2>2, <2>3, <2>4, Zenon
<1> HIDE DEF P
<1>4. n \in P
  <2>1. n \in 0..n
    OBVIOUS
  <2>. QED
    BY <2>1, <1>3, UpTo, Zenon
<1>. QED
  BY <1>2, <1>4, Zenon DEF P

-----------------------------------------------------------------------------
(* The published list (NewDataSourceViews).                                *)

(* The views of the sources.                                               *)
ListedViews == {View(ds) : ds \in ListedSources}

LEMMA ViewFacts ==
  ASSUME NEW ds \in ListedSources
  PROVE  /\ View(ds) \in ListedViews /\ View(ds).id = ds.id /\ View(ds).name = ds.name
         /\ View(ds).type = ds.type /\ View(ds).wire = WireProtocol(ds.type)
  BY DEF View, ListedViews

(* ViewBefore orders them by name, then by id.                             *)
LEMMA ViewsAreOrdered ==
  ASSUME NEW u \in ListedViews, NEW v \in ListedViews, NEW w \in ListedViews
  PROVE  /\ v.id \in Int
         /\ ~(ViewBefore(v, w) /\ ViewBefore(w, v))
         /\ v.id # w.id => ViewBefore(v, w) \/ ViewBefore(w, v)
         /\ ~ViewBefore(v, u) /\ ~ViewBefore(w, v) => ~ViewBefore(w, u)
         /\ ViewBefore(u, v) /\ ~ViewBefore(w, v) => ~ViewBefore(w, u)
<1>1. ASSUME NEW x \in ListedViews PROVE x.id \in Int /\ Rank[Lower[x.name]] \in Int
  <2>1. PICK ds \in ListedSources : x = View(ds)
    BY <1>1 DEF ListedViews
  <2>. QED
    BY <2>1, ViewFacts, SourceFacts
<1>2. /\ u.id \in Int /\ Rank[Lower[u.name]] \in Int /\ v.id \in Int /\ Rank[Lower[v.name]] \in Int
      /\ w.id \in Int /\ Rank[Lower[w.name]] \in Int
  BY <1>1
<1>. QED
  BY <1>2 DEF ViewBefore

(* The order p puts the first n views in is the one sort.Slice asks for.   *)
SortedBy(w, n, p) == \A j, k \in 1..n : j < k => ~ViewBefore(w[p[k]], w[p[j]])

(* One more view has its place in a sorted list.                           *)
LEMMA InsertView ==
  ASSUME NEW m \in Nat, NEW w, \A k \in 1..(m + 1) : w[k] \in ListedViews,
         NEW q \in Bijections(m), SortedBy(w, m, q)
  PROVE  \E p \in Bijections(m + 1) : SortedBy(w, m + 1, p)
<1> DEFINE S == {j \in 1..m : ViewBefore(w[m + 1], w[q[j]])} \cup {m + 1}
           i == Min(S)
           p == [k \in 1..(m + 1) |-> IF k < i THEN q[k] ELSE IF k = i THEN m + 1 ELSE q[k - 1]]
<1>0. /\ q \in [1..m -> 1..m] /\ \A j, k \in 1..m : q[j] = q[k] => j = k
      /\ \A k \in 1..m : \E j \in 1..m : q[j] = k
  BY DEF Bijections
<1>1. i \in S /\ \A j \in S : i <= j
  <2>1. S \subseteq Nat /\ m + 1 \in S
    OBVIOUS
  <2> HIDE DEF S
  <2>2. S # {}
    BY <2>1
  <2>. QED
    BY <2>1, <2>2, MinOfNat
<1>2. /\ i \in 1..(m + 1) /\ (i <= m => ViewBefore(w[m + 1], w[q[i]]))
      /\ \A j \in 1..m : j < i => ~ViewBefore(w[m + 1], w[q[j]])
  <2>1. i \in 1..(m + 1) /\ (i <= m => ViewBefore(w[m + 1], w[q[i]]))
    <3> HIDE DEF i
    <3>. QED
      BY <1>1
  <2>2. ASSUME NEW j \in 1..m, j < i, ViewBefore(w[m + 1], w[q[j]]) PROVE FALSE
    <3>1. i <= j
      BY <1>1, <2>2, Zenon
    <3> HIDE DEF i, S
    <3>. QED
      BY <2>1, <2>2, <3>1
  <2>. QED
    BY <2>1, <2>2, Zenon
<1> HIDE DEF i, S
<1>3. ASSUME NEW k \in 1..(m + 1)
      PROVE  \/ k < i /\ k \in 1..m /\ p[k] = q[k] /\ p[k] \in 1..m
             \/ k = i /\ p[k] = m + 1
             \/ i < k /\ k - 1 \in 1..m /\ p[k] = q[k - 1] /\ p[k] \in 1..m /\ i <= k - 1 /\ i \in 1..m
  <2>1. CASE k < i
    <3>1. k \in 1..m
      BY <1>2, <2>1
    <3>. QED
      BY <1>0, <2>1, <3>1
  <2>2. CASE k = i
    BY <1>2, <2>2
  <2>3. CASE i < k
    <3>1. k - 1 \in 1..m /\ i <= k - 1 /\ i \in 1..m /\ ~(k < i) /\ k # i
      BY <1>2, <2>3
    <3>. QED
      BY <1>0, <2>3, <3>1
  <2>. QED
    BY <1>2, <2>1, <2>2, <2>3
<1>4. p \in [1..(m + 1) -> 1..(m + 1)]
  <2>1. \A k \in 1..(m + 1) : p[k] \in 1..(m + 1)
    <3> HIDE DEF p
    <3>. QED
      BY <1>3
  <2>. QED
    BY <2>1
<1> HIDE DEF p
<1>5. ASSUME NEW j \in 1..(m + 1), NEW k \in 1..(m + 1), p[j] = p[k] PROVE j = k
  <2>1. ~(m + 1 \in 1..m)
    OBVIOUS
  <2>2. CASE j < i /\ k < i
    BY <1>0, <1>2, <1>3, <1>5, <2>2
  <2>3. CASE i < j /\ i < k
    <3>1. /\ j - 1 \in 1..m /\ p[j] = q[j - 1]
          /\ k - 1 \in 1..m /\ p[k] = q[k - 1]
      BY <1>2, <1>3, <2>3
    <3>2. j - 1 = k - 1
      BY <1>0, <1>5, <3>1
    <3>. QED
      BY <3>2
  <2>4. CASE j < i /\ i < k
    <3>1. j \in 1..m /\ p[j] = q[j] /\ k - 1 \in 1..m /\ p[k] = q[k - 1] /\ i <= k - 1
      BY <1>2, <1>3, <2>4
    <3>2. j = k - 1
      BY <1>0, <1>5, <3>1
    <3>. QED
      BY <1>2, <3>1, <3>2, <2>4
  <2>5. CASE k < i /\ i < j
    <3>1. k \in 1..m /\ p[k] = q[k] /\ j - 1 \in 1..m /\ p[j] = q[j - 1] /\ i <= j - 1
      BY <1>2, <1>3, <2>5
    <3>2. k = j - 1
      BY <1>0, <1>5, <3>1
    <3>. QED
      BY <1>2, <3>1, <3>2, <2>5
  <2>6. CASE j = i \/ k = i
    BY <1>2, <1>3, <1>5, <2>1, <2>6
  <2>. QED
    BY <1>2, <2>2, <2>3, <2>4, <2>5, <2>6
<1>6. ASSUME NEW k \in 1..(m + 1) PROVE \E j \in 1..(m + 1) : p[j] = k
  <2>1. CASE k = m + 1
    BY <1>2, <1>3, <2>1
  <2>2. CASE k \in 1..m
    <3>1. PICK j \in 1..m : q[j] = k
      BY <1>0, <2>2
    <3>2. CASE j < i
      <4>1. j \in 1..(m + 1)
        OBVIOUS
      <4>2. p[j] = q[j]
        BY <1>2, <1>3, <3>2, <4>1
      <4>. QED
        BY <3>1, <4>1, <4>2
    <3>3. CASE i <= j
      <4>1. j + 1 \in 1..(m + 1) /\ i < j + 1 /\ (j + 1) - 1 = j
        BY <1>2, <3>3
      <4>2. p[j + 1] = q[j]
        BY <1>2, <1>3, <4>1
      <4>. QED
        BY <3>1, <4>1, <4>2
    <3>. QED
      BY <1>2, <3>2, <3>3
  <2>. QED
    BY <2>1, <2>2
<1>7. p \in Bijections(m + 1)
  BY <1>4, <1>5, <1>6, Zenon DEF Bijections
<1>8. ASSUME NEW j \in 1..(m + 1), NEW k \in 1..(m + 1), j < k
      PROVE  ~ViewBefore(w[p[k]], w[p[j]])
  <2>0. m + 1 \in 1..(m + 1) /\ \A x \in 1..m : x \in 1..(m + 1)
    OBVIOUS
  <2>1. w[m + 1] \in ListedViews /\ \A x \in 1..m : w[q[x]] \in ListedViews
    BY <1>0, <2>0
  <2>2. \A x, y \in 1..m : x < y => ~ViewBefore(w[q[y]], w[q[x]])
    BY DEF SortedBy
  <2>3. CASE k < i
    <3>1. j \in 1..m /\ k \in 1..m /\ p[j] = q[j] /\ p[k] = q[k]
      BY <1>2, <1>3, <1>8, <2>3
    <3>. QED
      BY <1>8, <2>2, <3>1
  <2>4. CASE k = i
    <3>1. j \in 1..m /\ p[j] = q[j] /\ p[k] = m + 1 /\ j < i
      BY <1>2, <1>3, <1>8, <2>4
    <3>. QED
      BY <1>2, <3>1
  <2>5. CASE i < k /\ j < i
    <3>1. j \in 1..m /\ p[j] = q[j] /\ k - 1 \in 1..m /\ p[k] = q[k - 1] /\ j < k - 1
      BY <1>2, <1>3, <1>8, <2>5
    <3>. QED
      BY <2>2, <3>1
  <2>6. CASE i < k /\ j = i
    <3>1. p[j] = m + 1 /\ k - 1 \in 1..m /\ p[k] = q[k - 1] /\ i <= k - 1 /\ i \in 1..m
      BY <1>2, <1>3, <1>8, <2>6
    <3>2. ViewBefore(w[m + 1], w[q[i]])
      BY <1>2, <3>1
    <3>3. ~ViewBefore(w[q[k - 1]], w[q[i]])
      <4>1. CASE i < k - 1
        BY <2>2, <3>1, <4>1
      <4>2. CASE i = k - 1
        <5>1. w[q[i]] \in ListedViews
          BY <2>1, <3>1
        <5>. QED
          BY <4>2, <5>1, ViewsAreOrdered
      <4>. QED
        BY <1>2, <3>1, <4>1, <4>2
    <3>4. w[m + 1] \in ListedViews /\ w[q[i]] \in ListedViews /\ w[q[k - 1]] \in ListedViews
      BY <2>1, <3>1
    <3>5. ~ViewBefore(w[q[k - 1]], w[m + 1])
      BY <3>2, <3>3, <3>4, ViewsAreOrdered
    <3>. QED
      BY <3>1, <3>5
  <2>7. CASE i < j
    <3>1. /\ j - 1 \in 1..m /\ p[j] = q[j - 1] /\ k - 1 \in 1..m /\ p[k] = q[k - 1]
          /\ j - 1 < k - 1
      BY <1>2, <1>3, <1>8, <2>7
    <3>. QED
      BY <2>2, <3>1
  <2>. QED
    BY <1>2, <1>8, <2>3, <2>4, <2>5, <2>6, <2>7
<1>9. SortedBy(w, m + 1, p)
  BY <1>8 DEF SortedBy
<1>. QED
  BY <1>7, <1>9

(* So any list of views can be sorted.                                     *)
LEMMA CanBeSorted ==
  ASSUME NEW n \in Nat, NEW w, \A k \in 1..n : w[k] \in ListedViews
  PROVE  \E p \in Bijections(n) : SortedBy(w, n, p)
<1> DEFINE P == {m \in 0..n : \E p \in Bijections(m) : SortedBy(w, m, p)}
<1>1. 0 \in P
  <2>1. [k \in 1..0 |-> k] \in Bijections(0)
    BY DEF Bijections
  <2>2. \A p : SortedBy(w, 0, p)
    BY DEF SortedBy
  <2>. QED
    BY <2>1, <2>2
<1>2. ASSUME NEW k \in 1..n, k - 1 \in P PROVE k \in P
  <2>1. PICK m \in Nat : m = k - 1 /\ m + 1 = k /\ k \in 0..n
    OBVIOUS
  <2>2. PICK q \in Bijections(m) : SortedBy(w, m, q)
    BY <1>2, <2>1
  <2>3. \A x \in 1..(m + 1) : w[x] \in ListedViews
    BY <2>1
  <2>4. \E p \in Bijections(m + 1) : SortedBy(w, m + 1, p)
    BY <2>2, <2>3, InsertView
  <2>. QED
    BY <2>1, <2>4
<1> HIDE DEF P
<1>3. n \in P
  BY <1>1, <1>2, UpTo
<1>. QED
  BY <1>3 DEF P
(* A sorted list of the views of n sources.                                *)
SortedViews(s, n, v) ==
  /\ v = [k \in 1..n |-> v[k]]
  /\ \A k \in 1..n : \E j \in 1..n : v[k] = View(s[j])
  /\ \A j \in 1..n : \E k \in 1..n : v[k] = View(s[j])
  /\ \A j, k \in 1..n : v[j].id = v[k].id => j = k
  /\ \A j, k \in 1..n : j < k => ~ViewBefore(v[k], v[j])

(* There is only one.                                                      *)
LEMMA OneSortedList ==
  ASSUME NEW n \in Nat, NEW s, Distinct(s, n), NEW v, SortedViews(s, n, v),
         NEW w, SortedViews(s, n, w)
  PROVE  v = w
<1> DEFINE P == {m \in 0..n : \A k \in 1..m : v[k] = w[k]}
<1>1. 0 \in P
  OBVIOUS
<1>2. ASSUME NEW a, NEW b, SortedViews(s, n, a), SortedViews(s, n, b), NEW m \in 1..n,
             \A k \in 1..(m - 1) : a[k] = b[k], a[m] # b[m]
      PROVE  ~ViewBefore(a[m], b[m]) /\ a[m].id # b[m].id /\ a[m] \in ListedViews
  <2>1. PICK x \in 1..n : a[m] = View(s[x])
    BY <1>2 DEF SortedViews
  <2>2. PICK k \in 1..n : a[m] = b[k]
    BY <1>2, <2>1 DEF SortedViews
  <2>3. k # m /\ b[k].id # b[m].id
    BY <1>2, <2>2 DEF SortedViews
  <2>4. ~(k < m)
    <3> SUFFICES ASSUME k < m PROVE FALSE
      OBVIOUS
    <3>1. k \in 1..(m - 1)
      OBVIOUS
    <3>2. a[k] = a[m]
      BY <1>2, <2>2, <3>1
    <3>. QED
      BY <1>2, <2>3, <3>2 DEF SortedViews
  <2>5. m < k
    BY <2>3, <2>4
  <2>6. ~ViewBefore(b[k], b[m])
    BY <1>2, <2>5 DEF SortedViews
  <2>7. PICK j \in 1..n : a[m] = View(s[j])
    BY <1>2 DEF SortedViews
  <2>8. s[j] \in ListedSources
    BY DEF Distinct
  <2>. QED
    BY <2>2, <2>3, <2>6, <2>7, <2>8, ViewFacts
<1>3. ASSUME NEW m \in 1..n, m - 1 \in P PROVE m \in P
  <2>1. \A k \in 1..(m - 1) : v[k] = w[k]
    BY <1>3
  <2>2. v[m] = w[m]
    <3> SUFFICES ASSUME v[m] # w[m] PROVE FALSE
      OBVIOUS
    <3> HIDE DEF P
    <3>1. ~ViewBefore(v[m], w[m]) /\ v[m].id # w[m].id /\ v[m] \in ListedViews
      BY <1>2, <2>1, Zenon
    <3>2. ~ViewBefore(w[m], v[m]) /\ w[m] \in ListedViews
      BY <1>2, <2>1, Zenon
    <3>. QED
      BY <3>1, <3>2, ViewsAreOrdered
  <2>3. \A k \in 1..m : k = m \/ k \in 1..(m - 1)
    OBVIOUS
  <2>. QED
    BY <2>1, <2>2, <2>3
<1> HIDE DEF P
<1>4. n \in P
  BY <1>1, <1>3, UpTo
<1>5. \A k \in 1..n : v[k] = w[k]
  BY <1>4 DEF P
<1>6. v = [k \in 1..n |-> v[k]] /\ w = [k \in 1..n |-> w[k]]
  BY DEF SortedViews
<1>. QED
  BY <1>5, <1>6

(* What sort.Slice leaves is a sorted list of the views.                   *)
LEMMA SortSliceLeaves ==
  ASSUME NEW n \in Nat, NEW s, s \in Seq(ListedSources), n = Len(s), Distinct(s, n)
  PROVE  /\ \E v : v \in NewDataSourceViews(s)
         /\ \A v \in NewDataSourceViews(s) : SortedViews(s, n, v)
<1> DEFINE w == [k \in 1..n |-> View(s[k])]
<1>1. Len(w) = n
  OBVIOUS
<1>2. NewDataSourceViews(s) = {Arranged(w, p) : p \in {q \in Bijections(n) : SortedBy(w, n, q)}}
  <2>1. NewDataSourceViews(s) = SortSlice(w)
    BY Zenon DEF NewDataSourceViews
  <2> HIDE DEF w
  <2>. QED
    BY <1>1, <2>1, Zenon DEF SortSlice, SortedBy
<1>3. \A k \in 1..n : s[k] \in ListedSources
  BY DEF Distinct
<1>4. /\ \A k \in 1..n : w[k] = View(s[k]) /\ w[k] \in ListedViews
      /\ \A j, k \in 1..n : w[j].id = w[k].id => j = k
  <2>1. \A k \in 1..n : w[k] = View(s[k]) /\ w[k] \in ListedViews /\ w[k].id = s[k].id
    BY <1>3, ViewFacts
  <2>. QED
    BY <2>1 DEF Distinct
<1> HIDE DEF w
<1>5. PICK p \in Bijections(n) : SortedBy(w, n, p)
  BY <1>4, CanBeSorted
<1>6. Arranged(w, p) \in NewDataSourceViews(s)
  BY <1>2, <1>5, Zenon
<1>7. ASSUME NEW v \in NewDataSourceViews(s) PROVE SortedViews(s, n, v)
  <2>1. PICK q \in Bijections(n) : SortedBy(w, n, q) /\ v = Arranged(w, q)
    BY <1>2, <1>7, Zenon
  <2>2. /\ q \in [1..n -> 1..n] /\ \A j, k \in 1..n : q[j] = q[k] => j = k
        /\ \A k \in 1..n : \E j \in 1..n : q[j] = k
    BY DEF Bijections
  <2>3. v = [k \in 1..n |-> w[q[k]]]
    BY <1>1, <2>1, Zenon DEF Arranged
  <2>4. \A k \in 1..n : v[k] = w[q[k]] /\ q[k] \in 1..n
    BY <2>2, <2>3
  <2>5. v = [k \in 1..n |-> v[k]]
    BY <2>3, <2>4
  <2>6. \A k \in 1..n : \E j \in 1..n : v[k] = View(s[j])
    BY <1>4, <2>4
  <2>7. ASSUME NEW j \in 1..n PROVE \E k \in 1..n : v[k] = View(s[j])
    <3>1. PICK k \in 1..n : q[k] = j
      BY <2>2
    <3>. QED
      BY <1>4, <2>4, <3>1
  <2>8. ASSUME NEW j \in 1..n, NEW k \in 1..n, v[j].id = v[k].id PROVE j = k
    <3>1. w[q[j]].id = w[q[k]].id /\ q[j] \in 1..n /\ q[k] \in 1..n
      BY <2>4, <2>8
    <3>2. q[j] = q[k]
      BY <1>4, <3>1
    <3>. QED
      BY <2>2, <3>2
  <2>9. \A j, k \in 1..n : j < k => ~ViewBefore(v[k], v[j])
    BY <2>1, <2>4, Zenon DEF SortedBy
  <2>. QED
    BY <2>5, <2>6, <2>7, <2>8, <2>9, Zenon DEF SortedViews
<1>. QED
  BY <1>6, <1>7, Zenon

(* The order of the sources does not matter to it.                         *)
LEMMA ArrangedAlike ==
  ASSUME NEW n \in Nat, NEW s, s \in Seq(ListedSources), n = Len(s), Distinct(s, n),
         NEW order \in Bijections(n)
  PROVE  /\ Arranged(s, order) \in Seq(ListedSources) /\ n = Len(Arranged(s, order))
         /\ Distinct(Arranged(s, order), n)
         /\ \A v : SortedViews(Arranged(s, order), n, v) => SortedViews(s, n, v)
<1> DEFINE t == Arranged(s, order)
<1>1. /\ order \in [1..n -> 1..n] /\ \A j, k \in 1..n : order[j] = order[k] => j = k
      /\ \A k \in 1..n : \E j \in 1..n : order[j] = k
  BY DEF Bijections
<1>2. t = [k \in 1..n |-> s[order[k]]]
  BY Zenon DEF Arranged
<1>3. \A k \in 1..n : t[k] = s[order[k]] /\ order[k] \in 1..n /\ s[order[k]] \in ListedSources
  BY <1>1, <1>2 DEF Distinct
<1>4. t \in Seq(ListedSources) /\ n = Len(t)
  BY <1>2, <1>3
<1> HIDE DEF t
<1>5. Distinct(t, n)
  <2>1. \A k \in 1..n : t[k] \in ListedSources
    BY <1>3
  <2>2. ASSUME NEW j \in 1..n, NEW k \in 1..n, t[j].id = t[k].id \/ t[j].name = t[k].name
        PROVE  j = k
    <3>1. order[j] = order[k]
      BY <1>3, <2>2 DEF Distinct
    <3>. QED
      BY <1>1, <3>1
  <2>. QED
    BY <2>1, <2>2, Zenon DEF Distinct
<1>6. ASSUME NEW v, SortedViews(t, n, v) PROVE SortedViews(s, n, v)
  <2>1. \A k \in 1..n : \E j \in 1..n : v[k] = View(s[j])
    <3> SUFFICES ASSUME NEW k \in 1..n PROVE \E j \in 1..n : v[k] = View(s[j])
      OBVIOUS
    <3>1. PICK j \in 1..n : v[k] = View(t[j])
      BY <1>6 DEF SortedViews
    <3>. QED
      BY <1>3, <3>1
  <2>2. \A j \in 1..n : \E k \in 1..n : v[k] = View(s[j])
    <3> SUFFICES ASSUME NEW j \in 1..n PROVE \E k \in 1..n : v[k] = View(s[j])
      OBVIOUS
    <3>1. PICK x \in 1..n : order[x] = j
      BY <1>1
    <3>2. PICK k \in 1..n : v[k] = View(t[x])
      BY <1>6 DEF SortedViews
    <3>. QED
      BY <1>3, <3>1, <3>2
  <2>. QED
    BY <1>6, <2>1, <2>2, Zenon DEF SortedViews
<1>. QED
  BY <1>4, <1>5, <1>6, Zenon DEF t
(* It has every source, in its wire.                                       *)
LEMMA SortedPublishesAll ==
  ASSUME NEW n \in Nat, items \in Seq(ListedSources), n = Len(items), Distinct(items, n),
         NEW views, SortedViews(items, n, views)
  PROVE  PublishesAll(views)
<1>1. /\ DOMAIN items = 1..n /\ views = [k \in 1..n |-> views[k]]
      /\ \A k \in 1..n : \E j \in 1..n : views[k] = View(items[j])
      /\ \A j \in 1..n : \E k \in 1..n : views[k] = View(items[j])
  BY DEF SortedViews
<1>2. DOMAIN views = 1..n /\ Len(views) = n
  BY <1>1
<1>3. {views[k] : k \in DOMAIN views} = {View(items[k]) : k \in DOMAIN items}
  <2>1. ASSUME NEW k \in 1..n PROVE views[k] \in {View(items[j]) : j \in DOMAIN items}
    BY <1>1
  <2>2. ASSUME NEW j \in 1..n PROVE View(items[j]) \in {views[k] : k \in DOMAIN views}
    <3>1. PICK k \in 1..n : views[k] = View(items[j])
      BY <1>1
    <3>. QED
      BY <1>2, <3>1
  <2>. QED
    BY <1>1, <1>2, <2>1, <2>2, Zenon
<1>4. \A j \in 1..n : items[j] \in ListedSources /\ View(items[j]).wire = WireProtocol(items[j].type)
  BY ViewFacts DEF Distinct
<1>5. ASSUME NEW wire \in {"postgres", "mysql"}
      PROVE  LET types == IF wire = "postgres" THEN PostgresTypes ELSE MySQLTypes \ PostgresTypes
                 served == FilterByType(items, types)
             IN /\ {views[k] : k \in {j \in DOMAIN views : views[j].wire = wire}}
                     = {View(served[k]) : k \in DOMAIN served}
                /\ \A j, k \in DOMAIN served : served[j] = served[k] => j = k
  <2> DEFINE types == IF wire = "postgres" THEN PostgresTypes ELSE MySQLTypes \ PostgresTypes
             served == FilterByType(items, types)
  <2>0. \A t : WireProtocol(t) = wire <=> t \in types
    BY <1>5 DEF WireProtocol, IsPostgresCompatible, IsMySQLCompatible
  <2> HIDE DEF types
  <2>1. HasOfTypes(items, n, types, served)
    BY FilterByTypeIs, Zenon
  <2> HIDE DEF served
  <2>2. /\ {served[x] : x \in DOMAIN served} = {items[j] : j \in {i \in 1..n : items[i].type \in types}}
        /\ \A x, y \in DOMAIN served : served[x] = served[y] => x = y
    BY <2>1, Zenon DEF HasOfTypes
  <2>4. ASSUME NEW k \in 1..n, views[k].wire = wire
        PROVE  \E x \in DOMAIN served : views[k] = View(served[x])
    <3>1. PICK j \in 1..n : views[k] = View(items[j])
      BY <1>1
    <3>2. items[j].type \in types
      BY <1>4, <2>0, <2>4, <3>1
    <3>3. items[j] \in {items[i] : i \in {i \in 1..n : items[i].type \in types}}
      BY <3>2, Zenon
    <3>4. PICK x \in DOMAIN served : items[j] = served[x]
      BY <2>2, <3>3, Zenon
    <3>. QED
      BY <3>1, <3>4, Zenon
  <2>5. ASSUME NEW x \in DOMAIN served
        PROVE  \E k \in 1..n : views[k].wire = wire /\ views[k] = View(served[x])
    <3>1. served[x] \in {served[y] : y \in DOMAIN served}
      BY Zenon
    <3>2. PICK j \in 1..n : items[j].type \in types /\ served[x] = items[j]
      BY <2>2, <3>1, Zenon
    <3>3. PICK k \in 1..n : views[k] = View(items[j])
      BY <1>1
    <3>. QED
      BY <1>4, <2>0, <3>2, <3>3
  <2>6. {views[k] : k \in {j \in DOMAIN views : views[j].wire = wire}}
          = {View(served[k]) : k \in DOMAIN served}
    <3>1. ASSUME NEW k \in {j \in DOMAIN views : views[j].wire = wire}
          PROVE  views[k] \in {View(served[x]) : x \in DOMAIN served}
      BY <1>2, <2>4, Zenon
    <3>2. ASSUME NEW x \in DOMAIN served
          PROVE  View(served[x]) \in {views[k] : k \in {j \in DOMAIN views : views[j].wire = wire}}
      <4>1. PICK k \in 1..n : views[k].wire = wire /\ views[k] = View(served[x])
        BY <2>5
      <4>. QED
        BY <1>2, <4>1
    <3>. QED
      BY <3>1, <3>2, Zenon
  <2>. QED
    BY <2>2, <2>6, Zenon DEF served, types
<1>. QED
  BY <1>2, <1>3, <1>5, Zenon DEF PublishesAll

(* The registry of a listed answer.                                        *)
LEMMA ListedDecides ==
  ASSUME Listed(items), form = "registry" PROVE OrderDecidesNothing
<1>1. PICK n \in Nat : n = Len(items)
  BY DEF Listed
<1>2. items \in Seq(ListedSources) /\ Distinct(items, n)
  BY <1>1, Zenon DEF Listed
<1>3. PICK views \in NewDataSourceViews(items) : SortedViews(items, n, views)
  BY <1>1, <1>2, SortSliceLeaves, Zenon
<1>4. PublishesAll(views)
  BY <1>1, <1>2, <1>3, SortedPublishesAll, Zenon
<1>5. ASSUME NEW order \in Bijections(n)
      PROVE  NewDataSourceViews(Arranged(items, order)) = {views}
  <2> DEFINE t == Arranged(items, order)
  <2>1. /\ t \in Seq(ListedSources) /\ n = Len(t) /\ Distinct(t, n)
        /\ \A v : SortedViews(t, n, v) => SortedViews(items, n, v)
    BY <1>1, <1>2, ArrangedAlike, Zenon
  <2> HIDE DEF t
  <2>2. /\ \E v : v \in NewDataSourceViews(t)
        /\ \A v \in NewDataSourceViews(t) : SortedViews(t, n, v)
    BY <2>1, SortSliceLeaves, Zenon
  <2>3. \A v \in NewDataSourceViews(t) : v = views
    BY <1>2, <1>3, <2>1, <2>2, OneSortedList, Zenon
  <2>4. NewDataSourceViews(t) = {views}
    BY <2>2, <2>3, Zenon
  <2>. QED
    BY <2>4, Zenon DEF t
<1>6. \A name \in DOMAIN Lower : Lookup(NewDataSourceRegistry(items), name) = Meant(name)
  BY LooksUpTheMeant, Zenon
<1>. QED
  BY <1>1, <1>3, <1>4, <1>5, <1>6, Zenon DEF OrderDecidesNothing

(* The sources listed so far.                                              *)
SourcesAreListed == form = "registry" => Listed(items)

(* However many sources Redash lists and in whatever order, each name      *)
(* stands for the same source and the published list is the same           *)
(* (NewDataSourceRegistry, Lookup, NewDataSourceViews).                     *)
THEOREM OrderNeverDecides == Listing => []OrderDecidesNothing
<1>1. ListInit => SourcesAreListed
  BY DEF ListInit, SourcesAreListed, Listed, Distinct
<1>2. SourcesAreListed /\ [AddRow \/ ListSource]_<<form, items>> => SourcesAreListed'
  <2> SUFFICES ASSUME SourcesAreListed, [AddRow \/ ListSource]_<<form, items>>
               PROVE  SourcesAreListed'
    OBVIOUS
  <2>1. CASE AddRow
    BY <2>1 DEF AddRow, SourcesAreListed, ColumnTypes
  <2>2. CASE ListSource
    <3>1. PICK ds \in ListedSources :
            /\ \A k \in DOMAIN items : ds.id # items[k].id /\ ds.name # items[k].name
            /\ items' = Append(items, ds)
      BY <2>2 DEF ListSource
    <3>2. PICK n \in Nat : n = Len(items)
      BY <2>2 DEF ListSource, SourcesAreListed, Listed
    <3>3. items \in Seq(ListedSources) /\ Distinct(items, n) /\ form' = form
      BY <2>2, <3>2, Zenon DEF ListSource, SourcesAreListed, Listed
    <3>4. /\ items' \in Seq(ListedSources) /\ Len(items') = n + 1 /\ items'[n + 1] = ds
          /\ DOMAIN items = 1..n /\ \A k \in 1..n : items'[k] = items[k]
      BY <3>1, <3>2, <3>3
    <3>5. \A k \in 1..(n + 1) : k = n + 1 \/ k \in 1..n
      OBVIOUS
    <3>6. \A k \in 1..(n + 1) : items'[k] \in ListedSources
      BY <3>3, <3>4, <3>5 DEF Distinct
    <3>7. ASSUME NEW j \in 1..(n + 1), NEW k \in 1..(n + 1),
                 items'[j].id = items'[k].id \/ items'[j].name = items'[k].name
          PROVE  j = k
      <4>1. CASE j \in 1..n /\ k \in 1..n
        BY <3>3, <3>4, <3>7, <4>1 DEF Distinct
      <4>2. CASE j = n + 1 /\ k \in 1..n
        BY <3>1, <3>4, <3>7, <4>2
      <4>3. CASE k = n + 1 /\ j \in 1..n
        BY <3>1, <3>4, <3>7, <4>3
      <4>. QED
        BY <3>5, <4>1, <4>2, <4>3
    <3>8. Distinct(items', n + 1)
      BY <3>6, <3>7, Zenon DEF Distinct
    <3>. QED
      BY <3>4, <3>8, Zenon DEF SourcesAreListed, Listed, Distinct
  <2>3. CASE UNCHANGED <<form, items>>
    BY <2>3, Zenon DEF SourcesAreListed, Listed, Distinct
  <2>. QED
    BY <2>1, <2>2, <2>3
<1>3. SourcesAreListed => OrderDecidesNothing
  BY ListedDecides, Zenon DEF SourcesAreListed, OrderDecidesNothing
<1>. QED
  BY <1>1, <1>2, <1>3, PTL DEF Listing
=============================================================================
