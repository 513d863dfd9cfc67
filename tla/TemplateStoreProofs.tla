------------------------ MODULE TemplateStoreProofs ------------------------
(***************************************************************************)
(* The templates of a host.  For any plugins: no template stays marked as  *)
(* being pulled, and a cleanup never runs out of its list nor deletes the  *)
(* template it makes room for.  For plugins that do not overlap: the       *)
(* tracker knows every template on the host, a pull leaves the buffer      *)
(* free, the least used templates go first, and when no command fails      *)
(* nothing is deleted in vain.                                             *)
(*                                                                         *)
(* The last three rest on what the loops of the cleanup compute: that the  *)
(* exchanges of GetLeastRecentlyUsedTemplates sort the list, and what the  *)
(* sums of sizes add up to.  These are inductions on a set of numbers or   *)
(* of subsets, which is first-order.                                       *)
(***************************************************************************)
EXTENDS TemplateStore, FiniteSetTheorems, SequenceTheorems, TLAPS

-----------------------------------------------------------------------------
(* Recursive functions: the sums and loops of TemplateStore.                *)

\* Induction over the numbers, for a set of them.
LEMMA AllNumbers ==
    ASSUME NEW P, 0 \in P, \A n \in Nat : n \in P => n + 1 \in P
    PROVE  \A n \in Nat : n \in P
  <1> DEFINE Bad == Nat \ P
  <1> SUFFICES ASSUME Bad # {} PROVE FALSE
    OBVIOUS
  <1>1. PICK m \in Bad : \A y \in Bad : <<y, m>> \notin OpToRel(<, Nat)
    <2>1. Bad \subseteq Nat
      OBVIOUS
    <2> HIDE DEF Bad
    <2> QED BY <2>1, NatLessThanWellFounded, WFMin
  <1>2. \A y \in Bad : ~(y < m)
    BY <1>1 DEF OpToRel
  <1>3. m \in Nat /\ m \notin P
    OBVIOUS
  <1>4. m # 0
    BY <1>3
  <1>5. m - 1 \in Nat /\ m - 1 < m /\ (m - 1) + 1 = m
    BY <1>3, <1>4
  <1>6. m - 1 \in P
    BY <1>2, <1>5
  <1>7. (m - 1) + 1 \in P
    BY <1>5, <1>6
  <1> QED BY <1>3, <1>5, <1>7

\* Induction over a range of them.
LEMMA AllInRange ==
    ASSUME NEW lo \in Nat, NEW hi \in Nat, NEW P, lo \in P,
           \A j \in lo..hi : j < hi /\ j \in P => j + 1 \in P
    PROVE  \A j \in lo..hi : j \in P
  <1> DEFINE Q == {n \in Nat : lo + n \in lo..hi => lo + n \in P}
  <1>1. 0 \in Q
    OBVIOUS
  <1>2. ASSUME NEW n \in Nat, n \in Q PROVE n + 1 \in Q
    <2> SUFFICES ASSUME lo + (n + 1) \in lo..hi PROVE lo + (n + 1) \in P
      OBVIOUS
    <2>1. lo + n \in lo..hi /\ lo + n < hi /\ (lo + n) + 1 = lo + (n + 1)
      OBVIOUS
    <2>2. lo + n \in P
      BY <1>2, <2>1
    <2> QED BY <2>1, <2>2
  <1>3. \A n \in Nat : n \in Q
    <2> HIDE DEF Q
    <2> QED BY <1>1, <1>2, AllNumbers
  <1> SUFFICES ASSUME NEW j \in lo..hi PROVE j \in P
    OBVIOUS
  <1>4. j - lo \in Nat /\ lo + (j - lo) = j
    OBVIOUS
  <1>5. j - lo \in Q
    BY <1>3, <1>4
  <1> QED BY <1>4, <1>5

\* The states of a loop after each of its rounds; they exist.
Loop(w, lo, hi, b, F) ==
    w[lo] = b /\ \A j \in lo..hi : j # lo => w[j] = F[<<j, w[j - 1]>>]
LEMMA LoopExists ==
    ASSUME NEW R, NEW lo \in Nat, NEW hi \in Nat, lo <= hi,
           NEW b \in R, NEW F \in [Nat \X R -> R]
    PROVE  \E w \in [lo..hi -> R] : Loop(w, lo, hi, b, F)
  <1> DEFINE Good(n) == \E w \in [lo..n -> R] : Loop(w, lo, n, b, F)
             P == {n \in Nat : Good(lo + n)}
  <1>1. 0 \in P
    <2> DEFINE v == [j \in lo..lo |-> b]
    <2>1. lo + 0 = lo /\ \A j \in lo..lo : j = lo
      OBVIOUS
    <2>2. v \in [lo..lo -> R] /\ v[lo] = b
      OBVIOUS
    <2>3. Loop(v, lo, lo, b, F)
      <3> HIDE DEF v
      <3> QED BY <2>1, <2>2 DEF Loop
    <2> HIDE DEF v
    <2> QED BY <2>1, <2>2, <2>3
  <1>2. ASSUME NEW n \in Nat, n \in P PROVE n + 1 \in P
    <2>1. PICK m \in Nat : m = lo + n
      OBVIOUS
    <2>2. PICK w \in [lo..m -> R] : Loop(w, lo, m, b, F)
      BY <1>2, <2>1
    <2> DEFINE x == F[<<m + 1, w[m]>>]
               v == [j \in lo..m + 1 |-> IF j = m + 1 THEN x ELSE w[j]]
    <2>3. m \in lo..m /\ w[m] \in R
      BY <2>1, <2>2
    <2>4. x \in R
      BY <2>3
    <2>5. v \in [lo..m + 1 -> R]
      BY <2>2, <2>4
    <2>6. v[lo] = b
      BY <2>1, <2>2 DEF Loop
    <2>7. ASSUME NEW j \in lo..m + 1, j # lo PROVE v[j] = F[<<j, v[j - 1]>>]
      <3>1. j - 1 \in lo..m /\ j - 1 \in lo..m + 1 /\ j - 1 # m + 1
        BY <2>7
      <3>2. v[j - 1] = w[j - 1]
        BY <3>1
      <3>3. CASE j = m + 1
        <4>1. v[j] = x /\ j - 1 = m
          BY <3>3
        <4> QED BY <3>2, <3>3, <4>1
      <3>4. CASE j # m + 1
        <4>1. j \in lo..m /\ v[j] = w[j]
          BY <3>4
        <4> QED BY <2>2, <2>7, <3>2, <4>1 DEF Loop
      <3> QED BY <3>3, <3>4
    <2>8. Good(m + 1)
      <3> HIDE DEF v
      <3> QED BY <2>5, <2>6, <2>7 DEF Loop
    <2>9. lo + (n + 1) = m + 1
      BY <2>1
    <2> QED BY <2>8, <2>9
  <1>3. \A n \in Nat : n \in P
    <2> HIDE DEF P
    <2> QED BY <1>1, <1>2, AllNumbers
  <1>4. hi - lo \in Nat /\ lo + (hi - lo) = hi
    OBVIOUS
  <1> QED BY <1>3, <1>4

\* Induction over the subsets of a finite set.
LEMMA AllSubsets ==
    ASSUME NEW S, IsFiniteSet(S), NEW P,
           \A A \in SUBSET S : (\A B \in SUBSET A : B # A => B \in P) => A \in P
    PROVE  \A A \in SUBSET S : A \in P
  <1> DEFINE Bad == (SUBSET S) \ P
  <1> SUFFICES ASSUME Bad # {} PROVE FALSE
    OBVIOUS
  <1>1. IsWellFoundedOn(StrictSubsetOrdering(S), SUBSET S)
    <2>1. IsWellFoundedOn(StrictSubsetOrdering(S), FiniteSubsetsOf(S))
      BY FS_StrictSubsetOrderingWellFounded
    <2>2. FiniteSubsetsOf(S) = SUBSET S
      BY FS_FiniteSubsetsOfFinite
    <2> QED BY <2>1, <2>2
  <1>2. PICK A \in Bad : \A B \in Bad : <<B, A>> \notin StrictSubsetOrdering(S)
    <2>1. Bad \subseteq SUBSET S
      OBVIOUS
    <2> HIDE DEF Bad
    <2> QED BY <1>1, <2>1, WFMin
  <1>3. A \in SUBSET S /\ A \notin P
    OBVIOUS
  <1>4. ASSUME NEW B \in SUBSET A, B # A PROVE B \in P
    <2>1. <<B, A>> \in StrictSubsetOrdering(S) /\ B \in SUBSET S
      BY <1>3, <1>4 DEF StrictSubsetOrdering
    <2> QED BY <1>2, <2>1
  <1> QED BY <1>3, <1>4

\* The recursion of SumFunction, over the parts of a function's domain.
SumRule(f, s) ==
    s = [A \in SUBSET DOMAIN f |->
            IF A = {} THEN 0
            ELSE f[CHOOSE x \in A : TRUE] + s[A \ {CHOOSE x \in A : TRUE}]]

\* A nonempty set loses what it chooses.
LEMMA Chosen ==
    ASSUME NEW S, IsFiniteSet(S), NEW A \in SUBSET S, A # {}, NEW n \in Nat, NEW x \in A
    PROVE  /\ A \ {x} \in SUBSET S
           /\ Cardinality(A \ {x}) <= n <=> Cardinality(A) <= n + 1
  <1>1. IsFiniteSet(A)
    BY FS_Subset
  <1>2. Cardinality(A \ {x}) = Cardinality(A) - 1 /\ Cardinality(A) \in Nat
    BY <1>1, FS_RemoveElement, FS_CardinalityType
  <1> QED BY <1>2

\* A function on the parts of a finite set that follows this recursion exists.
LEMMA SumExists ==
    ASSUME NEW S, IsFiniteSet(S), NEW f \in [S -> Nat]
    PROVE  \E s : SumRule(f, s)
  <1> DEFINE c(A) == CHOOSE x \in A : TRUE
             Small(n) == {A \in SUBSET S : Cardinality(A) <= n}
             Rule(s, A) == s[A] = IF A = {} THEN 0 ELSE f[c(A)] + s[A \ {c(A)}]
             P == {n \in Nat : \E s \in [Small(n) -> Nat] : \A A \in Small(n) : Rule(s, A)}
  <1>1. 0 \in P
    <2>1. ASSUME NEW A \in Small(0) PROVE A = {}
      <3>1. IsFiniteSet(A)
        BY FS_Subset
      <3> QED BY <3>1, FS_CardinalityType, FS_EmptySet
    <2>2. [A \in Small(0) |-> 0] \in [Small(0) -> Nat]
      OBVIOUS
    <2> QED BY <2>1, <2>2
  <1>2. ASSUME NEW n \in Nat, n \in P PROVE n + 1 \in P
    <2>1. PICK s \in [Small(n) -> Nat] : \A A \in Small(n) : Rule(s, A)
      BY <1>2
    <2> DEFINE value(A) == IF A = {} THEN 0 ELSE f[c(A)] + s[A \ {c(A)}]
               v == [A \in Small(n + 1) |-> value(A)]
    <2>2. ASSUME NEW A \in Small(n + 1), A # {}
          PROVE  c(A) \in A /\ A \ {c(A)} \in Small(n)
      <3>1. c(A) \in A
        BY <2>2
      <3> QED BY <2>2, <3>1, Chosen
    <2>3. ASSUME NEW A \in Small(n + 1) PROVE value(A) \in Nat
      <3>1. CASE A = {}
        BY <3>1
      <3>2. CASE A # {}
        <4>1. f[c(A)] \in Nat /\ s[A \ {c(A)}] \in Nat
          BY <2>2, <3>2
        <4> QED BY <3>2, <4>1
      <3> QED BY <3>1, <3>2
    <2>4. v \in [Small(n + 1) -> Nat]
      BY <2>3
    <2>5. ASSUME NEW A \in Small(n) PROVE A \in Small(n + 1) /\ v[A] = s[A]
      <3>1. IsFiniteSet(A)
        BY FS_Subset
      <3>2. Cardinality(A) \in Nat /\ Cardinality(A) <= n
        BY <3>1, FS_CardinalityType
      <3>3. Cardinality(A) <= n + 1
        BY <3>2
      <3> QED BY <2>1, <3>3
    <2>6. ASSUME NEW A \in Small(n + 1) PROVE Rule(v, A)
      <3>1. CASE A = {}
        BY <3>1
      <3>2. CASE A # {}
        <4>1. A \ {c(A)} \in Small(n)
          BY <2>2, <3>2
        <4>2. v[A \ {c(A)}] = s[A \ {c(A)}]
          BY <2>5, <4>1
        <4>3. v[A] = f[c(A)] + s[A \ {c(A)}]
          BY <3>2
        <4> HIDE DEF v
        <4> QED BY <3>2, <4>2, <4>3
      <3> QED BY <3>1, <3>2
    <2>7. \E w \in [Small(n + 1) -> Nat] : \A A \in Small(n + 1) : Rule(w, A)
      <3> HIDE DEF v, Rule, Small
      <3> QED BY <2>4, <2>6
    <2>8. n + 1 \in Nat
      OBVIOUS
    <2> HIDE DEF Rule, Small, v
    <2> QED BY <2>7, <2>8
  <1>3. \A n \in Nat : n \in P
    <2> HIDE DEF P
    <2> QED BY <1>1, <1>2, AllNumbers
  <1>4. PICK n \in Nat : n = Cardinality(S)
    BY FS_CardinalityType
  <1>5. Small(n) = SUBSET S
    <2> SUFFICES ASSUME NEW A \in SUBSET S PROVE Cardinality(A) <= n
      OBVIOUS
    <2> QED BY <1>4, FS_Subset
  <1>6. PICK s \in [SUBSET S -> Nat] : \A A \in SUBSET S : Rule(s, A)
    <2>1. \E s \in [Small(n) -> Nat] : \A A \in Small(n) : Rule(s, A)
      BY <1>3
    <2> HIDE DEF Rule, Small
    <2> QED BY <1>5, <2>1
  <1>7. SumRule(f, s)
    BY <1>6 DEF SumRule
  <1> QED BY <1>7

\* Whatever element is taken first.
LEMMA SumAnyOrder ==
    ASSUME NEW S, IsFiniteSet(S), NEW f \in [S -> Nat], NEW s, SumRule(f, s)
    PROVE  /\ s[{}] = 0
           /\ \A A \in SUBSET S : /\ s[A] \in Nat
                                  /\ \A x \in A : s[A] = f[x] + s[A \ {x}]
  <1> DEFINE c(A) == CHOOSE x \in A : TRUE
             Good(A) == s[A] \in Nat /\ \A x \in A : s[A] = f[x] + s[A \ {x}]
             P == {A \in SUBSET S : Good(A)}
  <1>1. s[{}] = 0
    BY DEF SumRule
  <1>2. ASSUME NEW A \in SUBSET S, A # {}
        PROVE  c(A) \in A /\ s[A] = f[c(A)] + s[A \ {c(A)}]
    BY <1>2 DEF SumRule
  <1>3. ASSUME NEW A \in SUBSET S, \A B \in SUBSET A : B # A => B \in P
        PROVE  A \in P
    <2>1. CASE A = {}
      BY <1>1, <2>1
    <2>2. CASE A # {}
      <3>1. PICK y \in A : y = c(A) /\ s[A] = f[y] + s[A \ {y}]
        BY <1>2, <2>2
      <3>2. s[A \ {y}] \in Nat /\ \A x \in A \ {y} : s[A \ {y}] = f[x] + s[(A \ {y}) \ {x}]
        <4>1. A \ {y} \in SUBSET A /\ A \ {y} # A
          BY <3>1
        <4> QED BY <1>3, <4>1
      <3>3. s[A] \in Nat
        BY <3>1, <3>2
      <3>4. ASSUME NEW x \in A PROVE s[A] = f[x] + s[A \ {x}]
        <4>1. CASE x = y
          BY <3>1, <4>1
        <4>2. CASE x # y
          <5>1. A \ {x} \in SUBSET A /\ A \ {x} # A /\ y \in A \ {x} /\ x \in A \ {y}
            BY <4>2
          <5>2. s[A \ {x}] = f[y] + s[(A \ {x}) \ {y}]
            BY <1>3, <5>1
          <5>3. s[A \ {y}] = f[x] + s[(A \ {y}) \ {x}]
            BY <3>2, <5>1
          <5>4. (A \ {x}) \ {y} = (A \ {y}) \ {x}
            OBVIOUS
          <5>5. (A \ {y}) \ {x} \in P
            <6>1. (A \ {y}) \ {x} \in SUBSET A /\ (A \ {y}) \ {x} # A
              BY <5>1
            <6> QED BY <1>3, <6>1
          <5>6. s[(A \ {y}) \ {x}] \in Nat /\ f[x] \in Nat /\ f[y] \in Nat
            BY <5>5
          <5> DEFINE q == s[(A \ {y}) \ {x}]
          <5>7. s[A] = f[y] + (f[x] + q) /\ s[A \ {x}] = f[y] + q /\ q \in Nat
            BY <3>1, <5>2, <5>3, <5>4, <5>6
          <5>8. f[y] + (f[x] + q) = f[x] + (f[y] + q)
            <6> HIDE DEF q
            <6> QED BY <5>6, <5>7
          <5> QED BY <5>7, <5>8
        <4> QED BY <4>1, <4>2
      <3> QED BY <3>3, <3>4
    <2> QED BY <2>1, <2>2
  <1>4. \A A \in SUBSET S : A \in P
    <2> HIDE DEF P
    <2> QED BY <1>3, AllSubsets
  <1> QED BY <1>1, <1>4

\* What a sum does not have is not counted.
LEMMA SumOfPart ==
    ASSUME NEW S, IsFiniteSet(S), NEW f \in [S -> Nat], NEW R \in SUBSET S,
           NEW s, SumRule(f, s), NEW r, SumRule([x \in R |-> f[x]], r)
    PROVE  \A A \in SUBSET R : r[A] = s[A]
  <1> DEFINE g == [x \in R |-> f[x]]
             P == {A \in SUBSET R : r[A] = s[A]}
  <1>1. IsFiniteSet(R) /\ g \in [R -> Nat]
    BY FS_Subset
  <1>2. /\ s[{}] = 0
        /\ \A A \in SUBSET S : s[A] \in Nat /\ \A x \in A : s[A] = f[x] + s[A \ {x}]
    BY SumAnyOrder
  <1>3. /\ r[{}] = 0
        /\ \A A \in SUBSET R : r[A] \in Nat /\ \A x \in A : r[A] = g[x] + r[A \ {x}]
    <2> HIDE DEF g
    <2>1. SumRule(g, r)
      BY DEF g
    <2> QED BY <1>1, <2>1, SumAnyOrder
  <1>4. ASSUME NEW A \in SUBSET R, \A B \in SUBSET A : B # A => B \in P
        PROVE  A \in P
    <2>1. CASE A = {}
      BY <1>2, <1>3, <2>1
    <2>2. CASE A # {}
      <3>1. PICK x \in A : TRUE
        BY <2>2
      <3>2. A \ {x} \in SUBSET A /\ A \ {x} # A /\ A \in SUBSET S
        OBVIOUS
      <3>3. r[A \ {x}] = s[A \ {x}]
        BY <1>4, <3>2
      <3>4. r[A] = g[x] + r[A \ {x}] /\ s[A] = f[x] + s[A \ {x}]
        BY <1>2, <1>3, <3>2
      <3>5. g[x] = f[x]
        OBVIOUS
      <3> QED BY <3>3, <3>4, <3>5
    <2> QED BY <2>1, <2>2
  <1>5. \A A \in SUBSET R : A \in P
    <2> HIDE DEF P
    <2> QED BY <1>1, <1>4, AllSubsets
  <1> QED BY <1>5

\* SumFunction is the value of this recursion for the whole domain.
LEMMA SumIsRule ==
    ASSUME NEW S, IsFiniteSet(S), NEW f \in [S -> Nat]
    PROVE  \E s : SumRule(f, s) /\ SumFunction(f) = s[S]
  <1> DEFINE c == CHOOSE s : SumRule(f, s)
  <1>1. SumFunction(f) = c[DOMAIN f]
    BY DEF SumFunction, SumFunctionOnSet, FoldFunctionOnSet, MapThenFoldSet, SumRule
  <1>2. SumRule(f, c)
    BY SumExists
  <1> QED BY <1>1, <1>2

\* The sum of nothing is 0, and that of a set is one element and the others'.
LEMMA SumFacts ==
    ASSUME NEW S, IsFiniteSet(S), NEW f \in [S -> Nat]
    PROVE  /\ SumFunction(f) \in Nat
           /\ S = {} => SumFunction(f) = 0
           /\ \A x \in S : SumFunction(f) = f[x] + SumFunction([y \in S \ {x} |-> f[y]])
  <1>1. PICK s : SumRule(f, s) /\ SumFunction(f) = s[S]
    BY SumIsRule
  <1>2. /\ s[{}] = 0 /\ s[S] \in Nat
        /\ \A x \in S : s[S] = f[x] + s[S \ {x}]
    <2>1. S \in SUBSET S
      OBVIOUS
    <2>2. /\ s[{}] = 0
          /\ \A A \in SUBSET S : /\ s[A] \in Nat
                                 /\ \A x \in A : s[A] = f[x] + s[A \ {x}]
      BY <1>1, SumAnyOrder
    <2> QED BY <2>1, <2>2
  <1>3. ASSUME NEW x \in S PROVE SumFunction([y \in S \ {x} |-> f[y]]) = s[S \ {x}]
    <2> DEFINE R == S \ {x}
               g == [y \in R |-> f[y]]
    <2>1. R \in SUBSET S /\ IsFiniteSet(R) /\ g \in [R -> Nat]
      BY FS_Subset
    <2>2. PICK r : SumRule(g, r) /\ SumFunction(g) = r[R]
      <3> HIDE DEF g, R
      <3> QED BY <2>1, SumIsRule
    <2>3. r[R] = s[R]
      <3> HIDE DEF R
      <3> QED BY <1>1, <2>1, <2>2, SumOfPart
    <2> QED BY <2>2, <2>3
  <1> QED BY <1>1, <1>2, <1>3

\* The sum without one of its terms.
LEMMA SumWithout ==
    ASSUME NEW S, IsFiniteSet(S), NEW f \in [S -> Nat], NEW x \in S,
           NEW g \in [S \ {x} -> Nat], \A y \in S \ {x} : g[y] = f[y]
    PROVE  SumFunction(f) = f[x] + SumFunction(g)
  <1>1. g = [y \in S \ {x} |-> f[y]]
    OBVIOUS
  <1>2. \A z \in S : SumFunction(f) = f[z] + SumFunction([y \in S \ {z} |-> f[y]])
    BY SumFacts, Zenon
  <1>3. SumFunction(f) = f[x] + SumFunction([y \in S \ {x} |-> f[y]])
    BY <1>2, Zenon
  <1> QED BY <1>1, <1>3

-----------------------------------------------------------------------------
(* GetLeastRecentlyUsedTemplates lists what may be deleted, in order.       *)

\* A sequence that has every element of A once.
Listing(s, n, A) ==
    /\ s \in [1..n -> A]
    /\ \A i, j \in 1..n : i # j => s[i] # s[j]
    /\ \A x \in A : \E i \in 1..n : s[i] = x

\* No element in the first m positions is out of order with one behind it.
SortedTo(s, m, n) == \A i \in 1..m, j \in 1..n : i < j => ~OutOfOrder(s[i], s[j])

\* A function on 1..n is a sequence of length n.
LEMMA LengthOfListing ==
    ASSUME NEW n \in Nat, NEW A, NEW s \in [1..n -> A]
    PROVE  s \in Seq(A) /\ Len(s) = n
  <1>1. s \in Seq(A)
    BY SeqDef
  <1>2. DOMAIN s = 1..Len(s) /\ Len(s) \in Nat
    BY <1>1, LenProperties
  <1>3. \A i \in Nat : i \in 1..n <=> i \in 1..Len(s)
    BY <1>2
  <1>4. ~(n < Len(s)) /\ ~(Len(s) < n)
    <2>1. n < Len(s) => Len(s) \in 1..n
      BY <1>2, <1>3
    <2>2. Len(s) < n => n \in 1..Len(s)
      BY <1>2, <1>3
    <2> QED BY <1>2, <2>1, <2>2
  <1> QED BY <1>1, <1>2, <1>4

\* The orders in which a map is read are such sequences.
LEMMA SeqsAreListings ==
    ASSUME NEW A, IsFiniteSet(A), NEW s \in SetToSeqs(A)
    PROVE  Cardinality(A) \in Nat /\ Listing(s, Cardinality(A), A)
  <1>1. PICK n \in Nat : n = Cardinality(A)
    BY FS_CardinalityType
  <1>2. s \in [1..n -> A] /\ \A i, j \in 1..n : i # j => s[i] # s[j]
    BY <1>1 DEF SetToSeqs
  <1>3. ASSUME NEW x \in A, \A i \in 1..n : s[i] # x PROVE FALSE
    <2>1. s \in [1..n -> A \ {x}]
      BY <1>2, <1>3
    <2>2. IsFiniteSet(A \ {x}) /\ Cardinality(A \ {x}) = n - 1
      BY <1>1, FS_RemoveElement
    <2>3. IsFiniteSet(1..n) /\ Cardinality(1..n) = n
      BY FS_Interval
    <2>4. Cardinality(A \ {x}) < Cardinality(1..n)
      BY <2>2, <2>3
    <2>5. PICK i \in 1..n, j \in 1..n : i # j /\ s[i] = s[j]
      BY <2>1, <2>2, <2>3, <2>4, FS_PigeonHole
    <2> QED BY <1>2, <2>5
  <1> QED BY <1>1, <1>2, <1>3 DEF Listing

\* OutOfOrder compares counts, then dates.
LEMMA Comparing ==
    ASSUME NEW a, NEW b, NEW c,
           tracker[a] \in Usage, tracker[b] \in Usage, tracker[c] \in Usage
    PROVE  /\ ~OutOfOrder(a, a)
           /\ OutOfOrder(a, b) => ~OutOfOrder(b, a)
           /\ ~OutOfOrder(a, b) /\ ~OutOfOrder(b, c) => ~OutOfOrder(a, c)
  <1> DEFINE k(x) == tracker[x].count
             d(x) == tracker[x].accessed
  <1>1. /\ k(a) \in Nat /\ k(b) \in Nat /\ k(c) \in Nat
        /\ d(a) \in Nat /\ d(b) \in Nat /\ d(c) \in Nat
    BY DEF Usage
  <1>2. /\ OutOfOrder(a, a) <=> k(a) > k(a) \/ (k(a) = k(a) /\ d(a) > d(a))
        /\ OutOfOrder(a, b) <=> k(a) > k(b) \/ (k(a) = k(b) /\ d(a) > d(b))
        /\ OutOfOrder(b, a) <=> k(b) > k(a) \/ (k(b) = k(a) /\ d(b) > d(a))
        /\ OutOfOrder(b, c) <=> k(b) > k(c) \/ (k(b) = k(c) /\ d(b) > d(c))
        /\ OutOfOrder(a, c) <=> k(a) > k(c) \/ (k(a) = k(c) /\ d(a) > d(c))
    BY DEF OutOfOrder
  <1> HIDE DEF k, d
  <1> QED BY <1>1, <1>2

\* One comparison of the loops.
LEMMA ExchangeFacts ==
    ASSUME NEW n \in Nat, NEW A, \A x \in A : tracker[x] \in Usage,
           NEW s, Listing(s, n, A), NEW i \in 1..n, NEW j \in 1..n, i # j
    PROVE  /\ Listing(Exchange(s, i, j), n, A)
           /\ \A k \in 1..n : k # i /\ k # j => Exchange(s, i, j)[k] = s[k]
           /\ Exchange(s, i, j)[i] \in {s[i], s[j]} /\ Exchange(s, i, j)[j] \in {s[i], s[j]}
           /\ \/ Exchange(s, i, j)[i] = s[i]
              \/ Exchange(s, i, j)[i] = s[j] /\ ~OutOfOrder(s[j], s[i])
           /\ ~OutOfOrder(Exchange(s, i, j)[i], Exchange(s, i, j)[j])
  <1>1. /\ s \in [1..n -> A] /\ \A k, l \in 1..n : k # l => s[k] # s[l]
        /\ \A x \in A : \E k \in 1..n : s[k] = x
    BY DEF Listing
  <1>2. s[i] \in A /\ s[j] \in A
    BY <1>1
  <1>3. CASE ~OutOfOrder(s[i], s[j])
    <2>1. Exchange(s, i, j) = s
      BY <1>3 DEF Exchange
    <2> QED BY <1>3, <2>1
  <1>4. CASE OutOfOrder(s[i], s[j])
    <2>1. PICK e : e = [s EXCEPT ![i] = s[j], ![j] = s[i]]
      OBVIOUS
    <2>2. Exchange(s, i, j) = e
      BY <1>4, <2>1 DEF Exchange
    <2>3. /\ e \in [1..n -> A] /\ e[i] = s[j] /\ e[j] = s[i]
          /\ \A k \in 1..n : k # i /\ k # j => e[k] = s[k]
      BY <1>1, <1>2, <2>1
    <2>4. ASSUME NEW k \in 1..n, NEW l \in 1..n, k # l PROVE e[k] # e[l]
      <3>1. s[i] # s[j] /\ s[k] # s[l]
        BY <1>1, <2>4
      <3>2. CASE k = i \/ k = j
        <4>1. l # i /\ l # j => s[l] # s[i] /\ s[l] # s[j]
          BY <1>1
        <4> QED BY <2>3, <2>4, <3>1, <3>2, <4>1
      <3>3. CASE k # i /\ k # j
        <4>1. s[k] # s[i] /\ s[k] # s[j] /\ e[k] = s[k]
          BY <1>1, <2>3, <3>3
        <4> QED BY <2>3, <3>1, <3>3, <4>1
      <3> QED BY <3>2, <3>3
    <2>5. ASSUME NEW x \in A PROVE \E k \in 1..n : e[k] = x
      <3>1. PICK k \in 1..n : s[k] = x
        BY <1>1
      <3>2. x = e[k] \/ x = e[i] \/ x = e[j]
        BY <2>3, <3>1
      <3> QED BY <3>2
    <2>6. ~OutOfOrder(s[j], s[i])
      BY <1>2, <1>4, Comparing
    <2> QED BY <2>2, <2>3, <2>4, <2>5, <2>6 DEF Listing
  <1> QED BY <1>3, <1>4

\* The passes of the inner loop, as a recursion on the position j.
PassRule(c, s, n, i) ==
    c = [j \in i..n |-> IF j = i THEN s ELSE Exchange(c[j - 1], i, j)]

\* The states of a pass exist.
LEMMA PassExists ==
    ASSUME NEW n \in Nat, NEW A, \A x \in A : tracker[x] \in Usage,
           NEW s, Listing(s, n, A), NEW i \in 1..n
    PROVE  \E c : PassRule(c, s, n, i)
  <1>1. PICK R : R = {t \in [1..n -> A] : Listing(t, n, A)}
    OBVIOUS
  <1>2. s \in R /\ i \in Nat
    BY <1>1 DEF Listing
  <1>3. \A t \in R, j \in 1..n : j # i => Exchange(t, i, j) \in R
    <2>1. ASSUME NEW t \in R, NEW j \in 1..n, j # i PROVE Exchange(t, i, j) \in R
      <3>1. Listing(Exchange(t, i, j), n, A)
        BY <1>1, <2>1, ExchangeFacts
      <3> QED BY <1>1, <3>1 DEF Listing
    <2> QED BY <2>1
  <1> DEFINE new(j, t) == IF j \in 1..n /\ j # i THEN Exchange(t, i, j) ELSE t
  <1>4. PICK F : F = [jt \in Nat \X R |-> new(jt[1], jt[2])]
    OBVIOUS
  <1>5. F \in [Nat \X R -> R]
    BY <1>3, <1>4
  <1>6. PICK w \in [i..n -> R] :
            w[i] = s /\ \A j \in i..n : j # i => w[j] = F[<<j, w[j - 1]>>]
    <2> HIDE DEF new
    <2> SUFFICES \E w \in [i..n -> R] : Loop(w, i, n, s, F)
      BY DEF Loop
    <2>1. i <= n
      OBVIOUS
    <2> QED BY <1>2, <1>5, <2>1, LoopExists
  <1>7. ASSUME NEW j \in i..n, j # i PROVE F[<<j, w[j - 1]>>] = Exchange(w[j - 1], i, j)
    <2>1. j - 1 \in i..n /\ j \in 1..n /\ j \in Nat
      BY <1>7
    <2>2. <<j, w[j - 1]>> \in Nat \X R
      BY <1>6, <2>1
    <2> QED BY <1>4, <1>7, <2>1, <2>2
  <1>8. w = [j \in i..n |-> IF j = i THEN s ELSE Exchange(w[j - 1], i, j)]
    BY <1>6, <1>7
  <1> QED BY <1>8 DEF PassRule

\* After the comparison with position j: what the pass has seen so far is not
\* out of order with position i, and positions before i are as they were.
Swept(t, s, n, A, i, j) ==
    /\ Listing(t, n, A)
    /\ \A k \in 1..n : k < i => t[k] = s[k]
    /\ \A k \in 1..n : k >= i => \E m \in 1..n : m >= i /\ t[k] = s[m]
    /\ \A k \in 1..n : i < k /\ k <= j => ~OutOfOrder(t[i], t[k])

\* One more comparison of a pass.
LEMMA SweepsOn ==
    ASSUME NEW n \in Nat, NEW A, \A x \in A : tracker[x] \in Usage,
           NEW s, NEW t, NEW i \in 1..n, NEW j \in 1..n, i < j, Swept(t, s, n, A, i, j - 1)
    PROVE  Swept(Exchange(t, i, j), s, n, A, i, j)
  <1>1. Listing(t, n, A) /\ t \in [1..n -> A]
    BY DEF Swept, Listing
  <1>2. PICK e : e = Exchange(t, i, j)
    OBVIOUS
  <1>3. /\ Listing(e, n, A)
        /\ \A k \in 1..n : k # i /\ k # j => e[k] = t[k]
        /\ e[i] \in {t[i], t[j]} /\ e[j] \in {t[i], t[j]}
        /\ e[i] = t[i] \/ (e[i] = t[j] /\ ~OutOfOrder(t[j], t[i]))
        /\ ~OutOfOrder(e[i], e[j])
    <2>1. i # j
      OBVIOUS
    <2>2. /\ Listing(Exchange(t, i, j), n, A)
          /\ \A k \in 1..n : k # i /\ k # j => Exchange(t, i, j)[k] = t[k]
          /\ Exchange(t, i, j)[i] \in {t[i], t[j]} /\ Exchange(t, i, j)[j] \in {t[i], t[j]}
          /\ \/ Exchange(t, i, j)[i] = t[i]
             \/ Exchange(t, i, j)[i] = t[j] /\ ~OutOfOrder(t[j], t[i])
          /\ ~OutOfOrder(Exchange(t, i, j)[i], Exchange(t, i, j)[j])
      BY <1>1, <2>1, ExchangeFacts
    <2> QED BY <1>2, <2>2
  <1>4. \A k \in 1..n : k < i => e[k] = s[k]
    BY <1>3 DEF Swept
  <1>5. ASSUME NEW k \in 1..n, k >= i PROVE \E m \in 1..n : m >= i /\ e[k] = s[m]
    <2>1. PICK l \in 1..n : l >= i /\ e[k] = t[l]
      BY <1>3, <1>5
    <2> QED BY <2>1 DEF Swept
  <1>6. ASSUME NEW k \in 1..n, i < k, k <= j PROVE ~OutOfOrder(e[i], e[k])
    <2>1. CASE k = j
      BY <1>3, <2>1
    <2>2. CASE k # j
      <3>1. k <= j - 1 /\ e[k] = t[k] /\ ~OutOfOrder(t[i], t[k])
        BY <1>3, <1>6, <2>2 DEF Swept
      <3>2. t[i] \in A /\ t[j] \in A /\ t[k] \in A
        BY <1>1
      <3> QED BY <1>3, <3>1, <3>2, Comparing
    <2> QED BY <2>1, <2>2
  <1> QED BY <1>2, <1>3, <1>4, <1>5, <1>6 DEF Swept

\* A pass puts what comes first of the rest at its position.
LEMMA PassSorts ==
    ASSUME NEW n \in Nat, NEW A, \A x \in A : tracker[x] \in Usage,
           NEW s, Listing(s, n, A), NEW i \in 1..n, SortedTo(s, i - 1, n)
    PROVE  Listing(Pass(s, i), n, A) /\ SortedTo(Pass(s, i), i, n)
  <1>1. Len(s) = n
    BY LengthOfListing DEF Listing
  <1> DEFINE c == CHOOSE c : PassRule(c, s, n, i)
  <1>2. Pass(s, i) = c[n]
    BY <1>1 DEF Pass, PassRule
  <1>3. PassRule(c, s, n, i)
    BY PassExists
  <1> HIDE DEF c
  <1>4. PICK P : P = {j \in i..n : Swept(c[j], s, n, A, i, j)}
    OBVIOUS
  <1>5. i \in P
    <2>1. c[i] = s
      BY <1>3 DEF PassRule
    <2> QED BY <1>4, <2>1 DEF Swept
  <1>6. ASSUME NEW j \in i..n, j < n, j \in P PROVE j + 1 \in P
    <2>1. j + 1 \in i..n /\ j + 1 # i /\ (j + 1) - 1 = j /\ j + 1 \in 1..n /\ i < j + 1
      BY <1>6
    <2>2. c[j + 1] = Exchange(c[j], i, j + 1)
      BY <1>3, <2>1 DEF PassRule
    <2>3. Swept(c[j], s, n, A, i, (j + 1) - 1)
      BY <1>4, <1>6, <2>1
    <2> QED BY <1>4, <2>1, <2>2, <2>3, SweepsOn
  <1>7. i \in Nat /\ n \in i..n
    OBVIOUS
  <1>8. n \in P
    BY <1>5, <1>6, <1>7, AllInRange
  <1>9. PICK t : t = c[n]
    OBVIOUS
  <1>10. Swept(t, s, n, A, i, n)
    BY <1>4, <1>8, <1>9
  <1>11. ASSUME NEW k \in 1..i, NEW l \in 1..n, k < l PROVE ~OutOfOrder(t[k], t[l])
    <2>1. CASE k = i
      BY <1>10, <1>11, <2>1 DEF Swept
    <2>2. CASE k # i
      <3>1. k \in 1..i - 1 /\ k \in 1..n /\ k < i
        BY <2>2
      <3>2. t[k] = s[k]
        BY <1>10, <3>1 DEF Swept
      <3>3. PICK m \in 1..n : k < m /\ t[l] = s[m]
        <4>1. CASE l < i
          BY <1>10, <1>11, <4>1 DEF Swept
        <4>2. CASE l >= i
          <5>1. PICK m \in 1..n : m >= i /\ t[l] = s[m]
            BY <1>10, <4>2 DEF Swept
          <5> QED BY <3>1, <5>1
        <4> QED BY <4>1, <4>2
      <3> QED BY <3>1, <3>2, <3>3 DEF SortedTo
    <2> QED BY <2>1, <2>2
  <1> QED BY <1>2, <1>9, <1>10, <1>11 DEF Swept, SortedTo

\* The passes of the outer loop.
SortRule(c, s, n) == c = [i \in 0..n |-> IF i = 0 THEN s ELSE Pass(c[i - 1], i)]

\* A sequence that has been sorted up to position i.
SortedListing(t, n, A, i) == Listing(t, n, A) /\ SortedTo(t, i, n)

\* The results of the passes exist.
LEMMA SortExists ==
    ASSUME NEW n \in Nat, NEW A, \A x \in A : tracker[x] \in Usage,
           NEW s, Listing(s, n, A)
    PROVE  \E c : SortRule(c, s, n)
  <1>1. PICK R : R = {it \in (0..n) \X [1..n -> A] : SortedListing(it[2], n, A, it[1])}
    OBVIOUS
  <1>2. <<0, s>> \in R
    BY <1>1 DEF Listing, SortedTo, SortedListing
  <1> DEFINE next(i, r) == IF i \in 1..n /\ r[1] = i - 1 THEN <<i, Pass(r[2], i)>> ELSE r
  <1>3. PICK F : F = [ir \in Nat \X R |-> next(ir[1], ir[2])]
    OBVIOUS
  <1>4. ASSUME NEW i \in Nat, NEW r \in R PROVE next(i, r) \in R
    <2>1. CASE i \in 1..n /\ r[1] = i - 1
      <3>1. Listing(r[2], n, A) /\ SortedTo(r[2], i - 1, n)
        BY <1>1, <2>1 DEF SortedListing
      <3>2. Listing(Pass(r[2], i), n, A) /\ SortedTo(Pass(r[2], i), i, n)
        BY <2>1, <3>1, PassSorts
      <3>3. Pass(r[2], i) \in [1..n -> A] /\ i \in 0..n
        BY <2>1, <3>2 DEF Listing
      <3> QED BY <1>1, <2>1, <3>2, <3>3 DEF SortedListing
    <2>2. CASE ~(i \in 1..n /\ r[1] = i - 1)
      BY <2>2
    <2> QED BY <2>1, <2>2
  <1>5. F \in [Nat \X R -> R]
    BY <1>3, <1>4
  <1>6. PICK w \in [0..n -> R] :
            w[0] = <<0, s>> /\ \A i \in 0..n : i # 0 => w[i] = F[<<i, w[i - 1]>>]
    <2> HIDE DEF next
    <2> SUFFICES \E w \in [0..n -> R] : Loop(w, 0, n, <<0, s>>, F)
      BY DEF Loop
    <2>1. 0 \in Nat /\ 0 <= n
      OBVIOUS
    <2> QED BY <1>2, <1>5, <2>1, LoopExists
  <1>7. ASSUME NEW i \in 0..n, i # 0 PROVE w[i] = next(i, w[i - 1])
    <2>1. i - 1 \in 0..n /\ i \in Nat
      BY <1>7
    <2>2. <<i, w[i - 1]>> \in Nat \X R
      BY <1>6, <2>1
    <2>3. F[<<i, w[i - 1]>>] = next(i, w[i - 1])
      BY <1>3, <2>2
    <2> QED BY <1>6, <1>7, <2>3
  <1>8. PICK P : P = {i \in 0..n : w[i][1] = i}
    OBVIOUS
  <1>9. 0 \in P
    BY <1>6, <1>8
  <1>10. ASSUME NEW i \in 0..n, i < n, i \in P PROVE i + 1 \in P
    <2>1. i + 1 \in 0..n /\ i + 1 # 0 /\ (i + 1) - 1 = i /\ i + 1 \in 1..n
      BY <1>10
    <2>2. w[i + 1] = <<i + 1, Pass(w[i][2], i + 1)>>
      BY <1>7, <1>8, <1>10, <2>1
    <2> QED BY <1>8, <2>1, <2>2
  <1>11. \A i \in 0..n : i \in P
    BY <1>9, <1>10, AllInRange
  <1> DEFINE v == [i \in 0..n |-> w[i][2]]
  <1>12. ASSUME NEW i \in 0..n PROVE v[i] = IF i = 0 THEN s ELSE Pass(v[i - 1], i)
    <2>1. CASE i = 0
      BY <1>6, <2>1
    <2>2. CASE i # 0
      <3>1. i - 1 \in 0..n /\ i \in 1..n
        BY <2>2
      <3>2. w[i - 1][1] = i - 1
        BY <1>8, <1>11, <3>1
      <3>3. w[i] = <<i, Pass(w[i - 1][2], i)>>
        BY <1>7, <2>2, <3>1, <3>2
      <3> QED BY <2>2, <3>1, <3>3
    <2> QED BY <2>1, <2>2
  <1>13. SortRule(v, s, n)
    BY <1>12 DEF SortRule
  <1> QED BY <1>13

\* The exchanges sort any list.
LEMMA SortedSorts ==
    ASSUME NEW n \in Nat, NEW A, \A x \in A : tracker[x] \in Usage,
           NEW s, Listing(s, n, A)
    PROVE  SortedListing(Sorted(s), n, A, n)
  <1>1. Len(s) = n
    BY LengthOfListing DEF Listing
  <1> DEFINE c == CHOOSE c : SortRule(c, s, n)
  <1>2. Sorted(s) = c[n]
    BY <1>1 DEF Sorted, SortRule
  <1>3. SortRule(c, s, n)
    BY SortExists
  <1> HIDE DEF c
  <1>4. PICK P : P = {i \in 0..n : SortedListing(c[i], n, A, i)}
    OBVIOUS
  <1>5. 0 \in P
    <2>1. c[0] = s
      BY <1>3 DEF SortRule
    <2> QED BY <1>4, <2>1 DEF SortedTo, SortedListing
  <1>6. ASSUME NEW i \in 0..n, i < n, i \in P PROVE i + 1 \in P
    <2>1. i + 1 \in 0..n /\ i + 1 # 0 /\ (i + 1) - 1 = i /\ i + 1 \in 1..n
      BY <1>6
    <2>2. c[i + 1] = Pass(c[i], i + 1)
      BY <1>3, <2>1 DEF SortRule
    <2>3. Listing(c[i], n, A) /\ SortedTo(c[i], (i + 1) - 1, n)
      BY <1>4, <1>6, <2>1 DEF SortedListing
    <2> QED BY <1>4, <2>1, <2>2, <2>3, PassSorts DEF SortedListing
  <1>7. n \in P
    BY <1>5, <1>6, AllInRange
  <1> QED BY <1>2, <1>4, <1>7

\* The loop over the list that skips the template to be pulled.
KeptRule(c, p, s, n) ==
    c = [i \in 0..n |-> IF i = 0 THEN <<>>
                        ELSE IF s[i] = T(p) THEN c[i - 1] ELSE Append(c[i - 1], s[i])]

\* The states of this loop exist.
LEMMA KeptExists ==
    ASSUME NEW n \in Nat, NEW A, NEW s \in [1..n -> A], NEW p
    PROVE  \E c : KeptRule(c, p, s, n)
  <1>1. PICK R : R = Seq(A)
    OBVIOUS
  <1>2. <<>> \in R
    BY <1>1
  <1> DEFINE next(i, r) == IF i \in 1..n /\ s[i] # T(p) THEN Append(r, s[i]) ELSE r
  <1>3. PICK F : F = [ir \in Nat \X R |-> next(ir[1], ir[2])]
    OBVIOUS
  <1>4. F \in [Nat \X R -> R]
    BY <1>1, <1>3
  <1>5. PICK w \in [0..n -> R] :
            w[0] = <<>> /\ \A i \in 0..n : i # 0 => w[i] = F[<<i, w[i - 1]>>]
    <2> HIDE DEF next
    <2> SUFFICES \E w \in [0..n -> R] : Loop(w, 0, n, <<>>, F)
      BY DEF Loop
    <2>1. 0 \in Nat /\ 0 <= n
      OBVIOUS
    <2> QED BY <1>2, <1>4, <2>1, LoopExists
  <1>6. ASSUME NEW i \in 0..n, i # 0 PROVE w[i] = next(i, w[i - 1])
    <2>1. i - 1 \in 0..n /\ i \in Nat
      BY <1>6
    <2>2. <<i, w[i - 1]>> \in Nat \X R
      BY <1>5, <2>1
    <2>3. F[<<i, w[i - 1]>>] = next(i, w[i - 1])
      BY <1>3, <2>2
    <2> QED BY <1>5, <1>6, <2>3
  <1> DEFINE value(i) == IF i = 0 THEN <<>>
                         ELSE IF s[i] = T(p) THEN w[i - 1] ELSE Append(w[i - 1], s[i])
  <1>7. ASSUME NEW i \in 0..n PROVE w[i] = value(i)
    <2>1. CASE i = 0
      BY <1>5, <2>1
    <2>2. CASE i # 0
      <3>1. i \in 1..n
        BY <2>2
      <3> QED BY <1>6, <2>2, <3>1
    <2> QED BY <2>1, <2>2
  <1>8. w = [i \in 0..n |-> value(i)]
    <2> HIDE DEF value
    <2> QED BY <1>5, <1>7
  <1> QED BY <1>8 DEF KeptRule

\* What has been kept of the first i elements, in their order.
Keeping(c, p, s, A, i) ==
    /\ c \in Seq(A)
    /\ \A a \in 1..Len(c) : \E k \in 1..i : c[a] = s[k] /\ s[k] # T(p)
    /\ \A k \in 1..i : s[k] # T(p) => \E a \in 1..Len(c) : c[a] = s[k]
    /\ \A a, b \in 1..Len(c) :
          a < b => \E k, l \in 1..i : k < l /\ c[a] = s[k] /\ c[b] = s[l]

\* One more round of this loop.
LEMMA KeepsOn ==
    ASSUME NEW n \in Nat, NEW A, NEW s \in [1..n -> A], NEW p, NEW c,
           NEW i \in 1..n, Keeping(c, p, s, A, i - 1)
    PROVE  /\ s[i] = T(p) => Keeping(c, p, s, A, i)
           /\ s[i] # T(p) => Keeping(Append(c, s[i]), p, s, A, i)
  <1>0. \A k \in 1..i - 1 : k \in 1..i /\ k < i
    OBVIOUS
  <1>1. ASSUME s[i] = T(p) PROVE Keeping(c, p, s, A, i)
    <2>1. \A k \in 1..i : s[k] # T(p) => k \in 1..i - 1
      BY <1>1
    <2> QED BY <1>0, <2>1 DEF Keeping
  <1>2. ASSUME s[i] # T(p) PROVE Keeping(Append(c, s[i]), p, s, A, i)
    <2>1. PICK d : d = Append(c, s[i])
      OBVIOUS
    <2>2. PICK m \in Nat : m = Len(c)
      BY DEF Keeping
    <2>3. s[i] \in A
      OBVIOUS
    <2>4. /\ d \in Seq(A) /\ Len(d) = m + 1 /\ d[m + 1] = s[i]
          /\ \A a \in 1..m : d[a] = c[a]
      BY <2>1, <2>2, <2>3 DEF Keeping
    <2>5. ASSUME NEW a \in 1..m + 1 PROVE \E k \in 1..i : d[a] = s[k] /\ s[k] # T(p)
      <3>1. CASE a = m + 1
        BY <1>2, <2>4, <3>1
      <3>2. CASE a # m + 1
        <4>1. a \in 1..m
          BY <3>2
        <4> QED BY <1>0, <2>2, <2>4, <4>1 DEF Keeping
      <3> QED BY <3>1, <3>2
    <2>6. ASSUME NEW k \in 1..i, s[k] # T(p) PROVE \E a \in 1..m + 1 : d[a] = s[k]
      <3>1. CASE k = i
        BY <2>4, <3>1
      <3>2. CASE k # i
        <4>1. k \in 1..i - 1
          BY <3>2
        <4>2. PICK a \in 1..m : c[a] = s[k]
          BY <2>2, <2>6, <4>1 DEF Keeping
        <4> QED BY <2>4, <4>2
      <3> QED BY <3>1, <3>2
    <2>7. ASSUME NEW a \in 1..m + 1, NEW b \in 1..m + 1, a < b
          PROVE  \E k, l \in 1..i : k < l /\ d[a] = s[k] /\ d[b] = s[l]
      <3>1. a \in 1..m
        BY <2>7
      <3>2. CASE b = m + 1
        <4>1. PICK k \in 1..i - 1 : c[a] = s[k]
          BY <2>2, <3>1 DEF Keeping
        <4>2. k \in 1..i /\ i \in 1..i /\ k < i
          BY <1>0
        <4> QED BY <2>4, <3>1, <3>2, <4>1, <4>2
      <3>3. CASE b # m + 1
        <4>1. b \in 1..m
          BY <3>3
        <4>2. PICK k \in 1..i - 1, l \in 1..i - 1 : k < l /\ c[a] = s[k] /\ c[b] = s[l]
          BY <2>2, <2>7, <3>1, <4>1 DEF Keeping
        <4> QED BY <1>0, <2>4, <3>1, <4>1, <4>2
      <3> QED BY <3>2, <3>3
    <2>8. Keeping(d, p, s, A, i)
      <3> HIDE <2>1, <2>2
      <3>1. 1..Len(d) = 1..m + 1
        BY <2>4
      <3> QED BY <2>4, <2>5, <2>6, <2>7, <3>1 DEF Keeping
    <2> QED BY <2>1, <2>8
  <1> QED BY <1>1, <1>2

\* What the loop leaves is the list without the template to be pulled.
LEMMA CandidatesKept ==
    ASSUME NEW n \in Nat, NEW A, NEW s \in [1..n -> A], NEW p
    PROVE  Keeping(Candidates(p, s), p, s, A, n)
  <1>1. Len(s) = n
    BY LengthOfListing
  <1> DEFINE c == CHOOSE c : KeptRule(c, p, s, n)
  <1>2. Candidates(p, s) = c[n]
    BY <1>1 DEF Candidates, KeptRule
  <1>3. KeptRule(c, p, s, n)
    BY KeptExists
  <1> HIDE DEF c
  <1>4. PICK P : P = {i \in 0..n : Keeping(c[i], p, s, A, i)}
    OBVIOUS
  <1>5. 0 \in P
    <2>1. c[0] = <<>>
      BY <1>3 DEF KeptRule
    <2>2. PICK e : e = c[0]
      OBVIOUS
    <2>3. e \in Seq(A) /\ Len(e) = 0
      BY <2>1, <2>2
    <2>4. Keeping(e, p, s, A, 0)
      BY <2>3 DEF Keeping
    <2> QED BY <1>4, <2>2, <2>4
  <1>6. ASSUME NEW i \in 0..n, i < n, i \in P PROVE i + 1 \in P
    <2>1. i + 1 \in 0..n /\ i + 1 > 0 /\ i + 1 # 0 /\ (i + 1) - 1 = i /\ i + 1 \in 1..n
      BY <1>6
    <2>2. Keeping(c[i], p, s, A, (i + 1) - 1)
      BY <1>4, <1>6, <2>1
    <2>3. CASE s[i + 1] = T(p)
      <3>1. c[i + 1] = c[i]
        BY <1>3, <2>1, <2>3 DEF KeptRule
      <3>2. Keeping(c[i], p, s, A, i + 1)
        BY <2>1, <2>2, <2>3, KeepsOn
      <3> QED BY <1>4, <2>1, <3>1, <3>2
    <2>4. CASE s[i + 1] # T(p)
      <3>1. c[i + 1] = Append(c[i], s[i + 1])
        BY <1>3, <2>1, <2>4 DEF KeptRule
      <3>2. Keeping(Append(c[i], s[i + 1]), p, s, A, i + 1)
        BY <2>1, <2>2, <2>4, KeepsOn
      <3> QED BY <1>4, <2>1, <3>1, <3>2
    <2> QED BY <2>3, <2>4
  <1>7. 0 <= n /\ 0 \in Nat /\ n \in 0..n
    OBVIOUS
  <1>8. n \in P
    BY <1>5, <1>6, <1>7, AllInRange
  <1> QED BY <1>2, <1>4, <1>8

\* What may be deleted: the list a cleanup works through has each of these
\* templates once, least used first (GetLeastRecentlyUsedTemplates).
Listed(t) == Tracks(t) /\ ~tracker[t].pulling
Evictable(p) == {t \in Templates : Listed(t) /\ t # T(p)}

\* What a cleanup may delete, in the order in which it does.
LEMMA CandidatesFacts ==
    ASSUME tracker \in [Templates -> Usage \cup {None}],
           NEW p, NEW all \in LeastRecentlyUsed
    PROVE  /\ Candidates(p, all) \in Seq(Templates)
           /\ ToSet(Candidates(p, all)) = Evictable(p)
           /\ \A i, j \in 1..Len(Candidates(p, all)) :
                 i < j => /\ Candidates(p, all)[i] # Candidates(p, all)[j]
                          /\ ~OutOfOrder(Candidates(p, all)[i], Candidates(p, all)[j])
           /\ CountForCleanup(p, all) # 0 => Candidates(p, all) # <<>>
  <1>1. PICK A : A = {t \in Templates : Listed(t)}
    OBVIOUS
  <1>2. IsFiniteSet(A)
    BY <1>1, FS_Subset, StoreAssumption
  <1>3. \A x \in A : tracker[x] \in Usage
    BY <1>1 DEF Listed, Tracks
  <1>4. PICK s : s \in SetToSeqs(A) /\ all = Sorted(s)
    BY <1>1 DEF LeastRecentlyUsed, Listed
  <1>5. PICK n \in Nat : Listing(s, n, A)
    BY <1>2, <1>4, SeqsAreListings
  <1>6. Listing(all, n, A) /\ SortedTo(all, n, n)
    BY <1>3, <1>4, <1>5, SortedSorts DEF SortedListing
  <1>7. /\ all \in [1..n -> A] /\ \A i, j \in 1..n : i # j => all[i] # all[j]
        /\ \A x \in A : \E i \in 1..n : all[i] = x
    BY <1>6 DEF Listing
  <1>8. PICK c : c = Candidates(p, all)
    OBVIOUS
  <1>9. Keeping(c, p, all, A, n)
    BY <1>7, <1>8, CandidatesKept
  <1>10. /\ c \in Seq(A)
         /\ \A a \in 1..Len(c) : \E k \in 1..n : c[a] = all[k] /\ all[k] # T(p)
         /\ \A k \in 1..n : all[k] # T(p) => \E a \in 1..Len(c) : c[a] = all[k]
         /\ \A a, b \in 1..Len(c) :
               a < b => \E k, l \in 1..n : k < l /\ c[a] = all[k] /\ c[b] = all[l]
    BY <1>9 DEF Keeping
  <1>11. c \in Seq(Templates)
    BY <1>1, <1>10, SeqMonotonic
  <1>12. ToSet(c) = Evictable(p)
    <2>1. DOMAIN c = 1..Len(c)
      BY <1>10
    <2>2. ASSUME NEW x \in ToSet(c) PROVE x \in Evictable(p)
      <3>1. PICK a \in 1..Len(c) : x = c[a]
        BY <2>1, <2>2 DEF ToSet
      <3>2. PICK k \in 1..n : x = all[k] /\ all[k] # T(p)
        BY <1>10, <3>1
      <3>3. x \in A
        BY <1>7, <3>2
      <3> QED BY <1>1, <3>2, <3>3 DEF Evictable
    <2>3. ASSUME NEW x \in Evictable(p) PROVE x \in ToSet(c)
      <3>1. x \in A /\ x # T(p)
        BY <1>1, <2>3 DEF Evictable
      <3>2. PICK k \in 1..n : all[k] = x
        BY <1>7, <3>1
      <3>3. PICK a \in 1..Len(c) : c[a] = x
        BY <1>10, <3>1, <3>2
      <3> QED BY <2>1, <3>3 DEF ToSet
    <2> QED BY <2>2, <2>3
  <1>13. ASSUME NEW i \in 1..Len(c), NEW j \in 1..Len(c), i < j
         PROVE  c[i] # c[j] /\ ~OutOfOrder(c[i], c[j])
    <2>1. PICK k \in 1..n, l \in 1..n : k < l /\ c[i] = all[k] /\ c[j] = all[l]
      BY <1>10, <1>13
    <2>2. k # l
      BY <2>1
    <2> QED BY <1>6, <1>7, <2>1, <2>2 DEF SortedTo
  <1>14. ASSUME CountForCleanup(p, all) # 0 PROVE c # <<>>
    <2>1. Len(all) = n
      BY <1>7, LengthOfListing
    <2>2. PICK k \in 1..n : all[k] # T(p)
      <3>1. CASE Tracks(T(p)) /\ n > 0
        <4>1. n - 1 # 0
          BY <1>14, <2>1, <3>1 DEF CountForCleanup
        <4>2. 1 \in 1..n /\ 2 \in 1..n /\ 1 # 2
          BY <3>1, <4>1
        <4>3. all[1] # all[2]
          BY <1>7, <4>2
        <4> QED BY <4>2, <4>3
      <3>2. CASE ~Tracks(T(p))
        <4>1. n # 0
          BY <1>14, <2>1, <3>2 DEF CountForCleanup
        <4>2. 1 \in 1..n
          BY <4>1
        <4>3. all[1] \in A
          BY <1>7, <4>2
        <4>4. Tracks(all[1])
          BY <1>1, <4>3 DEF Listed
        <4> QED BY <3>2, <4>2, <4>4
      <3>3. CASE ~(n > 0)
        BY <1>14, <2>1, <3>3 DEF CountForCleanup
      <3> QED BY <3>1, <3>2, <3>3
    <2>3. PICK a \in 1..Len(c) : c[a] = all[k]
      BY <1>10, <2>2
    <2>4. Len(c) # 0
      BY <1>10, <2>3
    <2> QED BY <2>4
  <1> QED BY <1>8, <1>11, <1>12, <1>13, <1>14

-----------------------------------------------------------------------------
(* The marks of pulls.                                                      *)

\* What the proof needs of the types: the tracker's entries are usages, and a
\* plugin in a run has a template.
Typed ==
    /\ store \in [Templates -> Tags \cup {"none"}]
    /\ accessed \in [Templates -> Nat]
    /\ tracker \in [Templates -> Usage \cup {None}]
    /\ pc \in [Plugins -> Pcs]
    /\ want \in [Plugins -> Templates \cup {None}]
    /\ tag \in [Plugins -> Tags \cup {"latest"}]
    /\ runs \in Nat
    /\ \A p \in Plugins : pc[p] \notin {"idle", "admitted"} => want[p] \in Templates

Pulls(p, t) == pc[p] = "pulling" /\ want[p] = t
Marked(t) == Tracks(t) /\ tracker[t].pulling
IInv == Typed /\ \A t \in Templates : Marked(t) => \E p \in Plugins : Pulls(p, t)

\* A template's size on disk is a number, whatever its tag (anka list, anka
\* show).
LEMMA SizeIsNat == ASSUME NEW t \in Templates, NEW v PROVE SizeOf(t, v) \in Nat
  BY StoreAssumption DEF SizeOf

\* Counting a use of a template keeps its Pulling flag (UpdateTemplateUsage).
LEMMA UpdatedUsage ==
    ASSUME Typed, NEW t \in Templates, NEW size \in Nat, NEW now \in Nat
    PROVE  /\ Updated(t, size, now) \in Usage
           /\ Updated(t, size, now).pulling => Marked(t)
  <1>1. CASE Tracks(t)
    <2> DEFINE newSize == IF size > 0 THEN size ELSE tracker[t].size
               newCount == tracker[t].count + 1
    <2>1. tracker[t] \in Usage
      BY <1>1 DEF Typed, Tracks
    <2>2. Updated(t, size, now) =
            [tracker[t] EXCEPT !.accessed = now, !.count = newCount, !.size = newSize]
      BY <1>1 DEF Updated
    <2>3. newSize \in Nat /\ newCount \in Nat
      BY <2>1 DEF Usage
    <2> HIDE DEF newSize, newCount
    <2>4. Updated(t, size, now) \in Usage /\ Updated(t, size, now).pulling = tracker[t].pulling
      BY <2>1, <2>2, <2>3 DEF Usage
    <2> QED BY <1>1, <2>4 DEF Marked
  <1>2. CASE ~Tracks(t)
    BY <1>2 DEF Updated, Usage
  <1> QED BY <1>1, <1>2

\* What a worker finds when it starts is never being pulled
\* (DiscoverAndPopulateExistingTemplates).
LEMMA DiscoveredUsage ==
    ASSUME Typed, NEW S, NEW A
    PROVE  /\ Discovered(S, A) \in [Templates -> Usage \cup {None}]
           /\ \A t \in Templates : Discovered(S, A)[t] # None => ~Discovered(S, A)[t].pulling
  <1>1. ASSUME NEW t \in Templates
        PROVE  /\ Discovered(S, A)[t] \in Usage \cup {None}
               /\ Discovered(S, A)[t] # None => ~Discovered(S, A)[t].pulling
    <2>1. SizeOf(t, store[t]) \in Nat /\ accessed[t] \in Nat /\ runs \in Nat
      BY SizeIsNat DEF Typed
    <2> QED BY <2>1 DEF Discovered, Usage
  <1> QED BY <1>1 DEF Discovered

\* A step that leaves the tracker alone, and takes a plugin neither into nor
\* out of a pull.
LEMMA Elsewhere ==
    ASSUME IInv, Typed', UNCHANGED tracker, NEW p \in Plugins, pc[p] # "pulling",
           NEW l, pc' = [pc EXCEPT ![p] = l],
           \A q \in Plugins \ {p} : want'[q] = want[q]
    PROVE  IInv'
  <1> SUFFICES ASSUME NEW t \in Templates, Marked(t)'
               PROVE  \E q \in Plugins : Pulls(q, t)'
    BY DEF IInv
  <1>1. PICK q \in Plugins : Pulls(q, t)
    BY DEF IInv, Marked, Tracks
  <1>2. q # p /\ pc'[q] = pc[q] /\ want'[q] = want[q]
    BY <1>1 DEF Pulls, IInv, Typed
  <1> QED BY <1>1, <1>2 DEF Pulls

\* A step that marks no template, and takes a plugin out of a pull of the one
\* template it leaves unmarked.
LEMMA MarksNothing ==
    ASSUME IInv, Typed', NEW p \in Plugins, NEW l, pc' = [pc EXCEPT ![p] = l],
           UNCHANGED want,
           \A t \in Templates : Marked(t)' => Marked(t),
           pc[p] = "pulling" => ~Marked(want[p])'
    PROVE  IInv'
  <1> SUFFICES ASSUME NEW t \in Templates, Marked(t)'
               PROVE  \E q \in Plugins : Pulls(q, t)'
    BY DEF IInv
  <1>1. PICK q \in Plugins : Pulls(q, t)
    BY DEF IInv
  <1>2. q # p
    BY <1>1 DEF Pulls
  <1>3. pc'[q] = pc[q] /\ want'[q] = want[q]
    BY <1>2 DEF IInv, Typed
  <1> QED BY <1>1, <1>3 DEF Pulls

LEMMA InitHolds == Init => IInv
  <1> SUFFICES ASSUME Init PROVE IInv
    OBVIOUS
  <1>1. \A t \in Templates : SizeOf(t, store[t]) \in Nat /\ accessed[t] \in Nat
    BY SizeIsNat DEF Init
  <1>2. Typed
    BY <1>1 DEF Init, Typed, Discovered, Usage, Pcs, Tags
  <1> QED BY <1>2, DiscoveredUsage DEF IInv, Init, Marked, Tracks

\* The actions that change the tracker.
LEMMA UseLocalStep ==
    ASSUME IInv, NEW p \in Plugins, UseLocal(p) PROVE IInv'
  <1> DEFINE t == want[p]
  <1>1. t \in Templates /\ accessed[t] \in Nat /\ runs \in Nat /\ SizeOf(t, store[t]) \in Nat
    BY SizeIsNat DEF IInv, Typed, UseLocal
  <1>2. PICK size \in Nat, now \in Nat : tracker' = [tracker EXCEPT ![t] = Updated(t, size, now)]
    BY <1>1 DEF UseLocal, UpdateTemplateUsage, T
  <1>3. Updated(t, size, now) \in Usage /\ (Updated(t, size, now).pulling => Marked(t))
    BY <1>1, UpdatedUsage DEF IInv
  <1>4. pc' = [pc EXCEPT ![p] = "clone"] /\ pc[p] = "use"
    BY DEF UseLocal, Return, Goto
  <1>5. Typed'
    BY <1>1, <1>2, <1>3, <1>4 DEF IInv, Typed, UseLocal, Quiet, disk, job, Pcs
  <1>6. \A s \in Templates : Marked(s)' => Marked(s)
    BY <1>2, <1>3 DEF IInv, Typed, Marked, Tracks
  <1>7. UNCHANGED want
    BY DEF UseLocal, Quiet, job
  <1> QED BY <1>4, <1>5, <1>6, <1>7, MarksNothing

LEMMA UntrackStep ==
    ASSUME IInv, NEW p \in Plugins, Untrack(p) PROVE IInv'
  <1>1. pc' = [pc EXCEPT ![p] = "recheck"] /\ pc[p] = "untrack" /\ UNCHANGED want
    BY DEF Untrack, Goto, Quiet, job
  <1>2. tracker' = [tracker EXCEPT ![Victim(p)] = None]
    BY DEF Untrack, RemoveTemplate
  <1>3. Typed'
    BY <1>1, <1>2 DEF IInv, Typed, Untrack, Quiet, disk, job, Pcs
  <1>4. \A s \in Templates : Marked(s)' => Marked(s)
    BY <1>2 DEF IInv, Typed, Marked, Tracks
  <1> QED BY <1>1, <1>3, <1>4, MarksNothing

LEMMA StartPullStep ==
    ASSUME IInv, NEW p \in Plugins, StartPull(p) PROVE IInv'
  <1> DEFINE t == want[p]
  <1>1. pc' = [pc EXCEPT ![p] = "pulling"] /\ pc[p] = "pull" /\ UNCHANGED want
    BY DEF StartPull, Goto, Quiet, job
  <1>2. t \in Templates
    BY <1>1 DEF IInv, Typed
  <1>3. PICK u \in Usage : tracker' = [tracker EXCEPT ![t] = u]
    <2>1. CASE Tracks(t)
      <3>1. [tracker[t] EXCEPT !.pulling = TRUE] \in Usage
        <4>1. tracker[t] \in Usage
          BY <1>2, <2>1 DEF IInv, Typed, Tracks
        <4> QED BY <4>1 DEF Usage
      <3> QED BY <2>1, <3>1 DEF StartPull, SetTemplatePulling, T
    <2>2. CASE ~Tracks(t)
      <3>1. [size |-> 0, count |-> 0, accessed |-> runs, pulling |-> TRUE] \in Usage
        BY DEF IInv, Typed, Usage
      <3> QED BY <2>2, <3>1 DEF StartPull, SetTemplatePulling, T
    <2> QED BY <2>1, <2>2
  <1>4. Typed'
    BY <1>1, <1>2, <1>3 DEF IInv, Typed, StartPull, Quiet, disk, job, Pcs
  <1>5. ASSUME NEW s \in Templates, Marked(s)' PROVE \E q \in Plugins : Pulls(q, s)'
    <2>1. CASE s = t
      BY <1>1, <2>1 DEF IInv, Typed, Pulls
    <2>2. CASE s # t
      <3>1. Marked(s)
        BY <1>3, <1>5, <2>2 DEF IInv, Typed, Marked, Tracks
      <3>2. PICK q \in Plugins : Pulls(q, s)
        BY <3>1 DEF IInv
      <3> QED BY <1>1, <3>2 DEF IInv, Typed, Pulls
    <2> QED BY <2>1, <2>2
  <1> QED BY <1>4, <1>5 DEF IInv

LEMMA PulledStep ==
    ASSUME IInv, NEW p \in Plugins, Pulled(p) PROVE IInv'
  <1> DEFINE t == want[p]
             size == SizeOf(t, Version(p))
             u == [Updated(t, size, runs) EXCEPT !.pulling = FALSE]
  <1>1. pc' = [pc EXCEPT ![p] = "clone"] /\ pc[p] = "pulling" /\ UNCHANGED want
    BY DEF Pulled, Return, Goto, job
  <1>2. t \in Templates /\ size \in Nat
    BY <1>1, SizeIsNat DEF IInv, Typed
  <1>3. Updated(t, size, runs) \in Usage
    BY <1>2, UpdatedUsage DEF IInv, Typed
  <1>4. u \in Usage /\ u.pulling = FALSE
    BY <1>3 DEF Usage
  <1>5. tracker' = [tracker EXCEPT ![t] = u]
    BY DEF Pulled, T
  <1> HIDE DEF u, size
  <1>6. Typed'
    <2>1. store' \in [Templates -> Tags \cup {"none"}]
      <3>1. store' = [store EXCEPT ![t] = Version(p)] /\ store \in [Templates -> Tags \cup {"none"}]
        <4>1. store' = [store EXCEPT ![t] = Version(p)]
          BY DEF Pulled, T
        <4> QED BY <4>1 DEF IInv, Typed
      <3>2. Version(p) \in Tags \cup {"none"}
        <4>1. tag[p] \in Tags \cup {"latest"}
          BY DEF IInv, Typed
        <4> QED BY <4>1 DEF Version, Tags
      <3> QED BY <3>1, <3>2
    <2>2. accessed' \in [Templates -> Nat] /\ tracker' \in [Templates -> Usage \cup {None}] /\ runs' \in Nat
      <3>1. UNCHANGED <<accessed, runs>>
        BY DEF Pulled
      <3>2. accessed \in [Templates -> Nat] /\ tracker \in [Templates -> Usage \cup {None}] /\ runs \in Nat
        BY DEF IInv, Typed
      <3>3. tracker' \in [Templates -> Usage \cup {None}]
        BY <1>4, <1>5, <3>2
      <3> QED BY <3>1, <3>2, <3>3
    <2>3. tag' = tag /\ pc' \in [Plugins -> Pcs]
      BY <1>1 DEF IInv, Typed, Pulled, job, Pcs
    <2> QED BY <1>1, <1>2, <2>1, <2>2, <2>3 DEF IInv, Typed
  <1>7. \A s \in Templates : Marked(s)' => Marked(s)
    BY <1>4, <1>5 DEF IInv, Typed, Marked, Tracks
  <1>8. ~Marked(t)'
    BY <1>1, <1>2, <1>4, <1>5 DEF IInv, Typed, Marked, Tracks
  <1> QED BY <1>1, <1>6, <1>7, <1>8, MarksNothing

LEMMA PullFailsStep ==
    ASSUME IInv, NEW p \in Plugins, PullFails(p) \/ PullCancelled(p) PROVE IInv'
  <1> DEFINE t == want[p]
  <1>1. PICK l \in {"ended"} : pc' = [pc EXCEPT ![p] = l]
    BY DEF PullFails, PullCancelled, Return, Goto
  <1>2. pc[p] = "pulling" /\ UNCHANGED want
    BY DEF PullFails, PullCancelled, job, Quiet
  <1>3. t \in Templates
    BY <1>2 DEF IInv, Typed
  <1>4. tracker' = [tracker EXCEPT ![t] =
            IF Tracks(t) THEN [tracker[t] EXCEPT !.pulling = FALSE] ELSE tracker[t]]
    BY DEF PullFails, PullCancelled, ClearPulling, T
  <1>5. PICK u \in Usage \cup {None} :
            tracker' = [tracker EXCEPT ![t] = u] /\ (u # None => u.pulling = FALSE)
    <2>1. CASE Tracks(t)
      <3>1. tracker[t] \in Usage
        BY <1>3, <2>1 DEF IInv, Typed, Tracks
      <3>2. [tracker[t] EXCEPT !.pulling = FALSE] \in Usage
        BY <3>1 DEF Usage
      <3>3. [tracker[t] EXCEPT !.pulling = FALSE].pulling = FALSE
        BY <3>1 DEF Usage
      <3> QED BY <1>4, <2>1, <3>2, <3>3
    <2>2. CASE ~Tracks(t)
      BY <1>4, <2>2 DEF Tracks
    <2> QED BY <2>1, <2>2
  <1>6. Typed'
    <2>1. store' \in [Templates -> Tags \cup {"none"}]
      <3>1. Version(p) \in Tags
        BY DEF Version, Tags, IInv, Typed
      <3> QED BY <3>1 DEF IInv, Typed, PullFails, PullCancelled, Quiet, disk, T
    <2>2. UNCHANGED <<accessed, runs, tag>>
      BY DEF PullFails, PullCancelled, Quiet, disk, job
    <2>3. tracker' \in [Templates -> Usage \cup {None}]
      BY <1>5 DEF IInv, Typed
    <2> QED BY <1>1, <1>2, <1>3, <2>1, <2>2, <2>3 DEF IInv, Typed, Pcs
  <1>7. \A s \in Templates : Marked(s)' => Marked(s)
    BY <1>5 DEF IInv, Typed, Marked, Tracks
  <1>8. ~Marked(t)'
    BY <1>2, <1>3, <1>5 DEF IInv, Typed, Marked, Tracks
  <1> QED BY <1>1, <1>2, <1>6, <1>7, <1>8, MarksNothing

LEMMA RestartStep == ASSUME IInv, WorkerRestarts PROVE IInv'
  <1>1. /\ tracker' \in [Templates -> Usage \cup {None}]
        /\ \A t \in Templates : ~Marked(t)'
    BY DiscoveredUsage DEF IInv, WorkerRestarts, Marked, Tracks
  <1>2. Typed'
    BY <1>1 DEF IInv, Typed, WorkerRestarts, disk, job, Pcs
  <1> QED BY <1>1, <1>2 DEF IInv

\* The actions that leave the tracker alone.
Quietly(p) ==
    \/ LoopPasses(p) \/ RunPrepares(p) \/ RunEnds(p)
    \/ ListTemplate(p) \/ ListFails(p) \/ CheckPulling(p)
    \/ SpaceUnknown(p) \/ SpaceSuffices(p) \/ PlanCleanup(p)
    \/ DeleteTemplate(p) \/ DeleteFails(p) \/ Recheck(p) \/ FinalCheck(p)
    \/ Clone(p)

LEMMA QuietStep == ASSUME IInv, NEW p \in Plugins, Quietly(p) PROVE IInv'
  <1>1. /\ UNCHANGED <<tracker, runs>> \/ (LoopPasses(p) /\ UNCHANGED tracker)
        /\ pc[p] # "pulling"
    BY DEF Quietly, LoopPasses, RunPrepares, RunEnds, ListTemplate, ListFails, CheckPulling,
           SpaceUnknown, SpaceSuffices, PlanCleanup, DeleteTemplate, DeleteFails, Recheck,
           FinalCheck, Clone, Quiet
  <1>2. PICK l \in Pcs :
           /\ pc' = [pc EXCEPT ![p] = l]
           /\ \/ l \in {"idle", "admitted"}
              \/ pc[p] \notin {"idle", "admitted"}
              \/ RunPrepares(p)
    BY DEF Quietly, LoopPasses, RunPrepares, RunEnds, ListTemplate, ListFails, CheckPulling,
           SpaceUnknown, SpaceSuffices, PlanCleanup, DeleteTemplate, DeleteFails, Recheck,
           FinalCheck, Clone, NextCandidate, Goto, Return, Pcs
  <1>3. \/ UNCHANGED <<want, tag>>
        \/ /\ RunPrepares(p)
           /\ \E t \in Templates, v \in Tags \cup {"latest"} :
                 want' = [want EXCEPT ![p] = t] /\ tag' = [tag EXCEPT ![p] = v]
    BY DEF Quietly, LoopPasses, RunPrepares, RunEnds, ListTemplate, ListFails, CheckPulling,
           SpaceUnknown, SpaceSuffices, PlanCleanup, DeleteTemplate, DeleteFails, Recheck,
           FinalCheck, Clone, Quiet, job
  <1>4. store' \in [Templates -> Tags \cup {"none"}] /\ accessed' \in [Templates -> Nat]
    BY DEF Quietly, LoopPasses, RunPrepares, RunEnds, ListTemplate, ListFails, CheckPulling,
           SpaceUnknown, SpaceSuffices, PlanCleanup, DeleteTemplate, DeleteFails, Recheck,
           FinalCheck, Clone, Quiet, disk, IInv, Typed
  <1>5. runs' \in Nat
    BY <1>1 DEF LoopPasses, IInv, Typed
  <1>6. want' \in [Plugins -> Templates \cup {None}] /\ tag' \in [Plugins -> Tags \cup {"latest"}]
    BY <1>3 DEF IInv, Typed
  <1>7. \A q \in Plugins \ {p} : want'[q] = want[q]
    BY <1>3 DEF IInv, Typed
  <1>8. ASSUME NEW q \in Plugins, pc'[q] \notin {"idle", "admitted"} PROVE want'[q] \in Templates
    <2>1. CASE q # p
      BY <1>2, <1>7, <1>8, <2>1 DEF IInv, Typed
    <2>2. CASE q = p /\ RunPrepares(p)
      <3>1. PICK t \in Templates : want' = [want EXCEPT ![p] = t]
        BY <2>2 DEF RunPrepares
      <3> QED BY <2>2, <3>1 DEF IInv, Typed
    <2>3. CASE q = p /\ ~RunPrepares(p)
      <3>1. pc'[p] = l
        BY <1>2 DEF IInv, Typed
      <3> QED BY <1>2, <1>3, <1>8, <2>3, <3>1 DEF IInv, Typed
    <2> QED BY <2>1, <2>2, <2>3
  <1>9. Typed'
    BY <1>1, <1>2, <1>4, <1>5, <1>6, <1>8 DEF IInv, Typed
  <1> QED BY <1>1, <1>2, <1>7, <1>9, Elsewhere

LEMMA NextKeeps == IInv /\ [Next]_vars => IInv'
  <1> SUFFICES ASSUME IInv, [Next]_vars PROVE IInv'
    OBVIOUS
  <1>1. ASSUME NEW p \in Plugins, Plugin(p) PROVE IInv'
    <2>1. CASE Quietly(p)
      BY <2>1, QuietStep
    <2>2. CASE UseLocal(p)
      BY <2>2, UseLocalStep
    <2>3. CASE Untrack(p)
      BY <2>3, UntrackStep
    <2>4. CASE StartPull(p)
      BY <2>4, StartPullStep
    <2>5. CASE Pulled(p)
      BY <2>5, PulledStep
    <2>6. CASE PullFails(p) \/ PullCancelled(p)
      BY <2>6, PullFailsStep
    <2> QED BY <1>1, <2>1, <2>2, <2>3, <2>4, <2>5, <2>6 DEF Plugin, Quietly
  <1>2. CASE WorkerRestarts
    BY <1>2, RestartStep
  <1>3. CASE UNCHANGED vars
    BY <1>3 DEF vars, disk, job, IInv, Typed, Marked, Tracks, Pulls
  <1> QED BY <1>1, <1>2, <1>3 DEF Next

LEMMA Implied == IInv => NoStuckPull
  BY DEF IInv, NoStuckPull, Marked, Pulls

\* However many plugins pull, delete, fail, are cancelled or restart, a template
\* is marked as being pulled only while one of them pulls it.
THEOREM NoPullIsStuck == Spec => []NoStuckPull
  <1>1. Init => IInv
    BY InitHolds
  <1>2. IInv /\ [Next]_vars => IInv'
    BY NextKeeps
  <1>3. IInv => NoStuckPull
    BY Implied
  <1> QED BY <1>1, <1>2, <1>3, PTL DEF Spec

-----------------------------------------------------------------------------
(* The tracker knows what is on the host.                                   *)

\* The plugins of the host do not overlap (the Preparing flags).
OnePlugin == \A p, q \in Plugins : p = q

\* Between the two steps of AnkaDeleteTemplate the victim is not on the host,
\* and a template is tracked while it is pulled.
Midway(p) ==
    /\ pc[p] = "untrack" /\ Victim(p) \in Templates => store[Victim(p)] = "none"
    /\ pc[p] = "pulling" => Tracks(want[p])
TInv == Tracked /\ \A p \in Plugins : Midway(p)

LEMMA UsageIsTracked ==
    ASSUME NEW u \in Usage
    PROVE  u # None
  BY StoreAssumption

\* A discovery finds every template that is on the host.
LEMMA DiscoveredTracks ==
    ASSUME Typed, NEW S, NEW A
    PROVE  \A t \in Templates : store[t] # "none" => Discovered(S, A)[t] # None
  <1> SUFFICES ASSUME NEW t \in Templates, store[t] # "none"
               PROVE  Discovered(S, A)[t] # None
    OBVIOUS
  <1>1. SizeOf(t, store[t]) \in Nat /\ accessed[t] \in Nat /\ runs \in Nat
    BY SizeIsNat DEF Typed
  <1>2. Discovered(S, A)[t] = [size |-> IF t \in S THEN SizeOf(t, store[t]) ELSE 0, count |-> 0,
                               accessed |-> IF t \in A THEN accessed[t] ELSE runs,
                               pulling |-> FALSE]
    BY DEF Discovered
  <1>3. Discovered(S, A)[t] \in Usage
    BY <1>1, <1>2 DEF Usage
  <1> QED BY <1>3, UsageIsTracked

LEMMA InitTInv == Init => TInv
  <1> SUFFICES ASSUME Init PROVE TInv
    OBVIOUS
  <1>1. Typed
    BY InitHolds DEF IInv
  <1>2. Tracked
    BY <1>1, DiscoveredTracks DEF Init, Tracked, Tracks
  <1>3. \A p \in Plugins : Midway(p)
    BY DEF Init, Midway
  <1> QED BY <1>2, <1>3 DEF TInv

\* A step that leaves the tracker and the tags on the host alone.
LEMMA SameTInv ==
    ASSUME TInv, UNCHANGED <<store, tracker, discovered>>, NEW p \in Plugins,
           pc'[p] \notin {"untrack", "pulling"}, OnePlugin
    PROVE  TInv'
  <1>1. Tracked'
    BY DEF TInv, Tracked, Tracks
  <1>2. ASSUME NEW q \in Plugins PROVE Midway(q)'
    BY DEF OnePlugin, Midway
  <1> QED BY <1>1, <1>2 DEF TInv

\* A step that adds an entry for one template, which alone may come to the host.
LEMMA AddsTracked ==
    ASSUME IInv, TInv, NEW t \in Templates, NEW u \in Usage,
           tracker' = [tracker EXCEPT ![t] = u], UNCHANGED discovered,
           \A s \in Templates \ {t} : store'[s] = store[s],
           \A p \in Plugins : pc'[p] # "untrack" /\ (pc'[p] = "pulling" => want'[p] = t)
    PROVE  TInv'
  <1>1. \A s \in Templates : Tracks(s) => Tracks(s)'
    BY UsageIsTracked DEF Tracks, IInv, Typed
  <1>2. Tracks(t)'
    BY UsageIsTracked DEF Tracks, IInv, Typed
  <1>3. Tracked'
    BY <1>1, <1>2 DEF TInv, Tracked
  <1>4. \A p \in Plugins : Midway(p)'
    BY <1>2 DEF Midway
  <1> QED BY <1>3, <1>4 DEF TInv

LEMMA PluginKeepsTInv ==
    ASSUME OnePlugin, IInv, IInv', TInv, NEW p \in Plugins, Plugin(p)
    PROVE  TInv'
  <1> USE DEF Goto, Return, Quiet, disk, job
  <1>0. \A q \in Plugins : q = p
    BY DEF OnePlugin
  <1>1. CASE \/ LoopPasses(p) \/ RunPrepares(p) \/ RunEnds(p)
             \/ ListTemplate(p) \/ ListFails(p) \/ CheckPulling(p)
             \/ SpaceUnknown(p) \/ SpaceSuffices(p) \/ PlanCleanup(p)
             \/ DeleteFails(p) \/ Recheck(p) \/ FinalCheck(p) \/ Clone(p)
    <2>1. UNCHANGED <<store, tracker, discovered>>
      BY <1>1 DEF LoopPasses, RunPrepares, RunEnds, ListTemplate, ListFails, CheckPulling,
           SpaceUnknown, SpaceSuffices, PlanCleanup, DeleteFails, Recheck, FinalCheck, Clone
    <2>2. PICK l \in Pcs \ {"untrack", "pulling"} : pc' = [pc EXCEPT ![p] = l]
      BY <1>1 DEF LoopPasses, RunPrepares, RunEnds, ListTemplate, ListFails, CheckPulling,
           SpaceUnknown, SpaceSuffices, PlanCleanup, DeleteFails, Recheck, FinalCheck, Clone,
           NextCandidate, Pcs
    <2>3. pc'[p] \notin {"untrack", "pulling"}
      BY <2>2 DEF IInv, Typed
    <2> QED BY <2>1, <2>3, SameTInv
  <1>2. CASE DeleteTemplate(p)
    <2>1. /\ store' = [store EXCEPT ![Victim(p)] = "none"] /\ Victim(p)' = Victim(p)
          /\ UNCHANGED <<tracker, discovered>> /\ pc' = [pc EXCEPT ![p] = "untrack"]
      BY <1>2 DEF DeleteTemplate, Victim
    <2>2. \A s \in Templates : store'[s] # "none" => store[s] # "none"
      BY <2>1 DEF IInv, Typed
    <2>3. Tracked'
      BY <2>1, <2>2 DEF TInv, Tracked, Tracks
    <2>4. Midway(p)'
      BY <2>1 DEF Midway, IInv, Typed
    <2> QED BY <1>0, <2>3, <2>4 DEF TInv
  <1>3. CASE Untrack(p)
    <2>1. /\ tracker' = [tracker EXCEPT ![Victim(p)] = None] /\ UNCHANGED <<store, discovered>>
          /\ pc[p] = "untrack" /\ pc' = [pc EXCEPT ![p] = "recheck"]
      BY <1>3 DEF Untrack, RemoveTemplate
    <2>2. ASSUME NEW s \in Templates, discovered, store[s] # "none" PROVE Tracks(s)'
      <3>1. s # Victim(p)
        BY <2>1, <2>2 DEF TInv, Midway
      <3>2. tracker'[s] = tracker[s]
        BY <2>1, <3>1 DEF IInv, Typed
      <3> QED BY <2>2, <3>2 DEF TInv, Tracked, Tracks
    <2>3. Tracked'
      BY <2>1, <2>2 DEF Tracked
    <2>4. Midway(p)'
      BY <2>1 DEF Midway, IInv, Typed
    <2> QED BY <1>0, <2>3, <2>4 DEF TInv
  <1>4. CASE UseLocal(p)
    <2>1. want[p] \in Templates /\ accessed[want[p]] \in Nat /\ runs \in Nat
          /\ SizeOf(want[p], store[want[p]]) \in Nat
      BY <1>4, SizeIsNat DEF UseLocal, IInv, Typed
    <2>2. PICK size \in Nat, now \in Nat :
             tracker' = [tracker EXCEPT ![want[p]] = Updated(want[p], size, now)]
      BY <1>4, <2>1 DEF UseLocal, UpdateTemplateUsage, T
    <2>3. Updated(want[p], size, now) \in Usage
      BY <2>1, UpdatedUsage DEF IInv
    <2>4. UNCHANGED <<store, discovered>> /\ pc' = [pc EXCEPT ![p] = "clone"]
      BY <1>4 DEF UseLocal
    <2>5. pc'[p] = "clone"
      BY <2>4 DEF IInv, Typed
    <2> QED BY <1>0, <2>1, <2>2, <2>3, <2>4, <2>5, AddsTracked
  <1>5. CASE StartPull(p)
    <2>1. /\ UNCHANGED <<store, discovered, want>>
          /\ pc[p] = "pull" /\ pc' = [pc EXCEPT ![p] = "pulling"]
      BY <1>5 DEF StartPull
    <2>2. want[p] \in Templates /\ pc'[p] = "pulling"
      BY <2>1 DEF IInv, Typed
    <2>3. PICK u : tracker' = [tracker EXCEPT ![want[p]] = u]
      BY <1>5 DEF StartPull, SetTemplatePulling, T
    <2>4. u \in Usage
      <3>1. tracker'[want[p]] = u /\ u \in Usage \cup {None}
        BY <2>2, <2>3 DEF IInv, Typed
      <3>2. u # None
        <4>1. CASE Tracks(want[p])
          <5>1. tracker[want[p]] \in Usage
            BY <2>2, <4>1 DEF IInv, Typed, Tracks
          <5>2. tracker'[want[p]] = [tracker[want[p]] EXCEPT !.pulling = TRUE]
            BY <1>5, <2>2, <4>1 DEF StartPull, SetTemplatePulling, T, IInv, Typed
          <5>3. [tracker[want[p]] EXCEPT !.pulling = TRUE] \in Usage
            BY <5>1 DEF Usage
          <5> QED BY <3>1, <5>2, <5>3, UsageIsTracked
        <4>2. CASE ~Tracks(want[p])
          <5>1. tracker'[want[p]] = [size |-> 0, count |-> 0, accessed |-> runs, pulling |-> TRUE]
            BY <1>5, <2>2, <4>2 DEF StartPull, SetTemplatePulling, T, IInv, Typed
          <5>2. tracker'[want[p]] \in Usage
            BY <5>1 DEF Usage, IInv, Typed
          <5> QED BY <3>1, <5>2, UsageIsTracked
        <4> QED BY <4>1, <4>2
      <3> QED BY <3>1, <3>2
    <2> QED BY <1>0, <2>1, <2>2, <2>3, <2>4, AddsTracked
  <1>6. CASE Pulled(p)
    <2> DEFINE u == [Updated(want[p], SizeOf(want[p], Version(p)), runs) EXCEPT !.pulling = FALSE]
    <2>1. /\ pc[p] = "pulling" /\ pc' = [pc EXCEPT ![p] = "clone"] /\ UNCHANGED discovered
          /\ store' = [store EXCEPT ![want[p]] = Version(p)]
          /\ tracker' = [tracker EXCEPT ![want[p]] = u]
      BY <1>6 DEF Pulled, T
    <2>2. want[p] \in Templates /\ SizeOf(want[p], Version(p)) \in Nat
      BY <2>1, SizeIsNat DEF IInv, Typed
    <2>3. Updated(want[p], SizeOf(want[p], Version(p)), runs) \in Usage
      BY <2>2, UpdatedUsage DEF IInv, Typed
    <2>4. u \in Usage
      BY <2>3 DEF Usage
    <2> HIDE DEF u
    <2>5. pc'[p] = "clone" /\ \A s \in Templates \ {want[p]} : store'[s] = store[s]
      BY <2>1 DEF IInv, Typed
    <2> QED BY <1>0, <2>1, <2>2, <2>4, <2>5, AddsTracked
  <1>7. CASE PullFails(p) \/ PullCancelled(p)
    <2>1. /\ pc[p] = "pulling" /\ pc' = [pc EXCEPT ![p] = "ended"] /\ UNCHANGED discovered
          /\ \/ UNCHANGED store
             \/ store' = [store EXCEPT ![want[p]] = Version(p)]
      BY <1>7 DEF PullFails, PullCancelled, T
    <2>2. want[p] \in Templates /\ Tracks(want[p])
      BY <2>1 DEF IInv, Typed, TInv, Midway
    <2>3. tracker' = [tracker EXCEPT ![want[p]] = [tracker[want[p]] EXCEPT !.pulling = FALSE]]
      BY <1>7, <2>2 DEF PullFails, PullCancelled, ClearPulling, T
    <2>4. [tracker[want[p]] EXCEPT !.pulling = FALSE] \in Usage
      <3>1. tracker[want[p]] \in Usage
        BY <2>2 DEF IInv, Typed, Tracks
      <3> QED BY <3>1 DEF Usage
    <2>5. pc'[p] = "ended" /\ \A s \in Templates \ {want[p]} : store'[s] = store[s]
      BY <2>1 DEF IInv, Typed
    <2> QED BY <1>0, <2>1, <2>2, <2>3, <2>4, <2>5, AddsTracked
  <1> QED BY <1>1, <1>2, <1>3, <1>4, <1>5, <1>6, <1>7 DEF Plugin

LEMMA NextKeepsTInv ==
    ASSUME OnePlugin
    PROVE  IInv /\ IInv' /\ TInv /\ [Next]_vars => TInv'
  <1> SUFFICES ASSUME IInv, IInv', TInv, [Next]_vars PROVE TInv'
    OBVIOUS
  <1>1. ASSUME NEW p \in Plugins, Plugin(p) PROVE TInv'
    BY <1>1, PluginKeepsTInv
  <1>2. CASE WorkerRestarts
    <2>1. store' = store /\ \A p \in Plugins : pc'[p] = "idle"
      BY <1>2 DEF WorkerRestarts, disk
    <2>2. Tracked'
      BY <1>2, <2>1, DiscoveredTracks DEF WorkerRestarts, Tracked, Tracks, IInv
    <2> QED BY <2>1, <2>2 DEF TInv, Midway
  <1>3. CASE UNCHANGED vars
    BY <1>3 DEF vars, disk, job, TInv, Tracked, Tracks, Midway, Victim
  <1> QED BY <1>1, <1>2, <1>3 DEF Next

\* For plugins that do not overlap: whichever command fails, is cancelled or is
\* done without an answer, and whenever the worker restarts, a template on the
\* host is tracked, unless the discovery failed (AnkaDeleteTemplate,
\* AnkaRegistryPull, DiscoverAndPopulateExistingTemplates).
THEOREM HostTemplatesAreTracked ==
    ASSUME OnePlugin
    PROVE  Spec => []Tracked
  <1>1. TInv => Tracked
    BY DEF TInv
  <1> QED BY InitHolds, NextKeeps, InitTInv, NextKeepsTInv, <1>1, PTL DEF Spec

-----------------------------------------------------------------------------
(* The types, and what a cleanup deletes.                                   *)

\* A plugin that deletes still has a template to delete, and the one it makes
\* room for is not on its list.
Deletes(p) == pc[p] \in {"delete", "untrack", "recheck"}
Spared(p) == Deletes(p) => lru[p] # <<>> /\ T(p) \notin ToSet(lru[p])
Kept ==
    /\ discovered \in BOOLEAN /\ preparing \in [Plugins -> BOOLEAN]
    /\ lru \in [Plugins -> Seq(Templates)] /\ tried \in [Plugins -> SUBSET Templates]
    /\ result \in [Plugins -> {"none", "ok", "busy", "error", "space", "missing"}]
    /\ faults \in Nat
KInv == Kept /\ \A p \in Plugins : Spared(p)

\* The list without its head.
LEMMA Tails ==
    ASSUME NEW A, NEW s \in Seq(A), s # <<>>
    PROVE  /\ Head(s) \in A /\ Head(s) \in ToSet(s) /\ Head(s) = s[1]
           /\ Tail(s) \in Seq(A) /\ Len(Tail(s)) = Len(s) - 1
           /\ \A i \in 1..Len(Tail(s)) : i + 1 \in 1..Len(s) /\ Tail(s)[i] = s[i + 1]
           /\ ToSet(Tail(s)) = {s[i] : i \in 2..Len(s)}
           /\ ToSet(s) = {Head(s)} \cup ToSet(Tail(s))
           /\ Len(s) # 1 => Tail(s) # <<>>
  <1>1. PICK n \in Nat : n = Len(s)
    OBVIOUS
  <1>2. n # 0 /\ 1 \in 1..n /\ DOMAIN s = 1..n
    BY <1>1
  <1>3. Head(s) = s[1] /\ s[1] \in A /\ s[1] \in ToSet(s)
    BY <1>2 DEF ToSet
  <1>4. PICK r : r = Tail(s)
    OBVIOUS
  <1>5. r \in Seq(A) /\ Len(r) = n - 1 /\ DOMAIN r = 1..n - 1
    BY <1>1, <1>2, <1>4
  <1>6. \A i \in 1..n - 1 : r[i] = s[i + 1] /\ i + 1 \in 1..n
    BY <1>1, <1>2, <1>4
  <1>7. ToSet(r) = {s[i] : i \in 2..n}
    <2>1. ASSUME NEW x \in ToSet(r) PROVE x \in {s[i] : i \in 2..n}
      <3>1. PICK i \in 1..n - 1 : x = r[i]
        BY <1>5, <2>1 DEF ToSet
      <3>2. i + 1 \in 2..n
        BY <3>1
      <3> QED BY <1>6, <3>1, <3>2
    <2>2. ASSUME NEW i \in 2..n PROVE s[i] \in ToSet(r)
      <3>1. i - 1 \in 1..n - 1 /\ (i - 1) + 1 = i
        BY <2>2
      <3>2. r[i - 1] = s[i]
        BY <1>6, <3>1
      <3> QED BY <1>5, <3>1, <3>2 DEF ToSet
    <2> QED BY <2>1, <2>2
  <1>8. ToSet(s) = {s[1]} \cup {s[i] : i \in 2..n}
    BY <1>2 DEF ToSet
  <1>9. n # 1 => r # <<>>
    BY <1>2, <1>5
  <1> QED BY <1>1, <1>3, <1>4, <1>5, <1>6, <1>7, <1>8, <1>9

\* The loop goes on with the rest of its list, or ends.
LEMMA NextCandidateKeeps ==
    ASSUME Typed, KInv, NEW p \in Plugins, Deletes(p), NextCandidate(p), UNCHANGED want
    PROVE  /\ lru' \in [Plugins -> Seq(Templates)]
           /\ \A q \in Plugins : Spared(q)'
  <1>1. /\ lru[p] \in Seq(Templates) /\ lru[p] # <<>> /\ want[p] \notin ToSet(lru[p])
    BY DEF KInv, Kept, Spared, T
  <1>2. PICK r : r = Tail(lru[p])
    OBVIOUS
  <1>3. r \in Seq(Templates) /\ ToSet(r) \subseteq ToSet(lru[p]) /\ (Len(lru[p]) # 1 => r # <<>>)
    BY <1>1, <1>2, Tails
  <1>4. lru' = [lru EXCEPT ![p] = r] /\ lru \in [Plugins -> Seq(Templates)]
    BY <1>2 DEF NextCandidate, KInv, Kept
  <1>5. pc' = [pc EXCEPT ![p] = IF Len(lru[p]) = 1 THEN "final" ELSE "delete"]
    BY DEF NextCandidate, Goto
  <1>6. Spared(p)'
    BY <1>1, <1>3, <1>4, <1>5 DEF Spared, Deletes, T, Typed
  <1>7. ASSUME NEW q \in Plugins, q # p PROVE Spared(q)'
    <2>1. lru'[q] = lru[q] /\ pc'[q] = pc[q] /\ want'[q] = want[q]
      BY <1>4, <1>5, <1>7 DEF Typed
    <2> QED BY <2>1 DEF Spared, Deletes, T, KInv
  <1> QED BY <1>3, <1>4, <1>6, <1>7

\* A step that does not go on deleting.
LEMMA LeavesCleanup ==
    ASSUME Typed, KInv, NEW p \in Plugins, NEW l, l \notin {"delete", "untrack", "recheck"},
           pc' = [pc EXCEPT ![p] = l],
           \A q \in Plugins \ {p} : want'[q] = want[q] /\ lru'[q] = lru[q]
    PROVE  \A q \in Plugins : Spared(q)'
  BY DEF KInv, Spared, Deletes, T, Typed

LEMMA InitKInv == Init => KInv
  <1> SUFFICES ASSUME Init PROVE KInv
    OBVIOUS
  <1>1. \A p \in Plugins : Spared(p)
    BY DEF Init, Spared, Deletes
  <1>2. <<>> \in Seq(Templates) /\ {} \in SUBSET Templates
    OBVIOUS
  <1> QED BY <1>1, <1>2 DEF Init, KInv, Kept

LEMMA PluginKeepsKInv ==
    ASSUME Typed, KInv, NEW p \in Plugins, Plugin(p) PROVE KInv'
  <1> USE DEF Goto, Return, Quiet, disk, job
  <1>0. /\ discovered \in BOOLEAN /\ preparing \in [Plugins -> BOOLEAN]
        /\ lru \in [Plugins -> Seq(Templates)] /\ tried \in [Plugins -> SUBSET Templates]
        /\ result \in [Plugins -> {"none", "ok", "busy", "error", "space", "missing"}]
        /\ faults \in Nat
    BY DEF KInv, Kept
  <1>1. CASE \/ LoopPasses(p) \/ RunEnds(p)
             \/ ListTemplate(p) \/ ListFails(p) \/ UseLocal(p) \/ CheckPulling(p)
             \/ SpaceUnknown(p) \/ SpaceSuffices(p) \/ FinalCheck(p)
             \/ StartPull(p) \/ Pulled(p) \/ PullFails(p) \/ PullCancelled(p) \/ Clone(p)
    <2> USE DEF LoopPasses, RunEnds, ListTemplate, ListFails, UseLocal, CheckPulling,
           SpaceUnknown, SpaceSuffices, FinalCheck, StartPull, Pulled, PullFails,
           PullCancelled, Clone
    <2>1. UNCHANGED <<lru, tried, want, discovered>>
      BY <1>1
    <2>2. PICK l \in {"idle", "admitted", "use", "check", "space", "final", "pull",
                      "pulling", "clone", "running", "ended"} : pc' = [pc EXCEPT ![p] = l]
      BY <1>1
    <2>3. result' \in [Plugins -> {"none", "ok", "busy", "error", "space", "missing"}]
      BY <1>0, <1>1
    <2>4. faults' \in Nat
      BY <1>0, <1>1 DEF Failing, NoFault, Fault
    <2>5. preparing' \in [Plugins -> BOOLEAN]
      BY <1>0, <1>1
    <2>6. Kept'
      BY <1>0, <2>1, <2>3, <2>4, <2>5 DEF Kept
    <2>7. \A q \in Plugins : Spared(q)'
      BY <2>1, <2>2, LeavesCleanup
    <2> QED BY <2>6, <2>7 DEF KInv
  <1>2. CASE RunPrepares(p)
    <2> USE DEF RunPrepares
    <2>1. <<>> \in Seq(Templates) /\ {} \in SUBSET Templates
      OBVIOUS
    <2>2. /\ lru' = [lru EXCEPT ![p] = <<>>] /\ tried' = [tried EXCEPT ![p] = {}]
          /\ pc' = [pc EXCEPT ![p] = "list"] /\ result' = [result EXCEPT ![p] = "none"]
          /\ preparing' = [preparing EXCEPT ![p] = TRUE]
      BY <1>2
    <2>3. \A q \in Plugins \ {p} : want'[q] = want[q] /\ lru'[q] = lru[q]
      BY <1>0, <1>2 DEF Typed
    <2>4. Kept'
      BY <1>0, <1>2, <2>1, <2>2 DEF Kept
    <2>5. \A q \in Plugins : Spared(q)'
      BY <2>2, <2>3, LeavesCleanup
    <2> QED BY <2>4, <2>5 DEF KInv
  <1>3. CASE PlanCleanup(p)
    <2>1. UNCHANGED <<tracker, tried, faults, want, discovered, preparing>>
      BY <1>3 DEF PlanCleanup
    <2>2. PICK all \in LeastRecentlyUsed :
             IF Hopeless(p, all)
             THEN Return(p, "space") /\ UNCHANGED lru
             ELSE /\ Goto(p, "delete") /\ UNCHANGED result
                  /\ lru' = [lru EXCEPT ![p] = Candidates(p, all)]
      BY <1>3 DEF PlanCleanup
    <2>3. CASE Hopeless(p, all)
      <3>1. /\ result' = [result EXCEPT ![p] = "space"] /\ pc' = [pc EXCEPT ![p] = "ended"]
            /\ UNCHANGED lru
        BY <2>2, <2>3
      <3>2. Kept'
        BY <1>0, <2>1, <3>1 DEF Kept
      <3>3. \A q \in Plugins : Spared(q)'
        BY <2>1, <3>1, LeavesCleanup
      <3> QED BY <3>2, <3>3 DEF KInv
    <2>4. CASE ~Hopeless(p, all)
      <3>1. PICK c : c = Candidates(p, all)
        OBVIOUS
      <3>2. lru' = [lru EXCEPT ![p] = c] /\ pc' = [pc EXCEPT ![p] = "delete"] /\ UNCHANGED result
        BY <2>2, <2>4, <3>1
      <3>3. c \in Seq(Templates) /\ ToSet(c) = Evictable(p) /\ c # <<>>
        BY <2>4, <3>1, CandidatesFacts DEF Typed, Hopeless
      <3>4. want[p] \notin ToSet(c)
        BY <3>3 DEF Evictable, T
      <3>5. Kept'
        BY <1>0, <2>1, <3>2, <3>3 DEF Kept
      <3>6. ASSUME NEW q \in Plugins PROVE Spared(q)'
        <4>1. CASE q = p
          <5>1. lru'[q] = c /\ want'[q] = want[p]
            BY <1>0, <2>1, <3>2, <4>1
          <5> QED BY <3>3, <3>4, <5>1 DEF Spared, T
        <4>2. CASE q # p
          <5>1. lru'[q] = lru[q] /\ pc'[q] = pc[q] /\ want'[q] = want[q]
            BY <1>0, <2>1, <3>2, <4>2 DEF Typed
          <5> QED BY <5>1 DEF Spared, Deletes, T, KInv
        <4> QED BY <4>1, <4>2
      <3> QED BY <3>5, <3>6 DEF KInv
    <2> QED BY <2>3, <2>4
  <1>4. ASSUME Deletes(p) PROVE Victim(p) \in Templates
    BY <1>0, <1>4, Tails DEF KInv, Spared, Victim
  <1>5. CASE DeleteTemplate(p)
    <2>1. /\ pc[p] = "delete" /\ pc' = [pc EXCEPT ![p] = "untrack"]
          /\ tried' = [tried EXCEPT ![p] = tried[p] \cup {Victim(p)}]
          /\ UNCHANGED <<lru, want, discovered, preparing, result, faults>>
      BY <1>5 DEF DeleteTemplate
    <2>2. Kept'
      BY <1>0, <1>4, <2>1 DEF Kept, Deletes
    <2>3. \A q \in Plugins : Spared(q)'
      BY <2>1 DEF KInv, Spared, Deletes, T, Typed
    <2> QED BY <2>2, <2>3 DEF KInv
  <1>6. CASE DeleteFails(p)
    <2>1. /\ pc[p] = "delete" /\ NextCandidate(p)
          /\ tried' = [tried EXCEPT ![p] = tried[p] \cup {Victim(p)}]
          /\ UNCHANGED <<want, discovered, preparing, result>>
      BY <1>6 DEF DeleteFails
    <2>2. faults' \in Nat
      BY <1>0, <1>6 DEF DeleteFails, Failing, NoFault, Fault
    <2>3. lru' \in [Plugins -> Seq(Templates)] /\ \A q \in Plugins : Spared(q)'
      BY <2>1, NextCandidateKeeps DEF Deletes
    <2>4. Kept'
      BY <1>0, <1>4, <2>1, <2>2, <2>3 DEF Kept, Deletes
    <2> QED BY <2>3, <2>4 DEF KInv
  <1>7. CASE Untrack(p)
    <2>1. /\ pc[p] = "untrack" /\ pc' = [pc EXCEPT ![p] = "recheck"]
          /\ UNCHANGED <<lru, tried, want, discovered, preparing, result, faults>>
      BY <1>7 DEF Untrack
    <2>2. Kept'
      BY <1>0, <2>1 DEF Kept
    <2>3. \A q \in Plugins : Spared(q)'
      BY <2>1 DEF KInv, Spared, Deletes, T, Typed
    <2> QED BY <2>2, <2>3 DEF KInv
  <1>8. CASE Recheck(p)
    <2>1. /\ pc[p] = "recheck"
          /\ UNCHANGED <<tried, want, discovered, preparing, result>>
          /\ faults' \in Nat
      BY <1>0, <1>8 DEF Recheck, Failing, NoFault, Fault
    <2>2. lru' \in [Plugins -> Seq(Templates)] /\ \A q \in Plugins : Spared(q)'
      <3>1. CASE NextCandidate(p)
        BY <2>1, <3>1, NextCandidateKeeps DEF Deletes
      <3>2. CASE pc' = [pc EXCEPT ![p] = "final"] /\ UNCHANGED lru
        <4>1. \A q \in Plugins : Spared(q)'
          BY <2>1, <3>2, LeavesCleanup
        <4> QED BY <1>0, <3>2, <4>1
      <3> QED BY <1>8, <3>1, <3>2 DEF Recheck
    <2>3. Kept'
      BY <1>0, <2>1, <2>2 DEF Kept
    <2> QED BY <2>2, <2>3 DEF KInv
  <1> QED BY <1>1, <1>2, <1>3, <1>5, <1>6, <1>7, <1>8 DEF Plugin

LEMMA NextKeepsKInv == IInv /\ KInv /\ [Next]_vars => KInv'
  <1> SUFFICES ASSUME Typed, KInv, [Next]_vars PROVE KInv'
    BY DEF IInv
  <1>1. ASSUME NEW p \in Plugins, Plugin(p) PROVE KInv'
    BY <1>1, PluginKeepsKInv
  <1>2. CASE WorkerRestarts
    <2>1. <<>> \in Seq(Templates) /\ {} \in SUBSET Templates
      OBVIOUS
    <2>2. Kept'
      <3>1. preparing' \in [Plugins -> BOOLEAN] /\ discovered' \in BOOLEAN /\ faults' \in Nat
        <4>1. faults \in Nat /\ faults' = faults + 1
          BY <1>2 DEF WorkerRestarts, Fault, KInv, Kept
        <4>2. preparing' \in [Plugins -> BOOLEAN]
          BY <1>2 DEF WorkerRestarts
        <4>3. discovered' \in BOOLEAN
          BY <1>2, Zenon DEF WorkerRestarts
        <4> QED BY <4>1, <4>2, <4>3
      <3>2. lru' \in [Plugins -> Seq(Templates)] /\ tried' \in [Plugins -> SUBSET Templates]
        BY <1>2, <2>1 DEF WorkerRestarts
      <3>3. result' \in [Plugins -> {"none", "ok", "busy", "error", "space", "missing"}]
        BY <1>2 DEF WorkerRestarts
      <3> QED BY <3>1, <3>2, <3>3 DEF Kept
    <2>3. \A p \in Plugins : Spared(p)'
      BY <1>2 DEF WorkerRestarts, Spared, Deletes
    <2> QED BY <2>2, <2>3 DEF KInv
  <1>3. CASE UNCHANGED vars
    BY <1>3 DEF vars, disk, job, KInv, Kept, Spared, Deletes, T
  <1> QED BY <1>1, <1>2, <1>3 DEF Next

LEMMA TypesImplied == IInv /\ KInv => TypeOK
  <1> SUFFICES ASSUME Typed, KInv PROVE TypeOK
    BY DEF IInv
  <1>1. ASSUME NEW p \in Plugins, Deletes(p) PROVE lru[p] # <<>> /\ Victim(p) # T(p)
    BY <1>1, Tails DEF KInv, Kept, Spared, Victim
  <1> QED BY <1>1 DEF Typed, KInv, Kept, TypeOK, Deletes

\* Whatever the plugins of a host do and however often the worker restarts, a
\* cleanup that goes on has a template left to delete, and it never deletes the
\* template it makes room for (EnsureSpaceForTemplate).
THEOREM TemplateTypesCorrect == Spec => []TypeOK
  <1> QED BY InitHolds, NextKeeps, InitKInv, NextKeepsKInv, TypesImplied, PTL DEF Spec

-----------------------------------------------------------------------------
(* The space on the host.                                                   *)

Used == SumFunction([t \in Templates |-> SizeOf(t, store[t])])
Free == IF Used < DiskSize THEN DiskSize - Used ELSE 0

\* What Anka reports as cached of another tag is on the host already: a tag
\* that is bigger than the one on the host has more than that to download.
CachedIsThere ==
    \A t \in Templates :
        /\ Overlap[t] <= OldSize[t] \/ NewSize[t] <= OldSize[t]
        /\ Overlap[t] <= NewSize[t] \/ OldSize[t] <= NewSize[t]

\* A plugin that pulls has made sure that there is room.
Roomy(p) == pc[p] \in {"pull", "pulling"} /\ TotalSize(p) > 0 => EnoughSpace(p)
SInv == Used <= DiskSize /\ \A p \in Plugins : Roomy(p)

LEMMA UsedIsNat ==
    /\ Used \in Nat /\ Available = Free /\ Free \in Nat
    /\ Used' \in Nat /\ Available' = Free' /\ Free' \in Nat
  <1>1. ASSUME NEW f \in [Templates -> Nat] PROVE SumFunction(f) \in Nat
    BY SumFacts, StoreAssumption
  <1>2. /\ [t \in Templates |-> SizeOf(t, store[t])] \in [Templates -> Nat]
        /\ [t \in Templates |-> SizeOf(t, store'[t])] \in [Templates -> Nat]
    BY SizeIsNat
  <1>3. Used \in Nat /\ Used' \in Nat
    BY <1>1, <1>2 DEF Used
  <1>4. Available = Free /\ Available' = Free'
    BY DEF Available, Free, Used
  <1>5. \A u \in Nat : (IF u < DiskSize THEN DiskSize - u ELSE 0) \in Nat
    BY StoreAssumption
  <1>6. Free \in Nat
    BY <1>3, <1>5 DEF Free
  <1>7. Free' \in Nat
    BY <1>3, <1>5 DEF Free
  <1> QED BY <1>3, <1>4, <1>6, <1>7

\* Only the template that is deleted or pulled changes the space in use.
LEMMA UsedChanges ==
    ASSUME Typed, Typed', NEW t \in Templates, NEW v, store' = [store EXCEPT ![t] = v]
    PROVE  Used' + SizeOf(t, store[t]) = Used + SizeOf(t, v)
  <1>1. PICK f : f = [s \in Templates |-> SizeOf(s, store[s])]
    OBVIOUS
  <1>2. PICK g : g = [s \in Templates |-> SizeOf(s, store'[s])]
    OBVIOUS
  <1>3. f \in [Templates -> Nat] /\ g \in [Templates -> Nat]
    BY <1>1, <1>2, SizeIsNat
  <1>4. g[t] = SizeOf(t, v) /\ f[t] = SizeOf(t, store[t])
    BY <1>1, <1>2 DEF Typed
  <1>5. PICK f1 : f1 = [s \in Templates \ {t} |-> f[s]]
    OBVIOUS
  <1>6. f1 = [s \in Templates \ {t} |-> g[s]]
    BY <1>1, <1>2, <1>5 DEF Typed
  <1>7. f1 \in [Templates \ {t} -> Nat] /\ IsFiniteSet(Templates \ {t})
    BY <1>3, <1>5, FS_Subset, StoreAssumption
  <1>8. SumFunction(f1) \in Nat
    BY <1>7, SumFacts
  <1>9. SumFunction(f) = f[t] + SumFunction(f1)
    <2>1. \A s \in Templates \ {t} : f1[s] = f[s]
      BY <1>5
    <2> QED BY <1>3, <1>7, <2>1, SumWithout, StoreAssumption
  <1>10. SumFunction(g) = g[t] + SumFunction(f1)
    <2>1. \A s \in Templates \ {t} : f1[s] = g[s]
      BY <1>6
    <2> QED BY <1>3, <1>7, <2>1, SumWithout, StoreAssumption
  <1>11. Used = SumFunction(f) /\ Used' = SumFunction(g)
    BY <1>1, <1>2 DEF Used
  <1> QED BY <1>3, <1>4, <1>8, <1>9, <1>10, <1>11

\* A step that leaves the tags on the host and the plugin's job alone.
LEMMA SameSpace ==
    ASSUME UNCHANGED <<store, want, tag>>, NEW p \in Plugins
    PROVE  /\ Used' = Used /\ Available' = Available /\ UsableSpace' = UsableSpace
           /\ TotalSize(p)' = TotalSize(p) /\ DownloadSize(p)' = DownloadSize(p)
           /\ EnoughSpace(p)' = EnoughSpace(p)
  <1>1. Used' = Used
    BY DEF Used
  <1>2. Available' = Available
    BY DEF Available
  <1>3. UsableSpace' = UsableSpace
    BY <1>2 DEF UsableSpace
  <1>4. TotalSize(p)' = TotalSize(p)
    BY DEF TotalSize, Here, T, Version
  <1>5. DownloadSize(p)' = DownloadSize(p)
    BY <1>4 DEF DownloadSize, Cached, T
  <1> QED BY <1>1, <1>2, <1>3, <1>4, <1>5 DEF EnoughSpace

\* The sizes that a pull of a template goes by.
LEMMA Sizes ==
    ASSUME Typed, NEW p \in Plugins, want[p] \in Templates
    PROVE  /\ Version(p) \in Tags /\ TotalSize(p) \in Nat /\ DownloadSize(p) \in Nat
           /\ TotalSize(p) = IF store[want[p]] = Version(p) THEN 0
                             ELSE SizeOf(want[p], Version(p))
           /\ UsableSpace \in Nat /\ Available \in Nat
           /\ UsableSpace = IF Available > BufferSize THEN Available - BufferSize ELSE 0
  <1>1. Version(p) \in Tags
    BY DEF Version, Tags, Typed
  <1>2. TotalSize(p) = IF store[want[p]] = Version(p) THEN 0
                       ELSE SizeOf(want[p], Version(p))
    BY DEF TotalSize, Here, T
  <1>3. TotalSize(p) \in Nat
    BY <1>2, SizeIsNat
  <1>4. Cached(p) \in Nat
    BY StoreAssumption DEF Cached, T
  <1>5. DownloadSize(p) \in Nat
    BY <1>3, <1>4 DEF DownloadSize
  <1>6. Available \in Nat
    BY UsedIsNat
  <1>7. UsableSpace = IF Available > BufferSize THEN Available - BufferSize ELSE 0
    BY DEF UsableSpace
  <1>8. UsableSpace \in Nat
    BY <1>6, <1>7, StoreAssumption
  <1> QED BY <1>1, <1>2, <1>3, <1>5, <1>6, <1>7, <1>8

\* A pull that makes a template bigger leaves the buffer free.
LEMMA PullFits ==
    ASSUME CachedIsThere, Typed, Typed', SInv, NEW p \in Plugins, pc[p] = "pulling",
           store' = [store EXCEPT ![want[p]] = Version(p)]
    PROVE  /\ Used' <= DiskSize
           /\ SizeOf(want[p], Version(p)) > SizeOf(want[p], store[want[p]])
                 => Available' >= BufferSize
  <1>1. PICK t \in Templates : t = want[p]
    BY DEF Typed
  <1>2. PICK v \in Tags : v = Version(p)
    BY <1>1, Sizes
  <1>3. PICK u \in Tags \cup {"none"} : u = store[t]
    BY DEF Typed
  <1>4. PICK a \in Nat, b \in Nat : a = SizeOf(t, u) /\ b = SizeOf(t, v)
    BY SizeIsNat
  <1>5. Used' + a = Used + b
    BY <1>1, <1>2, <1>3, <1>4, UsedChanges
  <1>6. Used \in Nat /\ Used' \in Nat /\ Used <= DiskSize /\ DiskSize \in Nat
    BY UsedIsNat, StoreAssumption DEF SInv
  <1>7. Available = Free /\ Available' = Free'
    BY UsedIsNat
  <1>8. CASE b <= a
    BY <1>1, <1>2, <1>3, <1>4, <1>5, <1>6, <1>8
  <1>9. CASE b > a
    <2>1. TotalSize(p) = b /\ b > 0
      <3>1. u # v
        BY <1>4, <1>9
      <3> QED BY <1>1, <1>2, <1>3, <1>4, <1>9, <3>1, Sizes
    <2>2. Cached(p) <= a /\ Cached(p) \in Nat
      <3>1. CASE u = "none"
        BY <1>1, <1>3, <1>4, <3>1 DEF Cached, T
      <3>2. CASE u # "none"
        <4>1. Cached(p) = Overlap[t] /\ Overlap[t] \in Nat
          BY <1>1, <1>3, <3>2, StoreAssumption DEF Cached, T
        <4>2. CASE u = "old"
          <5>1. v = "new"
            BY <1>4, <1>9, <4>2 DEF Tags
          <5>2. a = OldSize[t] /\ b = NewSize[t]
            BY <1>4, <4>2, <5>1 DEF SizeOf
          <5>3. Overlap[t] <= OldSize[t] \/ NewSize[t] <= OldSize[t]
            BY DEF CachedIsThere
          <5> QED BY <1>4, <1>9, <4>1, <5>2, <5>3
        <4>3. CASE u = "new"
          <5>1. v = "old"
            BY <1>4, <1>9, <4>3 DEF Tags
          <5>2. a = NewSize[t] /\ b = OldSize[t]
            BY <1>4, <4>3, <5>1 DEF SizeOf
          <5>3. Overlap[t] <= NewSize[t] \/ OldSize[t] <= NewSize[t]
            BY DEF CachedIsThere
          <5> QED BY <1>4, <1>9, <4>1, <5>2, <5>3
        <4> QED BY <1>3, <3>2, <4>2, <4>3 DEF Tags
      <3> QED BY <3>1, <3>2
    <2>3. DownloadSize(p) = b - Cached(p) /\ DownloadSize(p) >= b - a /\ b - a > 0
      BY <1>4, <1>9, <2>1, <2>2 DEF DownloadSize
    <2>4. UsableSpace >= DownloadSize(p)
      BY <2>1, StoreAssumption DEF SInv, Roomy, EnoughSpace
    <2>5. PICK d \in Nat : d = DownloadSize(p)
      BY <1>1, Sizes
    <2>6. UsableSpace \in Nat /\ Available \in Nat
          /\ UsableSpace = IF Available > BufferSize THEN Available - BufferSize ELSE 0
      BY <1>1, Sizes
    <2>7. Available >= BufferSize + d
      BY <1>4, <1>9, <2>3, <2>4, <2>5, <2>6, StoreAssumption
    <2>8. Used < DiskSize /\ DiskSize - Used >= BufferSize + d
      BY <1>4, <1>6, <1>7, <1>9, <2>3, <2>5, <2>7, StoreAssumption DEF Free
    <2>9. Used' <= DiskSize /\ DiskSize - Used' >= BufferSize
      BY <1>4, <1>5, <1>6, <2>3, <2>5, <2>8, StoreAssumption
    <2>10. Available' >= BufferSize
      BY <1>6, <1>7, <2>9, StoreAssumption DEF Free
    <2> QED BY <2>9, <2>10
  <1> QED BY <1>4, <1>8, <1>9

LEMMA InitSInv == Init => SInv
  BY DEF Init, SInv, Used, Roomy

\* A step that leaves the tags on the host and the job alone, and starts a pull
\* only when there is room.
LEMMA QuietSInv ==
    ASSUME OnePlugin, Typed, SInv, UNCHANGED <<store, want, tag>>, NEW p \in Plugins,
           pc'[p] \in {"pull", "pulling"} => (TotalSize(p) > 0 => EnoughSpace(p))
    PROVE  SInv'
  <1>1. Used' = Used /\ TotalSize(p)' = TotalSize(p) /\ EnoughSpace(p)' = EnoughSpace(p)
    BY SameSpace
  <1>2. Roomy(p)'
    BY <1>1, Zenon DEF Roomy
  <1>3. Used' <= DiskSize
    BY <1>1 DEF SInv
  <1> QED BY <1>2, <1>3 DEF SInv, OnePlugin

LEMMA PluginKeepsSInv ==
    ASSUME OnePlugin, CachedIsThere, Typed, Typed', KInv, SInv, NEW p \in Plugins, Plugin(p)
    PROVE  SInv'
  <1> USE DEF Goto, Return, Quiet, disk, job
  <1>1. CASE \/ LoopPasses(p) \/ RunEnds(p)
             \/ ListTemplate(p) \/ ListFails(p) \/ UseLocal(p) \/ CheckPulling(p)
             \/ SpaceUnknown(p) \/ PlanCleanup(p) \/ DeleteFails(p) \/ Untrack(p)
             \/ Recheck(p) \/ Clone(p)
    <2> USE DEF LoopPasses, RunEnds, ListTemplate, ListFails, UseLocal, CheckPulling,
           SpaceUnknown, PlanCleanup, DeleteFails, Untrack, Recheck, Clone, NextCandidate
    <2>1. UNCHANGED <<store, want, tag>>
      BY <1>1
    <2>2. PICK l \in Pcs \ {"pull", "pulling"} : pc' = [pc EXCEPT ![p] = l]
      BY <1>1 DEF Pcs
    <2>3. pc'[p] \notin {"pull", "pulling"}
      BY <2>2 DEF Typed
    <2> QED BY <2>1, <2>3, QuietSInv
  <1>2. CASE RunPrepares(p)
    <2>1. store' = store /\ pc' = [pc EXCEPT ![p] = "list"]
      BY <1>2 DEF RunPrepares
    <2>2. Used' = Used
      BY <2>1 DEF Used
    <2>3. \A q \in Plugins : pc'[q] = "list"
      BY <2>1 DEF OnePlugin, Typed
    <2> QED BY <2>2, <2>3 DEF SInv, Roomy
  <1>3. CASE SpaceSuffices(p) \/ FinalCheck(p)
    <2>1. UNCHANGED <<store, want, tag>>
      BY <1>3 DEF SpaceSuffices, FinalCheck
    <2>2. CASE TotalSize(p) > 0 => EnoughSpace(p)
      BY <2>1, <2>2, QuietSInv
    <2>3. CASE ~(TotalSize(p) > 0 => EnoughSpace(p))
      <3>1. pc' = [pc EXCEPT ![p] = "ended"]
        BY <1>3, <2>3 DEF SpaceSuffices, FinalCheck
      <3>2. pc'[p] \notin {"pull", "pulling"}
        BY <3>1 DEF Typed
      <3> QED BY <2>1, <3>2, QuietSInv
    <2> QED BY <2>2, <2>3
  <1>4. CASE StartPull(p)
    <2>1. UNCHANGED <<store, want, tag>> /\ pc[p] = "pull"
      BY <1>4 DEF StartPull
    <2>2. TotalSize(p) > 0 => EnoughSpace(p)
      BY <2>1 DEF SInv, Roomy
    <2> QED BY <2>1, <2>2, QuietSInv
  <1>5. CASE DeleteTemplate(p)
    <2>1. /\ pc[p] = "delete" /\ pc' = [pc EXCEPT ![p] = "untrack"]
          /\ store' = [store EXCEPT ![Victim(p)] = "none"]
      BY <1>5 DEF DeleteTemplate
    <2>2. PICK t \in Templates : t = Victim(p)
      BY <2>1, Tails DEF KInv, Kept, Spared, Deletes, Victim
    <2>3. Used' + SizeOf(t, store[t]) = Used + SizeOf(t, "none")
      BY <2>1, <2>2, UsedChanges
    <2>4. SizeOf(t, "none") = 0 /\ SizeOf(t, store[t]) \in Nat /\ Used \in Nat /\ Used' \in Nat
      BY SizeIsNat, UsedIsNat DEF SizeOf
    <2>5. Used' <= DiskSize
      BY <2>3, <2>4, StoreAssumption DEF SInv
    <2>6. \A q \in Plugins : pc'[q] = "untrack"
      BY <2>1 DEF OnePlugin, Typed
    <2> QED BY <2>5, <2>6 DEF SInv, Roomy
  <1>6. CASE Pulled(p) \/ PullFails(p) \/ PullCancelled(p)
    <2>1. /\ pc[p] = "pulling"
          /\ UNCHANGED store \/ store' = [store EXCEPT ![want[p]] = Version(p)]
      BY <1>6 DEF Pulled, PullFails, PullCancelled, T
    <2>2. PICK l \in {"clone", "ended"} : pc' = [pc EXCEPT ![p] = l]
      BY <1>6 DEF Pulled, PullFails, PullCancelled
    <2>3. \A q \in Plugins : pc'[q] \notin {"pull", "pulling"}
      BY <2>2 DEF OnePlugin, Typed
    <2>4. CASE UNCHANGED store
      <3>1. Used' = Used
        BY <2>4 DEF Used
      <3> QED BY <2>3, <3>1 DEF SInv, Roomy
    <2>5. CASE store' = [store EXCEPT ![want[p]] = Version(p)]
      BY <2>1, <2>3, <2>5, PullFits DEF SInv, Roomy
    <2> QED BY <2>1, <2>4, <2>5
  <1> QED BY <1>1, <1>2, <1>3, <1>4, <1>5, <1>6 DEF Plugin

LEMMA NextKeepsSInv ==
    ASSUME OnePlugin, CachedIsThere
    PROVE  IInv /\ IInv' /\ KInv /\ SInv /\ [Next]_vars => SInv'
  <1> SUFFICES ASSUME Typed, Typed', KInv, SInv, [Next]_vars PROVE SInv'
    BY DEF IInv
  <1>1. ASSUME NEW p \in Plugins, Plugin(p) PROVE SInv'
    BY <1>1, PluginKeepsSInv
  <1>2. CASE WorkerRestarts
    <2>1. store' = store /\ \A p \in Plugins : pc'[p] = "idle"
      BY <1>2 DEF WorkerRestarts, disk
    <2>2. Used' = Used
      BY <2>1 DEF Used
    <2> QED BY <2>1, <2>2 DEF SInv, Roomy
  <1>3. CASE UNCHANGED vars
    <2>1. UNCHANGED <<store, want, tag, pc>>
      BY <1>3 DEF vars, disk, job
    <2>2. Used' = Used
      BY <2>1 DEF Used
    <2>3. ASSUME NEW p \in Plugins PROVE Roomy(p)'
      <3>1. TotalSize(p)' = TotalSize(p) /\ EnoughSpace(p)' = EnoughSpace(p)
        BY <2>1, SameSpace
      <3>2. Roomy(p) /\ pc' = pc
        BY <2>1 DEF SInv
      <3> QED BY <3>1, <3>2, Zenon DEF Roomy
    <2> QED BY <2>2, <2>3 DEF SInv
  <1> QED BY <1>1, <1>2, <1>3 DEF Next

\* One step, as BufferKept wants it.
BufferStep ==
    \A t \in Templates :
        /\ store'[t] # "none"
        /\ SizeOf(t, store'[t]) > SizeOf(t, store[t])
        => Available' >= BufferSize

LEMMA NextKeepsBuffer ==
    ASSUME OnePlugin, CachedIsThere
    PROVE  IInv /\ IInv' /\ KInv /\ SInv /\ [Next]_vars => [BufferStep]_vars
  <1> SUFFICES ASSUME Typed, Typed', KInv, SInv, Next PROVE BufferStep
    BY DEF IInv
  <1> USE DEF Goto, Return, Quiet, disk, job
  <1> SUFFICES ASSUME NEW t \in Templates, store'[t] # "none",
                      SizeOf(t, store'[t]) > SizeOf(t, store[t])
               PROVE  Available' >= BufferSize
    BY DEF BufferStep
  <1>1. store'[t] # store[t]
    <2>1. SizeOf(t, store[t]) \in Nat
      BY SizeIsNat
    <2> QED BY <2>1
  <1>2. PICK p \in Plugins : Plugin(p)
    BY <1>1 DEF Next, WorkerRestarts
  <1>3. CASE DeleteTemplate(p)
    <2>1. store' = [store EXCEPT ![Victim(p)] = "none"]
      BY <1>3 DEF DeleteTemplate
    <2> QED BY <1>1, <2>1 DEF Typed
  <1>4. CASE ~DeleteTemplate(p)
    <2>1. pc[p] = "pulling" /\ store' = [store EXCEPT ![want[p]] = Version(p)]
      BY <1>1, <1>2, <1>4 DEF Plugin, LoopPasses, RunPrepares, RunEnds, ListTemplate,
           ListFails, UseLocal, CheckPulling, SpaceUnknown, SpaceSuffices, PlanCleanup,
           DeleteFails, Untrack, Recheck, FinalCheck, StartPull, Pulled, PullFails,
           PullCancelled, Clone, T
    <2>2. t = want[p] /\ store'[t] = Version(p)
      BY <1>1, <2>1 DEF Typed
    <2> QED BY <2>1, <2>2, PullFits
  <1> QED BY <1>3, <1>4

\* A pull that adds to what is on the host leaves the buffer free, whatever else
\* has failed before it, when plugins do not overlap and what Anka reports as
\* cached is on the host (EnsureSpaceForTemplate, AnkaRegistryPull).
THEOREM BufferIsKept ==
    ASSUME OnePlugin, CachedIsThere
    PROVE  Spec => BufferKept
  <1>1. [BufferStep]_vars <=> [\A t \in Templates :
            /\ store'[t] # "none"
            /\ SizeOf(t, store'[t]) > SizeOf(t, store[t])
            => Available' >= BufferSize]_vars
    BY DEF BufferStep
  <1> QED BY InitHolds, NextKeeps, InitKInv, NextKeepsKInv, InitSInv, NextKeepsSInv,
             NextKeepsBuffer, <1>1, PTL DEF Spec, BufferKept

-----------------------------------------------------------------------------
(* The order of a cleanup.                                                  *)

\* From its k-th template on, a list is in the order in which the tracker's
\* templates are to be deleted.
InOrder(s, k) ==
    /\ \A i \in k..Len(s) : Listed(s[i])
    /\ \A i, j \in k..Len(s) : i < j => s[i] # s[j] /\ ~OutOfOrder(s[i], s[j])
\* What may be deleted is on the list or has been tried.
Covers(p) ==
    \A s \in Templates : Listed(s) => s = T(p) \/ s \in tried[p] \/ s \in ToSet(lru[p])
\* The tracker forgets the head of the list between "untrack" and "recheck".
Ordered(p) ==
    /\ pc[p] \in {"delete", "untrack"} => InOrder(lru[p], 1)
    /\ pc[p] = "recheck" => InOrder(lru[p], 2)
    /\ Deletes(p) => Covers(p)
    /\ pc[p] \in {"untrack", "recheck"} =>
          Victim(p) \in tried[p] /\ store[Victim(p)] = "none"
OInv == \A p \in Plugins : Ordered(p)

\* The rest of a list in order is in order.
LEMMA TailInOrder ==
    ASSUME NEW s \in Seq(Templates), s # <<>>, InOrder(s, 2)
    PROVE  InOrder(Tail(s), 1)
  <1>1. PICK r : r = Tail(s)
    OBVIOUS
  <1>2. \A i \in 1..Len(r) : i + 1 \in 2..Len(s) /\ r[i] = s[i + 1]
    <2>1. \A i \in 1..Len(r) : i + 1 \in 1..Len(s) /\ r[i] = s[i + 1]
      BY <1>1, Tails
    <2> QED BY <2>1
  <1>3. ASSUME NEW i \in 1..Len(r), NEW j \in 1..Len(r), i < j
        PROVE  r[i] # r[j] /\ ~OutOfOrder(r[i], r[j])
    <2>1. PICK k \in 2..Len(s), l \in 2..Len(s) : k < l /\ r[i] = s[k] /\ r[j] = s[l]
      <3>1. i + 1 < j + 1
        BY <1>3
      <3> QED BY <1>2, <3>1
    <2> QED BY <2>1 DEF InOrder
  <1>4. ASSUME NEW i \in 1..Len(r) PROVE Listed(r[i])
    BY <1>2, <1>4 DEF InOrder
  <1> QED BY <1>1, <1>3, <1>4 DEF InOrder

LEMMA WholeInOrder ==
    ASSUME NEW s, InOrder(s, 1) PROVE InOrder(s, 2)
  <1>1. \A i \in 2..Len(s) : i \in 1..Len(s)
    OBVIOUS
  <1> QED BY <1>1 DEF InOrder

\* The loop goes on with the rest of its list.
LEMMA NextInOrder ==
    ASSUME Typed, KInv, NEW p \in Plugins, Deletes(p), InOrder(lru[p], 2), Covers(p),
           Victim(p) \in tried'[p], tried[p] \subseteq tried'[p],
           NextCandidate(p), UNCHANGED <<tracker, want>>
    PROVE  Ordered(p)'
  <1>1. lru[p] \in Seq(Templates) /\ lru[p] # <<>>
    BY DEF KInv, Kept, Spared
  <1>2. PICK r : r = Tail(lru[p])
    OBVIOUS
  <1>3. lru'[p] = r
    BY <1>2 DEF NextCandidate, KInv, Kept
  <1>4. pc'[p] \in {"delete", "final"}
    BY DEF NextCandidate, Goto, Typed
  <1>5. InOrder(r, 1)
    BY <1>1, <1>2, TailInOrder
  <1>6. InOrder(lru[p], 1)'
    <2>1. \A a, b : OutOfOrder(a, b)' = OutOfOrder(a, b)
      BY DEF OutOfOrder
    <2>2. \A a : Listed(a)' = Listed(a)
      BY DEF Listed, Tracks
    <2>3. Len(r) = Len(lru'[p])
      BY <1>3
    <2>4. /\ \A i \in 1..Len(r) : Listed(r[i])'
          /\ \A i, j \in 1..Len(r) : i < j => r[i] # r[j] /\ ~OutOfOrder(r[i], r[j])'
      BY <1>5, <2>1, <2>2 DEF InOrder
    <2> QED BY <1>3, <2>4 DEF InOrder
  <1>7. Covers(p)'
    <2> SUFFICES ASSUME NEW s \in Templates, Listed(s)
                 PROVE  s = T(p) \/ s \in tried'[p] \/ s \in ToSet(r)
      BY <1>3 DEF Covers, Listed, Tracks, T
    <2>1. s = T(p) \/ s \in tried[p] \/ s \in ToSet(lru[p])
      BY DEF Covers
    <2>2. ToSet(lru[p]) = {Victim(p)} \cup ToSet(r)
      BY <1>1, <1>2, Tails DEF Victim
    <2> QED BY <2>1, <2>2
  <1> QED BY <1>4, <1>6, <1>7 DEF Ordered

LEMMA InitOInv == Init => OInv
  BY DEF Init, OInv, Ordered, Deletes

LEMMA PluginKeepsOInv ==
    ASSUME Typed, KInv, NEW p \in Plugins, Ordered(p), Plugin(p)
    PROVE  Ordered(p)'
  <1> USE DEF Goto, Return, Quiet, disk, job
  <1>0. /\ lru \in [Plugins -> Seq(Templates)] /\ tried \in [Plugins -> SUBSET Templates]
        /\ tracker \in [Templates -> Usage \cup {None}]
        /\ Deletes(p) => lru[p] # <<>> /\ Victim(p) \in Templates /\ Victim(p) = lru[p][1]
    BY Tails DEF Typed, KInv, Kept, Spared, Victim
  <1>1. CASE \/ LoopPasses(p) \/ RunPrepares(p) \/ RunEnds(p)
             \/ ListTemplate(p) \/ ListFails(p) \/ UseLocal(p) \/ CheckPulling(p)
             \/ SpaceUnknown(p) \/ SpaceSuffices(p) \/ FinalCheck(p)
             \/ StartPull(p) \/ Pulled(p) \/ PullFails(p) \/ PullCancelled(p) \/ Clone(p)
    <2>1. PICK l \in {"idle", "admitted", "list", "use", "check", "space", "final", "pull",
                      "pulling", "clone", "running", "ended"} : pc' = [pc EXCEPT ![p] = l]
      BY <1>1 DEF LoopPasses, RunPrepares, RunEnds, ListTemplate, ListFails, UseLocal,
           CheckPulling, SpaceUnknown, SpaceSuffices, FinalCheck, StartPull, Pulled,
           PullFails, PullCancelled, Clone
    <2>2. pc'[p] \notin {"delete", "untrack", "recheck"}
      BY <2>1 DEF Typed
    <2> QED BY <2>2 DEF Ordered, Deletes
  <1>2. CASE PlanCleanup(p)
    <2>1. UNCHANGED <<tracker, want>>
      BY <1>2 DEF PlanCleanup
    <2>2. PICK all \in LeastRecentlyUsed :
             IF Hopeless(p, all)
             THEN Return(p, "space") /\ UNCHANGED lru
             ELSE /\ Goto(p, "delete") /\ UNCHANGED result
                  /\ lru' = [lru EXCEPT ![p] = Candidates(p, all)]
      BY <1>2 DEF PlanCleanup
    <2>3. CASE Hopeless(p, all)
      <3>1. pc'[p] = "ended"
        BY <2>2, <2>3 DEF Typed
      <3> QED BY <3>1 DEF Ordered, Deletes
    <2>4. CASE ~Hopeless(p, all)
      <3>1. PICK c : c = Candidates(p, all)
        OBVIOUS
      <3>2. lru'[p] = c /\ pc'[p] = "delete"
        BY <1>0, <2>2, <2>4, <3>1 DEF Typed
      <3>3. /\ c \in Seq(Templates) /\ ToSet(c) = Evictable(p)
            /\ \A i, j \in 1..Len(c) : i < j => c[i] # c[j] /\ ~OutOfOrder(c[i], c[j])
        BY <1>0, <3>1, CandidatesFacts
      <3>4. \A i \in 1..Len(c) : c[i] \in ToSet(c)
        BY <3>3 DEF ToSet
      <3>5. \A a, b : OutOfOrder(a, b)' = OutOfOrder(a, b) /\ Listed(a)' = Listed(a)
        BY <2>1 DEF OutOfOrder, Listed, Tracks
      <3>6. /\ \A i \in 1..Len(c) : Listed(c[i])'
            /\ \A i, j \in 1..Len(c) : i < j => c[i] # c[j] /\ ~OutOfOrder(c[i], c[j])'
        BY <3>3, <3>4, <3>5 DEF Evictable
      <3>7. InOrder(lru[p], 1)'
        BY <3>2, <3>6 DEF InOrder
      <3>8. Covers(p)'
        BY <2>1, <3>2, <3>3, <3>5 DEF Covers, Evictable, T
      <3> QED BY <3>2, <3>7, <3>8 DEF Ordered
    <2> QED BY <2>3, <2>4
  <1>3. CASE DeleteTemplate(p)
    <2>1. /\ pc[p] = "delete" /\ pc' = [pc EXCEPT ![p] = "untrack"]
          /\ tried' = [tried EXCEPT ![p] = tried[p] \cup {Victim(p)}]
          /\ store' = [store EXCEPT ![Victim(p)] = "none"]
          /\ UNCHANGED <<tracker, lru, want>>
      BY <1>3 DEF DeleteTemplate
    <2>2. pc'[p] = "untrack" /\ tried'[p] = tried[p] \cup {Victim(p)} /\ Victim(p)' = Victim(p)
      BY <1>0, <2>1 DEF Typed, Victim
    <2>3. InOrder(lru[p], 1)'
      BY <2>1 DEF Ordered, InOrder, Listed, Tracks, OutOfOrder
    <2>4. Covers(p)'
      BY <2>1, <2>2 DEF Ordered, Deletes, Covers, Listed, Tracks, T
    <2>5. store'[Victim(p)] = "none"
      BY <1>0, <2>1 DEF Deletes, Typed
    <2> QED BY <2>2, <2>3, <2>4, <2>5 DEF Ordered
  <1>4. CASE DeleteFails(p)
    <2>1. /\ pc[p] = "delete" /\ NextCandidate(p)
          /\ tried' = [tried EXCEPT ![p] = tried[p] \cup {Victim(p)}]
          /\ UNCHANGED <<tracker, want>>
      BY <1>4 DEF DeleteFails
    <2>2. InOrder(lru[p], 2) /\ Covers(p) /\ Deletes(p)
      BY <2>1, WholeInOrder DEF Ordered, Deletes
    <2>3. Victim(p) \in tried'[p] /\ tried[p] \subseteq tried'[p]
      BY <1>0, <2>1
    <2> QED BY <2>1, <2>2, <2>3, NextInOrder
  <1>5. CASE Untrack(p)
    <2>1. /\ pc[p] = "untrack" /\ pc' = [pc EXCEPT ![p] = "recheck"]
          /\ tracker' = [tracker EXCEPT ![Victim(p)] = None]
          /\ UNCHANGED <<lru, tried, want, store>>
      BY <1>5 DEF Untrack, RemoveTemplate
    <2>2. PICK s : s = lru[p]
      OBVIOUS
    <2>3. InOrder(s, 1) /\ s \in Seq(Templates) /\ Victim(p) = s[1] /\ s # <<>>
      BY <1>0, <2>1, <2>2 DEF Ordered, Deletes
    <2>4. 1 \in 1..Len(s) /\ \A i \in 2..Len(s) : i \in 1..Len(s) /\ 1 < i
      BY <2>3
    <2>5. \A i \in 2..Len(s) : tracker'[s[i]] = tracker[s[i]]
      BY <1>0, <2>1, <2>3, <2>4 DEF InOrder
    <2>6. /\ \A i \in 2..Len(s) : Listed(s[i])'
          /\ \A i, j \in 2..Len(s) : i < j => s[i] # s[j] /\ ~OutOfOrder(s[i], s[j])'
      BY <2>3, <2>4, <2>5 DEF InOrder, Listed, Tracks, OutOfOrder
    <2>7. InOrder(lru[p], 2)'
      BY <2>1, <2>2, <2>6 DEF InOrder
    <2>8. \A t \in Templates : Listed(t)' => Listed(t)
      BY <1>0, <2>1 DEF Listed, Tracks
    <2>9. Covers(p)'
      BY <2>1, <2>8 DEF Ordered, Deletes, Covers, T
    <2>10. pc'[p] = "recheck" /\ Victim(p)' = Victim(p)
      BY <2>1 DEF Typed, Victim
    <2>11. Victim(p) \in tried[p] /\ store[Victim(p)] = "none"
      BY <2>1 DEF Ordered
    <2> QED BY <2>1, <2>7, <2>9, <2>10, <2>11 DEF Ordered
  <1>6. CASE Recheck(p)
    <2>1. pc[p] = "recheck" /\ UNCHANGED <<tracker, tried, want>>
      BY <1>6 DEF Recheck
    <2>2. CASE NextCandidate(p)
      <3>1. InOrder(lru[p], 2) /\ Covers(p) /\ Deletes(p) /\ Victim(p) \in tried[p]
        BY <2>1 DEF Ordered, Deletes
      <3> QED BY <2>1, <2>2, <3>1, NextInOrder
    <2>3. CASE ~NextCandidate(p)
      <3>1. pc'[p] = "final"
        BY <1>6, <2>3 DEF Recheck, Typed
      <3> QED BY <3>1 DEF Ordered, Deletes
    <2> QED BY <2>2, <2>3
  <1> QED BY <1>1, <1>2, <1>3, <1>4, <1>5, <1>6 DEF Plugin

LEMMA NextKeepsOInv ==
    ASSUME OnePlugin
    PROVE  IInv /\ KInv /\ OInv /\ [Next]_vars => OInv'
  <1> SUFFICES ASSUME Typed, KInv, OInv, [Next]_vars PROVE OInv'
    BY DEF IInv
  <1>1. ASSUME NEW p \in Plugins, Plugin(p) PROVE OInv'
    <2>1. Ordered(p)'
      BY <1>1, PluginKeepsOInv DEF OInv
    <2> QED BY <2>1 DEF OInv, OnePlugin
  <1>2. CASE WorkerRestarts
    <2>1. \A p \in Plugins : pc'[p] = "idle"
      BY <1>2 DEF WorkerRestarts
    <2> QED BY <2>1 DEF OInv, Ordered, Deletes
  <1>3. CASE UNCHANGED vars
    <2>1. UNCHANGED <<store, tracker, pc, want, lru, tried>>
      BY <1>3 DEF vars, disk, job
    <2> SUFFICES ASSUME NEW p \in Plugins PROVE Ordered(p)'
      BY DEF OInv
    <2>2. /\ InOrder(lru[p], 1)' = InOrder(lru[p], 1) /\ InOrder(lru[p], 2)' = InOrder(lru[p], 2)
          /\ Covers(p)' = Covers(p) /\ Victim(p)' = Victim(p)
      BY <2>1 DEF InOrder, Covers, Listed, Tracks, OutOfOrder, T, Victim
    <2> QED BY <2>1, <2>2 DEF OInv, Ordered, Deletes
  <1> QED BY <1>1, <1>2, <1>3 DEF Next

\* One step, as LeastUsedFirst wants it.
LeastUsedStep ==
    \A p \in Plugins, s, t \in Templates :
        /\ store[t] # "none" /\ store'[t] = "none" /\ t \in tried'[p] \ tried[p]
        /\ Tracks(s) /\ ~tracker[s].pulling /\ OutOfOrder(t, s)
        => s = T(p) \/ s \in tried[p]

LEMMA NextKeepsOrder ==
    ASSUME OnePlugin
    PROVE  IInv /\ KInv /\ OInv /\ [Next]_vars => [LeastUsedStep]_vars
  <1> SUFFICES ASSUME Typed, KInv, OInv, Next PROVE LeastUsedStep
    BY DEF IInv
  <1> SUFFICES ASSUME NEW p \in Plugins, NEW s \in Templates, NEW t \in Templates,
                      store[t] # "none", store'[t] = "none", t \in tried'[p] \ tried[p],
                      Listed(s), OutOfOrder(t, s)
               PROVE  s = T(p) \/ s \in tried[p]
    BY DEF LeastUsedStep, Listed
  <1> USE DEF Goto, Return, Quiet, disk, job
  <1>1. Plugin(p)
    <2>1. ~WorkerRestarts
      BY DEF WorkerRestarts
    <2> QED BY <2>1 DEF Next, OnePlugin
  <1>2. DeleteTemplate(p)
    <2>1. ASSUME \/ Pulled(p) \/ PullFails(p) \/ PullCancelled(p) PROVE UNCHANGED tried
      BY <2>1 DEF Pulled, PullFails, PullCancelled
    <2>2. tried' # tried /\ store' # store
      OBVIOUS
    <2> QED BY <1>1, <2>1, <2>2 DEF Plugin, LoopPasses, RunPrepares, RunEnds, ListTemplate,
           ListFails, UseLocal, CheckPulling, SpaceUnknown, SpaceSuffices, PlanCleanup,
           DeleteFails, Untrack, Recheck, FinalCheck, StartPull, Clone
  <1>3. /\ pc[p] = "delete" /\ lru[p] \in Seq(Templates) /\ lru[p] # <<>>
        /\ InOrder(lru[p], 1) /\ Covers(p)
    BY <1>2 DEF DeleteTemplate, KInv, Kept, Spared, Deletes, OInv, Ordered
  <1>4. t = lru[p][1]
    <2>1. tried' = [tried EXCEPT ![p] = tried[p] \cup {Victim(p)}]
      BY <1>2 DEF DeleteTemplate
    <2>2. t = Victim(p)
      BY <2>1 DEF KInv, Kept
    <2> QED BY <1>3, <2>2, Tails DEF Victim
  <1>5. CASE s \in ToSet(lru[p])
    <2>1. DOMAIN lru[p] = 1..Len(lru[p]) /\ 1 \in 1..Len(lru[p])
      BY <1>3
    <2>2. PICK i \in 1..Len(lru[p]) : s = lru[p][i]
      BY <1>5, <2>1 DEF ToSet
    <2>3. i # 1
      <3> SUFFICES ASSUME s = t PROVE FALSE
        BY <1>4, <2>2
      <3>1. tracker[s] \in Usage
        BY DEF Listed, Tracks, Typed
      <3>2. tracker[s].count \in Nat /\ tracker[s].accessed \in Nat
        BY <3>1 DEF Usage
      <3> QED BY <3>2 DEF OutOfOrder
    <2>4. ~OutOfOrder(lru[p][1], lru[p][i])
      BY <1>3, <2>1, <2>2, <2>3 DEF InOrder
    <2> QED BY <1>4, <2>2, <2>4
  <1> QED BY <1>3, <1>5 DEF Covers

\* A cleanup deletes the least used template of those it has not tried, whether
\* or not its commands succeed and however often the worker restarts, when
\* plugins do not overlap (GetLeastRecentlyUsedTemplates,
\* EnsureSpaceForTemplate).
THEOREM LeastUsedGoFirst ==
    ASSUME OnePlugin
    PROVE  Spec => LeastUsedFirst
  <1>1. [LeastUsedStep]_vars <=> [\A p \in Plugins, s, t \in Templates :
          /\ store[t] # "none" /\ store'[t] = "none" /\ t \in tried'[p] \ tried[p]
          /\ Tracks(s) /\ ~tracker[s].pulling /\ OutOfOrder(t, s)
          => s = T(p) \/ s \in tried[p]]_vars
    BY DEF LeastUsedStep
  <1> QED BY InitHolds, NextKeeps, InitKInv, NextKeepsKInv, InitOInv, NextKeepsOInv,
             NextKeepsOrder, <1>1, PTL DEF Spec, LeastUsedFirst

-----------------------------------------------------------------------------
(* What a cleanup is for.                                                   *)

\* The space that some templates take, with their tags on the host.
Occupied(s, A) == SumFunction([t \in A |-> SizeOf(t, s[t])])
ToFree(p) == Occupied(store, ToSet(lru[p]))

\* The tracker's sizes are those on the host, but for the template that has
\* just been deleted.
Truthful ==
    \A t \in Templates :
        Tracks(t) /\ ~(\E p \in Plugins : pc[p] = "untrack" /\ Victim(p) = t)
           => tracker[t].size = SizeOf(t, store[t])
\* While a cleanup deletes, what is on its list is enough to make the room; no
\* template is deleted in vain.
Worthwhile(p) ==
    /\ pc[p] \in {"list", "check", "space"} => tried[p] = {} /\ result[p] = "none"
    /\ Deletes(p) => /\ result[p] = "none" /\ Available >= BufferSize
                     /\ UsableSpace + ToFree(p) >= DownloadSize(p)
    /\ pc[p] = "final" => result[p] = "none" /\ EnoughSpace(p)
    /\ result[p] = "space" => tried[p] = {}
VInv == faults = 0 => discovered /\ Truthful /\ \A p \in Plugins : Worthwhile(p)

\* The space of a template and of the others.
LEMMA OccupiedFacts ==
    ASSUME NEW s, NEW A \in SUBSET Templates
    PROVE  /\ Occupied(s, A) \in Nat
           /\ A = {} => Occupied(s, A) = 0
           /\ \A x \in A : Occupied(s, A) = SizeOf(x, s[x]) + Occupied(s, A \ {x})
  <1>1. PICK f : f = [t \in A |-> SizeOf(t, s[t])]
    OBVIOUS
  <1>2. f \in [A -> Nat] /\ IsFiniteSet(A)
    BY <1>1, SizeIsNat, FS_Subset, StoreAssumption
  <1>3. Occupied(s, A) = SumFunction(f)
    BY <1>1 DEF Occupied
  <1>4. Occupied(s, A) \in Nat /\ (A = {} => Occupied(s, A) = 0)
    BY <1>2, <1>3, SumFacts
  <1>5. ASSUME NEW x \in A PROVE Occupied(s, A) = SizeOf(x, s[x]) + Occupied(s, A \ {x})
    <2>1. PICK g : g = [t \in A \ {x} |-> SizeOf(t, s[t])]
      OBVIOUS
    <2>2. g \in [A \ {x} -> Nat] /\ \A t \in A \ {x} : g[t] = f[t]
      BY <1>1, <2>1, SizeIsNat
    <2>3. SumFunction(f) = f[x] + SumFunction(g)
      BY <1>2, <2>2, SumWithout
    <2>4. Occupied(s, A \ {x}) = SumFunction(g)
      BY <2>1 DEF Occupied
    <2> QED BY <1>1, <1>3, <2>3, <2>4
  <1> QED BY <1>4, <1>5

LEMMA SameOccupied ==
    ASSUME NEW s, NEW r, NEW A, \A t \in A : s[t] = r[t]
    PROVE  Occupied(s, A) = Occupied(r, A)
  <1>1. [t \in A |-> SizeOf(t, s[t])] = [t \in A |-> SizeOf(t, r[t])]
    OBVIOUS
  <1> QED BY <1>1 DEF Occupied

\* A template that is deleted frees what it took.
LEMMA DeletingFrees ==
    ASSUME NEW s, NEW r, NEW A \in SUBSET Templates, NEW x \in A,
           r[x] = "none", \A t \in A \ {x} : s[t] = r[t]
    PROVE  Occupied(s, A) = SizeOf(x, s[x]) + Occupied(r, A)
  <1>1. Occupied(s, A) = SizeOf(x, s[x]) + Occupied(s, A \ {x})
    BY OccupiedFacts
  <1>2. Occupied(r, A) = SizeOf(x, r[x]) + Occupied(r, A \ {x})
    BY OccupiedFacts
  <1>3. Occupied(s, A \ {x}) = Occupied(r, A \ {x})
    BY SameOccupied
  <1>4. A \ {x} \in SUBSET Templates
    OBVIOUS
  <1>5. SizeOf(x, r[x]) = 0 /\ Occupied(r, A \ {x}) \in Nat
    BY <1>4, OccupiedFacts DEF SizeOf
  <1> QED BY <1>1, <1>2, <1>3, <1>5

\* A head that takes no space is not missed.
LEMMA EmptyHead ==
    ASSUME NEW r, NEW s \in Seq(Templates), s # <<>>, r[Head(s)] = "none"
    PROVE  /\ Occupied(r, ToSet(Tail(s))) = Occupied(r, ToSet(s))
           /\ Len(s) = 1 => Occupied(r, ToSet(s)) = 0
  <1>1. PICK A, B, x : A = ToSet(s) /\ B = ToSet(Tail(s)) /\ x = Head(s)
    OBVIOUS
  <1>2. A = {x} \cup B /\ x \in A /\ x \in Templates
    BY <1>1, Tails
  <1>3. A \in SUBSET Templates
    <2>1. \A i \in DOMAIN s : s[i] \in Templates
      OBVIOUS
    <2> QED BY <1>1, <2>1 DEF ToSet
  <1>4. B \in SUBSET Templates /\ A \ {x} \in SUBSET Templates
    BY <1>2, <1>3
  <1>5. Occupied(r, A) = SizeOf(x, r[x]) + Occupied(r, A \ {x})
    BY <1>2, <1>3, OccupiedFacts
  <1>6. SizeOf(x, r[x]) = 0 /\ Occupied(r, A \ {x}) \in Nat
    BY <1>1, <1>4, OccupiedFacts DEF SizeOf
  <1>7. Occupied(r, B) = Occupied(r, A)
    <2>1. CASE x \in B
      <3>1. A = B
        BY <1>2, <2>1
      <3> QED BY <3>1
    <2>2. CASE x \notin B
      <3>1. A \ {x} = B
        BY <1>2, <2>2
      <3>2. Occupied(r, A \ {x}) = Occupied(r, B)
        BY <3>1, Zenon
      <3> QED BY <1>5, <1>6, <3>2
    <2> QED BY <2>1, <2>2
  <1>8. ASSUME Len(s) = 1 PROVE Occupied(r, A) = 0
    <2>1. B = {s[i] : i \in 2..1}
      BY <1>1, <1>8, Tails
    <2>2. B = {}
      BY <2>1
    <2> QED BY <1>4, <1>7, <2>2, OccupiedFacts
  <1> QED BY <1>1, <1>7, <1>8

\* The space that is left once nothing is taken beyond the disk.
LEMMA Spacious ==
    ASSUME SInv, Available >= BufferSize
    PROVE  UsableSpace = (DiskSize - Used) - BufferSize /\ DiskSize - Used >= BufferSize
  <1>1. Used \in Nat /\ Available = Free /\ DiskSize \in Nat /\ BufferSize \in Nat
    BY UsedIsNat, StoreAssumption
  <1>2. Available = DiskSize - Used
    BY <1>1 DEF SInv, Free
  <1> QED BY <1>1, <1>2 DEF UsableSpace

LEMMA InitVInv == Init => VInv
  <1> SUFFICES ASSUME Init PROVE VInv
    OBVIOUS
  <1>1. ASSUME NEW t \in Templates, Tracks(t) PROVE tracker[t].size = SizeOf(t, store[t])
    BY <1>1 DEF Init, Discovered, Tracks
  <1>2. \A p \in Plugins : pc[p] = "idle" /\ result[p] = "none"
    BY DEF Init
  <1> QED BY <1>1, <1>2 DEF Init, VInv, Truthful, Worthwhile, Deletes

\* A command that could have succeeded fails only by a fault.
LEMMA NoFaultTaken ==
    ASSUME faults \in Nat, faults' = 0, NEW c, Failing(c)
    PROVE  c /\ faults = 0
  BY DEF Failing, NoFault, Fault

\* Steps away from the two steps of a deletion, by a plugin that is alone.
LEMMA TruthKept ==
    ASSUME Truthful, OnePlugin, UNCHANGED <<store, tracker>>, NEW p \in Plugins,
           pc[p] # "untrack"
    PROVE  Truthful'
  <1>1. ASSUME NEW t \in Templates, Tracks(t) PROVE tracker[t].size = SizeOf(t, store[t])
    BY <1>1 DEF Truthful, OnePlugin
  <1> QED BY <1>1 DEF Truthful, Tracks

LEMMA TruthChanged ==
    ASSUME Typed, Truthful, OnePlugin, NEW p \in Plugins, pc[p] # "untrack",
           NEW t \in Templates, NEW u \in Usage,
           tracker' = [tracker EXCEPT ![t] = u], u.size = SizeOf(t, store'[t]),
           \A s \in Templates \ {t} : store'[s] = store[s]
    PROVE  Truthful'
  <1>1. ASSUME NEW s \in Templates, Tracks(s) PROVE tracker[s].size = SizeOf(s, store[s])
    BY <1>1 DEF Truthful, OnePlugin
  <1>2. ASSUME NEW s \in Templates, Tracks(s)' PROVE tracker'[s].size = SizeOf(s, store'[s])
    <2>1. CASE s = t
      BY <2>1 DEF Typed
    <2>2. CASE s # t
      <3>1. tracker'[s] = tracker[s] /\ store'[s] = store[s]
        BY <2>2 DEF Typed
      <3>2. Tracks(s)
        BY <1>2, <3>1 DEF Tracks
      <3> QED BY <1>1, <3>1, <3>2
    <2> QED BY <2>1, <2>2
  <1> QED BY <1>2 DEF Truthful

\* The size of an entry that is counted is the one read, or the one known.
LEMMA UpdatedSize ==
    ASSUME Typed, NEW t \in Templates, NEW size \in Nat, NEW now \in Nat,
           Tracks(t) /\ size = 0 => tracker[t].size = 0
    PROVE  Updated(t, size, now).size = size
  <1>1. CASE Tracks(t)
    <2>1. PICK w \in Usage : w = tracker[t]
      BY <1>1 DEF Typed, Tracks
    <2>2. PICK n : n = w.count + 1
      OBVIOUS
    <2>3. PICK k : k = IF size > 0 THEN size ELSE w.size
      OBVIOUS
    <2>4. Updated(t, size, now) = [w EXCEPT !.accessed = now, !.count = n, !.size = k]
      BY <1>1, <2>1, <2>2, <2>3 DEF Updated
    <2>5. k = size
      BY <1>1, <2>1, <2>3
    <2> QED BY <2>4, <2>5 DEF Usage
  <1>2. CASE ~Tracks(t)
    BY <1>2 DEF Updated
  <1> QED BY <1>1, <1>2

\* When no command fails, every step leaves the tracker's sizes true.
LEMMA PluginKeepsTruth ==
    ASSUME OnePlugin, Typed, Typed', KInv, Tracked, discovered, OInv, Truthful,
           faults \in Nat, faults' = 0, NEW p \in Plugins, Plugin(p)
    PROVE  Truthful'
  <1> USE DEF Goto, Return, Quiet, disk, job
  <1>0. ASSUME pc[p] # "untrack", NEW t \in Templates, Tracks(t)
        PROVE  tracker[t].size = SizeOf(t, store[t])
    BY <1>0 DEF Truthful, OnePlugin
  <1>1. CASE \/ LoopPasses(p) \/ RunPrepares(p) \/ RunEnds(p)
             \/ ListTemplate(p) \/ ListFails(p) \/ CheckPulling(p)
             \/ SpaceUnknown(p) \/ SpaceSuffices(p) \/ PlanCleanup(p)
             \/ DeleteFails(p) \/ Recheck(p) \/ FinalCheck(p) \/ Clone(p)
    <2>1. UNCHANGED <<store, tracker>> /\ pc[p] # "untrack"
      BY <1>1 DEF LoopPasses, RunPrepares, RunEnds, ListTemplate, ListFails, CheckPulling,
           SpaceUnknown, SpaceSuffices, PlanCleanup, DeleteFails, Recheck, FinalCheck, Clone
    <2> QED BY <2>1, TruthKept
  <1>2. CASE UseLocal(p)
    <2>1. PICK t \in Templates : t = want[p]
      BY <1>2 DEF UseLocal, Typed
    <2>2. PICK k \in Nat : k = SizeOf(t, store[t])
      BY SizeIsNat
    <2>3. tracker' = [tracker EXCEPT ![t] = Updated(t, k, accessed[t])] /\ pc[p] = "use"
      BY <1>2, <2>1, <2>2 DEF UseLocal, UpdateTemplateUsage, T, Fault
    <2>4. UNCHANGED store /\ accessed[t] \in Nat
      BY <1>2 DEF UseLocal, Typed
    <2>5. Tracks(t) => tracker[t].size = k
      BY <1>0, <2>2, <2>3
    <2>6. Updated(t, k, accessed[t]).size = k
      BY <2>4, <2>5, UpdatedSize
    <2>7. Updated(t, k, accessed[t]) \in Usage
      BY <2>4, UpdatedUsage
    <2> QED BY <2>2, <2>3, <2>4, <2>6, <2>7, TruthChanged
  <1>3. CASE DeleteTemplate(p)
    <2>1. /\ pc[p] = "delete" /\ pc' = [pc EXCEPT ![p] = "untrack"]
          /\ store' = [store EXCEPT ![Victim(p)] = "none"] /\ UNCHANGED <<tracker, lru>>
      BY <1>3 DEF DeleteTemplate
    <2>2. pc'[p] = "untrack" /\ Victim(p)' = Victim(p)
      BY <2>1 DEF Typed, Victim
    <2>3. ASSUME NEW t \in Templates, Tracks(t), t # Victim(p)
          PROVE  tracker'[t].size = SizeOf(t, store'[t])
      <3>1. store'[t] = store[t] /\ tracker'[t] = tracker[t]
        BY <2>1, <2>3 DEF Typed
      <3> QED BY <1>0, <2>1, <2>3, <3>1
    <2> QED BY <2>1, <2>2, <2>3 DEF Truthful, Tracks
  <1>4. CASE Untrack(p)
    <2>1. /\ pc[p] = "untrack" /\ UNCHANGED store
          /\ tracker' = [tracker EXCEPT ![Victim(p)] = None]
      BY <1>4 DEF Untrack, RemoveTemplate
    <2>2. ASSUME NEW t \in Templates, Tracks(t)' PROVE tracker'[t].size = SizeOf(t, store'[t])
      <3>1. t # Victim(p) /\ tracker'[t] = tracker[t]
        BY <2>1, <2>2 DEF Tracks, Typed
      <3>2. \A q \in Plugins : Victim(q) = Victim(p)
        BY DEF OnePlugin
      <3>3. Tracks(t)
        BY <2>2, <3>1 DEF Tracks
      <3> QED BY <2>1, <3>1, <3>2, <3>3 DEF Truthful
    <2> QED BY <2>2 DEF Truthful
  <1>5. CASE StartPull(p)
    <2>1. pc[p] = "pull" /\ UNCHANGED store
      BY <1>5 DEF StartPull
    <2>2. PICK t \in Templates : t = want[p]
      BY <2>1 DEF Typed
    <2>3. PICK u : u = IF Tracks(t) THEN [tracker[t] EXCEPT !.pulling = TRUE]
                       ELSE [size |-> 0, count |-> 0, accessed |-> runs, pulling |-> TRUE]
      OBVIOUS
    <2>4. tracker' = [tracker EXCEPT ![t] = u]
      BY <1>5, <2>2, <2>3 DEF StartPull, SetTemplatePulling, T
    <2>5. u \in Usage /\ u.size = SizeOf(t, store[t])
      <3>1. CASE Tracks(t)
        <4>1. tracker[t] \in Usage /\ tracker[t].size = SizeOf(t, store[t])
          BY <1>0, <2>1, <3>1 DEF Typed, Tracks
        <4>2. PICK w \in Usage : w = tracker[t]
          BY <4>1
        <4>3. u = [w EXCEPT !.pulling = TRUE]
          BY <2>3, <3>1, <4>2
        <4>4. u \in Usage /\ u.size = w.size
          BY <4>3 DEF Usage
        <4> QED BY <4>1, <4>2, <4>4
      <3>2. CASE ~Tracks(t)
        <4>1. u = [size |-> 0, count |-> 0, accessed |-> runs, pulling |-> TRUE] /\ runs \in Nat
          BY <2>3, <3>2 DEF Typed
        <4>2. u \in Usage /\ u.size = 0
          BY <4>1 DEF Usage
        <4>3. store[t] = "none"
          BY <3>2 DEF Tracked
        <4> QED BY <4>2, <4>3 DEF SizeOf
      <3> QED BY <3>1, <3>2
    <2> QED BY <2>1, <2>4, <2>5, TruthChanged
  <1>6. CASE Pulled(p)
    <2>1. pc[p] = "pulling" /\ store' = [store EXCEPT ![want[p]] = Version(p)]
      BY <1>6 DEF Pulled, T
    <2>2. PICK t \in Templates : t = want[p]
      BY <2>1 DEF Typed
    <2>3. PICK k \in Nat : k = SizeOf(t, Version(p))
      BY SizeIsNat
    <2>4. k # 0
      BY <2>2, <2>3, Sizes, StoreAssumption DEF SizeOf, Tags
    <2>5. PICK u \in Usage : u = Updated(t, k, runs)
      BY UpdatedUsage DEF Typed
    <2>6. u.size = k
      BY <2>4, <2>5, UpdatedSize DEF Typed
    <2>7. PICK w : w = [u EXCEPT !.pulling = FALSE]
      OBVIOUS
    <2>8. w \in Usage /\ w.size = k
      BY <2>6, <2>7 DEF Usage
    <2>9. tracker' = [tracker EXCEPT ![t] = w]
      BY <1>6, <2>2, <2>3, <2>5, <2>7 DEF Pulled, T
    <2>10. store'[t] = Version(p) /\ \A s \in Templates \ {t} : store'[s] = store[s]
      BY <2>1, <2>2 DEF Typed
    <2> QED BY <2>1, <2>3, <2>8, <2>9, <2>10, TruthChanged
  <1>7. CASE PullFails(p)
    <2>1. /\ pc[p] = "pulling" /\ Failing(T(p) \notin Published)
          /\ \/ UNCHANGED store
             \/ T(p) \in Published /\ store' = [store EXCEPT ![T(p)] = Version(p)]
      BY <1>7 DEF PullFails
    <2>2. T(p) \notin Published
      BY <2>1, NoFaultTaken
    <2>3. UNCHANGED store
      BY <2>1, <2>2
    <2>4. PICK t \in Templates : t = want[p]
      BY <2>1 DEF Typed
    <2>5. tracker' = [tracker EXCEPT ![t] =
                         IF Tracks(t) THEN [tracker[t] EXCEPT !.pulling = FALSE] ELSE tracker[t]]
      BY <1>7, <2>4 DEF PullFails, ClearPulling, T
    <2>6. CASE Tracks(t)
      <3>1. PICK w \in Usage : w = tracker[t]
        BY <2>6 DEF Typed, Tracks
      <3>2. w.size = SizeOf(t, store[t])
        BY <1>0, <2>1, <2>6, <3>1
      <3>3. PICK u : u = [w EXCEPT !.pulling = FALSE]
        OBVIOUS
      <3>4. u \in Usage /\ u.size = w.size
        BY <3>3 DEF Usage
      <3>5. tracker' = [tracker EXCEPT ![t] = u]
        BY <2>5, <2>6, <3>1, <3>3
      <3> QED BY <2>1, <2>3, <3>2, <3>4, <3>5, TruthChanged
    <2>7. CASE ~Tracks(t)
      <3>1. tracker' = tracker
        BY <2>5, <2>7 DEF Typed
      <3> QED BY <2>1, <2>3, <3>1, TruthKept
    <2> QED BY <2>6, <2>7
  <1>8. CASE PullCancelled(p)
    BY <1>8 DEF PullCancelled, Fault
  <1> QED BY <1>1, <1>2, <1>3, <1>4, <1>5, <1>6, <1>7, <1>8 DEF Plugin

\* A step that leaves the tags on the host and the plugin's list alone.
LEMMA SameRoom ==
    ASSUME NEW p \in Plugins, UNCHANGED <<store, want, tag, lru>>
    PROVE  /\ Available' = Available /\ UsableSpace' = UsableSpace /\ ToFree(p)' = ToFree(p)
           /\ DownloadSize(p)' = DownloadSize(p) /\ EnoughSpace(p)' = EnoughSpace(p)
  <1>1. ToFree(p)' = ToFree(p)
    BY DEF ToFree, Occupied
  <1> QED BY <1>1, SameSpace

\* What the sizes of the candidates add up to is what deleting them frees.
LEMMA FreeableIsToFree ==
    ASSUME Typed, OnePlugin, Truthful, NEW p \in Plugins, pc[p] # "untrack",
           NEW all \in LeastRecentlyUsed
    PROVE  Freeable(p, all) = Occupied(store, ToSet(Candidates(p, all)))
  <1>1. PICK A : A = ToSet(Candidates(p, all))
    OBVIOUS
  <1>2. A = Evictable(p)
    BY <1>1, CandidatesFacts DEF Typed
  <1>3. \A t \in A : tracker[t].size = SizeOf(t, store[t])
    BY <1>2 DEF Evictable, Listed, Truthful, OnePlugin
  <1>4. [t \in A |-> tracker[t].size] = [t \in A |-> SizeOf(t, store[t])]
    BY <1>3
  <1>5. Freeable(p, all) = SumFunction([t \in A |-> tracker[t].size])
    BY <1>1, Zenon DEF Freeable
  <1>6. Occupied(store, A) = SumFunction([t \in A |-> SizeOf(t, store[t])])
    BY Zenon DEF Occupied
  <1> QED BY <1>1, <1>4, <1>5, <1>6, Zenon

\* Deleting a template frees its space, and leaves the room for the others.
LEMMA DeletionFrees ==
    ASSUME OnePlugin, Typed, Typed', KInv, SInv, NEW p \in Plugins, Worthwhile(p),
           DeleteTemplate(p)
    PROVE  Worthwhile(p)'
  <1> USE DEF Goto, Return, Quiet, disk, job
  <1>1. /\ pc[p] = "delete" /\ pc' = [pc EXCEPT ![p] = "untrack"]
        /\ store' = [store EXCEPT ![Victim(p)] = "none"]
        /\ UNCHANGED <<lru, want, tag, result>>
    BY DEF DeleteTemplate
  <1>2. lru[p] \in Seq(Templates) /\ lru[p] # <<>> /\ want[p] \notin ToSet(lru[p])
    BY <1>1 DEF KInv, Kept, Spared, Deletes, T
  <1>3. PICK v \in Templates : v = Victim(p) /\ v \in ToSet(lru[p]) /\ v # want[p]
    BY <1>2, Tails DEF Victim
  <1>4. PICK A \in SUBSET Templates : A = ToSet(lru[p])
    <2>1. \A i \in DOMAIN lru[p] : lru[p][i] \in Templates
      BY <1>2
    <2> QED BY <2>1 DEF ToSet
  <1>5. store'[v] = "none" /\ \A t \in Templates \ {v} : store'[t] = store[t]
    BY <1>1, <1>3 DEF Typed
  <1>6. want[p] \in Templates
    BY <1>1 DEF Typed
  <1>7. DownloadSize(p)' = DownloadSize(p)
    <2>1. store'[want[p]] = store[want[p]]
      BY <1>3, <1>5, <1>6
    <2>2. TotalSize(p)' = TotalSize(p)
      BY <1>1, <2>1 DEF TotalSize, Here, T, Version
    <2>3. Cached(p)' = Cached(p)
      BY <1>1, <2>1 DEF Cached, T
    <2> QED BY <2>2, <2>3 DEF DownloadSize
  <1>8. PICK a \in Nat, b \in Nat, c \in Nat :
           a = SizeOf(v, store[v]) /\ b = Occupied(store, A) /\ c = Occupied(store', A)
    BY SizeIsNat, OccupiedFacts
  <1>9. b = a + c
    BY <1>3, <1>4, <1>5, <1>8, DeletingFrees
  <1>10. ToFree(p) = b /\ ToFree(p)' = c
    BY <1>1, <1>4, <1>8 DEF ToFree
  <1>11. PICK u \in Nat, w \in Nat : u = Used /\ w = Used'
    BY UsedIsNat
  <1>12. w + a = u
    <2>1. SizeOf(v, "none") = 0
      BY DEF SizeOf
    <2>2. Used' + a = Used + 0
      BY <1>1, <1>3, <1>8, <2>1, UsedChanges
    <2>3. w + a = u + 0
      BY <1>11, <2>2
    <2> QED BY <2>3
  <1>13. /\ Available >= BufferSize /\ UsableSpace + b >= DownloadSize(p)
         /\ result[p] = "none"
    BY <1>1, <1>10 DEF Worthwhile, Deletes
  <1>14. UsableSpace = (DiskSize - u) - BufferSize /\ DiskSize - u >= BufferSize
    BY <1>11, <1>13, Spacious
  <1>15. PICK e \in Nat, f \in Nat, d \in Nat :
            e = DiskSize /\ f = BufferSize /\ d = DownloadSize(p)
    BY <1>6, StoreAssumption, Sizes
  <1>16. Available' = e - w /\ e - w >= f
    <2>1. Available' = IF w < e THEN e - w ELSE 0
      BY <1>11, <1>15, UsedIsNat DEF Free
    <2>2. e - u >= f
      BY <1>14, <1>15
    <2>3. e - w >= f
      BY <1>8, <1>12, <2>2
    <2> QED BY <2>1, <2>3
  <1>17. UsableSpace' = (e - w) - f /\ Available' >= BufferSize
    <2>1. UsableSpace' = IF Available' > f THEN Available' - f ELSE 0
      BY <1>15 DEF UsableSpace
    <2> QED BY <1>15, <1>16, <2>1
  <1>18. UsableSpace' + c >= DownloadSize(p)'
    <2>1. ((e - u) - f) + b >= d
      BY <1>13, <1>14, <1>15
    <2>2. ((e - w) - f) + c >= d
      BY <1>8, <1>9, <1>12, <2>1
    <2> QED BY <1>7, <1>15, <1>17, <2>2
  <1>19. pc'[p] = "untrack" /\ result'[p] = "none"
    BY <1>1, <1>13 DEF Typed
  <1> QED BY <1>10, <1>17, <1>18, <1>19 DEF Worthwhile, Deletes

\* A candidate that takes no space any more is dropped without loss.
LEMMA DroppingKeeps ==
    ASSUME Typed, KInv, NEW p \in Plugins, Worthwhile(p), Deletes(p), NextCandidate(p),
           store[Victim(p)] = "none", UNCHANGED <<store, want, tag, result>>
    PROVE  Worthwhile(p)'
  <1>1. lru[p] \in Seq(Templates) /\ lru[p] # <<>> /\ want[p] \in Templates
    BY DEF KInv, Kept, Spared, Deletes, Typed
  <1>2. PICK s, r : s = lru[p] /\ r = Tail(s)
    OBVIOUS
  <1>3. lru'[p] = r /\ pc'[p] = IF Len(s) = 1 THEN "final" ELSE "delete"
    BY <1>2 DEF NextCandidate, Goto, KInv, Kept, Typed
  <1>4. /\ Occupied(store, ToSet(r)) = Occupied(store, ToSet(s))
        /\ Len(s) = 1 => Occupied(store, ToSet(s)) = 0
    BY <1>1, <1>2, EmptyHead DEF Victim
  <1>5. /\ result[p] = "none" /\ Available >= BufferSize
        /\ UsableSpace + Occupied(store, ToSet(s)) >= DownloadSize(p)
    BY <1>2 DEF Worthwhile, ToFree
  <1>6. /\ Available' = Available /\ UsableSpace' = UsableSpace
        /\ DownloadSize(p)' = DownloadSize(p) /\ EnoughSpace(p)' = EnoughSpace(p)
    BY SameSpace
  <1>7. ToFree(p)' = Occupied(store, ToSet(s))
    BY <1>3, <1>4 DEF ToFree
  <1>8. CASE Len(s) = 1
    <2>1. UsableSpace \in Nat /\ DownloadSize(p) \in Nat
      BY <1>1, Sizes
    <2>2. EnoughSpace(p)
      BY <1>4, <1>5, <1>8, <2>1 DEF EnoughSpace
    <2>3. pc'[p] = "final" /\ result'[p] = "none"
      BY <1>3, <1>5, <1>8
    <2> QED BY <1>6, <2>2, <2>3 DEF Worthwhile, Deletes
  <1>9. CASE Len(s) # 1
    <2>1. pc'[p] = "delete" /\ result'[p] = "none"
      BY <1>3, <1>5, <1>9
    <2> QED BY <1>5, <1>6, <1>7, <2>1 DEF Worthwhile, Deletes
  <1> QED BY <1>8, <1>9

LEMMA PluginKeepsWorth ==
    ASSUME OnePlugin, Typed, Typed', KInv, SInv, OInv, Truthful,
           faults = 0, faults' = 0, NEW p \in Plugins, Worthwhile(p), Plugin(p)
    PROVE  Worthwhile(p)'
  <1> USE DEF Goto, Return, Quiet, disk, job
  <1>0. /\ tried \in [Plugins -> SUBSET Templates]
        /\ result \in [Plugins -> {"none", "ok", "busy", "error", "space", "missing"}]
        /\ lru \in [Plugins -> Seq(Templates)] /\ pc \in [Plugins -> Pcs]
    BY DEF KInv, Kept, Typed
  <1>1. CASE \/ LoopPasses(p) \/ RunEnds(p) \/ StartPull(p) \/ Clone(p) \/ SpaceSuffices(p)
    <2>1. UNCHANGED <<tried, result>>
      BY <1>1 DEF LoopPasses, RunEnds, StartPull, Clone, SpaceSuffices
    <2>2. pc'[p] \in {"admitted", "idle", "pull", "pulling", "running", "ended"}
      BY <1>0, <1>1 DEF LoopPasses, RunEnds, StartPull, Clone, SpaceSuffices
    <2> QED BY <2>1, <2>2 DEF Worthwhile, Deletes
  <1>2. CASE \/ ListFails(p) \/ UseLocal(p) \/ SpaceUnknown(p)
             \/ Pulled(p) \/ PullFails(p) \/ PullCancelled(p)
    <2>1. result'[p] \in {"error", "ok", "missing"}
      BY <1>0, <1>2 DEF ListFails, UseLocal, SpaceUnknown, Pulled, PullFails, PullCancelled
    <2>2. pc'[p] \in {"clone", "ended"}
      BY <1>0, <1>2 DEF ListFails, UseLocal, SpaceUnknown, Pulled, PullFails, PullCancelled
    <2> QED BY <2>1, <2>2 DEF Worthwhile, Deletes
  <1>3. CASE RunPrepares(p)
    <2>1. pc'[p] = "list" /\ tried'[p] = {} /\ result'[p] = "none"
      BY <1>0, <1>3 DEF RunPrepares
    <2> QED BY <2>1 DEF Worthwhile, Deletes
  <1>4. CASE ListTemplate(p)
    <2>1. UNCHANGED <<tried, result>> /\ pc'[p] \in {"check", "use"} /\ pc[p] = "list"
      BY <1>0, <1>4 DEF ListTemplate
    <2> QED BY <2>1 DEF Worthwhile, Deletes
  <1>5. CASE CheckPulling(p)
    <2>1. /\ UNCHANGED tried /\ pc[p] = "check"
          /\ \/ pc'[p] = "space" /\ result' = result
             \/ pc'[p] = "ended" /\ result'[p] = "busy"
      BY <1>0, <1>5 DEF CheckPulling
    <2> QED BY <2>1 DEF Worthwhile, Deletes
  <1>6. CASE PlanCleanup(p)
    <2>1. pc[p] = "space" /\ UNCHANGED <<store, want, tag, tried>>
      BY <1>6 DEF PlanCleanup
    <2>2. PICK all \in LeastRecentlyUsed :
             IF Hopeless(p, all)
             THEN Return(p, "space") /\ UNCHANGED lru
             ELSE /\ Goto(p, "delete") /\ UNCHANGED result
                  /\ lru' = [lru EXCEPT ![p] = Candidates(p, all)]
      BY <1>6 DEF PlanCleanup
    <2>3. tried'[p] = {} /\ result[p] = "none"
      BY <2>1 DEF Worthwhile
    <2>4. CASE Hopeless(p, all)
      <3>1. pc'[p] = "ended"
        BY <1>0, <2>2, <2>4
      <3> QED BY <2>3, <3>1 DEF Worthwhile, Deletes
    <2>5. CASE ~Hopeless(p, all)
      <3>1. PICK A : A = ToSet(Candidates(p, all))
        OBVIOUS
      <3>2. pc'[p] = "delete" /\ UNCHANGED result /\ ToSet(lru'[p]) = A
        BY <1>0, <2>2, <2>5, <3>1
      <3>3. PICK k : k = Occupied(store, A)
        OBVIOUS
      <3>4. Freeable(p, all) = k
        BY <2>1, <3>1, <3>3, FreeableIsToFree
      <3>5. A \in SUBSET Templates
        BY <3>1, CandidatesFacts DEF Typed, Evictable
      <3>6. k \in Nat
        BY <3>3, <3>5, OccupiedFacts
      <3>7. UsableSpace \in Nat /\ DownloadSize(p) \in Nat /\ Available \in Nat
        BY <2>1, Sizes DEF Typed
      <3>8. Available >= BufferSize /\ UsableSpace + k >= DownloadSize(p)
        BY <2>5, <3>4, <3>6, <3>7, StoreAssumption DEF Hopeless
      <3>9. ToFree(p)' = k
        BY <2>1, <3>2, <3>3 DEF ToFree
      <3>10. /\ Available' = Available /\ UsableSpace' = UsableSpace
             /\ DownloadSize(p)' = DownloadSize(p)
        BY <2>1, SameSpace
      <3> QED BY <2>3, <3>2, <3>8, <3>9, <3>10 DEF Worthwhile, Deletes
    <2> QED BY <2>4, <2>5
  <1>7. CASE DeleteTemplate(p)
    BY <1>7, DeletionFrees
  <1>8. CASE DeleteFails(p)
    <2>1. /\ pc[p] = "delete" /\ NextCandidate(p) /\ Failing(store[Victim(p)] = "none")
          /\ UNCHANGED <<store, want, tag, result>>
      BY <1>8 DEF DeleteFails
    <2>2. store[Victim(p)] = "none"
      BY <2>1, NoFaultTaken
    <2> QED BY <2>1, <2>2, DroppingKeeps DEF Deletes
  <1>9. CASE Untrack(p)
    <2>1. /\ pc[p] = "untrack" /\ pc'[p] = "recheck"
          /\ UNCHANGED <<store, want, tag, lru, tried, result>>
      BY <1>0, <1>9 DEF Untrack
    <2>2. /\ Available' = Available /\ UsableSpace' = UsableSpace /\ ToFree(p)' = ToFree(p)
          /\ DownloadSize(p)' = DownloadSize(p)
      BY <2>1, SameRoom
    <2> QED BY <2>1, <2>2 DEF Worthwhile, Deletes
  <1>10. CASE Recheck(p)
    <2>1. pc[p] = "recheck" /\ UNCHANGED <<store, want, tag, result>>
      BY <1>10 DEF Recheck
    <2>2. CASE NextCandidate(p)
      <3>1. store[Victim(p)] = "none"
        BY <2>1 DEF OInv, Ordered
      <3> QED BY <2>1, <2>2, <3>1, DroppingKeeps DEF Deletes
    <2>3. CASE ~NextCandidate(p)
      <3>1. pc'[p] = "final" /\ EnoughSpace(p)
        BY <1>0, <1>10, <2>3 DEF Recheck
      <3>2. EnoughSpace(p)' = EnoughSpace(p)
        BY <2>1, SameSpace
      <3>3. result'[p] = "none"
        BY <2>1 DEF Worthwhile, Deletes
      <3> QED BY <3>1, <3>2, <3>3 DEF Worthwhile, Deletes
    <2> QED BY <2>2, <2>3
  <1>11. CASE FinalCheck(p)
    <2>1. pc[p] = "final" /\ EnoughSpace(p) /\ result[p] = "none"
      BY <1>11 DEF FinalCheck, Worthwhile
    <2>2. pc'[p] = "pull" /\ result' = result
      BY <1>0, <1>11, <2>1 DEF FinalCheck
    <2> QED BY <2>1, <2>2 DEF Worthwhile, Deletes
  <1> QED BY <1>1, <1>2, <1>3, <1>4, <1>5, <1>6, <1>7, <1>8, <1>9, <1>10, <1>11 DEF Plugin

LEMMA NextKeepsVInv ==
    ASSUME OnePlugin
    PROVE  IInv /\ IInv' /\ KInv /\ TInv /\ SInv /\ OInv /\ VInv /\ [Next]_vars => VInv'
  <1> SUFFICES ASSUME Typed, Typed', KInv, TInv, SInv, OInv, VInv, [Next]_vars, faults' = 0
               PROVE  discovered' /\ Truthful' /\ \A p \in Plugins : Worthwhile(p)'
    BY DEF IInv, VInv
  <1>0. faults \in Nat
    BY DEF KInv, Kept
  <1>1. ASSUME NEW p \in Plugins, Plugin(p)
        PROVE  discovered' /\ Truthful' /\ \A q \in Plugins : Worthwhile(q)'
    <2>1. faults = 0
      BY <1>0, <1>1 DEF Plugin, LoopPasses, RunPrepares, RunEnds, ListTemplate,
           ListFails, UseLocal, CheckPulling, SpaceUnknown, SpaceSuffices, PlanCleanup,
           DeleteTemplate, DeleteFails, Untrack, Recheck, FinalCheck, StartPull, Pulled,
           PullFails, PullCancelled, Clone, Failing, Fault, NoFault
    <2>2. UNCHANGED discovered
      BY <1>1 DEF Plugin, LoopPasses, RunPrepares, RunEnds, ListTemplate,
           ListFails, UseLocal, CheckPulling, SpaceUnknown, SpaceSuffices, PlanCleanup,
           DeleteTemplate, DeleteFails, Untrack, Recheck, FinalCheck, StartPull, Pulled,
           PullFails, PullCancelled, Clone, Quiet
    <2>3. discovered /\ Truthful /\ Worthwhile(p)
      BY <2>1 DEF VInv
    <2>4. Truthful'
      BY <1>0, <1>1, <2>3, PluginKeepsTruth DEF TInv
    <2>5. Worthwhile(p)'
      BY <1>1, <2>1, <2>3, PluginKeepsWorth
    <2>6. \A q \in Plugins : Worthwhile(q)'
      BY <2>5 DEF OnePlugin
    <2> QED BY <2>2, <2>3, <2>4, <2>6, Zenon
  <1>2. CASE WorkerRestarts
    BY <1>0, <1>2 DEF WorkerRestarts, Fault
  <1>3. CASE UNCHANGED vars
    <2>1. UNCHANGED <<store, tracker, discovered, pc, want, tag, lru, tried, result, faults>>
      BY <1>3 DEF vars, disk, job
    <2>2. discovered /\ Truthful /\ \A p \in Plugins : Worthwhile(p)
      BY <2>1 DEF VInv
    <2>3. Truthful'
      BY <2>1, <2>2 DEF Truthful, Tracks, Victim
    <2>4. ASSUME NEW p \in Plugins PROVE Worthwhile(p)'
      <3>1. /\ Available' = Available /\ UsableSpace' = UsableSpace /\ ToFree(p)' = ToFree(p)
            /\ DownloadSize(p)' = DownloadSize(p) /\ EnoughSpace(p)' = EnoughSpace(p)
        BY <2>1, SameRoom
      <3> QED BY <2>1, <2>2, <3>1 DEF Worthwhile, Deletes
    <2> QED BY <2>1, <2>2, <2>3, <2>4, Zenon
  <1> QED BY <1>1, <1>2, <1>3 DEF Next

\* When no command fails, a cleanup that deletes makes the room it is for: the
\* last check of EnsureSpaceForTemplate ("this should not happen, but just in
\* case", lru_cleanup.go:238) never refuses after a deletion.  For plugins that do
\* not overlap, when what Anka reports as cached is on the host.
THEOREM NothingInVain ==
    ASSUME OnePlugin, CachedIsThere
    PROVE  Spec => []NotInVain
  <1>1. VInv => NotInVain
    BY DEF VInv, NotInVain, Worthwhile
  <1> QED BY InitHolds, NextKeeps, InitKInv, NextKeepsKInv, InitTInv, NextKeepsTInv,
             InitSInv, NextKeepsSInv, InitOInv, NextKeepsOInv, InitVInv, NextKeepsVInv,
             <1>1, PTL DEF Spec
=============================================================================
