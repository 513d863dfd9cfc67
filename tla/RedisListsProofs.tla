-------------------------- MODULE RedisListsProofs --------------------------
(***************************************************************************)
(* What the Redis commands of RedisLists do to a database whose lists hold *)
(* elements of a set S: the result is a database again, the list that the  *)
(* command names has the new content, the others are as they were.         *)
(***************************************************************************)
EXTENDS RedisLists, FiniteSetTheorems, TLAPS

Databases(K, S) == [K -> Seq(S)]

\* E is D, but for the list of key k.
SameBut(D, E, K, k) == \A x \in K \ {k} : E[x] = D[x]

\* LPUSH adds an element before the head.
LEMMA LPushFact ==
    ASSUME NEW K, NEW S, NEW D \in Databases(K, S), NEW k \in K, NEW e \in S
    PROVE  /\ LPush(D, k, e) \in Databases(K, S)
           /\ LPush(D, k, e)[k] = <<e>> \o D[k]
           /\ SameBut(D, LPush(D, k, e), K, k)
BY DEF Databases, LPush, SameBut

\* RPUSH adds an element after the tail.
LEMMA RPushFact ==
    ASSUME NEW K, NEW S, NEW D \in Databases(K, S), NEW k \in K, NEW e \in S
    PROVE  /\ RPush(D, k, e) \in Databases(K, S)
           /\ RPush(D, k, e)[k] = Append(D[k], e)
           /\ SameBut(D, RPush(D, k, e), K, k)
BY DEF Databases, RPush, SameBut

\* LREM keeps the elements on both sides of the one it removes.
LEMMA LRemAtFact ==
    ASSUME NEW K, NEW S, NEW D \in Databases(K, S), NEW k \in K, NEW i \in 1..Len(D[k])
    PROVE  /\ LRemAt(D, k, i) \in Databases(K, S)
           /\ LRemAt(D, k, i)[k] = SubSeq(D[k], 1, i - 1) \o SubSeq(D[k], i + 1, Len(D[k]))
           /\ SameBut(D, LRemAt(D, k, i), K, k)
<1> DEFINE s == SubSeq(D[k], 1, i - 1) \o SubSeq(D[k], i + 1, Len(D[k]))
<1>1. D[k] \in Seq(S)
  BY DEF Databases
<1>2. s \in Seq(S)
  BY <1>1
<1>3. LRemAt(D, k, i) = [D EXCEPT ![k] = s]
  BY DEF LRemAt
<1>4. QED
  BY <1>2, <1>3 DEF Databases, SameBut

\* A list without its i-th element.
LEMMA WithoutOne ==
    ASSUME NEW S, NEW s \in Seq(S), NEW i \in 1..Len(s),
           NEW t, t = SubSeq(s, 1, i - 1) \o SubSeq(s, i + 1, Len(s))
    PROVE  /\ Len(t) = Len(s) - 1
           /\ \A n \in 1..(Len(s) - 1) : t[n] = s[IF n < i THEN n ELSE n + 1]
<1> DEFINE L == SubSeq(s, 1, i - 1)
           R == SubSeq(s, i + 1, Len(s))
<1>1. Len(s) \in Nat /\ i \in Nat /\ 1 <= i /\ i <= Len(s)
  OBVIOUS
<1>2. /\ L \in Seq(S) /\ Len(L) = i - 1 /\ \A n \in 1..(i - 1) : L[n] = s[n]
  OBVIOUS
<1>3. R \in Seq(S) /\ Len(R) = Len(s) - i /\ \A n \in 1..(Len(s) - i) : R[n] = s[i + n]
  OBVIOUS
<1>4. \A A, B \in Seq(S) :
         /\ Len(A \o B) = Len(A) + Len(B)
         /\ \A n \in 1..(Len(A) + Len(B)) :
               (A \o B)[n] = IF n <= Len(A) THEN A[n] ELSE B[n - Len(A)]
  OBVIOUS
<1>5. /\ Len(t) = Len(L) + Len(R)
      /\ \A n \in 1..(Len(L) + Len(R)) : t[n] = IF n <= Len(L) THEN L[n] ELSE R[n - Len(L)]
  BY <1>2, <1>3, <1>4, Zenon
<1>6. Len(t) = (i - 1) + (Len(s) - i)
  BY <1>2, <1>3, <1>5, Zenon
<1>7. Len(t) = Len(s) - 1
  <2>1. \A n, k \in Nat : (k - 1) + (n - k) = n - 1
    OBVIOUS
  <2>2. QED
    BY <1>1, <1>6, <2>1, Zenon
<1> DEFINE lenL == Len(L)
           lenR == Len(R)
           N == Len(s)
<1>8. /\ lenL = i - 1 /\ lenR = N - i /\ N \in Nat /\ i \in 1..N
      /\ \A n \in 1..(lenL + lenR) : t[n] = IF n <= lenL THEN L[n] ELSE R[n - lenL]
      /\ \A n \in 1..(i - 1) : L[n] = s[n]
      /\ \A n \in 1..(N - i) : R[n] = s[i + n]
  BY <1>1, <1>2, <1>3, <1>5, Zenon
<1>9. SUFFICES /\ Len(t) = N - 1
               /\ \A n \in 1..(N - 1) : t[n] = s[IF n < i THEN n ELSE n + 1]
  OBVIOUS
<1> HIDE DEF L, R, lenL, lenR, N
<1>10. ASSUME NEW n \in 1..(N - 1) PROVE t[n] = s[IF n < i THEN n ELSE n + 1]
  <2>1. CASE n < i
    <3>1. n \in 1..(i - 1) /\ n \in 1..(lenL + lenR) /\ n <= lenL
      BY <1>8, <2>1
    <3>2. t[n] = L[n]
      BY <1>8, <3>1, Zenon
    <3>3. L[n] = s[n]
      BY <1>8, <3>1, Zenon
    <3>4. QED
      BY <2>1, <3>2, <3>3, Zenon
  <2>2. CASE ~(n < i)
    <3>1. /\ n - lenL \in 1..(N - i) /\ n \in 1..(lenL + lenR) /\ ~(n <= lenL)
          /\ i + (n - lenL) = n + 1
      BY <1>8, <2>2
    <3>2. t[n] = R[n - lenL]
      BY <1>8, <3>1, Zenon
    <3>3. R[n - lenL] = s[i + (n - lenL)]
      BY <1>8, <3>1, Zenon
    <3>4. QED
      BY <2>2, <3>1, <3>2, <3>3, Zenon
  <2>3. QED
    BY <2>1, <2>2
<1>11. QED
  BY <1>10, <1>7, Zenon DEF N

\* A list of one element.
LEMMA OneElement ==
    ASSUME NEW S, NEW s \in Seq(S), s # <<>>, Len(s) <= 1
    PROVE  Len(s) = 1 /\ 1 \in 1..Len(s) /\ s[1] \in S /\ Head(s) = s[1]
OBVIOUS

\* A set of positions has a least one.
LEMMA Least ==
    ASSUME NEW n \in Nat, NEW T, T \subseteq 1..n, T # {}
    PROVE  \E x \in T : \A y \in T : x <= y
<1> DEFINE U == {1..x : x \in T}
           S == 1..n
<1>1. IsFiniteSet(S)
  BY FS_Interval
<1>2. U \subseteq FiniteSubsetsOf(S)
  <2>1. FiniteSubsetsOf(S) = SUBSET S
    BY <1>1, FS_FiniteSubsetsOfFinite
  <2>2. ASSUME NEW x \in T PROVE 1..x \subseteq S
    OBVIOUS
  <2>3. QED BY <2>1, <2>2
<1>3. IsWellFoundedOn(StrictSubsetOrdering(S), FiniteSubsetsOf(S))
  BY FS_StrictSubsetOrderingWellFounded
<1>4. U # {}
  OBVIOUS
<1> HIDE DEF U, S
<1>5. PICK u \in U : \A v \in U : ~(<<v, u>> \in StrictSubsetOrdering(S))
  BY <1>2, <1>3, <1>4, WFMin
<1> USE DEF U, S
<1>6. PICK x \in T : u = 1..x
  OBVIOUS
<1>7. ASSUME NEW y \in T, ~(x <= y) PROVE FALSE
  <2>1. 1..y \subseteq 1..x /\ x \notin 1..y /\ x \in 1..x
    BY <1>7
  <2>2. <<1..y, u>> \in StrictSubsetOrdering(S)
    BY <2>1, <1>6, <1>7 DEF StrictSubsetOrdering
  <2>3. 1..y \in U
    OBVIOUS
  <2>4. QED BY <1>5, <2>2, <2>3
<1>8. QED BY <1>7

\* LREM finds the first of the elements that are equal to e.
LEMMA FirstExists ==
    ASSUME NEW D, NEW S, NEW k, D[k] \in Seq(S), NEW e,
           NEW n \in 1..Len(D[k]), D[k][n] = e
    PROVE  \E i \in 1..Len(D[k]) : FirstAt(D, k, e, i)
<1> DEFINE T == {i \in 1..Len(D[k]) : D[k][i] = e}
<1>1. PICK i \in T : \A y \in T : i <= y
  <2>1. Len(D[k]) \in Nat /\ T \subseteq 1..Len(D[k]) /\ n \in T
    OBVIOUS
  <2> HIDE DEF T
  <2>2. QED BY <2>1, Least
<1>2. \A j \in 1..(i - 1) : D[k][j] # e
  BY <1>1
<1>3. QED BY <1>1, <1>2 DEF FirstAt

\* RPOP answers a list, also when there was nothing to pop.
LEMMA RPopFact ==
    ASSUME NEW K, NEW S, NEW D \in Databases(K, S), NEW k \in K
    PROVE  /\ RPop(D, k) \in Databases(K, S)
           /\ RPop(D, k)[k] = SubSeq(D[k], 1, Len(D[k]) - 1)
           /\ SameBut(D, RPop(D, k), K, k)
BY DEF Databases, RPop, SameBut

\* RPOPLPUSH moves the tail of one list before the head of another one.
LEMMA RPopLPushFact ==
    ASSUME NEW K, NEW S, NEW D \in Databases(K, S),
           NEW src \in K, NEW dst \in K, src # dst, D[src] # <<>>,
           NEW E, E = RPopLPush(D, src, dst)
    PROVE  /\ E \in Databases(K, S)
           /\ E[src] = SubSeq(D[src], 1, Len(D[src]) - 1)
           /\ E[dst] = <<D[src][Len(D[src])]>> \o D[dst]
           /\ \A x \in K \ {src, dst} : E[x] = D[x]
<1>1. D[src] \in Seq(S) /\ Len(D[src]) \in 1..Len(D[src])
  BY DEF Databases
<1>2. D[src][Len(D[src])] \in S
  BY <1>1
<1>3. RPop(D, src) \in Databases(K, S) /\ SameBut(D, RPop(D, src), K, src)
  BY RPopFact
<1>4. /\ E \in Databases(K, S)
      /\ E[dst] = <<D[src][Len(D[src])]>> \o RPop(D, src)[dst]
      /\ SameBut(RPop(D, src), E, K, dst)
  BY <1>2, <1>3, LPushFact DEF RPopLPush
<1>5. RPop(D, src)[src] = SubSeq(D[src], 1, Len(D[src]) - 1)
  BY RPopFact
<1>6. QED
  BY <1>3, <1>4, <1>5 DEF SameBut

\* LSET replaces one element.
LEMMA LSetFact ==
    ASSUME NEW K, NEW S, NEW D \in Databases(K, S), NEW k \in K,
           NEW i \in 1..Len(D[k]), NEW e \in S
    PROVE  /\ LSet(D, k, i, e) \in Databases(K, S)
           /\ LSet(D, k, i, e)[k] = [D[k] EXCEPT ![i] = e]
           /\ SameBut(D, LSet(D, k, i, e), K, k)
BY DEF Databases, LSet, SameBut

\* DEL leaves nothing of the list.
LEMMA DelFact ==
    ASSUME NEW K, NEW S, NEW D \in Databases(K, S), NEW k \in K
    PROVE  /\ Del(D, k) \in Databases(K, S)
           /\ Del(D, k)[k] = <<>>
           /\ SameBut(D, Del(D, k), K, k)
BY DEF Databases, Del, SameBut
=============================================================================
