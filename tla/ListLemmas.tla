----------------------------- MODULE ListLemmas -----------------------------
(***************************************************************************)
(* Lemmas about lists that the proofs of several components use. The       *)
(* library's induction theorems take the induction hypothesis as an        *)
(* operator; here a set of natural numbers stands in its place, that of    *)
(* the lengths for which a claim fails, and its least member refutes it.   *)
(***************************************************************************)
EXTENDS Integers, Sequences, SequencesExt, WellFoundedInduction, TLAPS

\* A set of natural numbers that is not empty has a least member.
LEMMA LeastMember ==
    ASSUME NEW T \in SUBSET Nat, T # {}
    PROVE  \E m \in T : \A k \in T : m <= k
<1>1. \E m \in T : \A k \in T : <<k, m>> \notin OpToRel(<, Nat)
  BY NatLessThanWellFounded, WFMin, Zenon
<1>2. PICK m \in T : \A k \in T : <<k, m>> \notin OpToRel(<, Nat)
  BY <1>1, Zenon
<1>3. ASSUME NEW k \in T PROVE m <= k
  <2>1. <<k, m>> \notin OpToRel(<, Nat)
    BY <1>2, Zenon
  <2>2. ~(k < m)
    BY <2>1 DEF OpToRel
  <2> HIDE <1>2
  <2>3. k \in Nat /\ m \in Nat
    OBVIOUS
  <2>4. QED
    BY <2>2, <2>3
<1>4. QED
  BY <1>3, Zenon

\* What FlattenSeq defines by recursion, with g for its own values.
Flats(seqs, g, k) ==
    [i \in 1..k |-> IF i = 1 THEN seqs[i] ELSE g[i - 1] \o seqs[i]]

\* There is a function that satisfies the recursion, up to any length.
LEMMA FlatsExist ==
  ASSUME NEW seqs, NEW n \in Nat
  PROVE  \A k \in 1..n : \E g : g = Flats(seqs, g, k)
<1> DEFINE P(k) == \E g : g = Flats(seqs, g, k)
           T    == {k \in 1..n : ~P(k)}
<1> HIDE DEF P
<1>1. SUFFICES ASSUME T # {} PROVE FALSE
  BY DEF P
<1>2. T \in SUBSET Nat
  OBVIOUS
<1>3. PICK m \in T : \A j \in T : m <= j
  <2> HIDE DEF T
  <2> QED BY <1>1, <1>2, LeastMember
<1>4. m \in 1..n /\ ~P(m)
  OBVIOUS
<1>5. CASE m = 1
  <2> DEFINE h == [i \in 1..1 |-> seqs[i]]
  <2>1. P(1)
    <3>1. \A i \in 1..1 : i = 1
      OBVIOUS
    <3>2. h = Flats(seqs, h, 1)
      BY <3>1 DEF Flats
    <3>3. QED
      BY <3>2 DEF P
  <2>2. QED
    BY <2>1, <1>5, <1>4
<1>6. CASE m # 1
  <2>1. m - 1 \in 1..n /\ ~(m <= m - 1)
    BY <1>4, <1>6
  <2>2. P(m - 1)
    BY <2>1, <1>3
  <2>3. PICK g : g = Flats(seqs, g, m - 1)
    BY <2>2 DEF P
  <2> DEFINE h == Flats(seqs, g, m)
  <2>4. \A i \in 1..(m-1) : h[i] = g[i]
    <3>1. ASSUME NEW i \in 1..(m-1) PROVE h[i] = g[i]
      <4>1. i \in 1..m
        BY <1>4
      <4>2. h[i] = IF i = 1 THEN seqs[i] ELSE g[i-1] \o seqs[i]
        BY <4>1 DEF Flats
      <4>3. Flats(seqs, g, m - 1)[i] = IF i = 1 THEN seqs[i] ELSE g[i-1] \o seqs[i]
        BY <3>1 DEF Flats
      <4>4. QED
        BY <4>2, <4>3, <2>3
    <3>2. QED
      BY <3>1
  <2>5. \A i \in 1..m : i # 1 => i - 1 \in 1..(m-1)
    BY <1>4
  <2>6. h = Flats(seqs, h, m)
    <3> HIDE DEF h
    <3>1. \A i \in 1..m : (IF i = 1 THEN seqs[i] ELSE g[i-1] \o seqs[i]) = (IF i = 1 THEN seqs[i] ELSE h[i-1] \o seqs[i])
      BY <2>4, <2>5
    <3>2. Flats(seqs, g, m) = Flats(seqs, h, m)
      BY <3>1 DEF Flats
    <3>3. QED BY <3>2 DEF h
  <2>7. P(m)
    BY <2>6 DEF P
  <2>8. QED
    BY <2>7, <1>4
<1>7. QED
  BY <1>5, <1>6

\* The recursion, for a list of lists of members of a set: each of its values is
\* a list of members.
LEMMA Flattening ==
  ASSUME NEW S, NEW seqs \in Seq(Seq(S)), Len(seqs) # 0
  PROVE  \E g : /\ g = Flats(seqs, g, Len(seqs))
                /\ FlattenSeq(seqs) = g[Len(seqs)]
                /\ \A k \in 1..Len(seqs) : g[k] \in Seq(S)
<1> DEFINE n == Len(seqs)
           flatten == CHOOSE g : g = Flats(seqs, g, n)
<1>1. n \in Nat /\ n \in 1..n /\ \A i \in 1..n : seqs[i] \in Seq(S)
  OBVIOUS
<1>2. flatten = Flats(seqs, flatten, n)
  <2>1. \E g : g = Flats(seqs, g, n)
    BY <1>1, FlatsExist
  <2> HIDE DEF n
  <2>2. QED
    BY <2>1, Zenon
<1>3. FlattenSeq(seqs) = flatten[n]
  BY DEF FlattenSeq, Flats
<1> HIDE DEF flatten
<1> DEFINE T == {i \in 1..n : flatten[i] \notin Seq(S)}
<1> HIDE DEF n
<1>4. ASSUME T # {} PROVE FALSE
  <2>1. T \in SUBSET Nat
    OBVIOUS
  <2>2. PICK m \in T : \A j \in T : m <= j
    <3> HIDE DEF T
    <3> QED BY <1>4, <2>1, LeastMember
  <2>3. m \in 1..n /\ flatten[m] \notin Seq(S)
    OBVIOUS
  <2>4. flatten[m] = IF m = 1 THEN seqs[m] ELSE flatten[m - 1] \o seqs[m]
    BY <1>2, <2>3 DEF Flats
  <2>5. m # 1
    BY <1>1, <2>3, <2>4
  <2>6. m - 1 \in 1..n /\ ~(m <= m - 1)
    BY <1>1, <2>3, <2>5
  <2>7. flatten[m - 1] \in Seq(S)
    BY <2>2, <2>6
  <2>8. QED
    BY <1>1, <2>3, <2>4, <2>5, <2>7
<1>5. QED
  BY <1>2, <1>3, <1>4 DEF n

\* A list of lists of members of a set is flattened to such a list.
LEMMA FlattenType ==
  ASSUME NEW S, NEW seqs \in Seq(Seq(S))
  PROVE FlattenSeq(seqs) \in Seq(S)
<1>1. CASE Len(seqs) = 0
  BY <1>1 DEF FlattenSeq
<1>2. CASE Len(seqs) # 0
  <2>1. Len(seqs) \in 1..Len(seqs)
    BY <1>2
  <2>2. QED
    BY <1>2, <2>1, Flattening
<1>3. QED
  BY <1>1, <1>2

\* What is in one of the lists is in the flattened list.
LEMMA FlattenKeeps ==
  ASSUME NEW S, NEW seqs \in Seq(Seq(S)),
         NEW i \in 1..Len(seqs), NEW x, \E j \in DOMAIN seqs[i] : seqs[i][j] = x
  PROVE  \E k \in DOMAIN FlattenSeq(seqs) : FlattenSeq(seqs)[k] = x
<1> DEFINE n == Len(seqs)
           Has(s) == \E j \in DOMAIN s : s[j] = x
<1>1. n \in Nat /\ \A k \in 1..n : seqs[k] \in Seq(S)
  OBVIOUS
<1>2. PICK g : /\ g = Flats(seqs, g, n)
               /\ FlattenSeq(seqs) = g[n]
               /\ \A k \in 1..n : g[k] \in Seq(S)
  <2>1. Len(seqs) # 0
    OBVIOUS
  <2>2. QED
    BY <2>1, Flattening
<1> HIDE DEF n
<1>3. \A s, t \in Seq(S) : Has(s) \/ Has(t) => Has(s \o t)
  <2> SUFFICES ASSUME NEW s \in Seq(S), NEW t \in Seq(S), Has(s) \/ Has(t)
               PROVE  Has(s \o t)
    OBVIOUS
  <2>1. CASE Has(s)
    <3>1. PICK j \in 1..Len(s) : s[j] = x
      BY <2>1
    <3>2. j \in DOMAIN (s \o t) /\ (s \o t)[j] = x
      BY <3>1
    <3>3. QED
      BY <3>2
  <2>2. CASE Has(t)
    <3>1. PICK j \in 1..Len(t) : t[j] = x
      BY <2>2
    <3>2. Len(s) + j \in DOMAIN (s \o t) /\ (s \o t)[Len(s) + j] = x
      BY <3>1
    <3>3. QED
      BY <3>2
  <2>3. QED
    BY <2>1, <2>2
<1> HIDE DEF Has
<1> DEFINE T == {k \in i..n : ~Has(g[k])}
<1>4. ASSUME T # {} PROVE FALSE
  <2>1. PICK m \in T : \A k \in T : m <= k
    <3>1. T \in SUBSET Nat
      BY <1>1 DEF n
    <3> HIDE DEF T
    <3>2. QED
      BY <1>4, <3>1, LeastMember
  <2>2. m \in 1..n /\ m \in i..n /\ i \in 1..n /\ ~Has(g[m])
    BY DEF n
  <2>3. g[m] = IF m = 1 THEN seqs[m] ELSE g[m - 1] \o seqs[m]
    BY <1>2, <2>2 DEF Flats
  <2>4. m # 1 => m - 1 \in 1..n
    BY <1>1, <2>2
  <2>5. CASE m = i
    <3>1. Has(seqs[m])
      BY <2>5 DEF Has
    <3>2. QED
      BY <1>1, <1>2, <1>3, <2>2, <2>3, <2>4, <3>1
  <2>6. CASE m # i
    <3>1. m - 1 \in i..n /\ ~(m <= m - 1) /\ m # 1
      BY <1>1, <2>2, <2>6
    <3>2. Has(g[m - 1])
      BY <2>1, <3>1
    <3>3. QED
      BY <1>1, <1>2, <1>3, <2>2, <2>3, <2>4, <3>1, <3>2
  <2>7. QED
    BY <2>5, <2>6
<1>5. QED
  <2>1. n \in i..n
    BY <1>1 DEF n
  <2>2. Has(g[n])
    BY <1>4, <2>1
  <2>3. QED
    BY <1>2, <2>2 DEF Has
=============================================================================
