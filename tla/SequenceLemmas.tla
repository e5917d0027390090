----------------------------- MODULE SequenceLemmas -----------------------------
(***************************************************************************)
(* Facts about sequences and minima that the proofs of several components   *)
(* share: what putting an element in front of a list without duplicates     *)
(* and taking one out of it do to its elements.                             *)
(***************************************************************************)
EXTENDS Naturals, Integers, Sequences, SequencesExt, FiniteSetsExt,
        WellFoundedInduction, NaturalsInduction, SequenceTheorems, TLAPS

(* A function with its values in T is a function into T. *)
LEMMA FunctionInto ==
    ASSUME NEW S, NEW T, NEW f, f = [x \in S |-> f[x]], \A x \in S : f[x] \in T
    PROVE  f \in [S -> T]
  OBVIOUS

(* A nonempty set of numbers has a least member, and it is its minimum. *)
LEMMA NatMin ==
    ASSUME NEW S \in SUBSET Nat, S # {}
    PROVE  Min(S) \in S /\ \A y \in S : Min(S) <= y
  <1>1. PICK x \in S : \A y \in S : <<y, x>> \notin OpToRel(<, Nat)
    BY NatLessThanWellFounded, WFMin, Zenon
  <1>2. \A y \in S : ~(y < x)
    BY <1>1, Zenon DEF OpToRel
  <1>3. \A y \in S : x <= y
    BY <1>2
  <1> QED  BY <1>3 DEF Min

(* Putting an element in front. *)
LEMMA Prepend ==
    ASSUME NEW S, NEW s \in Seq(S), NEW n \in S
    PROVE  /\ <<n>> \o s \in Seq(S)
           /\ ToSet(<<n>> \o s) = ToSet(s) \cup {n}
           /\ IsInjective(s) /\ n \notin ToSet(s) => IsInjective(<<n>> \o s)
  <1> DEFINE t == <<n>> \o s
  <1>1. t \in Seq(S) /\ Len(t) = Len(s) + 1 /\ t[1] = n
        /\ \A i \in 1..Len(s) : t[i + 1] = s[i]
    OBVIOUS
  <1>2. DOMAIN t = 1..Len(t) /\ DOMAIN s = 1..Len(s) /\ Len(s) \in Nat
    BY <1>1
  <1> HIDE DEF t
  <1>3. \A i \in 2..Len(t) : i - 1 \in 1..Len(s) /\ t[i] = s[i - 1]
    BY <1>1, <1>2
  <1>4. ToSet(t) = ToSet(s) \cup {n}
    <2>1. ASSUME NEW x \in ToSet(t) PROVE x \in ToSet(s) \cup {n}
      <3>1. PICK i \in 1..Len(t) : x = t[i]
        BY <1>2 DEF ToSet
      <3>2. CASE i = 1
        BY <1>1, <3>1, <3>2
      <3>3. CASE i \in 2..Len(t)
        BY <1>2, <1>3, <3>1, <3>3 DEF ToSet
      <3> QED  BY <1>1, <1>2, <3>2, <3>3
    <2>2. ASSUME NEW x \in ToSet(s) PROVE x \in ToSet(t)
      <3>1. PICK i \in 1..Len(s) : x = s[i]
        BY <1>2 DEF ToSet
      <3>2. i + 1 \in DOMAIN t /\ t[i + 1] = x
        BY <1>1, <1>2, <3>1
      <3> QED  BY <3>2 DEF ToSet
    <2>3. n \in ToSet(t)
      <3>1. 1 \in DOMAIN t
        BY <1>1, <1>2
      <3> QED  BY <1>1, <3>1 DEF ToSet
    <2> QED  BY <2>1, <2>2, <2>3
  <1>5. ASSUME IsInjective(s), n \notin ToSet(s) PROVE IsInjective(t)
    <2> SUFFICES ASSUME NEW i \in DOMAIN t, NEW j \in DOMAIN t, t[i] = t[j] PROVE i = j
      BY DEF IsInjective
    <2>1. \A k \in 1..Len(s) : s[k] # n
      BY <1>2, <1>5 DEF ToSet
    <2>2. CASE i = 1 /\ j # 1
      BY <1>1, <1>2, <1>3, <2>1, <2>2
    <2>3. CASE i # 1 /\ j = 1
      BY <1>1, <1>2, <1>3, <2>1, <2>3
    <2>4. CASE i # 1 /\ j # 1
      <3>1. s[i - 1] = s[j - 1] /\ i - 1 \in DOMAIN s /\ j - 1 \in DOMAIN s
        BY <1>1, <1>2, <1>3, <2>4
      <3>2. i - 1 = j - 1
        BY <1>5, <3>1 DEF IsInjective
      <3> QED  BY <1>2, <3>2
    <2> QED  BY <2>2, <2>3, <2>4
  <1> QED  BY <1>1, <1>4, <1>5 DEF t

(* Taking the element at k out: what is where afterwards. *)
LEMMA RemoveAtFields ==
    ASSUME NEW S, NEW s \in Seq(S), NEW k \in 1..Len(s), NEW t, t = RemoveAt(s, k)
    PROVE  /\ t \in Seq(S) /\ Len(t) = Len(s) - 1
           /\ \A i \in 1..(k - 1) : t[i] = s[i]
           /\ \A i \in k..(Len(s) - 1) : t[i] = s[i + 1]
  <1> DEFINE l == SubSeq(s, 1, k - 1)
             r == SubSeq(s, k + 1, Len(s))
  <1>0. Len(s) \in Nat
    OBVIOUS
  <1>1. l \in Seq(S) /\ Len(l) = k - 1 /\ \A i \in 1..(k - 1) : l[i] = s[i]
    BY <1>0
  <1>2. /\ r \in Seq(S) /\ Len(r) = Len(s) - k
        /\ \A i \in 1..(Len(s) - k) : r[i] = s[k + i]
    <2>1. k + 1 \in 1..(Len(s) + 1) /\ Len(s) \in (k + 1 - 1)..Len(s)
      BY <1>0
    <2>2. /\ r \in Seq(S) /\ Len(r) = Len(s) - (k + 1) + 1
          /\ \A i \in 1..(Len(s) - (k + 1) + 1) : r[i] = s[(k + 1) + i - 1]
      BY <2>1, SubSeqProperties
    <2> HIDE DEF r
    <2>3. Len(r) = Len(s) - k
      BY <1>0, <2>2
    <2>4. ASSUME NEW i \in 1..(Len(s) - k) PROVE r[i] = s[k + i]
      <3>1. i \in 1..(Len(s) - (k + 1) + 1) /\ (k + 1) + i - 1 = k + i
        BY <1>0
      <3>2. r[i] = s[(k + 1) + i - 1]
        BY <2>2, <3>1
      <3> QED  BY <3>1, <3>2
    <2> QED  BY <2>2, <2>3, <2>4
  <1> HIDE DEF l, r
  <1>3. t = l \o r
    BY DEF RemoveAt, l, r
  <1>4. /\ t \in Seq(S) /\ Len(t) = Len(l) + Len(r)
        /\ \A i \in 1..Len(l) : t[i] = l[i]
        /\ \A i \in (Len(l) + 1)..(Len(l) + Len(r)) : t[i] = r[i - Len(l)]
    <2>1. /\ l \o r \in Seq(S) /\ Len(l \o r) = Len(l) + Len(r)
          /\ \A i \in 1..(Len(l) + Len(r)) : (l \o r)[i] =
                IF i <= Len(l) THEN l[i] ELSE r[i - Len(l)]
      BY <1>1, <1>2, ConcatProperties, Zenon
    <2>2. Len(l) \in Nat /\ Len(r) \in Nat
      BY <1>1, <1>2
    <2> QED  BY <1>3, <2>1, <2>2
  <1>5. Len(t) = Len(s) - 1 /\ \A i \in 1..(k - 1) : t[i] = s[i]
    BY <1>0, <1>1, <1>2, <1>4
  <1>6. ASSUME NEW i \in k..(Len(s) - 1) PROVE t[i] = s[i + 1]
    <2>1. i \in (Len(l) + 1)..(Len(l) + Len(r)) /\ i - Len(l) \in 1..(Len(s) - k)
      BY <1>0, <1>1, <1>2
    <2>2. t[i] = r[i - Len(l)] /\ r[i - Len(l)] = s[k + (i - Len(l))]
      BY <1>2, <1>4, <2>1
    <2>3. k + (i - Len(l)) = i + 1
      BY <1>1
    <2> QED  BY <2>2, <2>3
  <1> QED  BY <1>4, <1>5, <1>6

(* Taking the element at k out: no other is lost, none is gained. *)
LEMMA RemoveAtElements ==
    ASSUME NEW S, NEW s \in Seq(S), NEW k \in 1..Len(s), NEW t, t = RemoveAt(s, k)
    PROVE  /\ \A j \in DOMAIN s \ {k} : s[j] \in ToSet(t)
           /\ \A x \in ToSet(t) : \E j \in DOMAIN s \ {k} : x = s[j]
           /\ IsInjective(s) => IsInjective(t) /\ ToSet(t) = ToSet(s) \ {s[k]}
  <1>0. DOMAIN s = 1..Len(s) /\ Len(s) \in Nat
    OBVIOUS
  <1>1. /\ t \in Seq(S) /\ Len(t) = Len(s) - 1
        /\ \A i \in 1..(k - 1) : t[i] = s[i]
        /\ \A i \in k..(Len(s) - 1) : t[i] = s[i + 1]
    BY RemoveAtFields
  <1>2. DOMAIN t = 1..(Len(s) - 1)
    BY <1>1
  <1> DEFINE f(i) == IF i < k THEN i ELSE i + 1
  <1>3. \A i \in DOMAIN t : f(i) \in DOMAIN s \ {k} /\ t[i] = s[f(i)]
    BY <1>0, <1>1, <1>2
  <1>4. \A j \in DOMAIN s \ {k} : \E i \in DOMAIN t : j = f(i)
    <2> SUFFICES ASSUME NEW j \in DOMAIN s \ {k} PROVE \E i \in DOMAIN t : j = f(i)
      OBVIOUS
    <2>1. CASE j < k
      BY <1>0, <1>2, <2>1
    <2>2. CASE j > k
      <3>1. j - 1 \in DOMAIN t /\ j = f(j - 1)
        BY <1>0, <1>2, <2>2
      <3> QED  BY <3>1
    <2> QED  BY <1>0, <2>1, <2>2
  <1>5. \A i, j \in DOMAIN t : f(i) = f(j) => i = j
    BY <1>2
  <1> HIDE DEF f
  <1>6. \A j \in DOMAIN s \ {k} : s[j] \in ToSet(t)
    BY <1>3, <1>4 DEF ToSet
  <1>7. \A x \in ToSet(t) : \E j \in DOMAIN s \ {k} : x = s[j]
    BY <1>3 DEF ToSet
  <1>8. ASSUME IsInjective(s) PROVE IsInjective(t) /\ ToSet(t) = ToSet(s) \ {s[k]}
    <2>1. IsInjective(t)
      <3> SUFFICES ASSUME NEW i \in DOMAIN t, NEW j \in DOMAIN t, t[i] = t[j] PROVE i = j
        BY DEF IsInjective
      <3>1. f(i) \in DOMAIN s /\ f(j) \in DOMAIN s /\ s[f(i)] = s[f(j)]
        BY <1>3
      <3>2. f(i) = f(j)
        BY <1>8, <3>1 DEF IsInjective
      <3> QED  BY <1>5, <3>2
    <2>2. \A j \in DOMAIN s \ {k} : s[j] # s[k]
      BY <1>0, <1>8 DEF IsInjective
    <2>3. ASSUME NEW x \in ToSet(t) PROVE x \in ToSet(s) \ {s[k]}
      BY <1>7, <2>2 DEF ToSet
    <2>4. ASSUME NEW x \in ToSet(s) \ {s[k]} PROVE x \in ToSet(t)
      <3>1. PICK j \in DOMAIN s : x = s[j]
        BY DEF ToSet
      <3> QED  BY <1>6, <3>1
    <2> QED  BY <2>1, <2>3, <2>4
  <1> QED  BY <1>6, <1>7, <1>8

(* RemoveFirst, as the intrusive lists use it. *)
LEMMA RemoveFirstFacts ==
    ASSUME NEW S, NEW s \in Seq(S), NEW e, NEW t, t = RemoveFirst(s, e)
    PROVE  /\ t \in Seq(S)
           /\ IsInjective(s) => IsInjective(t) /\ ToSet(t) = ToSet(s) \ {e}
  <1> DEFINE I == {i \in 1..Len(s) : s[i] = e}
             k == Min(I)
  <1>0. DOMAIN s = 1..Len(s) /\ Len(s) \in Nat
    OBVIOUS
  <1>1. CASE I = {}
    <2>1. t = s
      BY <1>1 DEF RemoveFirst
    <2>2. e \notin ToSet(s)
      BY <1>0, <1>1 DEF ToSet
    <2> QED  BY <2>1, <2>2
  <1>2. CASE I # {}
    <2>1. t = RemoveAt(s, k)
      BY <1>2 DEF RemoveFirst, SelectInSeq
    <2>2. k \in I
      <3>1. I \in SUBSET Nat
        OBVIOUS
      <3> HIDE DEF I
      <3> QED  BY <1>2, <3>1, NatMin
    <2>3. k \in 1..Len(s) /\ s[k] = e
      BY <2>2
    <2> HIDE DEF k
    <2> QED  BY <2>1, <2>3, RemoveAtFields, RemoveAtElements
  <1> QED  BY <1>1, <1>2
=============================================================================
