----------------------------- MODULE QueueProofs -----------------------------
(***************************************************************************)
(* What Without computes, for every queue.  The proof is by induction on    *)
(* the prefix of the queue, in the form of the smallest counterexample: the *)
(* library's induction theorems have an operator as a parameter, which the  *)
(* provers cannot instantiate; WFMin has none.                              *)
(***************************************************************************)
EXTENDS Queue, NaturalsInduction, WellFoundedInduction, FiniteSetTheorems, TLAPS

Less == {ss \in Nat \X Nat : ss[1] < ss[2]}

\* A set of natural numbers that has a member has a smallest one.
LEMMA Smallest ==
    ASSUME NEW S, S \subseteq Nat, S # {}
    PROVE  \E m \in S : \A k \in S : m <= k
<1>1. IsWellFoundedOn(Less, Nat)
  BY NatLessThanWellFounded DEF OpToRel, Less
<1>2. PICK x \in S : \A y \in S : ~(<<y, x>> \in Less)
  BY <1>1, WFMin
<1>3. ASSUME NEW k \in S PROVE x <= k
  <2>1. k \in Nat /\ x \in Nat
    OBVIOUS
  <2>2. k < x => <<k, x>> \in Less
    BY <2>1 DEF Less
  <2>3. QED
    BY <1>2, <2>1, <2>2
<1>4. QED
  BY <1>3

\* g is what Without has computed of the first n members of s.
IsKept(s, S, n, g) ==
    g = [i \in 0..n |-> IF i = 0 THEN <<>>
                        ELSE IF s[i] \in S THEN g[i - 1] ELSE Append(g[i - 1], s[i])]

\* The recursion of Without defines a function.
LEMMA KeptExists ==
    ASSUME NEW T, NEW s \in Seq(T), NEW S
    PROVE  \E g : IsKept(s, S, Len(s), g)
<1> DEFINE Bad == {n \in 0..Len(s) : ~\E g : IsKept(s, S, n, g)}
<1>1. SUFFICES ASSUME Bad # {} PROVE FALSE
  <2>1. Len(s) \in 0..Len(s)
    OBVIOUS
  <2>2. QED
    BY <2>1
<1>2. PICK m \in Bad : \A k \in Bad : m <= k
  <2>1. Bad \subseteq Nat
    OBVIOUS
  <2> HIDE DEF Bad
  <2>2. QED
    BY <1>1, <2>1, Smallest
<1>3. CASE m = 0
  <2>1. IsKept(s, S, 0, [i \in 0..0 |-> <<>>])
    BY DEF IsKept
  <2>2. QED
    BY <2>1, <1>3
<1>4. CASE m # 0
  <2>1. m - 1 \in 0..Len(s) /\ m \in 1..Len(s)
    BY <1>4
  <2>2. PICK g : IsKept(s, S, m - 1, g)
    BY <2>1, <1>2
  <2> DEFINE h == [i \in 0..m |-> IF i # m THEN g[i]
                     ELSE IF s[m] \in S THEN g[m - 1] ELSE Append(g[m - 1], s[m])]
  <2>3. ASSUME NEW i \in 0..m
        PROVE  h[i] = IF i = 0 THEN <<>>
                      ELSE IF s[i] \in S THEN h[i - 1] ELSE Append(h[i - 1], s[i])
    <3>1. CASE i = 0
      BY <3>1, <2>1, <2>2 DEF IsKept
    <3>2. CASE i = m
      BY <3>2, <2>1
    <3>3. CASE i # m /\ i # 0
      <4>1. i \in 0..(m - 1) /\ i - 1 \in 0..(m - 1) /\ i - 1 # m
        BY <3>3, <2>1
      <4>2. g[i] = IF s[i] \in S THEN g[i - 1] ELSE Append(g[i - 1], s[i])
        BY <4>1, <2>2, <3>3 DEF IsKept
      <4>3. h[i] = g[i] /\ h[i - 1] = g[i - 1]
        BY <4>1, <3>3, <2>1
      <4>4. QED
        BY <4>2, <4>3, <3>3
    <3>4. QED
      BY <3>1, <3>2, <3>3
  <2>4. h = [i \in 0..m |-> h[i]]
    OBVIOUS
  <2>5. IsKept(s, S, m, h)
    <3> HIDE DEF h
    <3>1. QED
      BY <2>3, <2>4 DEF IsKept
  <2>6. QED
    BY <2>5
<1>5. QED
  BY <1>3, <1>4

\* What has been kept of the first n members: those of them that are not in S.
KeepsRight(s, T, S, n, r) ==
    /\ r \in Seq(T)
    /\ \A i \in DOMAIN r : r[i] \notin S /\ \E j \in 1..n : r[i] = s[j]
    /\ \A j \in 1..n : s[j] \notin S => \E i \in DOMAIN r : r[i] = s[j]
    /\ Distinct(s) => Distinct(r)

LEMMA KeptIsRight ==
    ASSUME NEW T, NEW s \in Seq(T), NEW S, NEW g, IsKept(s, S, Len(s), g)
    PROVE  \A n \in 0..Len(s) : KeepsRight(s, T, S, n, g[n])
<1> DEFINE Bad == {n \in 0..Len(s) : ~KeepsRight(s, T, S, n, g[n])}
<1>1. SUFFICES ASSUME Bad # {} PROVE FALSE
  OBVIOUS
<1>2. PICK m \in Bad : \A k \in Bad : m <= k
  <2>1. Bad \subseteq Nat
    OBVIOUS
  <2> HIDE DEF Bad
  <2>2. QED
    BY <1>1, <2>1, Smallest
<1>3. g[0] = <<>> /\ \A i \in 1..Len(s) :
           g[i] = IF s[i] \in S THEN g[i - 1] ELSE Append(g[i - 1], s[i])
  <2>1. Len(s) \in Nat
    OBVIOUS
  <2>2. g[0] = <<>>
    <3>1. 0 \in 0..Len(s)
      BY <2>1
    <3>2. QED
      BY <3>1 DEF IsKept
  <2>3. ASSUME NEW i \in 1..Len(s)
        PROVE  g[i] = IF s[i] \in S THEN g[i - 1] ELSE Append(g[i - 1], s[i])
    <3>1. i \in 0..Len(s) /\ i # 0
      BY <2>1
    <3>2. QED
      BY <3>1 DEF IsKept
  <2>4. QED
    BY <2>2, <2>3
<1>4. CASE m = 0
  <2>1. KeepsRight(s, T, S, 0, <<>>)
    BY DEF KeepsRight, Distinct
  <2>2. QED
    BY <2>1, <1>3, <1>4
<1>5. CASE m # 0
  <2>1. m - 1 \in 0..Len(s) /\ m \in 1..Len(s) /\ m \in Nat
    BY <1>5
  <2> DEFINE r == g[m - 1]
  <2>2. KeepsRight(s, T, S, m - 1, r)
    BY <2>1, <1>2
  <2>3. CASE s[m] \in S
    <3>1. g[m] = r
      BY <2>1, <2>3, <1>3
    <3> HIDE DEF r
    <3>2. KeepsRight(s, T, S, m, r)
      BY <2>2, <2>1, <2>3 DEF KeepsRight
    <3>3. QED
      BY <3>1, <3>2
  <2>4. CASE s[m] \notin S
    <3>1. g[m] = Append(r, s[m])
      BY <2>1, <2>4, <1>3
    <3> HIDE DEF r
    <3> DEFINE a == Append(r, s[m])
    <3>2. r \in Seq(T) /\ s[m] \in T
      BY <2>1, <2>2 DEF KeepsRight
    <3>3. /\ a \in Seq(T) /\ DOMAIN a = 1..(Len(r) + 1) /\ DOMAIN r = 1..Len(r)
          /\ Len(r) \in Nat /\ a[Len(r) + 1] = s[m]
          /\ \A i \in 1..Len(r) : a[i] = r[i]
      BY <3>2
    <3> HIDE DEF a
    <3>4. \A i \in DOMAIN a : a[i] \notin S /\ \E j \in 1..m : a[i] = s[j]
      BY <3>3, <2>1, <2>2, <2>4 DEF KeepsRight
    <3>5. \A j \in 1..m : s[j] \notin S => \E i \in DOMAIN a : a[i] = s[j]
      <4>1. SUFFICES ASSUME NEW j \in 1..m, s[j] \notin S
                     PROVE  \E i \in DOMAIN a : a[i] = s[j]
        OBVIOUS
      <4>2. CASE j = m
        BY <4>2, <3>3
      <4>3. CASE j # m
        <5>1. j \in 1..(m - 1)
          BY <4>3, <2>1
        <5>2. PICK i \in DOMAIN r : r[i] = s[j]
          BY <5>1, <4>1, <2>2 DEF KeepsRight
        <5>3. QED
          BY <5>2, <3>3
      <4>4. QED
        BY <4>2, <4>3
    <3>6. Distinct(s) => Distinct(a)
      <4>1. SUFFICES ASSUME Distinct(s), NEW i \in DOMAIN a, NEW j \in DOMAIN a, a[i] = a[j]
                     PROVE  i = j
        BY DEF Distinct
      <4>2. \A k \in 1..Len(r) : r[k] # s[m]
        <5>1. SUFFICES ASSUME NEW k \in 1..Len(r), r[k] = s[m] PROVE FALSE
          OBVIOUS
        <5>2. PICK l \in 1..(m - 1) : r[k] = s[l]
          BY <5>1, <3>3, <2>2 DEF KeepsRight
        <5>3. l \in DOMAIN s /\ m \in DOMAIN s /\ l # m
          BY <2>1
        <5>4. QED
          BY <5>1, <5>2, <5>3, <4>1 DEF Distinct
      <4>3. Distinct(r)
        BY <4>1, <2>2 DEF KeepsRight
      <4>4. QED
        BY <4>1, <4>2, <4>3, <3>3 DEF Distinct
    <3>7. KeepsRight(s, T, S, m, a)
      BY <3>3, <3>4, <3>5, <3>6 DEF KeepsRight
    <3>8. QED
      BY <3>1, <3>7 DEF a
  <2>5. QED
    BY <2>3, <2>4
<1>6. QED
  BY <1>4, <1>5

\* Taking members out of a queue leaves the others and only them, each as
\* often as before: this is all that the queues of the models rely on.
LEMMA WithoutIsRight ==
    ASSUME NEW T, NEW s \in Seq(T), NEW S
    PROVE  /\ Without(s, S) \in Seq(T)
           /\ Members(Without(s, S)) = Members(s) \ S
           /\ Distinct(s) => Distinct(Without(s, S))
<1> DEFINE kept == CHOOSE g : IsKept(s, S, Len(s), g)
<1>1. IsKept(s, S, Len(s), kept)
  BY KeptExists
<1>2. Without(s, S) = kept[Len(s)]
  BY DEF Without, IsKept
<1> HIDE DEF kept
<1>3. KeepsRight(s, T, S, Len(s), kept[Len(s)])
  <2>1. Len(s) \in 0..Len(s)
    OBVIOUS
  <2>2. QED
    BY <1>1, <2>1, KeptIsRight
<1>4. Members(kept[Len(s)]) = Members(s) \ S
  BY <1>3 DEF KeepsRight, Members
<1>5. QED
  BY <1>2, <1>3, <1>4 DEF KeepsRight

-----------------------------------------------------------------------------
(* Counters. *)

One(b) == IF b THEN 1 ELSE 0

\* The size of a finite set that one element is added to or taken from.
LEMMA OneMore ==
    ASSUME NEW S, NEW R, IsFiniteSet(S), NEW c, NEW a \in {0, 1}, NEW b \in {0, 1},
           R \subseteq S \cup {c}, S \subseteq R \cup {c},
           c \in S <=> a = 1, c \in R <=> b = 1
    PROVE  Cardinality(R) + a = Cardinality(S) + b /\ Cardinality(R) \in Nat
<1>1. Cardinality(S) \in Nat
  BY FS_CardinalityType
<1>2. CASE a = b
  <2>1. R = S
    BY <1>2
  <2>2. QED
    BY <1>1, <1>2, <2>1
<1>3. CASE a = 0 /\ b = 1
  <2>1. R = S \cup {c} /\ c \notin S
    BY <1>3
  <2>2. Cardinality(R) = Cardinality(S) + 1
    BY <2>1, FS_AddElement
  <2>3. QED
    BY <1>1, <1>3, <2>2
<1>4. CASE a = 1 /\ b = 0
  <2>1. R = S \ {c} /\ c \in S
    BY <1>4
  <2>2. Cardinality(R) = Cardinality(S) - 1 /\ IsFiniteSet(R)
    BY <2>1, FS_RemoveElement
  <2>3. Cardinality(R) \in Nat
    BY <2>2, FS_CardinalityType
  <2>4. QED
    BY <1>1, <1>4, <2>2, <2>3
<1>5. QED
  BY <1>2, <1>3, <1>4

\* Somebody joins the queue.
LEMMA AppendIsRight ==
    ASSUME NEW T, NEW s \in Seq(T), NEW t \in T
    PROVE  /\ Append(s, t) \in Seq(T) /\ Append(s, t) # <<>>
           /\ Members(Append(s, t)) = Members(s) \cup {t}
           /\ Distinct(s) /\ t \notin Members(s) => Distinct(Append(s, t))
<1> DEFINE a == Append(s, t)
<1>1. /\ a \in Seq(T) /\ Len(a) = Len(s) + 1 /\ Len(s) \in Nat /\ a # <<>>
      /\ \A i \in 1..Len(s) : a[i] = s[i]
      /\ a[Len(s) + 1] = t /\ DOMAIN s = 1..Len(s) /\ DOMAIN a = 1..(Len(s) + 1)
  OBVIOUS
<1> HIDE DEF a
<1>2. Members(a) = Members(s) \cup {t}
  <2>1. \A x \in Members(a) : x \in Members(s) \cup {t}
    BY <1>1 DEF Members
  <2>2. \A x \in Members(s) : x \in Members(a)
    <3>1. 1..Len(s) \subseteq 1..(Len(s) + 1)
      BY <1>1
    <3>2. QED
      BY <1>1, <3>1 DEF Members
  <2>3. t \in Members(a)
    <3>1. Len(s) + 1 \in 1..(Len(s) + 1)
      BY <1>1
    <3>2. QED
      BY <1>1, <3>1 DEF Members
  <2>4. QED
    BY <2>1, <2>2, <2>3
<1>3. ASSUME Distinct(s), t \notin Members(s) PROVE Distinct(a)
  <2> SUFFICES ASSUME NEW i \in DOMAIN a, NEW j \in DOMAIN a, a[i] = a[j] PROVE i = j
    BY DEF Distinct
  <2>1. \A k \in 1..Len(s) : s[k] # t
    BY <1>1, <1>3 DEF Members
  <2>2. CASE i \in 1..Len(s) /\ j \in 1..Len(s)
    BY <1>1, <1>3, <2>2 DEF Distinct
  <2>3. CASE i \in 1..Len(s) /\ j = Len(s) + 1
    BY <1>1, <2>1, <2>3
  <2>4. CASE i = Len(s) + 1 /\ j \in 1..Len(s)
    BY <1>1, <2>1, <2>4
  <2>5. CASE i = Len(s) + 1 /\ j = Len(s) + 1
    BY <2>5
  <2>6. QED
    BY <1>1, <2>2, <2>3, <2>4, <2>5
<1>4. QED
  BY <1>1, <1>2, <1>3 DEF a
=============================================================================
