--------------------------- MODULE LockTableProofs ---------------------------
(* Lemmas about the lock table of LockManager: the levels, the counters of a *)
(* lock block, and what the operations do to them, for any number of locks    *)
(* and request blocks.                                                        *)
EXTENDS LockManager, FiniteSetTheorems, TLAPS

-----------------------------------------------------------------------------
(* Levels. *)

\* What the table compatibility says, as a formula.
Agreeing(a, b) ==
    \/ a <= 1 \/ b <= 1
    \/ a = 2 /\ b <= 5
    \/ b = 2 /\ a <= 5
    \/ a = 3 /\ b = 3
    \/ a = 4 /\ b = 4

\* The table compatibility of lock.cpp, entry by entry.
LEMMA CompatibleTable ==
    ASSUME NEW a \in AnyLevel, NEW b \in AnyLevel
    PROVE  Compatible(a, b) <=> Agreeing(a, b)
  <1>0. a \in {0, 1, 2, 3, 4, 5, 6} /\ b \in {0, 1, 2, 3, 4, 5, 6}
    BY DEF AnyLevel
  <1>1. CASE a = 0
    <2>1. /\ compatibility[1][1] /\ compatibility[1][2] /\ compatibility[1][3] /\ compatibility[1][4]
          /\ compatibility[1][5] /\ compatibility[1][6] /\ compatibility[1][7]
      BY DEF compatibility
    <2>2. Compatible(a, b) <=> compatibility[1][b + 1]
      BY <1>1 DEF Compatible
    <2>3. QED
      BY <1>0, <1>1, <2>1, <2>2 DEF Agreeing
  <1>2. CASE a = 1
    <2>1. /\ compatibility[2][1] /\ compatibility[2][2] /\ compatibility[2][3] /\ compatibility[2][4]
          /\ compatibility[2][5] /\ compatibility[2][6] /\ compatibility[2][7]
      BY DEF compatibility
    <2>2. Compatible(a, b) <=> compatibility[2][b + 1]
      BY <1>2 DEF Compatible
    <2>3. QED
      BY <1>0, <1>2, <2>1, <2>2 DEF Agreeing
  <1>3. CASE a = 2
    <2>1. /\ compatibility[3][1] /\ compatibility[3][2] /\ compatibility[3][3] /\ compatibility[3][4]
          /\ compatibility[3][5] /\ compatibility[3][6] /\ ~compatibility[3][7]
      BY DEF compatibility
    <2>2. Compatible(a, b) <=> compatibility[3][b + 1]
      BY <1>3 DEF Compatible
    <2>3. QED
      BY <1>0, <1>3, <2>1, <2>2 DEF Agreeing
  <1>4. CASE a = 3
    <2>1. /\ compatibility[4][1] /\ compatibility[4][2] /\ compatibility[4][3] /\ compatibility[4][4]
          /\ ~compatibility[4][5] /\ ~compatibility[4][6] /\ ~compatibility[4][7]
      BY DEF compatibility
    <2>2. Compatible(a, b) <=> compatibility[4][b + 1]
      BY <1>4 DEF Compatible
    <2>3. QED
      BY <1>0, <1>4, <2>1, <2>2 DEF Agreeing
  <1>5. CASE a = 4
    <2>1. /\ compatibility[5][1] /\ compatibility[5][2] /\ compatibility[5][3] /\ ~compatibility[5][4]
          /\ compatibility[5][5] /\ ~compatibility[5][6] /\ ~compatibility[5][7]
      BY DEF compatibility
    <2>2. Compatible(a, b) <=> compatibility[5][b + 1]
      BY <1>5 DEF Compatible
    <2>3. QED
      BY <1>0, <1>5, <2>1, <2>2 DEF Agreeing
  <1>6. CASE a = 5
    <2>1. /\ compatibility[6][1] /\ compatibility[6][2] /\ compatibility[6][3] /\ ~compatibility[6][4]
          /\ ~compatibility[6][5] /\ ~compatibility[6][6] /\ ~compatibility[6][7]
      BY DEF compatibility
    <2>2. Compatible(a, b) <=> compatibility[6][b + 1]
      BY <1>6 DEF Compatible
    <2>3. QED
      BY <1>0, <1>6, <2>1, <2>2 DEF Agreeing
  <1>7. CASE a = 6
    <2>1. /\ compatibility[7][1] /\ compatibility[7][2] /\ ~compatibility[7][3] /\ ~compatibility[7][4]
          /\ ~compatibility[7][5] /\ ~compatibility[7][6] /\ ~compatibility[7][7]
      BY DEF compatibility
    <2>2. Compatible(a, b) <=> compatibility[7][b + 1]
      BY <1>7 DEF Compatible
    <2>3. QED
      BY <1>0, <1>7, <2>1, <2>2 DEF Agreeing
  <1>8. QED
    BY <1>0, <1>1, <1>2, <1>3, <1>4, <1>5, <1>6, <1>7

\* Why it is enough to compare with the highest granted level: a level that
\* is compatible with the highest one of two compatible levels is compatible
\* with the other one, although PR and SW are not ordered by strength.
LEMMA HighestDecides ==
    ASSUME NEW l \in AnyLevel, NEW s \in AnyLevel, NEW a \in AnyLevel,
           a <= s, a = s \/ Compatible(a, s), Compatible(l, s)
    PROVE  Compatible(l, a) /\ Compatible(a, l)
  <1>1. a = s \/ Agreeing(a, s)
    BY CompatibleTable
  <1>2. Agreeing(l, s)
    BY CompatibleTable
  <1>3. Agreeing(l, a) /\ Agreeing(a, l)
    BY <1>1, <1>2 DEF Agreeing, AnyLevel
  <1>4. QED
    BY <1>3, CompatibleTable

\* LCK_none is compatible with every level.
LEMMA NoneIsCompatible ==
    ASSUME NEW a \in AnyLevel
    PROVE  Compatible(0, a) /\ Compatible(a, 0)
  <1>1. 0 \in AnyLevel
    BY DEF AnyLevel
  <1>2. QED
    BY <1>1, CompatibleTable DEF Agreeing

\* Counts per level, as lbl_counts.
Counts == [1..6 -> Nat]

IsState(counts, s) ==
    /\ s # LCK_none => counts[s] > 0
    /\ \A l \in 1..6 : l > s => counts[l] = 0

\* lock_state finds the highest level that has holders.
LEMMA StateOfCounts ==
    ASSUME NEW counts \in Counts
    PROVE  lock_state(counts) \in AnyLevel /\ IsState(counts, lock_state(counts))
  <1>0. \A l \in 1..6 : counts[l] \in Nat
    BY DEF Counts
  <1>1. \E s \in AnyLevel : IsState(counts, s)
    <2>1. CASE counts[6] > 0
      BY <1>0, <2>1 DEF IsState, AnyLevel, LCK_none
    <2>2. CASE counts[6] = 0 /\ counts[5] > 0
      BY <1>0, <2>2 DEF IsState, AnyLevel, LCK_none
    <2>3. CASE counts[6] = 0 /\ counts[5] = 0 /\ counts[4] > 0
      BY <1>0, <2>3 DEF IsState, AnyLevel, LCK_none
    <2>4. CASE counts[6] = 0 /\ counts[5] = 0 /\ counts[4] = 0 /\ counts[3] > 0
      BY <1>0, <2>4 DEF IsState, AnyLevel, LCK_none
    <2>5. CASE counts[6] = 0 /\ counts[5] = 0 /\ counts[4] = 0 /\ counts[3] = 0 /\ counts[2] > 0
      BY <1>0, <2>5 DEF IsState, AnyLevel, LCK_none
    <2>6. CASE /\ counts[6] = 0 /\ counts[5] = 0 /\ counts[4] = 0 /\ counts[3] = 0
               /\ counts[2] = 0 /\ counts[1] > 0
      BY <1>0, <2>6 DEF IsState, AnyLevel, LCK_none
    <2>7. CASE \A l \in 1..6 : counts[l] = 0
      BY <2>7 DEF IsState, AnyLevel, LCK_none
    <2>8. QED
      BY <1>0, <2>1, <2>2, <2>3, <2>4, <2>5, <2>6, <2>7
  <1>2. lock_state(counts) = CHOOSE s \in AnyLevel : IsState(counts, s)
    BY DEF lock_state, IsState
  <1>3. QED
    BY <1>1, <1>2

\* The state depends only on which levels have holders.
LEMMA StateIsUnique ==
    ASSUME NEW c \in Counts, NEW s \in AnyLevel, IsState(c, s)
    PROVE  s = lock_state(c)
  <1>1. lock_state(c) \in AnyLevel /\ IsState(c, lock_state(c))
    BY StateOfCounts
  <1>2. ASSUME NEW x \in AnyLevel, NEW y \in AnyLevel, IsState(c, x), IsState(c, y), x < y
        PROVE  FALSE
    BY <1>2 DEF IsState, AnyLevel, LCK_none, Counts
  <1>3. QED
    BY <1>1, <1>2 DEF AnyLevel

-----------------------------------------------------------------------------
(* Requests of a lock by level: rq is a table of requests.  The lemmas speak *)
(* of any two tables that differ in the lock and the level of one request.   *)

Held(rq, k, l) == {r \in Request : rq[r].lock = k /\ rq[r].state = l}

CountsOf(rq, k) == [l \in 1..6 |-> Cardinality(Held(rq, k, l))]

OtherCounts(rq, k, r) == [l \in 1..6 |-> Cardinality(Held(rq, k, l) \ {r})]

SameLevel(rq, rq2, q) == rq2[q].lock = rq[q].lock /\ rq2[q].state = rq[q].state

OthersSame(rq, rq2, r) == \A q \in Request \ {r} : SameLevel(rq, rq2, q)

\* The requests of a lock at a level are finitely many.
LEMMA HeldFinite ==
    ASSUME NEW rq, NEW k, NEW l, NEW r
    PROVE  /\ IsFiniteSet(Held(rq, k, l)) /\ Cardinality(Held(rq, k, l)) \in Nat
           /\ IsFiniteSet(Held(rq, k, l) \ {r}) /\ Cardinality(Held(rq, k, l) \ {r}) \in Nat
  <1>1. IsFiniteSet(Request)
    BY Constants
  <1>2. Held(rq, k, l) \in SUBSET Request /\ Held(rq, k, l) \ {r} \in SUBSET Request
    BY DEF Held
  <1>3. IsFiniteSet(Held(rq, k, l)) /\ IsFiniteSet(Held(rq, k, l) \ {r})
    BY <1>1, <1>2, FS_Subset
  <1>4. QED
    BY <1>3, FS_CardinalityType

\* The counts of a lock, with and without a request, are counts.
LEMMA CountsTyped ==
    ASSUME NEW rq, NEW k, NEW r
    PROVE  CountsOf(rq, k) \in Counts /\ OtherCounts(rq, k, r) \in Counts
  BY HeldFinite DEF CountsOf, OtherCounts, Counts

\* Taking a request off the counts of its lock.
LEMMA CountsWithout ==
    ASSUME NEW rq, NEW k, NEW r \in Request, rq[r].lock = k, rq[r].state \in AnyLevel
    PROVE  Without(CountsOf(rq, k), rq[r].state) = OtherCounts(rq, k, r)
  <1> DEFINE s == rq[r].state
  <1>1. \A l \in 1..6 : Cardinality(Held(rq, k, l) \ {r}) =
                          IF l = s THEN Cardinality(Held(rq, k, l)) - 1
                                   ELSE Cardinality(Held(rq, k, l))
    <2>1. \A l \in 1..6 : r \in Held(rq, k, l) <=> l = s
      BY DEF Held
    <2>2. TAKE l \in 1..6
    <2>3. Cardinality(Held(rq, k, l) \ {r}) =
            IF r \in Held(rq, k, l) THEN Cardinality(Held(rq, k, l)) - 1
                                    ELSE Cardinality(Held(rq, k, l))
      BY HeldFinite, FS_RemoveElement
    <2>4. Cardinality(Held(rq, k, l)) \in Nat
      BY HeldFinite
    <2>5. QED
      BY <2>1, <2>3, <2>4
  <1>2. CASE s = 0
    <2>1. \A l \in 1..6 : Cardinality(Held(rq, k, l) \ {r}) = Cardinality(Held(rq, k, l))
      BY <1>1, <1>2
    <2>2. QED
      BY <1>2, <2>1 DEF Without, CountsOf, OtherCounts, LCK_none
  <1>3. CASE s \in 1..6
    <2>1. Without(CountsOf(rq, k), s) = [CountsOf(rq, k) EXCEPT ![s] = @ - 1]
      BY <1>3 DEF Without, LCK_none
    <2>2. QED
      BY <1>1, <1>3, <2>1 DEF CountsOf, OtherCounts
  <1>4. QED
    BY <1>2, <1>3 DEF AnyLevel

\* Putting it on the counts again, at any level.
LEMMA CountsWith ==
    ASSUME NEW rq, NEW k, NEW r \in Request, rq[r].lock = k, rq[r].state \in AnyLevel
    PROVE  With(OtherCounts(rq, k, r), rq[r].state) = CountsOf(rq, k)
  <1> DEFINE s == rq[r].state
  <1>1. \A l \in 1..6 : Cardinality(Held(rq, k, l)) =
                          IF l = s THEN Cardinality(Held(rq, k, l) \ {r}) + 1
                                   ELSE Cardinality(Held(rq, k, l) \ {r})
    <2>1. \A l \in 1..6 : r \in Held(rq, k, l) <=> l = s
      BY DEF Held
    <2>2. TAKE l \in 1..6
    <2>3. Cardinality(Held(rq, k, l) \ {r}) =
            IF r \in Held(rq, k, l) THEN Cardinality(Held(rq, k, l)) - 1
                                    ELSE Cardinality(Held(rq, k, l))
      BY HeldFinite, FS_RemoveElement
    <2>4. Cardinality(Held(rq, k, l)) \in Nat
      BY HeldFinite
    <2>5. QED
      BY <2>1, <2>3, <2>4
  <1>2. CASE s = 0
    <2>1. \A l \in 1..6 : Cardinality(Held(rq, k, l) \ {r}) = Cardinality(Held(rq, k, l))
      BY <1>1, <1>2
    <2>2. QED
      BY <1>2, <2>1 DEF With, CountsOf, OtherCounts, LCK_none
  <1>3. CASE s \in 1..6
    <2>1. With(OtherCounts(rq, k, r), s) = [OtherCounts(rq, k, r) EXCEPT ![s] = @ + 1]
      BY <1>3 DEF With, LCK_none
    <2>2. QED
      BY <1>1, <1>3, <2>1 DEF CountsOf, OtherCounts
  <1>4. QED
    BY <1>2, <1>3 DEF AnyLevel

\* A request does not count for the locks it is not on.
LEMMA CountsElsewhere ==
    ASSUME NEW rq, NEW k, NEW r, rq[r].lock # k
    PROVE  CountsOf(rq, k) = OtherCounts(rq, k, r)
  <1>1. \A l \in 1..6 : Held(rq, k, l) \ {r} = Held(rq, k, l)
    BY DEF Held
  <1>2. QED
    BY <1>1 DEF CountsOf, OtherCounts

\* A change of one request leaves the counts of the others alone.
LEMMA OtherCountsSame ==
    ASSUME NEW rq, NEW rq2, NEW k, NEW r, OthersSame(rq, rq2, r)
    PROVE  OtherCounts(rq2, k, r) = OtherCounts(rq, k, r)
  <1>1. \A l \in 1..6 : Held(rq2, k, l) \ {r} = Held(rq, k, l) \ {r}
    BY DEF Held, OthersSame, SameLevel
  <1>2. QED
    BY <1>1 DEF OtherCounts

\* Counts depend on the locks and levels of the requests only.
LEMMA CountsSame ==
    ASSUME NEW rq, NEW rq2, NEW k, \A q \in Request : SameLevel(rq, rq2, q)
    PROVE  CountsOf(rq2, k) = CountsOf(rq, k)
  <1>1. \A l \in 1..6 : Held(rq2, k, l) = Held(rq, k, l)
    BY DEF Held, SameLevel
  <1>2. QED
    BY <1>1 DEF CountsOf

-----------------------------------------------------------------------------
(* Compatibility of the granted requests. *)

AllCompatible(rq) ==
    \A r, q \in Request :
        (r # q /\ rq[r].lock # Nobody /\ rq[r].lock = rq[q].lock)
            => Compatible(rq[r].state, rq[q].state)

LevelsTyped(rq) ==
    \A r \in Request : rq[r].state \in AnyLevel /\ rq[r].lock \in Key \cup {Nobody}

\* A level that is compatible with the state of the lock without request r is
\* compatible with every other request of the lock.
LEMMA GrantFits ==
    ASSUME NEW rq, LevelsTyped(rq), AllCompatible(rq), NEW k \in Key, NEW r,
           NEW l \in AnyLevel, Compatible(l, lock_state(OtherCounts(rq, k, r))),
           NEW q \in Request, q # r, rq[q].lock = k
    PROVE  Compatible(l, rq[q].state) /\ Compatible(rq[q].state, l)
  <1> DEFINE a == rq[q].state
             s == lock_state(OtherCounts(rq, k, r))
             O(j) == Held(rq, k, j) \ {r}
  <1>1. a \in AnyLevel /\ s \in AnyLevel /\ IsState(OtherCounts(rq, k, r), s)
    BY StateOfCounts, CountsTyped DEF LevelsTyped
  <1>2. CASE a = 0
    BY <1>2, NoneIsCompatible
  <1>3. CASE a # 0
    <2>1. a \in 1..6
      BY <1>1, <1>3 DEF AnyLevel
    <2>2. q \in O(a)
      BY DEF Held
    <2>3. Cardinality(O(a)) > 0
      BY <2>2, HeldFinite, FS_EmptySet
    <2>4. OtherCounts(rq, k, r)[a] > 0
      BY <2>1, <2>3 DEF OtherCounts
    <2>5. a <= s
      BY <1>1, <2>1, <2>4 DEF IsState, AnyLevel
    <2>6. s \in 1..6 /\ OtherCounts(rq, k, r)[s] > 0
      BY <1>1, <2>1, <2>5 DEF IsState, AnyLevel, LCK_none
    <2>7. Cardinality(O(s)) > 0
      BY <2>6 DEF OtherCounts
    <2>8. PICK x \in O(s) : TRUE
      BY <2>7, HeldFinite, FS_EmptySet
    <2>9. x \in Request /\ rq[x].lock = k /\ rq[x].state = s
      BY <2>8 DEF Held
    <2>10. a = s \/ Compatible(a, s)
      BY <2>9, Constants DEF AllCompatible
    <2>11. QED
      BY <1>1, <2>5, <2>10, HighestDecides
  <1>4. QED
    BY <1>2, <1>3

\* So a grant at such a level keeps all granted requests compatible.
LEMMA GrantCompatible ==
    ASSUME NEW rq, NEW rq2, LevelsTyped(rq), AllCompatible(rq), NEW k \in Key,
           NEW r \in Request, OthersSame(rq, rq2, r), rq2[r].lock = k,
           rq2[r].state \in AnyLevel,
           Compatible(rq2[r].state, lock_state(OtherCounts(rq, k, r)))
    PROVE  AllCompatible(rq2)
  <1>1. SUFFICES ASSUME NEW x \in Request, NEW y \in Request, x # y,
                        rq2[x].lock # Nobody, rq2[x].lock = rq2[y].lock
                 PROVE  Compatible(rq2[x].state, rq2[y].state)
    BY DEF AllCompatible
  <1>2. \A q \in Request : (q # r /\ rq[q].lock = k) =>
              Compatible(rq2[r].state, rq[q].state) /\ Compatible(rq[q].state, rq2[r].state)
    BY GrantFits
  <1>3. CASE x = r
    BY <1>1, <1>2, <1>3 DEF OthersSame, SameLevel
  <1>4. CASE y = r
    BY <1>1, <1>2, <1>4 DEF OthersSame, SameLevel
  <1>5. CASE x # r /\ y # r
    BY <1>1, <1>5 DEF OthersSame, SameLevel, AllCompatible
  <1>6. QED
    BY <1>3, <1>4, <1>5

\* Taking a request off its lock keeps the others compatible.
LEMMA ReleaseCompatible ==
    ASSUME NEW rq, NEW rq2, AllCompatible(rq), NEW r, OthersSame(rq, rq2, r),
           rq2[r].lock = Nobody
    PROVE  AllCompatible(rq2)
  BY DEF AllCompatible, OthersSame, SameLevel

\* Compatibility depends on the locks and levels of the requests only.
LEMMA SameCompatible ==
    ASSUME NEW rq, NEW rq2, AllCompatible(rq), \A q \in Request : SameLevel(rq, rq2, q)
    PROVE  AllCompatible(rq2)
  BY DEF AllCompatible, SameLevel

-----------------------------------------------------------------------------
(* Requests that wait for a lock, and the lock table as a whole. *)

Waits(b) == "pending" \in b.flags

PendingOf(rq, k) == {r \in Request : rq[r].lock = k /\ Waits(rq[r])}

\* The requests that wait for a lock are finitely many.
LEMMA PendingFinite ==
    ASSUME NEW rq, NEW k
    PROVE  IsFiniteSet(PendingOf(rq, k)) /\ Cardinality(PendingOf(rq, k)) \in Nat
  <1>1. IsFiniteSet(Request) /\ PendingOf(rq, k) \in SUBSET Request
    BY Constants DEF PendingOf
  <1>2. QED
    BY <1>1, FS_Subset, FS_CardinalityType

\* Two tables that agree but for request r count the same others.
LEMMA OnePending ==
    ASSUME NEW rq, NEW rq2, NEW k, NEW r \in Request,
           \A q \in Request \ {r} : rq2[q].lock = rq[q].lock /\ (Waits(rq2[q]) <=> Waits(rq[q]))
    PROVE  Cardinality(PendingOf(rq2, k)) =
             Cardinality(PendingOf(rq, k))
               + (IF rq2[r].lock = k /\ Waits(rq2[r]) THEN 1 ELSE 0)
               - (IF rq[r].lock = k /\ Waits(rq[r]) THEN 1 ELSE 0)
  <1> DEFINE P == PendingOf(rq, k)
             P2 == PendingOf(rq2, k)
  <1>1. P \ {r} = P2 \ {r}
    BY DEF PendingOf
  <1>2. Cardinality(P \ {r}) = IF r \in P THEN Cardinality(P) - 1 ELSE Cardinality(P)
    BY PendingFinite, FS_RemoveElement
  <1>3. Cardinality(P2 \ {r}) = IF r \in P2 THEN Cardinality(P2) - 1 ELSE Cardinality(P2)
    BY PendingFinite, FS_RemoveElement
  <1>4. /\ r \in P <=> rq[r].lock = k /\ Waits(rq[r])
        /\ r \in P2 <=> rq2[r].lock = k /\ Waits(rq2[r])
    BY DEF PendingOf
  <1>5. Cardinality(P) \in Nat /\ Cardinality(P2) \in Nat
    BY PendingFinite
  <1>6. QED
    BY <1>1, <1>2, <1>3, <1>4, <1>5

LblBlock == [counts : [1..6 -> Nat], state : AnyLevel, pending : Nat]

\* The counters of lock block b are exact for lock k in table rq.
Exact(rq, b, k) ==
    /\ b.counts = CountsOf(rq, k)
    /\ b.state = lock_state(b.counts)
    /\ b.pending = Cardinality(PendingOf(rq, k))

\* A request that is on no lock is not granted and does not wait; a free one
\* is on no lock.
OffQueue(b) ==
    /\ b.lock = Nobody => b.state = 0 /\ ~Waits(b)
    /\ b.owner = Nobody => b.lock = Nobody

\* The lock table: the tables lrq and lbl of the specification.
Table(rq, lb) ==
    /\ rq \in [Request -> LrqBlock]
    /\ lb \in [Key -> LblBlock]
    /\ \A k \in Key : Exact(rq, lb[k], k)
    /\ AllCompatible(rq)
    /\ \A r \in Request : OffQueue(rq[r])

\* Changes of requests that leave their locks, levels and waiting alone.
Marked(rq, rq2) ==
    /\ rq2 \in [Request -> LrqBlock]
    /\ \A q \in Request : /\ SameLevel(rq, rq2, q)
                          /\ Waits(rq2[q]) <=> Waits(rq[q])
                          /\ rq2[q].owner = Nobody => rq2[q].lock = Nobody

\* Marking requests keeps the lock table sound.
LEMMA Marking ==
    ASSUME NEW rq, NEW rq2, NEW lb, Table(rq, lb), Marked(rq, rq2)
    PROVE  Table(rq2, lb)
  <1> USE DEF Marked
  <1>1. AllCompatible(rq2)
    BY SameCompatible DEF Table
  <1>2. ASSUME NEW k \in Key
        PROVE  Exact(rq2, lb[k], k)
    <2>1. CountsOf(rq2, k) = CountsOf(rq, k)
      BY CountsSame
    <2>2. PendingOf(rq2, k) = PendingOf(rq, k)
      BY DEF PendingOf, SameLevel
    <2>3. QED
      BY <2>1, <2>2 DEF Exact, Table
  <1>3. \A q \in Request : OffQueue(rq2[q])
    BY DEF OffQueue, Table, SameLevel
  <1>4. QED
    BY <1>1, <1>2, <1>3 DEF Table

\* A request of lock k begins or ends to wait, its level being the same.
WaitChange(rq, rq2, lb, lb2, r, k) ==
    /\ rq2 \in [Request -> LrqBlock]
    /\ lb2 \in [Key -> [counts : [1..6 -> Nat], state : AnyLevel, pending : Int]]
    /\ \A q \in Request \ {r} : rq2[q] = rq[q]
    /\ rq2[r].lock = k /\ rq2[r].owner # Nobody /\ rq2[r].state = rq[r].state
    /\ rq[r].lock = k \/ rq[r].lock = Nobody
    /\ \A j \in Key \ {k} : lb2[j] = lb[j]
    /\ lb2[k].counts = lb[k].counts /\ lb2[k].state = lb[k].state
    /\ lb2[k].pending = lb[k].pending + (IF Waits(rq2[r]) THEN 1 ELSE 0)
                                      - (IF Waits(rq[r]) THEN 1 ELSE 0)

\* lbl_pending_lrq_count is exact after a request begins or ends to wait.
LEMMA PendingChange ==
    ASSUME NEW rq, NEW rq2, NEW lb, NEW lb2, Table(rq, lb), NEW r \in Request, NEW k \in Key,
           WaitChange(rq, rq2, lb, lb2, r, k)
    PROVE  Table(rq2, lb2)
  <1> USE DEF WaitChange
  <1>1. k # Nobody
    BY Constants
  <1>2. OthersSame(rq, rq2, r)
    BY DEF OthersSame, SameLevel
  <1>3. /\ rq[r].state \in AnyLevel /\ rq2[r].state \in AnyLevel
        /\ rq[r].lock = Nobody => rq[r].state = 0 /\ ~Waits(rq[r])
    BY DEF Table, OffQueue, LrqBlock
  <1>4. AllCompatible(rq2)
    <2>1. CASE rq[r].lock = k
      BY <2>1, SameCompatible DEF Table, SameLevel
    <2>2. CASE rq[r].lock = Nobody
      <3>1. rq2[r].state = 0
        BY <1>3, <2>2
      <3>2. \A q \in Request : rq2[q].state \in AnyLevel
        BY DEF LrqBlock
      <3>3. QED
        BY <1>2, <3>1, <3>2, NoneIsCompatible DEF AllCompatible, OthersSame, SameLevel, Table
    <2>3. QED
      BY <2>1, <2>2
  <1>5. ASSUME NEW j \in Key
        PROVE  CountsOf(rq2, j) = CountsOf(rq, j)
    <2>1. \A l \in 1..6 : Held(rq2, j, l) = Held(rq, j, l)
      BY <1>2, <1>3, Constants DEF Held, OthersSame, SameLevel
    <2>2. QED
      BY <2>1 DEF CountsOf
  <1>6. ASSUME NEW j \in Key
        PROVE  lb2[j].pending = Cardinality(PendingOf(rq2, j))
    <2>1. Cardinality(PendingOf(rq2, j)) =
             Cardinality(PendingOf(rq, j))
               + (IF rq2[r].lock = j /\ Waits(rq2[r]) THEN 1 ELSE 0)
               - (IF rq[r].lock = j /\ Waits(rq[r]) THEN 1 ELSE 0)
      BY OnePending
    <2>2. lb[j].pending = Cardinality(PendingOf(rq, j)) /\ lb[j].pending \in Nat
      BY DEF Table, Exact, LblBlock
    <2>3. CASE j = k
      BY <1>1, <1>3, <2>1, <2>2, <2>3
    <2>4. CASE j # k
      BY <1>1, <2>1, <2>2, <2>4, Constants
    <2>5. QED
      BY <2>3, <2>4
  <1>7. ASSUME NEW j \in Key
        PROVE  Exact(rq2, lb2[j], j)
    <2>1. lb2[j].counts = lb[j].counts /\ lb2[j].state = lb[j].state
      OBVIOUS
    <2>2. QED
      BY <1>5, <1>6, <2>1 DEF Exact, Table
  <1>8. lb2 \in [Key -> LblBlock]
    <2>1. \A j \in Key : lb2[j].pending \in Nat
      BY <1>6, PendingFinite
    <2>2. QED
      BY <2>1 DEF LblBlock
  <1>9. \A q \in Request : OffQueue(rq2[q])
    BY <1>1 DEF OffQueue, Table
  <1>10. QED
    BY <1>4, <1>7, <1>8, <1>9 DEF Table

\* The requests of a sound table have levels and locks.
LEMMA TableLevelsTyped ==
    ASSUME NEW rq, NEW lb, Table(rq, lb)
    PROVE  LevelsTyped(rq)
  BY DEF Table, LevelsTyped, LrqBlock

\* A request is granted lock k at a level that is compatible with the state
\* of the lock without it.
LEMMA Granting ==
    ASSUME NEW rq, NEW rq2, NEW lb, NEW lb2, Table(rq, lb), NEW r \in Request, NEW k \in Key,
           rq2 \in [Request -> LrqBlock],
           \A q \in Request \ {r} : rq2[q] = rq[q],
           rq2[r].lock = k, rq2[r].owner # Nobody, ~Waits(rq2[r]),
           rq[r].lock = k \/ rq[r].lock = Nobody,
           NEW counts, counts = Without(lb[k].counts, rq[r].state),
           Compatible(rq2[r].state, lock_state(counts)),
           NEW n, n = lb[k].pending - (IF Waits(rq[r]) THEN 1 ELSE 0),
           lb2 = [lb EXCEPT ![k] = [counts |-> With(counts, rq2[r].state),
                                    state |-> lock_state(With(counts, rq2[r].state)),
                                    pending |-> n]]
    PROVE  Table(rq2, lb2)
  <1>1. k # Nobody
    BY Constants
  <1>2. OthersSame(rq, rq2, r)
    BY DEF OthersSame, SameLevel
  <1>3. /\ rq[r].state \in AnyLevel /\ rq2[r].state \in AnyLevel
        /\ rq[r].lock = Nobody => rq[r].state = 0 /\ ~Waits(rq[r])
    BY DEF Table, OffQueue, LrqBlock
  <1>4. counts = OtherCounts(rq, k, r)
    <2>1. lb[k].counts = CountsOf(rq, k)
      BY DEF Table, Exact
    <2>2. CASE rq[r].lock = k
      BY <1>3, <2>1, <2>2, CountsWithout
    <2>3. CASE rq[r].lock = Nobody
      BY <1>1, <1>3, <2>1, <2>3, CountsElsewhere DEF Without, LCK_none
    <2>4. QED
      BY <2>2, <2>3
  <1>5. With(counts, rq2[r].state) = CountsOf(rq2, k)
    BY <1>2, <1>3, <1>4, OtherCountsSame, CountsWith
  <1>6. AllCompatible(rq2)
    BY <1>2, <1>3, <1>4, TableLevelsTyped, GrantCompatible DEF Table
  <1>7. ASSUME NEW j \in Key
        PROVE  Cardinality(PendingOf(rq2, j)) =
                  IF j = k THEN n ELSE lb[j].pending
    <2>1. Cardinality(PendingOf(rq2, j)) =
             Cardinality(PendingOf(rq, j))
               + (IF rq2[r].lock = j /\ Waits(rq2[r]) THEN 1 ELSE 0)
               - (IF rq[r].lock = j /\ Waits(rq[r]) THEN 1 ELSE 0)
      BY OnePending
    <2>2. lb[j].pending = Cardinality(PendingOf(rq, j)) /\ lb[j].pending \in Nat
      BY DEF Table, Exact, LblBlock
    <2>3. CASE j = k
      BY <1>1, <1>3, <2>1, <2>2, <2>3
    <2>4. CASE j # k
      BY <1>1, <2>1, <2>2, <2>4, Constants
    <2>5. QED
      BY <2>3, <2>4
  <1>8. ASSUME NEW j \in Key
        PROVE  Exact(rq2, lb2[j], j) /\ lb2[j] \in LblBlock
    <2>1. CASE j = k
      <3>1. lb2[j] = [counts |-> CountsOf(rq2, k), state |-> lock_state(CountsOf(rq2, k)),
                      pending |-> n]
        BY <1>5, <2>1 DEF Table
      <3>2. n = Cardinality(PendingOf(rq2, k)) /\ n \in Nat
        BY <1>7, PendingFinite
      <3>3. CountsOf(rq2, k) \in Counts /\ lock_state(CountsOf(rq2, k)) \in AnyLevel
        BY CountsTyped, StateOfCounts
      <3>4. QED
        BY <2>1, <3>1, <3>2, <3>3 DEF Exact, LblBlock, Counts
    <2>2. CASE j # k
      <3>1. lb2[j] = lb[j] /\ lb[j] \in LblBlock /\ Exact(rq, lb[j], j)
        BY <2>2 DEF Table
      <3>2. CountsOf(rq2, j) = CountsOf(rq, j)
        <4>1. rq[r].lock # j /\ rq2[r].lock # j
          BY <2>2, Constants
        <4>2. QED
          BY <4>1, <1>2, OtherCountsSame, CountsElsewhere
      <3>3. lb[j].pending = Cardinality(PendingOf(rq2, j))
        BY <1>7, <2>2
      <3>4. QED
        BY <3>1, <3>2, <3>3 DEF Exact
    <2>3. QED
      BY <2>1, <2>2
  <1>9. lb2 \in [Key -> LblBlock]
    <2>1. DOMAIN lb2 = Key /\ lb2 = [j \in Key |-> lb2[j]]
      BY DEF Table
    <2>2. QED
      BY <1>8, <2>1
  <1>10. \A q \in Request : OffQueue(rq2[q])
    BY <1>1 DEF OffQueue, Table
  <1>11. QED
    BY <1>6, <1>8, <1>9, <1>10 DEF Table

\* The lock blocks when request r leaves its lock k, as release_request has it.
AloneOn(rq, r, k) == \A q \in Request \ {r} : rq[q].lock # k

LeftLbl(rq, lb, r, k) ==
    LET counts == Without(lb[k].counts, rq[r].state)
    IN  [lb EXCEPT ![k] =
           IF AloneOn(rq, r, k) THEN FreeLbl
           ELSE [counts |-> counts,
                 state |-> IF rq[r].state # 0 /\ counts[rq[r].state] = 0
                           THEN lock_state(counts) ELSE lb[k].state,
                 pending |-> IF Waits(rq[r]) THEN lb[k].pending - 1 ELSE lb[k].pending]]

\* Request r leaves its lock k.
LEMMA Releasing ==
    ASSUME NEW rq, NEW rq2, NEW lb, NEW lb2, Table(rq, lb), NEW r \in Request, NEW k \in Key,
           rq2 \in [Request -> LrqBlock], rq[r].lock = k, rq2[r] = FreeLrq,
           \A q \in Request \ {r} : /\ SameLevel(rq, rq2, q)
                                    /\ rq2[q].flags = rq[q].flags
                                    /\ rq2[q].owner = rq[q].owner,
           lb2 = LeftLbl(rq, lb, r, k)
    PROVE  Table(rq2, lb2)
  <1> DEFINE counts == Without(lb[k].counts, rq[r].state)
             empty == AloneOn(rq, r, k)
  <1>0. lb2 = [lb EXCEPT ![k] =
                    IF empty THEN FreeLbl
                    ELSE [counts |-> counts,
                          state |-> IF rq[r].state # 0 /\ counts[rq[r].state] = 0
                                    THEN lock_state(counts) ELSE lb[k].state,
                          pending |-> IF Waits(rq[r]) THEN lb[k].pending - 1
                                                      ELSE lb[k].pending]]
    BY DEF LeftLbl
  <1>a. counts = Without(lb[k].counts, rq[r].state)
    OBVIOUS
  <1>b. empty => \A q \in Request \ {r} : rq[q].lock # k
    BY DEF AloneOn
  <1> HIDE DEF counts, empty
  <1>1. k # Nobody /\ rq2[r].lock = Nobody /\ rq2[r].state = 0 /\ ~Waits(rq2[r]) /\ rq2[r].owner = Nobody
    BY Constants DEF FreeLrq, Waits
  <1>2. OthersSame(rq, rq2, r)
    BY DEF OthersSame
  <1>3. rq[r].state \in AnyLevel
    BY DEF Table, LrqBlock
  <1>4. counts = CountsOf(rq2, k)
    <2>1. counts = OtherCounts(rq, k, r)
      BY <1>a, <1>3, CountsWithout DEF Table, Exact
    <2>2. CountsOf(rq2, k) = OtherCounts(rq2, k, r)
      <3>1. rq2[r].lock # k
        BY <1>1
      <3>2. QED
        BY <3>1, CountsElsewhere
    <2>3. OtherCounts(rq2, k, r) = OtherCounts(rq, k, r)
      BY <1>2, OtherCountsSame
    <2>4. QED
      BY <2>1, <2>2, <2>3
  <1>5. AllCompatible(rq2)
    BY <1>1, <1>2, ReleaseCompatible DEF Table
  <1>6. ASSUME NEW j \in Key
        PROVE  Cardinality(PendingOf(rq2, j)) =
                 IF j = k /\ Waits(rq[r]) THEN lb[j].pending - 1 ELSE lb[j].pending
    <2>1. Cardinality(PendingOf(rq2, j)) =
             Cardinality(PendingOf(rq, j))
               + (IF rq2[r].lock = j /\ Waits(rq2[r]) THEN 1 ELSE 0)
               - (IF rq[r].lock = j /\ Waits(rq[r]) THEN 1 ELSE 0)
      <3>1. \A q \in Request \ {r} : rq2[q].lock = rq[q].lock /\ (Waits(rq2[q]) <=> Waits(rq[q]))
        BY DEF SameLevel, Waits
      <3>2. QED
        BY <3>1, OnePending
    <2>2. lb[j].pending = Cardinality(PendingOf(rq, j)) /\ lb[j].pending \in Nat
      BY DEF Table, Exact, LblBlock
    <2>3. QED
      BY <1>1, <2>1, <2>2
  <1>7. lock_state(counts) = IF rq[r].state # 0 /\ counts[rq[r].state] = 0
                             THEN lock_state(counts) ELSE lb[k].state
    <2> DEFINE old == lb[k].counts
               s == rq[r].state
    <2>1. old \in Counts /\ counts \in Counts /\ lb[k].state = lock_state(old)
      <3>1. old = CountsOf(rq, k) /\ lb[k].state = lock_state(old)
        BY DEF Table, Exact
      <3>2. QED
        BY <1>4, <3>1, CountsTyped
    <2>2. CASE s = 0
      BY <1>a, <2>1, <2>2 DEF Without, LCK_none
    <2>3. CASE s # 0 /\ counts[s] # 0
      <3>1. counts = [old EXCEPT ![s] = @ - 1] /\ s \in 1..6
        BY <1>a, <1>3, <2>3 DEF Without, LCK_none, AnyLevel
      <3>2. \A l \in 1..6 : counts[l] > 0 <=> old[l] > 0
        BY <2>1, <2>3, <3>1 DEF Counts
      <3>3. IsState(old, lock_state(old)) /\ lock_state(old) \in AnyLevel
        BY <2>1, StateOfCounts
      <3>4. IsState(counts, lock_state(old))
        BY <2>1, <3>2, <3>3 DEF IsState, Counts, AnyLevel, LCK_none
      <3>5. QED
        BY <2>1, <3>3, <3>4, StateIsUnique
    <2>4. QED
      BY <2>2, <2>3
  <1>8. ASSUME empty
        PROVE  FreeLbl.counts = CountsOf(rq2, k) /\ Cardinality(PendingOf(rq2, k)) = 0
    <2>1. \A q \in Request : rq2[q].lock # k
      BY <1>b, <1>1, <1>8 DEF SameLevel
    <2>2. \A l \in 1..6 : Held(rq2, k, l) = {}
      BY <2>1 DEF Held
    <2>3. PendingOf(rq2, k) = {}
      BY <2>1 DEF PendingOf
    <2>4. QED
      BY <2>2, <2>3, FS_EmptySet DEF CountsOf, FreeLbl
  <1>9. FreeLbl.state = lock_state(FreeLbl.counts) /\ FreeLbl.counts \in Counts
    <2>1. FreeLbl.counts \in Counts /\ \A l \in 1..6 : FreeLbl.counts[l] = 0
      BY DEF FreeLbl, Counts
    <2>2. IsState(FreeLbl.counts, 0) /\ 0 \in AnyLevel
      BY <2>1 DEF IsState, LCK_none, AnyLevel
    <2>3. QED
      BY <2>1, <2>2, StateIsUnique DEF FreeLbl
  <1>10. ASSUME NEW j \in Key
         PROVE  Exact(rq2, lb2[j], j) /\ lb2[j] \in LblBlock
    <2>1. CASE j = k /\ empty
      <3>1. lb2[j] = FreeLbl
        BY <1>0, <2>1 DEF Table
      <3>2. QED
        BY <1>8, <1>9, <2>1, <3>1 DEF Exact, LblBlock, FreeLbl, Counts, AnyLevel
    <2>2. CASE j = k /\ ~empty
      <3>1. lb2[j] = [counts |-> counts, state |-> lock_state(counts),
                      pending |-> IF Waits(rq[r]) THEN lb[k].pending - 1 ELSE lb[k].pending]
        BY <1>0, <1>7, <2>2 DEF Table
      <3>2. lb2[j].pending = Cardinality(PendingOf(rq2, k))
        BY <1>6, <2>2, <3>1
      <3>3. Cardinality(PendingOf(rq2, k)) \in Nat
        BY PendingFinite
      <3>4. counts \in Counts /\ lock_state(counts) \in AnyLevel
        BY <1>4, CountsTyped, StateOfCounts
      <3>5. QED
        BY <1>4, <2>2, <3>1, <3>2, <3>3, <3>4 DEF Exact, LblBlock, Counts
    <2>3. CASE j # k
      <3>1. lb2[j] = lb[j] /\ lb[j] \in LblBlock /\ Exact(rq, lb[j], j)
        BY <1>0, <2>3 DEF Table
      <3>2. CountsOf(rq2, j) = CountsOf(rq, j)
        <4>1. rq[r].lock # j /\ rq2[r].lock # j
          BY <1>1, <2>3, Constants
        <4>2. OtherCounts(rq2, j, r) = OtherCounts(rq, j, r)
          BY <1>2, OtherCountsSame
        <4>3. CountsOf(rq, j) = OtherCounts(rq, j, r) /\ CountsOf(rq2, j) = OtherCounts(rq2, j, r)
          BY <4>1, CountsElsewhere
        <4>4. QED
          BY <4>2, <4>3
      <3>3. lb[j].pending = Cardinality(PendingOf(rq2, j))
        BY <1>6, <2>3
      <3>4. QED
        BY <3>1, <3>2, <3>3 DEF Exact
    <2>4. QED
      BY <2>1, <2>2, <2>3
  <1>11. lb2 \in [Key -> LblBlock]
    <2>1. DOMAIN lb2 = Key /\ lb2 = [j \in Key |-> lb2[j]]
      BY <1>0 DEF Table
    <2>2. QED
      BY <1>10, <2>1
  <1>12. \A q \in Request : OffQueue(rq2[q])
    BY <1>1 DEF OffQueue, Table, SameLevel, Waits
  <1>13. QED
    BY <1>5, <1>10, <1>11, <1>12 DEF Table

-----------------------------------------------------------------------------
(* What the operations on the lock table do to the blocks. *)

OwnBlock == [inuse : BOOLEAN, count : Nat, waits : Nat, asts : Nat,
             flags : SUBSET {"scanned", "wakeup", "signaled"}]

SameBlock(q) ==
    /\ lrq'[q].owner = lrq[q].owner
    /\ lrq'[q].lock = lrq[q].lock
    /\ Pending(q)' <=> Pending(q)
    /\ "repost" \in lrq'[q].flags <=> "repost" \in lrq[q].flags

OthersKept(r) == \A q \in Request \ {r} : SameBlock(q)

\* own_count, own_waits and own_ast_count of the owners, and whether they are
\* registered, are as before.
OwnersKept ==
    \A o \in Owner : /\ own'[o].inuse = own[o].inuse /\ own'[o].count = own[o].count
                     /\ own'[o].waits = own[o].waits /\ own'[o].asts = own[o].asts

\* The fields of a request block of a sound table.
LEMMA BlockTypes ==
    ASSUME Table(lrq, lbl), NEW r \in Request
    PROVE  /\ lrq[r] \in LrqBlock
           /\ lrq[r].owner \in Owner \cup {Nobody} /\ lrq[r].lock \in Key \cup {Nobody}
           /\ lrq[r].state \in AnyLevel /\ lrq[r].requested \in AnyLevel
           /\ lrq[r].flags \in SUBSET LrqFlag /\ lrq[r].pos \in Nat
           /\ lrq[r].lock \in Key => lrq[r].owner \in Owner
  <1>1. lrq[r] \in LrqBlock /\ OffQueue(lrq[r])
    BY DEF Table
  <1>2. Nobody \notin Key
    BY Constants
  <1>3. QED
    BY <1>1, <1>2 DEF LrqBlock, OffQueue

\* post_wakeup changes nothing but OWN_wakeup.
LEMMA WakeupEffect ==
    ASSUME own \in [Owner -> OwnBlock], NEW o \in Owner, own' = post_wakeup(own, o)
    PROVE  own' \in [Owner -> OwnBlock] /\ OwnersKept
  BY DEF post_wakeup, OwnersKept, OwnBlock

\* post_wakeup pokes clients only.
LEMMA PokeEffect ==
    ASSUME poked \subseteq Client, NEW o \in Owner
    PROVE  PokedBy(o) \subseteq Client
  BY DEF PokedBy

\* A free request block is a request block.
LEMMA FreeLrqTyped == FreeLrq \in LrqBlock
  BY DEF FreeLrq, LrqBlock, AnyLevel

\* release_request frees the block and keeps the table sound, the other
\* requests of the lock being as before.
LEMMA ReleaseEffect ==
    ASSUME Table(lrq, lbl), NEW r \in Request, lrq[r].lock \in Key, release_request(r)
    PROVE  /\ Table(lrq', lbl')
           /\ lrq'[r] = FreeLrq
           /\ OthersKept(r)
           /\ HeldUpBy(r) \in Key \cup {Nobody}
           /\ work' = [work EXCEPT !.pend = HeldUpBy(r)]
  <1> DEFINE k == lrq[r].lock
             moved == MovedUp(lrq, r)
  <1>1. moved \in [Request -> LrqBlock]
    <2>1. ASSUME NEW q \in Request
          PROVE  moved[q] \in LrqBlock
      <3>1. lrq[q] \in LrqBlock /\ lrq[q].pos \in Nat /\ lrq[r].pos \in Nat
        BY BlockTypes
      <3>2. CASE lrq[q].lock = lrq[r].lock /\ lrq[q].pos > lrq[r].pos
        <4>1. lrq[q].pos - 1 \in Nat
          BY <3>1, <3>2
        <4>2. moved[q] = [lrq[q] EXCEPT !.pos = lrq[q].pos - 1]
          BY <3>2 DEF MovedUp
        <4>3. QED
          BY <3>1, <4>1, <4>2 DEF LrqBlock
      <3>3. CASE ~(lrq[q].lock = lrq[r].lock /\ lrq[q].pos > lrq[r].pos)
        BY <3>1, <3>3 DEF MovedUp
      <3>4. QED
        BY <3>2, <3>3
    <2>2. QED
      BY <2>1 DEF MovedUp
  <1>2. lrq' = [moved EXCEPT ![r] = FreeLrq]
    BY DEF release_request
  <1>3. lrq' \in [Request -> LrqBlock] /\ lrq'[r] = FreeLrq
    BY <1>1, <1>2, FreeLrqTyped
  <1>4. \A q \in Request \ {r} : /\ SameLevel(lrq, lrq', q)
                                 /\ lrq'[q].flags = lrq[q].flags
                                 /\ lrq'[q].owner = lrq[q].owner
    <2>1. TAKE q \in Request \ {r}
    <2>2. lrq'[q] = moved[q] /\ lrq[q] \in LrqBlock
      BY <1>1, <1>2, BlockTypes
    <2>3. QED
      BY <2>2 DEF MovedUp, SameLevel, LrqBlock
  <1>5. Table(lrq', lbl')
    <2>1. AloneOn(lrq, r, k) <=> Requests(k) = {r}
      BY DEF AloneOn, Requests
    <2>2. lbl' = LeftLbl(lrq, lbl, r, k)
      BY <2>1 DEF release_request, LeftLbl, LCK_none, Pending, Waits
    <2>3. k \in Key /\ lrq[r].lock = k
      OBVIOUS
    <2> HIDE DEF k
    <2>4. QED
      BY <1>3, <1>4, <2>2, <2>3, Releasing
  <1>6. OthersKept(r)
    BY <1>4 DEF OthersKept, SameBlock, SameLevel, Pending
  <1>7. HeldUpBy(r) \in Key \cup {Nobody} /\ work' = [work EXCEPT !.pend = HeldUpBy(r)]
    BY DEF HeldUpBy, release_request
  <1>8. QED
    BY <1>3, <1>5, <1>6, <1>7

\* grant on a table rq that differs from lrq in request r only.
LEMMA GrantEffect ==
    ASSUME Table(lrq, lbl), own \in [Owner -> OwnBlock], poked \subseteq Client,
           NEW rq \in [Request -> LrqBlock], NEW r \in Request, NEW k \in Key,
           \A q \in Request \ {r} : rq[q] = lrq[q],
           rq[r].lock = k, rq[r].owner \in Owner, "repost" \notin rq[r].flags,
           lrq[r].lock = k \/ lrq[r].lock = Nobody,
           Waits(rq[r]) <=> Waits(lrq[r]),
           NEW counts, counts = Without(lbl[k].counts, lrq[r].state),
           Compatible(rq[r].requested, lock_state(counts)),
           grant(rq, r, k, counts)
    PROVE  /\ Table(lrq', lbl')
           /\ lrq'[r].lock = k /\ lrq'[r].owner = rq[r].owner
           /\ ~Pending(r)' /\ "repost" \notin lrq'[r].flags
           /\ OthersKept(r)
           /\ own' \in [Owner -> OwnBlock] /\ OwnersKept
           /\ poked' \subseteq Client
  <1>1. lrq' = [rq EXCEPT ![r].state = rq[r].requested, ![r].flags = rq[r].flags \ {"pending"}]
    BY DEF grant, GrantedLrq
  <1>2. rq[r] \in LrqBlock /\ rq[r].requested \in AnyLevel /\ rq[r].flags \in SUBSET LrqFlag
    BY DEF LrqBlock
  <1>3. /\ lrq'[r] = [rq[r] EXCEPT !.state = rq[r].requested, !.flags = rq[r].flags \ {"pending"}]
        /\ \A q \in Request \ {r} : lrq'[q] = lrq[q]
    BY <1>1
  <1>4. /\ lrq'[r] \in LrqBlock
        /\ lrq'[r].lock = k /\ lrq'[r].owner = rq[r].owner
        /\ lrq'[r].state = rq[r].requested
        /\ lrq'[r].flags = rq[r].flags \ {"pending"}
    BY <1>2, <1>3 DEF LrqBlock
  <1>5. lrq' \in [Request -> LrqBlock]
    <2>1. \A q \in Request : lrq'[q] \in LrqBlock
      BY <1>3, <1>4, BlockTypes
    <2>2. QED
      BY <1>1, <2>1
  <1>6. Table(lrq', lbl')
    <2> DEFINE n == lbl[k].pending - (IF Waits(lrq[r]) THEN 1 ELSE 0)
               new == With(counts, rq[r].requested)
    <2>0. lbl[k].pending \in Nat
      BY DEF Table, LblBlock
    <2>1. lbl' = [lbl EXCEPT ![k] = [counts |-> new, state |-> lock_state(new),
                                     pending |-> IF Waits(rq[r]) THEN lbl[k].pending - 1
                                                                 ELSE lbl[k].pending]]
      BY DEF grant, Waits
    <2>2. (IF Waits(rq[r]) THEN lbl[k].pending - 1 ELSE lbl[k].pending) = n
      BY <2>0
    <2>3. lbl' = [lbl EXCEPT ![k] = [counts |-> With(counts, lrq'[r].state),
                                     state |-> lock_state(With(counts, lrq'[r].state)),
                                     pending |-> n]]
      BY <1>4, <2>1, <2>2
    <2>4. ~Waits(lrq'[r]) /\ lrq'[r].owner # Nobody
      BY <1>4, Constants DEF Waits
    <2> HIDE DEF n
    <2>5. n = lbl[k].pending - (IF Waits(lrq[r]) THEN 1 ELSE 0)
      BY DEF n
    <2>6. QED
      BY <1>3, <1>4, <1>5, <2>3, <2>4, <2>5, Granting
  <1>7. ~Pending(r)' /\ "repost" \notin lrq'[r].flags /\ OthersKept(r)
    BY <1>3, <1>4 DEF Pending, OthersKept, SameBlock
  <1>8. own' \in [Owner -> OwnBlock] /\ OwnersKept
    BY WakeupEffect DEF grant
  <1>9. poked' \subseteq Client
    BY PokeEffect DEF grant
  <1>10. QED
    BY <1>4, <1>6, <1>7, <1>8, <1>9

\* wait_for_request on a table rq that differs from lrq in request r only.
LEMMA WaitEffect ==
    ASSUME Table(lrq, lbl), own \in [Owner -> OwnBlock],
           NEW rq \in [Request -> LrqBlock], NEW r \in Request, NEW k \in Key,
           \A q \in Request \ {r} : rq[q] = lrq[q],
           rq[r].lock = k, rq[r].owner \in Owner, "repost" \notin rq[r].flags,
           rq[r].state = lrq[r].state, ~Waits(lrq[r]),
           lrq[r].lock = k \/ lrq[r].lock = Nobody,
           NEW mode, wait_for_request(rq, r, k, mode)
    PROVE  /\ Table(lrq', lbl')
           /\ lrq'[r].lock = k /\ lrq'[r].owner = rq[r].owner
           /\ Pending(r)' /\ "repost" \notin lrq'[r].flags
           /\ OthersKept(r)
           /\ own' \in [Owner -> OwnBlock]
           /\ \A o \in Owner : /\ own'[o].inuse = own[o].inuse /\ own'[o].count = own[o].count
                               /\ own'[o].asts = own[o].asts
                               /\ own'[o].waits = IF o = rq[r].owner THEN own[o].waits + 1
                                                                     ELSE own[o].waits
  <1> DEFINE flags == (rq[r].flags \ {"rejected"}) \cup {"pending"}
                        \cup (IF mode = "wait" THEN {} ELSE {"timeout"})
  <1>1. lrq' = [rq EXCEPT ![r].flags = flags]
    BY DEF wait_for_request
  <1>2. rq[r] \in LrqBlock /\ flags \in SUBSET LrqFlag /\ "pending" \in flags /\ "repost" \notin flags
    BY DEF LrqBlock, LrqFlag
  <1> HIDE DEF flags
  <1>3. lrq'[r] = [rq[r] EXCEPT !.flags = flags] /\ \A q \in Request \ {r} : lrq'[q] = lrq[q]
    BY <1>1
  <1>4. /\ lrq'[r] \in LrqBlock
        /\ lrq'[r].lock = k /\ lrq'[r].owner = rq[r].owner
        /\ lrq'[r].state = lrq[r].state /\ lrq'[r].flags = flags
    BY <1>2, <1>3 DEF LrqBlock
  <1>5. lrq' \in [Request -> LrqBlock]
    <2>1. \A q \in Request : lrq'[q] \in LrqBlock
      BY <1>3, <1>4, BlockTypes
    <2>2. QED
      BY <1>1, <2>1
  <1>6. Table(lrq', lbl')
    <2>1. lbl' = [lbl EXCEPT ![k].pending = lbl[k].pending + 1] /\ lbl \in [Key -> LblBlock]
      BY DEF wait_for_request, Table
    <2>2. /\ lbl' \in [Key -> [counts : [1..6 -> Nat], state : AnyLevel, pending : Int]]
          /\ lbl'[k].counts = lbl[k].counts /\ lbl'[k].state = lbl[k].state
          /\ lbl'[k].pending = lbl[k].pending + 1 /\ lbl[k].pending \in Nat
          /\ \A j \in Key \ {k} : lbl'[j] = lbl[j]
      BY <2>1 DEF LblBlock
    <2>3. Waits(lrq'[r])
      BY <1>2, <1>4 DEF Waits
    <2>4. lbl'[k].pending = lbl[k].pending + (IF Waits(lrq'[r]) THEN 1 ELSE 0)
                                           - (IF Waits(lrq[r]) THEN 1 ELSE 0)
      BY <2>2, <2>3
    <2>5. lrq'[r].owner # Nobody
      BY <1>4, Constants
    <2>6. QED
      <3>1. WaitChange(lrq, lrq', lbl, lbl', r, k)
        BY <1>3, <1>4, <1>5, <2>2, <2>4, <2>5 DEF WaitChange
      <3>2. QED
        BY <3>1, PendingChange
  <1>7. Pending(r)' /\ "repost" \notin lrq'[r].flags /\ OthersKept(r)
    BY <1>2, <1>3, <1>4 DEF Pending, OthersKept, SameBlock
  <1>8. own' = [own EXCEPT ![rq[r].owner].waits = own[rq[r].owner].waits + 1,
                           ![rq[r].owner].flags = own[rq[r].owner].flags \ {"scanned", "wakeup"}]
    BY DEF wait_for_request
  <1>9. own' \in [Owner -> OwnBlock]
    BY <1>8 DEF OwnBlock
  <1>10. \A o \in Owner : /\ own'[o].inuse = own[o].inuse /\ own'[o].count = own[o].count
                          /\ own'[o].asts = own[o].asts
                          /\ own'[o].waits = IF o = rq[r].owner THEN own[o].waits + 1
                                                                ELSE own[o].waits
    BY <1>8 DEF OwnBlock
  <1>11. QED
    BY <1>4, <1>6, <1>7, <1>9, <1>10

\* The rejection of a pending request.
LEMMA RejectEffect ==
    ASSUME Table(lrq, lbl), NEW r \in Request, Pending(r),
           lrq' = RejectedLrq(lrq, r), lbl' = OnePendingLess(lrq[r].lock)
    PROVE  /\ Table(lrq', lbl')
           /\ lrq'[r].lock = lrq[r].lock /\ lrq'[r].owner = lrq[r].owner
           /\ ~Pending(r)' /\ ("repost" \in lrq'[r].flags <=> "repost" \in lrq[r].flags)
           /\ OthersKept(r)
  <1> DEFINE flags == (lrq[r].flags \cup {"rejected"}) \ {"pending"}
             k == lrq[r].lock
  <1>1. lrq' = [lrq EXCEPT ![r].flags = flags]
    BY DEF RejectedLrq
  <1>2. /\ lrq[r] \in LrqBlock /\ flags \in SUBSET LrqFlag /\ "pending" \notin flags
        /\ "repost" \in flags <=> "repost" \in lrq[r].flags
    BY BlockTypes DEF LrqFlag
  <1> HIDE DEF flags
  <1>3. lrq'[r] = [lrq[r] EXCEPT !.flags = flags] /\ \A q \in Request \ {r} : lrq'[q] = lrq[q]
    BY <1>1 DEF Table
  <1>4. /\ lrq'[r] \in LrqBlock
        /\ lrq'[r].lock = k /\ lrq'[r].owner = lrq[r].owner
        /\ lrq'[r].state = lrq[r].state /\ lrq'[r].flags = flags
    BY <1>2, <1>3 DEF LrqBlock
  <1>5. lrq' \in [Request -> LrqBlock]
    <2>1. \A q \in Request : lrq'[q] \in LrqBlock
      BY <1>3, <1>4, BlockTypes
    <2>2. QED
      BY <1>1, <2>1 DEF Table
  <1>6. k \in Key /\ lrq[r].owner # Nobody
    <2>1. OffQueue(lrq[r]) /\ Waits(lrq[r])
      BY DEF Table, Pending, Waits
    <2>2. QED
      BY <2>1, BlockTypes DEF OffQueue
  <1>7. Table(lrq', lbl')
    <2>1. lbl' = [lbl EXCEPT ![k].pending = lbl[k].pending - 1] /\ lbl \in [Key -> LblBlock]
      BY DEF OnePendingLess, Table
    <2>2. /\ lbl' \in [Key -> [counts : [1..6 -> Nat], state : AnyLevel, pending : Int]]
          /\ lbl'[k].counts = lbl[k].counts /\ lbl'[k].state = lbl[k].state
          /\ lbl'[k].pending = lbl[k].pending - 1 /\ lbl[k].pending \in Nat
          /\ \A j \in Key \ {k} : lbl'[j] = lbl[j]
      BY <1>6, <2>1 DEF LblBlock
    <2>3. ~Waits(lrq'[r]) /\ Waits(lrq[r])
      BY <1>2, <1>4 DEF Waits, Pending
    <2>4. lbl'[k].pending = lbl[k].pending + (IF Waits(lrq'[r]) THEN 1 ELSE 0)
                                           - (IF Waits(lrq[r]) THEN 1 ELSE 0)
      BY <2>2, <2>3
    <2>5. lrq'[r].owner # Nobody /\ lrq[r].lock = k
      BY <1>4, <1>6
    <2> HIDE DEF k
    <2>6. QED
      <3>1. WaitChange(lrq, lrq', lbl, lbl', r, k)
        BY <1>3, <1>4, <1>5, <2>2, <2>4, <2>5 DEF WaitChange
      <3>2. QED
        BY <1>6, <3>1, PendingChange
  <1>8. ~Pending(r)' /\ OthersKept(r)
    BY <1>2, <1>3, <1>4 DEF Pending, OthersKept, SameBlock
  <1>9. QED
    BY <1>2, <1>4, <1>7, <1>8

\* Marking requests: nothing of what the lock table counts changes.
LEMMA MarkEffect ==
    ASSUME Table(lrq, lbl), lrq' \in [Request -> LrqBlock], lbl' = lbl,
           \A q \in Request : SameBlock(q) /\ lrq'[q].state = lrq[q].state
    PROVE  Table(lrq', lbl')
  <1>1. ASSUME NEW q \in Request
        PROVE  /\ SameLevel(lrq, lrq', q)
               /\ Waits(lrq'[q]) <=> Waits(lrq[q])
               /\ lrq'[q].owner = Nobody => lrq'[q].lock = Nobody
    <2>1. OffQueue(lrq[q]) /\ SameBlock(q) /\ lrq'[q].state = lrq[q].state
      BY DEF Table
    <2>2. QED
      BY <2>1 DEF SameBlock, SameLevel, Waits, Pending, OffQueue
  <1>2. Marked(lrq, lrq')
    BY <1>1 DEF Marked
  <1>3. QED
    BY <1>2, Marking

\* A request block that is on no lock is taken or freed.
LEMMA OffQueueEffect ==
    ASSUME Table(lrq, lbl), NEW r \in Request, lrq[r].lock = Nobody, lbl' = lbl,
           NEW b \in LrqBlock, b.lock = Nobody, b.state = 0, ~Waits(b),
           lrq' = [lrq EXCEPT ![r] = b]
    PROVE  Table(lrq', lbl') /\ OthersKept(r) /\ lrq'[r] = b
  <1>1. lrq \in [Request -> LrqBlock] /\ OffQueue(lrq[r])
    BY DEF Table
  <1>2. lrq' \in [Request -> LrqBlock] /\ lrq'[r] = b /\ \A q \in Request \ {r} : lrq'[q] = lrq[q]
    BY <1>1
  <1>3. \A q \in Request : /\ SameLevel(lrq, lrq', q)
                           /\ Waits(lrq'[q]) <=> Waits(lrq[q])
                           /\ lrq'[q].owner = Nobody => lrq'[q].lock = Nobody
    BY <1>1, <1>2 DEF SameLevel, Waits, Table, OffQueue
  <1>4. Marked(lrq, lrq')
    BY <1>2, <1>3 DEF Marked
  <1>5. Table(lrq', lbl')
    BY <1>4, Marking
  <1>6. OthersKept(r)
    BY <1>2 DEF OthersKept, SameBlock, Pending
  <1>7. QED
    BY <1>2, <1>5, <1>6
=============================================================================
