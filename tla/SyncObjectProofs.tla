--------------------------- MODULE SyncObjectProofs ---------------------------
(***************************************************************************)
(* Proofs about SyncObject, for every number of threads that the low half   *)
(* of waiters can count.                                                    *)
(***************************************************************************)
EXTENDS SyncObject, QueueProofs, FiniteSetTheorems, TLAPS

-----------------------------------------------------------------------------
(* The inductive invariant. *)

PcSet == {"idle", "waiters", "test", "cas", "own", "slow", "queue?", "qcas", "qdone", "enqueue",
          "check", "asleep", "expired", "unlock", "ucas", "grant?", "rgrant?", "gmutex", "gshared",
          "gwake", "gexcl", "gown"}

TH == [pc : PcSet,
       held : Type \cup {"none"}, type : Type \cup {"none"},
       timeOut : {"none", "some", "forever", "cond"}, old : Int,
       granted : BOOLEAN, wakeup : BOOLEAN]

Typed ==
    /\ lockState \in Int
    /\ waiters \in Int
    /\ monitorCount \in 0..MaxDepth
    /\ exclusiveThread \in Thread \cup {NoThread}
    /\ waitingThreads \in Seq(Thread)
    /\ mutex \in Thread \cup {NoThread}
    /\ th \in [Thread -> TH]

\* Where a thread is in the queue, in wait or after it; inside the mutex; and
\* inside it before wait.
WaitPcs == {"check", "asleep", "expired"}
EnterPcs == {"queue?", "qcas", "qdone", "enqueue"}
MutexPcs == EnterPcs \cup {"gshared", "gwake", "gexcl", "gown"}
CallPcs == {"waiters", "test", "cas", "own", "slow", "unlock", "ucas", "grant?"} \cup EnterPcs \cup WaitPcs

\* What a thread knows where it is.
Shaped(x) ==
    /\ x.pc \in {"idle", "rgrant?"} => x.type = "none"
    /\ x.pc \in CallPcs => x.type \in Type /\ x.held = "none"
    /\ x.pc = "own" => x.type = "exclusive"
    /\ x.pc \in {"cas", "qcas"} => Free(x.type, x.old)
    /\ x.pc = "rgrant?" => x.held = "shared"
    /\ x.pc \in {"gmutex", "gshared", "gwake", "gexcl", "gown"} => x.held # "exclusive"
    /\ x.granted => x.pc \in WaitPcs

\* The thread is queued; it is counted in waiters; as a reader, as a writer.
InQueue(x) == x.pc \in WaitPcs /\ ~x.granted
IsCounted(x) == x.pc \in EnterPcs \/ InQueue(x)
WaitsShared(x) == x.type = "shared" /\ IsCounted(x)
WaitsExclusive(x) == x.type = "exclusive" /\ IsCounted(x)

SharedWaiters == {t \in Thread : WaitsShared(th[t])}
ExclusiveWaiters == {t \in Thread : WaitsExclusive(th[t])}

ThreadsShaped == \A t \in Thread : Shaped(th[t])

QueueRight ==
    /\ Distinct(waitingThreads)
    /\ Members(waitingThreads) = {t \in Thread : InQueue(th[t])}

MutexRight == \A t \in Thread : mutex = t <=> th[t].pc \in MutexPcs

\* Whoever grants knows the type of the first in the queue.
HeadKnown ==
    \A t \in Thread :
        /\ th[t].pc \in {"gshared", "gwake"} =>
             waitingThreads # <<>> /\ th[Head(waitingThreads)].type = "shared"
        /\ th[t].pc \in {"gexcl", "gown"} =>
             waitingThreads # <<>> /\ th[Head(waitingThreads)].type = "exclusive"

WaitersRight ==
    waiters = Cardinality(SharedWaiters) + WRITER_INCR * Cardinality(ExclusiveWaiters)

\* exclusiveThread is the thread that has the lock exclusive, or has been
\* granted it and may not know yet; only the former locks again.
IsOwner(x) == x.held = "exclusive" \/ (x.type = "exclusive" /\ x.granted)

OwnerKnown ==
    /\ \A t \in Thread : exclusiveThread = t <=> IsOwner(th[t])
    /\ monitorCount > 0 => \E t \in Thread : th[t].held = "exclusive"

\* Who has the lock: Shares and Excludes of one thread.
HasShared(x) ==
    \/ x.held = "shared"
    \/ x.type = "shared" /\ (x.pc \in {"qdone", "unlock", "ucas"} \/ x.granted)
HasExclusive(x) ==
    \/ x.held = "exclusive"
    \/ x.type = "exclusive" /\ (x.pc \in {"own", "qdone", "unlock", "ucas"} \/ x.granted)

Sharing == {t \in Thread : HasShared(th[t])}
Excluding == {t \in Thread : HasExclusive(th[t])}

AtPc(pc) == \E t \in Thread : th[t].pc = pc

\* The readers for whom grantLocks has changed lockState and whom it has not
\* woken up yet.
Owed == IF AtPc("gwake") THEN Cardinality(SharedWaiters) ELSE 0

StateRight ==
    \/ /\ lockState >= 0 /\ lockState = Cardinality(Sharing) + Owed
       /\ Excluding = {} /\ ~AtPc("gown")
    \/ /\ lockState = -1 /\ Sharing = {} /\ ~AtPc("gwake")
       /\ \/ (\E t \in Thread : Excluding = {t}) /\ ~AtPc("gown")
          \/ Excluding = {} /\ AtPc("gown")

\* A thread that will let in those who wait when the lock is free.
Wakener(x) == x.pc \in {"grant?", "gmutex", "gexcl"} \/ (x.pc = "gshared" /\ x.old >= 0)

Woken ==
    lockState = 0 /\ (waitingThreads # <<>> \/ AtPc("enqueue")) =>
        \E t \in Thread : Wakener(th[t])

Basic == /\ Typed /\ ThreadsShaped /\ QueueRight /\ MutexRight /\ HeadKnown
         /\ WaitersRight /\ OwnerKnown

IInv == Basic /\ StateRight /\ Woken

-----------------------------------------------------------------------------
(* Steps of one thread: t goes on as u. *)

Step(t, u) == th' = [th EXCEPT ![t] = u]

LEMMA StepPointwise ==
    ASSUME Typed, NEW t \in Thread, NEW u \in TH, Step(t, u)
    PROVE  /\ th'[t] = u /\ \A v \in Thread : v # t => th'[v] = th[v]
           /\ th' \in [Thread -> TH]
BY DEF Typed, Step

\* The sets that are counted are finite, and fit into half of waiters.
LEMMA CountedFinite ==
    /\ IsFiniteSet(SharedWaiters) /\ IsFiniteSet(ExclusiveWaiters)
    /\ IsFiniteSet(Sharing) /\ IsFiniteSet(Excluding)
    /\ Cardinality(SharedWaiters) \in Nat /\ Cardinality(SharedWaiters) < WRITER_INCR
    /\ Cardinality(ExclusiveWaiters) \in Nat
    /\ Cardinality(Sharing) \in Nat
<1>1. IsFiniteSet(Thread) /\ Cardinality(Thread) < WRITER_INCR
  BY SOConstants
<1>2. /\ SharedWaiters \subseteq Thread /\ ExclusiveWaiters \subseteq Thread
      /\ Sharing \subseteq Thread /\ Excluding \subseteq Thread
  BY DEF SharedWaiters, ExclusiveWaiters, Sharing, Excluding
<1>3. /\ IsFiniteSet(SharedWaiters) /\ IsFiniteSet(ExclusiveWaiters)
      /\ IsFiniteSet(Sharing) /\ IsFiniteSet(Excluding)
      /\ Cardinality(SharedWaiters) <= Cardinality(Thread)
  BY <1>1, <1>2, FS_Subset
<1>4. /\ Cardinality(SharedWaiters) \in Nat /\ Cardinality(ExclusiveWaiters) \in Nat
      /\ Cardinality(Sharing) \in Nat /\ Cardinality(Thread) \in Nat
  BY <1>1, <1>3, FS_CardinalityType
<1>5. QED
  BY <1>1, <1>3, <1>4 DEF WRITER_INCR

Weight(x) == One(WaitsShared(x)) + WRITER_INCR * One(WaitsExclusive(x))

\* waiters stays right if it changes by what the thread changes.
LEMMA WaitersStep ==
    ASSUME Typed, WaitersRight, NEW t \in Thread, NEW u \in TH, Step(t, u), waiters' \in Int,
           waiters' + Weight(th[t]) = waiters + Weight(u)
    PROVE  WaitersRight'
<1>1. th'[t] = u /\ \A v \in Thread : v # t => th'[v] = th[v]
  BY StepPointwise
<1> DEFINE a == One(WaitsShared(th[t]))
           b == One(WaitsShared(u))
           c == One(WaitsExclusive(th[t]))
           d == One(WaitsExclusive(u))
<1>2. /\ a \in {0, 1} /\ b \in {0, 1} /\ c \in {0, 1} /\ d \in {0, 1}
      /\ (WaitsShared(th[t]) <=> a = 1) /\ (WaitsShared(u) <=> b = 1)
      /\ (WaitsExclusive(th[t]) <=> c = 1) /\ (WaitsExclusive(u) <=> d = 1)
  BY DEF One
<1>3. /\ SharedWaiters' \subseteq SharedWaiters \cup {t}
      /\ SharedWaiters \subseteq SharedWaiters' \cup {t}
      /\ t \in SharedWaiters <=> WaitsShared(th[t])
      /\ t \in SharedWaiters' <=> WaitsShared(u)
  BY <1>1 DEF SharedWaiters
<1>4. /\ ExclusiveWaiters' \subseteq ExclusiveWaiters \cup {t}
      /\ ExclusiveWaiters \subseteq ExclusiveWaiters' \cup {t}
      /\ t \in ExclusiveWaiters <=> WaitsExclusive(th[t])
      /\ t \in ExclusiveWaiters' <=> WaitsExclusive(u)
  BY <1>1 DEF ExclusiveWaiters
<1>5. waiters' + (a + WRITER_INCR * c) = waiters + (b + WRITER_INCR * d)
  BY DEF Weight
<1> HIDE DEF a, b, c, d
<1>6. Cardinality(SharedWaiters') + a = Cardinality(SharedWaiters) + b /\ Cardinality(SharedWaiters') \in Nat
  BY <1>2, <1>3, CountedFinite, OneMore
<1>7. /\ Cardinality(ExclusiveWaiters') + c = Cardinality(ExclusiveWaiters) + d
      /\ Cardinality(ExclusiveWaiters') \in Nat
  BY <1>2, <1>4, CountedFinite, OneMore
<1>8. Cardinality(SharedWaiters) \in Nat /\ Cardinality(ExclusiveWaiters) \in Nat
  BY CountedFinite
<1>9. waiters = Cardinality(SharedWaiters) + WRITER_INCR * Cardinality(ExclusiveWaiters)
  BY DEF WaitersRight
<1>10. waiters' = Cardinality(SharedWaiters') + WRITER_INCR * Cardinality(ExclusiveWaiters')
  BY <1>2, <1>5, <1>6, <1>7, <1>8, <1>9 DEF WRITER_INCR
<1>11. QED
  BY <1>10 DEF WaitersRight

\* The low half of waiters is the number of readers that wait.
LEMMA LowHalf ==
    ASSUME WaitersRight
    PROVE  waiters % WRITER_INCR = Cardinality(SharedWaiters)
<1>1. \A n, m \in Nat : n < 65536 => (n + 65536 * m) % 65536 = n
  OBVIOUS
<1>2. /\ Cardinality(SharedWaiters) \in Nat /\ Cardinality(SharedWaiters) < 65536
      /\ Cardinality(ExclusiveWaiters) \in Nat
  BY CountedFinite DEF WRITER_INCR
<1>3. waiters = Cardinality(SharedWaiters) + 65536 * Cardinality(ExclusiveWaiters)
  BY DEF WaitersRight, WRITER_INCR
<1>4. QED
  BY <1>1, <1>2, <1>3 DEF WRITER_INCR

\* Zero: nobody is queued, nobody is about to be.
LEMMA NoWaiters ==
    ASSUME Basic
    PROVE  /\ waiters \in Nat
           /\ waiters = 0 => waitingThreads = <<>> /\ ~AtPc("enqueue")
<1>1. /\ Cardinality(SharedWaiters) \in Nat /\ Cardinality(ExclusiveWaiters) \in Nat
      /\ IsFiniteSet(SharedWaiters) /\ IsFiniteSet(ExclusiveWaiters)
  BY CountedFinite
<1>2. waiters = Cardinality(SharedWaiters) + WRITER_INCR * Cardinality(ExclusiveWaiters)
  BY DEF Basic, WaitersRight
<1>3. waiters \in Nat
  BY <1>1, <1>2 DEF WRITER_INCR
<1>4. ASSUME waiters = 0 PROVE waitingThreads = <<>> /\ ~AtPc("enqueue")
  <2>1. Cardinality(SharedWaiters) = 0 /\ Cardinality(ExclusiveWaiters) = 0
    BY <1>1, <1>2, <1>4 DEF WRITER_INCR
  <2>2. SharedWaiters = {} /\ ExclusiveWaiters = {}
    BY <1>1, <2>1, FS_EmptySet
  <2>3. \A t \in Thread : ~IsCounted(th[t])
    BY <2>2 DEF SharedWaiters, ExclusiveWaiters, WaitsShared, WaitsExclusive, Basic, ThreadsShaped,
                Shaped, IsCounted, InQueue, EnterPcs, WaitPcs, CallPcs, Type
  <2>4. \A t \in Thread : t \notin Members(waitingThreads) /\ th[t].pc # "enqueue"
    BY <2>3 DEF IsCounted, Basic, QueueRight, EnterPcs
  <2>5. waitingThreads = <<>>
    <3>1. waitingThreads \in Seq(Thread)
      BY DEF Basic, Typed
    <3>2. ASSUME waitingThreads # <<>> PROVE FALSE
      <4>1. 1 \in DOMAIN waitingThreads /\ waitingThreads[1] \in Thread
        BY <3>1, <3>2
      <4>2. QED
        BY <2>4, <4>1 DEF Members
    <3>3. QED
      BY <3>2
  <2>6. QED
    BY <2>4, <2>5 DEF AtPc
<1>5. QED
  BY <1>3, <1>4

\* The first in the queue.
LEMMA HeadQueued ==
    ASSUME Basic, waitingThreads # <<>>
    PROVE  /\ Head(waitingThreads) \in Thread
           /\ InQueue(th[Head(waitingThreads)])
           /\ th[Head(waitingThreads)].type \in Type
<1>1. waitingThreads \in Seq(Thread)
  BY DEF Basic, Typed
<1>2. /\ Head(waitingThreads) = waitingThreads[1] /\ 1 \in DOMAIN waitingThreads
      /\ waitingThreads[1] \in Thread
  BY <1>1
<1>3. Head(waitingThreads) \in Members(waitingThreads)
  BY <1>2 DEF Members
<1>4. Head(waitingThreads) \in Thread /\ InQueue(th[Head(waitingThreads)])
  BY <1>3 DEF Basic, QueueRight
<1>5. QED
  BY <1>4 DEF Basic, ThreadsShaped, Shaped, InQueue, CallPcs

\* Nobody else is inside the mutex.
LEMMA OutsideMutex ==
    ASSUME Basic, NEW t, mutex = t \/ mutex = NoThread
    PROVE  \A v \in Thread : v # t => th[v].pc \notin MutexPcs
<1>1. NoThread \notin Thread
  BY SOConstants
<1>2. QED
  BY <1>1 DEF Basic, MutexRight

\* The mutex is kept as it is, taken or left.
LEMMA MutexStep ==
    ASSUME Basic, NEW t \in Thread, NEW u \in TH, Step(t, u),
           \/ mutex' = mutex /\ (u.pc \in MutexPcs <=> th[t].pc \in MutexPcs)
           \/ mutex = NoThread /\ mutex' = t /\ u.pc \in MutexPcs
           \/ th[t].pc \in MutexPcs /\ mutex' = NoThread /\ u.pc \notin MutexPcs
    PROVE  MutexRight' /\ mutex' \in Thread \cup {NoThread}
<1>1. th'[t] = u /\ \A v \in Thread : v # t => th'[v] = th[v]
  BY StepPointwise DEF Basic
<1>2. NoThread \notin Thread
  BY SOConstants
<1>3. \A v \in Thread : mutex = v <=> th[v].pc \in MutexPcs
  BY DEF Basic, MutexRight
<1>4. mutex \in Thread \cup {NoThread}
  BY DEF Basic, Typed
<1>5. ASSUME NEW v \in Thread
      PROVE  mutex' = v <=> th'[v].pc \in MutexPcs
  BY <1>1, <1>2, <1>3, <1>5
<1>6. QED
  BY <1>4, <1>5 DEF MutexRight

\* What the thread is for the queue and for waiters.
SameWait(x, u) ==
    /\ InQueue(u) <=> InQueue(x)
    /\ WaitsShared(u) <=> WaitsShared(x)
    /\ WaitsExclusive(u) <=> WaitsExclusive(x)

KnowsHead(u) ==
    /\ u.pc \in {"gshared", "gwake"} =>
         waitingThreads # <<>> /\ th[Head(waitingThreads)].type = "shared"
    /\ u.pc \in {"gexcl", "gown"} =>
         waitingThreads # <<>> /\ th[Head(waitingThreads)].type = "exclusive"

\* The queue is left alone, by the thread too.
LEMMA QueueStep ==
    ASSUME Basic, NEW t \in Thread, NEW u \in TH, Step(t, u), SameWait(th[t], u), KnowsHead(u),
           waitingThreads' = waitingThreads
    PROVE  QueueRight' /\ HeadKnown'
<1>1. th'[t] = u /\ \A v \in Thread : v # t => th'[v] = th[v]
  BY StepPointwise DEF Basic
<1>2. QueueRight'
  BY <1>1 DEF Basic, QueueRight, SameWait
<1>3. waitingThreads # <<>> => th'[Head(waitingThreads)].type = th[Head(waitingThreads)].type
  <2> SUFFICES ASSUME waitingThreads # <<>>
               PROVE  th'[Head(waitingThreads)].type = th[Head(waitingThreads)].type
    OBVIOUS
  <2> DEFINE h == Head(waitingThreads)
  <2>1. h \in Thread /\ InQueue(th[h]) /\ th[h].type \in Type
    BY HeadQueued
  <2> HIDE DEF h
  <2>2. CASE h = t
    <3>1. IsCounted(th[t])
      BY <2>1, <2>2 DEF IsCounted
    <3>2. u.type = th[t].type
      BY <2>1, <2>2, <3>1 DEF SameWait, WaitsShared, WaitsExclusive, Type
    <3>3. QED
      BY <1>1, <2>2, <3>2 DEF h
  <2>3. CASE h # t
    BY <1>1, <2>1, <2>3 DEF h
  <2>4. QED
    BY <2>2, <2>3
<1>4. \A v \in Thread : KnowsHead(th'[v])
  BY <1>1 DEF Basic, HeadKnown, KnowsHead
<1>5. HeadKnown'
  BY <1>3, <1>4 DEF HeadKnown, KnowsHead
<1>6. QED
  BY <1>2, <1>5

\* exclusiveThread is kept, set by a thread that finds none, or reset by the
\* thread it is or while there is none.
LEMMA OwnerStep ==
    ASSUME Basic, NEW t \in Thread, NEW u \in TH, Step(t, u), monitorCount' = monitorCount,
           \/ /\ exclusiveThread' = exclusiveThread /\ (IsOwner(u) <=> IsOwner(th[t]))
              /\ th[t].held = "exclusive" => u.held = "exclusive"
           \/ exclusiveThread = NoThread /\ exclusiveThread' = t /\ IsOwner(u)
           \/ /\ exclusiveThread \in {t, NoThread} /\ exclusiveThread' = NoThread /\ ~IsOwner(u)
              /\ monitorCount = 0
    PROVE  OwnerKnown' /\ exclusiveThread' \in Thread \cup {NoThread}
<1>1. th'[t] = u /\ \A v \in Thread : v # t => th'[v] = th[v]
  BY StepPointwise DEF Basic
<1>2. NoThread \notin Thread
  BY SOConstants
<1>3. /\ \A v \in Thread : exclusiveThread = v <=> IsOwner(th[v])
      /\ exclusiveThread \in Thread \cup {NoThread}
      /\ monitorCount > 0 => \E v \in Thread : th[v].held = "exclusive"
      /\ monitorCount \in Nat
  BY SOConstants DEF Basic, OwnerKnown, Typed
<1>4. \A v \in Thread : exclusiveThread' = v <=> IsOwner(th'[v])
  BY <1>1, <1>2, <1>3
<1>5. monitorCount > 0 => \E v \in Thread : th'[v].held = "exclusive"
  <2> SUFFICES ASSUME monitorCount > 0 PROVE \E v \in Thread : th'[v].held = "exclusive"
    OBVIOUS
  <2>1. PICK v \in Thread : th[v].held = "exclusive"
    BY <1>3
  <2>2. exclusiveThread = v
    BY <1>3, <2>1 DEF IsOwner
  <2>3. monitorCount # 0
    BY <1>3
  <2>4. QED
    BY <1>1, <1>2, <2>1, <2>2, <2>3
<1>6. QED
  BY <1>3, <1>4, <1>5 DEF OwnerKnown

\* A step that changes nothing but the thread, and lockState perhaps.
LEMMA BasicKept ==
    ASSUME Basic, NEW t \in Thread, NEW u \in TH, Step(t, u), Shaped(u), SameWait(th[t], u),
           u.pc \in MutexPcs <=> th[t].pc \in MutexPcs,
           KnowsHead(u),
           IsOwner(u) <=> IsOwner(th[t]), th[t].held = "exclusive" => u.held = "exclusive",
           lockState' \in Int, waiters' = waiters, monitorCount' = monitorCount,
           exclusiveThread' = exclusiveThread, waitingThreads' = waitingThreads, mutex' = mutex
    PROVE  Basic'
<1>1. th'[t] = u /\ (\A v \in Thread : v # t => th'[v] = th[v]) /\ th' \in [Thread -> TH]
  BY StepPointwise DEF Basic
<1>2. Typed'
  BY <1>1 DEF Basic, Typed
<1>3. ThreadsShaped'
  BY <1>1 DEF Basic, ThreadsShaped
<1>4. MutexRight'
  BY MutexStep
<1>5. QueueRight' /\ HeadKnown'
  BY QueueStep
<1>6. OwnerKnown'
  BY OwnerStep
<1>7. WaitersRight'
  <2>1. Weight(u) = Weight(th[t]) /\ Weight(u) \in Int /\ waiters \in Int
    BY DEF Weight, SameWait, One, Basic, Typed, WRITER_INCR
  <2>2. QED
    BY <2>1, WaitersStep DEF Basic
<1>8. QED
  BY <1>2, <1>3, <1>4, <1>5, <1>6, <1>7 DEF Basic

-----------------------------------------------------------------------------
(* lockState. *)

\* How the sets of those who have the lock change.
LEMMA HasStep ==
    ASSUME Typed, NEW t \in Thread, NEW u \in TH, Step(t, u)
    PROVE  /\ Cardinality(Sharing') + One(HasShared(th[t])) = Cardinality(Sharing) + One(HasShared(u))
           /\ Cardinality(Sharing') \in Nat
           /\ Sharing' \ {t} = Sharing \ {t} /\ (t \in Sharing' <=> HasShared(u))
           /\ Excluding' \ {t} = Excluding \ {t} /\ (t \in Excluding' <=> HasExclusive(u))
<1>1. th'[t] = u /\ \A v \in Thread : v # t => th'[v] = th[v]
  BY StepPointwise
<1>2. /\ Sharing' \ {t} = Sharing \ {t} /\ (t \in Sharing' <=> HasShared(u))
      /\ t \in Sharing <=> HasShared(th[t])
      /\ Sharing' \subseteq Sharing \cup {t} /\ Sharing \subseteq Sharing' \cup {t}
  BY <1>1 DEF Sharing
<1>3. Excluding' \ {t} = Excluding \ {t} /\ (t \in Excluding' <=> HasExclusive(u))
  BY <1>1 DEF Excluding
<1> DEFINE a == One(HasShared(th[t]))
           b == One(HasShared(u))
<1>4. a \in {0, 1} /\ b \in {0, 1} /\ (HasShared(th[t]) <=> a = 1) /\ (HasShared(u) <=> b = 1)
  BY DEF One
<1> HIDE DEF a, b
<1>5. Cardinality(Sharing') + a = Cardinality(Sharing) + b /\ Cardinality(Sharing') \in Nat
  BY <1>2, <1>4, CountedFinite, OneMore
<1>6. QED
  BY <1>2, <1>3, <1>5 DEF a, b

\* Nobody begins or ends the last part of a grant.
SameGrant(x, u) == (u.pc = "gwake" <=> x.pc = "gwake") /\ (u.pc = "gown" <=> x.pc = "gown")

\* The readers that have been promised the lock.
LEMMA OwedStep ==
    ASSUME Typed, NEW t \in Thread, NEW u \in TH, Step(t, u), SameGrant(th[t], u),
           ~AtPc("gwake") \/ (WaitsShared(u) <=> WaitsShared(th[t]))
    PROVE  /\ AtPc("gwake")' <=> AtPc("gwake")
           /\ AtPc("gown")' <=> AtPc("gown")
           /\ Owed' = Owed /\ Owed \in Nat
<1>1. th'[t] = u /\ \A v \in Thread : v # t => th'[v] = th[v]
  BY StepPointwise
<1>2. (AtPc("gwake")' <=> AtPc("gwake")) /\ (AtPc("gown")' <=> AtPc("gown"))
  BY <1>1 DEF AtPc, SameGrant
<1>3. ~AtPc("gwake") \/ SharedWaiters' = SharedWaiters
  BY <1>1 DEF SharedWaiters
<1>4. Owed' = Owed
  <2>1. CASE AtPc("gwake")
    BY <1>2, <1>3, <2>1 DEF Owed
  <2>2. CASE ~AtPc("gwake")
    BY <1>2, <2>2 DEF Owed
  <2>3. QED
    BY <2>1, <2>2
<1>5. Owed \in Nat
  BY CountedFinite DEF Owed
<1>6. QED
  BY <1>2, <1>4, <1>5

\* There are such readers whenever the first of the queue is one.
LEMMA ReadersWait ==
    ASSUME Basic, waitingThreads # <<>>, th[Head(waitingThreads)].type = "shared"
    PROVE  Cardinality(SharedWaiters) > 0
<1>1. Head(waitingThreads) \in Thread /\ InQueue(th[Head(waitingThreads)])
  BY HeadQueued
<1>2. Head(waitingThreads) \in SharedWaiters
  BY <1>1 DEF SharedWaiters, WaitsShared, IsCounted
<1>3. Cardinality(SharedWaiters) # 0 /\ Cardinality(SharedWaiters) \in Nat
  BY <1>2, CountedFinite, FS_EmptySet
<1>4. QED
  BY <1>3

LEMMA OwedPositive ==
    ASSUME Basic, AtPc("gwake")
    PROVE  Owed > 0
<1>1. PICK t \in Thread : th[t].pc = "gwake"
  BY DEF AtPc
<1>2. waitingThreads # <<>> /\ th[Head(waitingThreads)].type = "shared"
  BY <1>1 DEF Basic, HeadKnown
<1>3. QED
  BY <1>2, ReadersWait DEF Owed

LEMMA StateSame ==
    ASSUME Typed, StateRight, NEW t \in Thread, NEW u \in TH, Step(t, u), SameGrant(th[t], u),
           ~AtPc("gwake") \/ (WaitsShared(u) <=> WaitsShared(th[t])),
           HasShared(u) <=> HasShared(th[t]), HasExclusive(u) <=> HasExclusive(th[t]),
           lockState' = lockState
    PROVE  StateRight'
<1>1. th'[t] = u /\ \A v \in Thread : v # t => th'[v] = th[v]
  BY StepPointwise
<1>2. Sharing' = Sharing /\ Excluding' = Excluding
  BY <1>1 DEF Sharing, Excluding
<1>3. (AtPc("gwake")' <=> AtPc("gwake")) /\ (AtPc("gown")' <=> AtPc("gown")) /\ Owed' = Owed
  BY OwedStep
<1>4. QED
  BY <1>2, <1>3 DEF StateRight

\* A reader more.
LEMMA StateShared ==
    ASSUME Typed, StateRight, NEW t \in Thread, NEW u \in TH, Step(t, u), SameGrant(th[t], u),
           WaitsShared(u) <=> WaitsShared(th[t]),
           ~HasShared(th[t]), HasShared(u), ~HasExclusive(u),
           lockState >= 0, lockState' = lockState + 1
    PROVE  StateRight'
<1>1. /\ Cardinality(Sharing') + One(HasShared(th[t])) = Cardinality(Sharing) + One(HasShared(u))
      /\ Excluding' \ {t} = Excluding \ {t} /\ (t \in Excluding' <=> HasExclusive(u))
      /\ Cardinality(Sharing') \in Nat
  BY HasStep
<1>2. Cardinality(Sharing') = Cardinality(Sharing) + 1
  BY <1>1, CountedFinite DEF One
<1>3. (AtPc("gown")' <=> AtPc("gown")) /\ Owed' = Owed /\ Owed \in Nat
  BY OwedStep
<1>4. lockState = Cardinality(Sharing) + Owed /\ Excluding = {} /\ ~AtPc("gown")
  BY DEF StateRight
<1>5. Excluding' = {}
  BY <1>1, <1>4
<1>6. lockState' >= 0 /\ lockState' = Cardinality(Sharing') + Owed'
  BY <1>2, <1>3, <1>4, CountedFinite
<1>7. QED
  BY <1>3, <1>4, <1>5, <1>6 DEF StateRight

\* A free lock is taken.
LEMMA StateExclusive ==
    ASSUME Basic, StateRight, NEW t \in Thread, NEW u \in TH, Step(t, u), SameGrant(th[t], u),
           WaitsShared(u) <=> WaitsShared(th[t]),
           ~HasShared(u), HasExclusive(u),
           lockState = 0, lockState' = -1
    PROVE  StateRight'
<1>1. /\ Sharing' \ {t} = Sharing \ {t} /\ (t \in Sharing' <=> HasShared(u))
      /\ Excluding' \ {t} = Excluding \ {t} /\ (t \in Excluding' <=> HasExclusive(u))
  BY HasStep DEF Basic
<1>2. (AtPc("gwake")' <=> AtPc("gwake")) /\ (AtPc("gown")' <=> AtPc("gown")) /\ Owed \in Nat
  BY OwedStep DEF Basic
<1>3. 0 = Cardinality(Sharing) + Owed /\ Excluding = {} /\ ~AtPc("gown")
  BY DEF StateRight
<1>4. Cardinality(Sharing) = 0 /\ Owed = 0
  BY <1>2, <1>3, CountedFinite
<1>5. Sharing = {} /\ ~AtPc("gwake")
  BY <1>4, CountedFinite, FS_EmptySet, OwedPositive
<1>6. Sharing' = {} /\ Excluding' = {t}
  BY <1>1, <1>3, <1>5
<1>7. QED
  BY <1>2, <1>3, <1>5, <1>6 DEF StateRight

\* A reader less.
LEMMA StateUnshared ==
    ASSUME Typed, StateRight, NEW t \in Thread, NEW u \in TH, Step(t, u), SameGrant(th[t], u),
           WaitsShared(u) <=> WaitsShared(th[t]),
           HasShared(th[t]), ~HasShared(u), ~HasExclusive(u), lockState' = lockState - 1
    PROVE  StateRight' /\ lockState > 0
<1>1. /\ Cardinality(Sharing') + One(HasShared(th[t])) = Cardinality(Sharing) + One(HasShared(u))
      /\ Excluding' \ {t} = Excluding \ {t} /\ (t \in Excluding' <=> HasExclusive(u))
      /\ Cardinality(Sharing') \in Nat
  BY HasStep
<1>2. Cardinality(Sharing) = Cardinality(Sharing') + 1
  BY <1>1, CountedFinite DEF One
<1>3. (AtPc("gown")' <=> AtPc("gown")) /\ Owed' = Owed /\ Owed \in Nat
  BY OwedStep
<1>4. t \in Sharing
  BY DEF Sharing
<1>5. lockState = Cardinality(Sharing) + Owed /\ Excluding = {} /\ ~AtPc("gown")
  BY <1>4 DEF StateRight
<1>6. Excluding' = {}
  BY <1>1, <1>5
<1>7. lockState' >= 0 /\ lockState' = Cardinality(Sharing') + Owed' /\ lockState > 0
  BY <1>1, <1>2, <1>3, <1>5
<1>8. QED
  BY <1>3, <1>5, <1>6, <1>7 DEF StateRight

\* The exclusive thread, and what it leaves: a free lock, or one it shares.
LEMMA StateLeft ==
    ASSUME Typed, StateRight, NEW t \in Thread, NEW u \in TH, Step(t, u), SameGrant(th[t], u),
           WaitsShared(u) <=> WaitsShared(th[t]),
           HasExclusive(th[t]), ~HasExclusive(u), lockState' = One(HasShared(u))
    PROVE  StateRight' /\ lockState = -1 /\ Excluding = {t}
<1>1. /\ Cardinality(Sharing') + One(HasShared(th[t])) = Cardinality(Sharing) + One(HasShared(u))
      /\ Excluding' \ {t} = Excluding \ {t} /\ (t \in Excluding' <=> HasExclusive(u))
      /\ Cardinality(Sharing') \in Nat
  BY HasStep
<1>2. (AtPc("gwake")' <=> AtPc("gwake")) /\ (AtPc("gown")' <=> AtPc("gown"))
  BY OwedStep
<1>3. t \in Excluding
  BY DEF Excluding
<1>4. lockState = -1 /\ Sharing = {} /\ ~AtPc("gwake") /\ ~AtPc("gown") /\ Excluding = {t}
  BY <1>3 DEF StateRight
<1>5. Excluding' = {}
  BY <1>1, <1>4
<1>6. ~HasShared(th[t]) /\ Cardinality(Sharing) = 0
  BY <1>4, FS_EmptySet DEF Sharing
<1>7. Cardinality(Sharing') = One(HasShared(u)) /\ One(HasShared(u)) \in {0, 1}
  BY <1>1, <1>6 DEF One
<1>8. Owed' = 0
  BY <1>2, <1>4 DEF Owed
<1>9. lockState' >= 0 /\ lockState' = Cardinality(Sharing') + Owed'
  BY <1>7, <1>8
<1>10. QED
  BY <1>2, <1>4, <1>5, <1>9 DEF StateRight

-----------------------------------------------------------------------------
(* Wakeups. *)

\* Somebody still grants, or there is nothing to grant.
LEMMA WokenStep ==
    ASSUME Basic, Woken, NEW t \in Thread, NEW u \in TH, Step(t, u),
           lockState' = 0 => lockState = 0 \/ Wakener(u),
           waitingThreads' # <<>> => waitingThreads # <<>> \/ th[t].pc = "enqueue",
           u.pc = "enqueue" => lockState' # 0 \/ waitingThreads # <<>> \/ th[t].pc = "enqueue",
           \/ Wakener(th[t]) => Wakener(u)
           \/ lockState' # 0
           \/ waitingThreads' = <<>> /\ ~AtPc("enqueue") /\ u.pc # "enqueue"
    PROVE  Woken'
<1>1. th'[t] = u /\ \A v \in Thread : v # t => th'[v] = th[v]
  BY StepPointwise DEF Basic
<1> SUFFICES ASSUME lockState' = 0, waitingThreads' # <<>> \/ AtPc("enqueue")'
             PROVE  \E v \in Thread : Wakener(th'[v])
  BY DEF Woken
<1>2. CASE Wakener(u)
  BY <1>1, <1>2
<1>3. CASE ~Wakener(u)
  <2>1. AtPc("enqueue")' => AtPc("enqueue") \/ u.pc = "enqueue"
    BY <1>1 DEF AtPc
  <2>2. th[t].pc = "enqueue" => AtPc("enqueue")
    BY DEF AtPc
  <2>3. lockState = 0 /\ (waitingThreads # <<>> \/ AtPc("enqueue"))
    BY <1>3, <2>1, <2>2
  <2>4. PICK v \in Thread : Wakener(th[v])
    BY <2>3 DEF Woken
  <2>5. v # t
    BY <1>3, <2>1, <2>4
  <2>6. QED
    BY <1>1, <2>4, <2>5
<1>4. QED
  BY <1>2, <1>3

\* A step that changes nothing but the thread.
LEMMA PureKeeps ==
    ASSUME IInv, NEW t \in Thread, NEW u \in TH, Step(t, u), Shaped(u), SameWait(th[t], u),
           u.pc \in MutexPcs <=> th[t].pc \in MutexPcs,
           KnowsHead(u), SameGrant(th[t], u),
           IsOwner(u) <=> IsOwner(th[t]), th[t].held = "exclusive" => u.held = "exclusive",
           HasShared(u) <=> HasShared(th[t]), HasExclusive(u) <=> HasExclusive(th[t]),
           u.pc = "enqueue" => lockState # 0 \/ waitingThreads # <<>> \/ th[t].pc = "enqueue",
           \/ Wakener(th[t]) => Wakener(u)
           \/ lockState # 0
           \/ waitingThreads = <<>> /\ ~AtPc("enqueue") /\ u.pc # "enqueue",
           lockState' = lockState, waiters' = waiters, monitorCount' = monitorCount,
           exclusiveThread' = exclusiveThread, waitingThreads' = waitingThreads, mutex' = mutex
    PROVE  IInv'
<1>1. Basic'
  BY BasicKept DEF IInv, Basic, Typed
<1>2. StateRight'
  BY StateSame DEF IInv, Basic, SameWait
<1>3. Woken'
  BY WokenStep DEF IInv
<1>4. QED
  BY <1>1, <1>2, <1>3 DEF IInv

-----------------------------------------------------------------------------
(* Steps that read. *)

\* Places that are the same for the queue, the mutex and the lock.
SamePlace(a, b) ==
    /\ \A K \in {WaitPcs, EnterPcs, MutexPcs, {"unlock", "ucas"}, {"own"}, {"qdone"},
                 {"gwake"}, {"gown"}, {"gshared", "gwake"}, {"gexcl", "gown"}} : a \in K <=> b \in K

\* The thread goes on within its call.
LEMMA GoesKeeps ==
    ASSUME IInv, NEW t \in Thread, NEW u \in TH, Step(t, u), Shaped(u),
           u.type = th[t].type, u.held = th[t].held, u.granted = th[t].granted,
           SamePlace(th[t].pc, u.pc),
           u.pc = "enqueue" => lockState # 0 \/ waitingThreads # <<>> \/ th[t].pc = "enqueue",
           \/ Wakener(th[t]) => Wakener(u)
           \/ lockState # 0
           \/ waitingThreads = <<>> /\ ~AtPc("enqueue") /\ u.pc # "enqueue",
           lockState' = lockState, waiters' = waiters, monitorCount' = monitorCount,
           exclusiveThread' = exclusiveThread, waitingThreads' = waitingThreads, mutex' = mutex
    PROVE  IInv'
<1>1. /\ u.pc \in WaitPcs <=> th[t].pc \in WaitPcs
      /\ u.pc \in EnterPcs <=> th[t].pc \in EnterPcs
      /\ u.pc \in MutexPcs <=> th[t].pc \in MutexPcs
      /\ u.pc \in {"unlock", "ucas"} <=> th[t].pc \in {"unlock", "ucas"}
      /\ u.pc = "own" <=> th[t].pc = "own"
      /\ u.pc = "qdone" <=> th[t].pc = "qdone"
      /\ u.pc = "gwake" <=> th[t].pc = "gwake"
      /\ u.pc = "gown" <=> th[t].pc = "gown"
      /\ u.pc \in {"gshared", "gwake"} <=> th[t].pc \in {"gshared", "gwake"}
      /\ u.pc \in {"gexcl", "gown"} <=> th[t].pc \in {"gexcl", "gown"}
  BY DEF SamePlace
<1>2. SameWait(th[t], u)
  BY <1>1 DEF SameWait, InQueue, WaitsShared, WaitsExclusive, IsCounted
<1>3. KnowsHead(u)
  BY <1>1 DEF KnowsHead, IInv, Basic, HeadKnown
<1>4. SameGrant(th[t], u)
  BY <1>1 DEF SameGrant
<1>5. IsOwner(u) <=> IsOwner(th[t])
  BY DEF IsOwner
<1>6. (HasShared(u) <=> HasShared(th[t])) /\ (HasExclusive(u) <=> HasExclusive(th[t]))
  BY <1>1 DEF HasShared, HasExclusive
<1>7. QED
  BY <1>1, <1>2, <1>3, <1>4, <1>5, <1>6, PureKeeps

\* What is left of a thread whose call ends with the lock held as h.
Ended(t, h) == [NewThread EXCEPT !.held = h, !.wakeup = th[t].wakeup]

LEMMA EndedIs ==
    ASSUME Typed, NEW t \in Thread, NEW h \in Type \cup {"none"}
    PROVE  /\ Ended(t, h) \in TH /\ Shaped(Ended(t, h))
           /\ Ended(t, h).pc = "idle" /\ Ended(t, h).held = h /\ Ended(t, h).type = "none"
           /\ Ended(t, h).granted = FALSE
<1>1. th[t].wakeup \in BOOLEAN
  BY DEF Typed, TH
<1>2. /\ NewThread \in TH /\ NewThread.pc = "idle" /\ NewThread.type = "none"
      /\ NewThread.granted = FALSE
  BY DEF NewThread, TH, PcSet
<1>3. Ended(t, h) \in TH
  BY <1>1, <1>2 DEF Ended, TH
<1>4. /\ Ended(t, h).pc = "idle" /\ Ended(t, h).held = h /\ Ended(t, h).type = "none"
      /\ Ended(t, h).granted = FALSE
  BY <1>1, <1>2 DEF Ended, TH
<1>5. QED
  BY <1>3, <1>4 DEF Shaped, CallPcs, EnterPcs, WaitPcs

\* The same, as far as it matters to anybody else.
LEMMA EndedCounts ==
    ASSUME Typed, NEW t \in Thread, NEW h \in Type \cup {"none"}, NEW u, u = Ended(t, h)
    PROVE  /\ ~InQueue(u) /\ ~WaitsShared(u) /\ ~WaitsExclusive(u) /\ ~Wakener(u)
           /\ u.pc \notin MutexPcs /\ KnowsHead(u) /\ u.pc # "enqueue"
           /\ u.pc # "gwake" /\ u.pc # "gown"
           /\ IsOwner(u) <=> h = "exclusive"
           /\ HasShared(u) <=> h = "shared"
           /\ HasExclusive(u) <=> h = "exclusive"
<1>1. u.pc = "idle" /\ u.held = h /\ u.type = "none" /\ u.granted = FALSE
  BY EndedIs
<1>2. QED
  BY <1>1 DEF InQueue, WaitsShared, WaitsExclusive, IsCounted, Wakener, MutexPcs, EnterPcs, WaitPcs,
              KnowsHead, IsOwner, HasShared, HasExclusive

\* The call ends and leaves everything else as it is.
LEMMA EndsKeeps ==
    ASSUME IInv, NEW t \in Thread, NEW h \in Type \cup {"none"}, Ends(t, h),
           th[t].pc \notin MutexPcs, ~InQueue(th[t]),
           h = "shared" <=> HasShared(th[t]), h = "exclusive" <=> HasExclusive(th[t]),
           IsOwner(th[t]) <=> HasExclusive(th[t]),
           ~Wakener(th[t]) \/ (waitingThreads = <<>> /\ ~AtPc("enqueue")),
           lockState' = lockState, waiters' = waiters, monitorCount' = monitorCount,
           exclusiveThread' = exclusiveThread, waitingThreads' = waitingThreads, mutex' = mutex
    PROVE  IInv'
<1> DEFINE u == Ended(t, h)
<1>0. Typed /\ u \in TH /\ Shaped(u) /\ u.held = h
  BY EndedIs DEF IInv, Basic
<1>1. /\ u \in TH /\ Shaped(u) /\ u.held = h
      /\ ~InQueue(u) /\ ~WaitsShared(u) /\ ~WaitsExclusive(u) /\ ~Wakener(u)
      /\ u.pc \notin MutexPcs /\ KnowsHead(u) /\ u.pc # "enqueue"
      /\ u.pc # "gwake" /\ u.pc # "gown"
      /\ IsOwner(u) <=> h = "exclusive"
      /\ HasShared(u) <=> h = "shared"
      /\ HasExclusive(u) <=> h = "exclusive"
  BY <1>0, EndedCounts
<1>2. Step(t, u)
  BY DEF Step, Ends, Ended
<1> HIDE DEF u
<1>3. SameWait(th[t], u)
  BY <1>1 DEF SameWait, InQueue, WaitsShared, WaitsExclusive, IsCounted, MutexPcs
<1>4. SameGrant(th[t], u)
  BY <1>1 DEF SameGrant, MutexPcs
<1>5. th[t].held = "exclusive" => u.held = "exclusive"
  BY <1>1 DEF HasExclusive
<1>6. QED
  BY <1>1, <1>2, <1>3, <1>4, <1>5, PureKeeps

LEMMA ThreadFacts ==
    ASSUME IInv, NEW t \in Thread
    PROVE  /\ th[t] \in TH /\ Shaped(th[t]) /\ th \in [Thread -> TH] /\ Typed
           /\ lockState \in Int
BY DEF IInv, Basic, Typed, ThreadsShaped

\* The thread at another place, with another copy of lockState.
Moved(x, pc, o) == [x EXCEPT !.pc = pc, !.old = o]

LEMMA MovedIs ==
    ASSUME NEW x \in TH, NEW pc \in PcSet, NEW o \in Int
    PROVE  /\ Moved(x, pc, o) \in TH
           /\ Moved(x, pc, o).pc = pc /\ Moved(x, pc, o).old = o
           /\ Moved(x, pc, o).type = x.type /\ Moved(x, pc, o).held = x.held
           /\ Moved(x, pc, o).granted = x.granted /\ Moved(x, pc, o).timeOut = x.timeOut
BY DEF Moved, TH

LEMMA GoesIs ==
    ASSUME IInv, NEW t \in Thread, NEW pc \in PcSet, Goes(t, pc)
    PROVE  /\ Step(t, Moved(th[t], pc, 0)) /\ Moved(th[t], pc, 0) \in TH
           /\ Moved(th[t], pc, 0).pc = pc
           /\ Moved(th[t], pc, 0).type = th[t].type /\ Moved(th[t], pc, 0).held = th[t].held
           /\ Moved(th[t], pc, 0).granted = th[t].granted
<1>1. th[t] \in TH /\ th \in [Thread -> TH]
  BY ThreadFacts
<1>2. Step(t, Moved(th[t], pc, 0))
  BY <1>1 DEF Goes, Step, Moved
<1>3. 0 \in Int
  OBVIOUS
<1>4. QED
  BY <1>1, <1>2, <1>3, MovedIs

\* A thread that is nowhere others look at goes on to such a place.
LEMMA TestWaitersKeeps ==
    ASSUME IInv, NEW t \in Thread, TestWaiters(t)
    PROVE  IInv'
<1>1. th[t] \in TH /\ Shaped(th[t]) /\ th[t].pc = "waiters"
  BY ThreadFacts DEF TestWaiters
<1>2. PICK pc \in {"test", "slow"} : Goes(t, pc)
  BY DEF TestWaiters
<1> DEFINE u == Moved(th[t], pc, 0)
<1>3. pc \in PcSet
  BY <1>2 DEF PcSet
<1>4. /\ Step(t, u) /\ u \in TH /\ u.pc = pc /\ u.type = th[t].type /\ u.held = th[t].held
      /\ u.granted = th[t].granted
  BY <1>2, <1>3, GoesIs
<1> HIDE DEF u
<1>5. Shaped(u) /\ SamePlace(th[t].pc, u.pc)
  BY <1>1, <1>2, <1>4 DEF Shaped, SamePlace, CallPcs, EnterPcs, WaitPcs, MutexPcs
<1>6. ~Wakener(th[t]) /\ u.pc # "enqueue"
  BY <1>1, <1>2, <1>4 DEF Wakener
<1>7. QED
  BY <1>4, <1>5, <1>6, GoesKeeps DEF TestWaiters

LEMMA TestStateKeeps ==
    ASSUME IInv, NEW t \in Thread, TestState(t)
    PROVE  IInv'
<1>1. /\ th[t] \in TH /\ Shaped(th[t]) /\ th[t].pc = "test" /\ lockState \in Int
      /\ th \in [Thread -> TH] /\ "cas" \in PcSet /\ "slow" \in PcSet
  BY ThreadFacts DEF TestState, PcSet
<1>2. \E u \in TH : /\ Step(t, u) /\ u.pc \in {"cas", "slow"} /\ u.type = th[t].type
                    /\ u.held = th[t].held /\ u.granted = th[t].granted
                    /\ u.pc = "cas" => Free(u.type, u.old)
  <2>1. CASE Free(th[t].type, lockState)
    <3> DEFINE u == Moved(th[t], "cas", lockState)
    <3>1. Step(t, u)
      BY <1>1, <2>1 DEF TestState, Step, Moved
    <3>2. /\ u \in TH /\ u.pc = "cas" /\ u.type = th[t].type /\ u.held = th[t].held
          /\ u.granted = th[t].granted /\ u.old = lockState
      BY <1>1, MovedIs
    <3> HIDE DEF u
    <3>3. QED
      BY <2>1, <3>1, <3>2
  <2>2. CASE ~Free(th[t].type, lockState)
    <3>1. Goes(t, "slow")
      BY <2>2 DEF TestState
    <3>2. QED
      BY <1>1, <3>1, GoesIs
  <2>3. QED
    BY <2>1, <2>2
<1>3. PICK u \in TH : /\ Step(t, u) /\ u.pc \in {"cas", "slow"} /\ u.type = th[t].type
                      /\ u.held = th[t].held /\ u.granted = th[t].granted
                      /\ u.pc = "cas" => Free(u.type, u.old)
  BY <1>2
<1>4. Shaped(u) /\ SamePlace(th[t].pc, u.pc)
  BY <1>1, <1>3 DEF Shaped, SamePlace, CallPcs, EnterPcs, WaitPcs, MutexPcs
<1>5. ~Wakener(th[t]) /\ u.pc # "enqueue"
  BY <1>1, <1>3 DEF Wakener
<1>6. QED
  BY <1>3, <1>4, <1>5, GoesKeeps DEF TestState

\* The loop under the mutex: a thread goes on to wait only if the lock is not
\* free or others wait already.
LEMMA TestQueueKeeps ==
    ASSUME IInv, NEW t \in Thread, TestQueue(t)
    PROVE  IInv'
<1>1. /\ th[t] \in TH /\ Shaped(th[t]) /\ th[t].pc = "queue?" /\ lockState \in Int
      /\ th \in [Thread -> TH] /\ "qcas" \in PcSet /\ "enqueue" \in PcSet
  BY ThreadFacts DEF TestQueue, PcSet
<1>2. \E u \in TH : /\ Step(t, u) /\ u.pc \in {"qcas", "enqueue"} /\ u.type = th[t].type
                    /\ u.held = th[t].held /\ u.granted = th[t].granted
                    /\ u.pc = "qcas" => Free(u.type, u.old)
                    /\ u.pc = "enqueue" => waitingThreads # <<>> \/ lockState # 0
  <2>1. CASE waitingThreads = <<>> /\ Free(th[t].type, lockState)
    <3> DEFINE u == Moved(th[t], "qcas", lockState)
    <3>1. Step(t, u)
      BY <1>1, <2>1 DEF TestQueue, Step, Moved
    <3>2. /\ u \in TH /\ u.pc = "qcas" /\ u.type = th[t].type /\ u.held = th[t].held
          /\ u.granted = th[t].granted /\ u.old = lockState
      BY <1>1, MovedIs
    <3> HIDE DEF u
    <3>3. QED
      BY <2>1, <3>1, <3>2
  <2>2. CASE ~(waitingThreads = <<>> /\ Free(th[t].type, lockState))
    <3>1. Goes(t, "enqueue")
      BY <2>2 DEF TestQueue
    <3>2. waitingThreads # <<>> \/ lockState # 0
      BY <2>2 DEF Free
    <3>3. QED
      BY <1>1, <3>1, <3>2, GoesIs
  <2>3. QED
    BY <2>1, <2>2
<1>3. PICK u \in TH : /\ Step(t, u) /\ u.pc \in {"qcas", "enqueue"} /\ u.type = th[t].type
                      /\ u.held = th[t].held /\ u.granted = th[t].granted
                      /\ u.pc = "qcas" => Free(u.type, u.old)
                      /\ u.pc = "enqueue" => waitingThreads # <<>> \/ lockState # 0
  BY <1>2
<1>4. Shaped(u) /\ SamePlace(th[t].pc, u.pc)
  BY <1>1, <1>3 DEF Shaped, SamePlace, CallPcs, EnterPcs, WaitPcs, MutexPcs
<1>5. ~Wakener(th[t])
  BY <1>1 DEF Wakener
<1>6. QED
  BY <1>3, <1>4, <1>5, GoesKeeps DEF TestQueue

\* A compareExchange that fails.
LEMMA RetryKeeps ==
    ASSUME IInv, NEW t \in Thread, NEW pc \in PcSet, Goes(t, pc),
           \/ th[t].pc = "cas" /\ pc \in {"test", "waiters"}
           \/ th[t].pc = "qcas" /\ pc = "queue?"
           \/ th[t].pc = "ucas" /\ pc = "unlock",
           lockState' = lockState, waiters' = waiters, monitorCount' = monitorCount,
           exclusiveThread' = exclusiveThread, waitingThreads' = waitingThreads, mutex' = mutex
    PROVE  IInv'
<1> DEFINE u == Moved(th[t], pc, 0)
<1>1. th[t] \in TH /\ Shaped(th[t])
  BY ThreadFacts
<1>2. /\ Step(t, u) /\ u \in TH /\ u.pc = pc /\ u.type = th[t].type /\ u.held = th[t].held
      /\ u.granted = th[t].granted
  BY GoesIs
<1> HIDE DEF u
<1>3. Shaped(u) /\ SamePlace(th[t].pc, u.pc)
  BY <1>1, <1>2 DEF Shaped, SamePlace, CallPcs, EnterPcs, WaitPcs, MutexPcs
<1>4. ~Wakener(th[t]) /\ u.pc # "enqueue"
  BY <1>2 DEF Wakener
<1>5. QED
  BY <1>2, <1>3, <1>4, GoesKeeps

LEMMA ReadStateKeeps ==
    ASSUME IInv, NEW t \in Thread, ReadState(t)
    PROVE  IInv'
<1> DEFINE u == Moved(th[t], "ucas", lockState)
<1>1. /\ th[t] \in TH /\ Shaped(th[t]) /\ th[t].pc = "unlock" /\ lockState \in Int
      /\ th \in [Thread -> TH] /\ "ucas" \in PcSet
  BY ThreadFacts DEF ReadState, PcSet
<1>2. Step(t, u)
  BY <1>1 DEF ReadState, Step, Moved
<1>3. /\ u \in TH /\ u.pc = "ucas" /\ u.type = th[t].type /\ u.held = th[t].held
      /\ u.granted = th[t].granted
  BY <1>1, MovedIs
<1> HIDE DEF u
<1>4. Shaped(u) /\ SamePlace(th[t].pc, u.pc)
  BY <1>1, <1>3 DEF Shaped, SamePlace, CallPcs, EnterPcs, WaitPcs, MutexPcs
<1>5. ~Wakener(th[t]) /\ u.pc # "enqueue"
  BY <1>1, <1>3 DEF Wakener
<1>6. QED
  BY <1>2, <1>3, <1>4, <1>5, GoesKeeps DEF ReadState

\* lockGranted is looked at without the mutex.
LEMMA CheckKeeps ==
    ASSUME IInv, NEW t \in Thread, Check(t)
    PROVE  IInv'
<1>1. /\ th[t] \in TH /\ Shaped(th[t]) /\ th[t].pc = "check" /\ "asleep" \in PcSet
      /\ th[t].type \in Type /\ th[t].held = "none"
  BY ThreadFacts DEF Check, PcSet, Shaped, CallPcs, WaitPcs
<1>2. CASE th[t].granted
  <2>1. Ends(t, th[t].type)
    BY <1>2 DEF Check, Has
  <2>2. /\ th[t].pc \notin MutexPcs /\ ~InQueue(th[t])
        /\ th[t].type = "shared" <=> HasShared(th[t])
        /\ th[t].type = "exclusive" <=> HasExclusive(th[t])
        /\ IsOwner(th[t]) <=> HasExclusive(th[t])
        /\ ~Wakener(th[t])
    BY <1>1, <1>2 DEF MutexPcs, EnterPcs, InQueue, HasShared, HasExclusive, IsOwner, Wakener
  <2>3. QED
    BY <1>1, <2>1, <2>2, EndsKeeps DEF Check
<1>3. CASE ~th[t].granted
  <2> DEFINE u == Moved(th[t], "asleep", 0)
  <2>1. /\ Step(t, u) /\ u \in TH /\ u.pc = "asleep" /\ u.type = th[t].type /\ u.held = th[t].held
        /\ u.granted = th[t].granted
    BY <1>1, <1>3, GoesIs DEF Check
  <2> HIDE DEF u
  <2>2. Shaped(u) /\ SamePlace(th[t].pc, u.pc)
    BY <1>1, <2>1 DEF Shaped, SamePlace, CallPcs, EnterPcs, WaitPcs, MutexPcs
  <2>3. ~Wakener(th[t]) /\ u.pc # "enqueue"
    BY <1>1, <2>1 DEF Wakener
  <2>4. QED
    BY <2>1, <2>2, <2>3, GoesKeeps DEF Check
<1>4. QED
  BY <1>2, <1>3

LEMMA WakesKeeps ==
    ASSUME IInv, NEW t \in Thread, Wakes(t)
    PROVE  IInv'
<1>1. /\ th[t] \in TH /\ Shaped(th[t]) /\ th[t].pc = "asleep" /\ th \in [Thread -> TH]
      /\ "check" \in PcSet /\ "expired" \in PcSet
  BY ThreadFacts DEF Wakes, PcSet
<1>2. PICK pc \in {"check", "expired"} : th' = [th EXCEPT ![t].wakeup = FALSE, ![t].pc = pc]
  BY DEF Wakes
<1> DEFINE u == [th[t] EXCEPT !.wakeup = FALSE, !.pc = pc]
<1>3. Step(t, u)
  BY <1>1, <1>2 DEF Step
<1>4. /\ u \in TH /\ u.pc = pc /\ u.type = th[t].type /\ u.held = th[t].held
      /\ u.granted = th[t].granted
  BY <1>1, <1>2 DEF TH
<1> HIDE DEF u
<1>5. Shaped(u) /\ SamePlace(th[t].pc, u.pc)
  BY <1>1, <1>2, <1>4 DEF Shaped, SamePlace, CallPcs, EnterPcs, WaitPcs, MutexPcs
<1>6. ~Wakener(th[t]) /\ u.pc # "enqueue"
  BY <1>1, <1>2, <1>4 DEF Wakener
<1>7. QED
  BY <1>3, <1>4, <1>5, <1>6, GoesKeeps DEF Wakes

\* The lock is free and waiters is looked at.  Whoever has just become a
\* reader looks at its low half.
LEMMA TestGrantKeeps ==
    ASSUME IInv, NEW t \in Thread, TestGrant(t) \/ TestReaders(t)
    PROVE  IInv'
<1>1. /\ th[t] \in TH /\ Shaped(th[t]) /\ th[t].pc \in {"grant?", "rgrant?"} /\ "gmutex" \in PcSet
      /\ th[t].pc = "grant?" => th[t].held = "none"
      /\ th[t].pc = "rgrant?" => th[t].held = "shared"
      /\ th[t].held \in Type \cup {"none"}
      /\ lockState' = lockState /\ waiters' = waiters /\ monitorCount' = monitorCount
      /\ exclusiveThread' = exclusiveThread /\ waitingThreads' = waitingThreads /\ mutex' = mutex
  BY ThreadFacts DEF TestGrant, TestReaders, PcSet, Shaped, CallPcs, TH
<1>2. CASE Goes(t, "gmutex")
  <2> DEFINE u == Moved(th[t], "gmutex", 0)
  <2>1. /\ Step(t, u) /\ u \in TH /\ u.pc = "gmutex" /\ u.type = th[t].type /\ u.held = th[t].held
        /\ u.granted = th[t].granted
    BY <1>1, <1>2, GoesIs
  <2> HIDE DEF u
  <2>2. Shaped(u) /\ SamePlace(th[t].pc, u.pc)
    BY <1>1, <2>1 DEF Shaped, SamePlace, CallPcs, EnterPcs, WaitPcs, MutexPcs
  <2>3. Wakener(u) /\ u.pc # "enqueue"
    BY <2>1 DEF Wakener
  <2>4. QED
    BY <1>1, <2>1, <2>2, <2>3, GoesKeeps
<1>3. CASE Ends(t, th[t].held) /\ (th[t].pc = "grant?" => waiters = 0)
  <2>1. /\ th[t].pc \notin MutexPcs /\ ~InQueue(th[t]) /\ ~th[t].granted
        /\ th[t].held = "shared" <=> HasShared(th[t])
        /\ th[t].held = "exclusive" <=> HasExclusive(th[t])
        /\ IsOwner(th[t]) <=> HasExclusive(th[t])
    BY <1>1 DEF MutexPcs, EnterPcs, WaitPcs, InQueue, HasShared, HasExclusive, IsOwner, Shaped
  <2>2. ~Wakener(th[t]) \/ (waitingThreads = <<>> /\ ~AtPc("enqueue"))
    BY <1>1, <1>3, NoWaiters DEF Wakener, IInv
  <2>3. QED
    BY <1>1, <1>3, <2>1, <2>2, EndsKeeps
<1>4. QED
  BY <1>1, <1>2, <1>3 DEF TestGrant, TestReaders

-----------------------------------------------------------------------------
(* Calls, and the steps that change lockState without the mutex. *)

\* The thread that has locked more than once only counts.
LEMMA MonitorKeeps ==
    ASSUME IInv, monitorCount' \in 0..MaxDepth,
           monitorCount' > 0 => \E t \in Thread : th[t].held = "exclusive",
           lockState' = lockState, waiters' = waiters, th' = th,
           exclusiveThread' = exclusiveThread, waitingThreads' = waitingThreads, mutex' = mutex
    PROVE  IInv'
<1>1. SharedWaiters' = SharedWaiters /\ ExclusiveWaiters' = ExclusiveWaiters
      /\ Sharing' = Sharing /\ Excluding' = Excluding
  BY DEF SharedWaiters, ExclusiveWaiters, Sharing, Excluding
<1>2. Typed' /\ ThreadsShaped' /\ QueueRight' /\ MutexRight' /\ HeadKnown'
  BY DEF IInv, Basic, Typed, ThreadsShaped, QueueRight, MutexRight, HeadKnown
<1>3. WaitersRight' /\ OwnerKnown'
  BY <1>1 DEF IInv, Basic, WaitersRight, OwnerKnown
<1>4. \A pc : AtPc(pc)' <=> AtPc(pc)
  BY DEF AtPc
<1>5. StateRight'
  BY <1>1, <1>4 DEF IInv, StateRight, Owed
<1>6. Woken'
  BY <1>4 DEF IInv, Woken
<1>7. QED
  BY <1>2, <1>3, <1>5, <1>6 DEF IInv, Basic

LEMMA LocksAgainKeeps ==
    ASSUME IInv, NEW t \in Thread, NEW type, LocksAgain(t, type), th[t].pc = "idle",
           lockState' = lockState, waiters' = waiters,
           exclusiveThread' = exclusiveThread, waitingThreads' = waitingThreads, mutex' = mutex
    PROVE  IInv'
<1>1. monitorCount' \in 0..MaxDepth
  BY SOConstants DEF LocksAgain, IInv, Basic, Typed
<1>2. th[t].held = "exclusive"
  <2>1. IsOwner(th[t])
    BY DEF LocksAgain, IInv, Basic, OwnerKnown
  <2>2. ~th[t].granted
    BY ThreadFacts DEF Shaped, WaitPcs
  <2>3. QED
    BY <2>1, <2>2 DEF IsOwner
<1>3. QED
  BY <1>1, <1>2, MonitorKeeps DEF LocksAgain

\* A call begins.
LEMMA BeginsKeeps ==
    ASSUME IInv, NEW t \in Thread, NEW type \in Type, NEW timeOut \in {"none", "some", "forever", "cond"},
           NEW pc \in {"waiters", "test"}, th[t].pc = "idle", th[t].held = "none",
           th' = [th EXCEPT ![t].pc = pc, ![t].type = type, ![t].timeOut = timeOut],
           lockState' = lockState, waiters' = waiters, monitorCount' = monitorCount,
           exclusiveThread' = exclusiveThread, waitingThreads' = waitingThreads, mutex' = mutex
    PROVE  IInv'
<1> DEFINE u == [th[t] EXCEPT !.pc = pc, !.type = type, !.timeOut = timeOut]
<1>1. th[t] \in TH /\ Shaped(th[t]) /\ th \in [Thread -> TH] /\ pc \in PcSet
  BY ThreadFacts DEF PcSet
<1>2. Step(t, u)
  BY <1>1 DEF Step
<1>3. u \in TH /\ u.pc = pc /\ u.type = type /\ u.held = th[t].held /\ u.granted = th[t].granted
  BY <1>1 DEF TH
<1> HIDE DEF u
<1>4. ~th[t].granted
  BY <1>1 DEF Shaped, WaitPcs
<1>5. Shaped(u)
  BY <1>3, <1>4 DEF Shaped, CallPcs, EnterPcs, WaitPcs
<1>6. SameWait(th[t], u) /\ KnowsHead(u) /\ SameGrant(th[t], u) /\ u.pc # "enqueue"
  BY <1>3 DEF SameWait, InQueue, WaitsShared, WaitsExclusive, IsCounted, EnterPcs, WaitPcs,
              KnowsHead, SameGrant
<1>7. u.pc \in MutexPcs <=> th[t].pc \in MutexPcs
  BY <1>3 DEF MutexPcs, EnterPcs
<1>8. /\ IsOwner(u) <=> IsOwner(th[t])
      /\ HasShared(u) <=> HasShared(th[t])
      /\ HasExclusive(u) <=> HasExclusive(th[t])
      /\ ~Wakener(th[t])
  BY <1>3, <1>4 DEF IsOwner, HasShared, HasExclusive, Wakener
<1>9. QED
  BY <1>2, <1>3, <1>5, <1>6, <1>7, <1>8, PureKeeps

LEMMA lockKeeps ==
    ASSUME IInv, NEW t \in Thread, NEW type \in Type, NEW timeOut \in Timeouts, lock(t, type, timeOut)
    PROVE  IInv'
<1>1. CASE LocksAgain(t, type)
  BY <1>1, LocksAgainKeeps DEF lock
<1>2. CASE /\ th[t].held = "none"
           /\ th' = [th EXCEPT ![t].pc = "waiters", ![t].type = type, ![t].timeOut = timeOut]
           /\ UNCHANGED monitorCount
  <2>1. timeOut \in {"none", "some", "forever", "cond"}
    BY SOConstants
  <2>2. QED
    BY <1>2, <2>1, BeginsKeeps DEF lock
<1>3. QED
  BY <1>1, <1>2 DEF lock

LEMMA lockConditionalKeeps ==
    ASSUME IInv, NEW t \in Thread, NEW type \in Type, lockConditional(t, type)
    PROVE  IInv'
<1>1. CASE LocksAgain(t, type)
  BY <1>1, LocksAgainKeeps DEF lockConditional
<1>2. CASE /\ th[t].held = "none"
           /\ th' = [th EXCEPT ![t].pc = IF type = "shared" THEN "test" ELSE "waiters",
                               ![t].type = type, ![t].timeOut = "cond"]
           /\ UNCHANGED monitorCount
  <2>1. PICK pc \in {"waiters", "test"} :
          th' = [th EXCEPT ![t].pc = pc, ![t].type = type, ![t].timeOut = "cond"]
    BY <1>2
  <2>2. /\ th[t].pc = "idle" /\ lockState' = lockState /\ waiters' = waiters
        /\ exclusiveThread' = exclusiveThread /\ waitingThreads' = waitingThreads /\ mutex' = mutex
    BY DEF lockConditional
  <2>3. th[t].held = "none" /\ monitorCount' = monitorCount
    BY <1>2
  <2>4. QED
    BY <2>1, <2>2, <2>3, BeginsKeeps
<1>3. QED
  BY <1>1, <1>2 DEF lockConditional

\* lockState changes under a compareExchange, and nothing else but the thread.
LEMMA ExchangeStep ==
    ASSUME IInv, NEW t \in Thread, NEW u \in TH, Step(t, u), Shaped(u), SameWait(th[t], u),
           u.pc \in MutexPcs <=> th[t].pc \in MutexPcs,
           KnowsHead(u), SameGrant(th[t], u),
           IsOwner(u) <=> IsOwner(th[t]), th[t].held = "exclusive" => u.held = "exclusive",
           \/ /\ lockState >= 0 /\ lockState' = lockState + 1
              /\ ~HasShared(th[t]) /\ HasShared(u) /\ ~HasExclusive(u)
           \/ /\ lockState = 0 /\ lockState' = -1
              /\ ~HasShared(u) /\ HasExclusive(u),
           u.pc # "enqueue",
           waiters' = waiters, monitorCount' = monitorCount,
           exclusiveThread' = exclusiveThread, waitingThreads' = waitingThreads, mutex' = mutex
    PROVE  IInv'
<1>1. lockState \in Int /\ Typed /\ Basic /\ StateRight /\ Woken
  BY DEF IInv, Basic, Typed
<1>2. lockState' \in Int /\ lockState' # 0
  BY <1>1
<1>3. Basic'
  BY <1>1, <1>2, BasicKept
<1>4. StateRight'
  BY <1>1, StateShared, StateExclusive DEF SameWait
<1>5. Woken'
  BY <1>2 DEF Woken
<1>6. QED
  BY <1>3, <1>4, <1>5 DEF IInv

LEMMA ExchangeKeeps ==
    ASSUME IInv, NEW t \in Thread, Exchange(t)
    PROVE  IInv'
<1>1. /\ th[t] \in TH /\ Shaped(th[t]) /\ th[t].pc = "cas" /\ lockState \in Int /\ Typed
      /\ th[t].type \in Type /\ th[t].held = "none" /\ ~th[t].granted /\ Free(th[t].type, th[t].old)
  BY ThreadFacts DEF Exchange, Shaped, CallPcs, WaitPcs
<1>2. /\ ~InQueue(th[t]) /\ ~WaitsShared(th[t]) /\ ~WaitsExclusive(th[t])
      /\ th[t].pc \notin MutexPcs /\ ~IsOwner(th[t]) /\ ~HasShared(th[t]) /\ ~HasExclusive(th[t])
  BY <1>1 DEF InQueue, WaitsShared, WaitsExclusive, IsCounted, MutexPcs, EnterPcs, WaitPcs, IsOwner,
              HasShared, HasExclusive
<1>3. CASE lockState # th[t].old
  <2>1. PICK pc \in {"test", "waiters"} : Goes(t, pc)
    BY <1>3 DEF Exchange
  <2>2. pc \in PcSet
    BY <2>1 DEF PcSet
  <2>3. QED
    BY <1>1, <1>3, <2>1, <2>2, RetryKeeps DEF Exchange
<1>4. CASE lockState = th[t].old /\ th[t].type = "shared"
  <2> DEFINE u == Ended(t, "shared")
  <2>1. Step(t, u) /\ lockState' = lockState + 1 /\ lockState >= 0
    BY <1>1, <1>4 DEF Exchange, Has, Ends, Ended, Step, Taken, Free
  <2>2. u \in TH /\ Shaped(u) /\ u.held = "shared"
    BY <1>1, EndedIs DEF Type
  <2>3. /\ ~InQueue(u) /\ ~WaitsShared(u) /\ ~WaitsExclusive(u)
        /\ u.pc \notin MutexPcs /\ KnowsHead(u) /\ u.pc # "enqueue"
        /\ u.pc # "gwake" /\ u.pc # "gown"
        /\ ~IsOwner(u) /\ HasShared(u) /\ ~HasExclusive(u)
    BY <1>1, EndedCounts DEF Type
  <2> HIDE DEF u
  <2>4. SameWait(th[t], u) /\ SameGrant(th[t], u)
    BY <1>1, <1>2, <2>3 DEF SameWait, SameGrant
  <2>5. QED
    BY <1>1, <1>2, <2>1, <2>2, <2>3, <2>4, ExchangeStep DEF Exchange
<1>5. CASE lockState = th[t].old /\ th[t].type # "shared"
  <2> DEFINE u == Moved(th[t], "own", 0)
  <2>1. "own" \in PcSet
    BY DEF PcSet
  <2>2. Goes(t, "own") /\ lockState' = -1 /\ lockState = 0
    BY <1>1, <1>5 DEF Exchange, Taken, Free
  <2>3. /\ Step(t, u) /\ u \in TH /\ u.pc = "own" /\ u.type = th[t].type /\ u.held = th[t].held
        /\ u.granted = th[t].granted
    BY <2>1, <2>2, GoesIs
  <2> HIDE DEF u
  <2>4. th[t].type = "exclusive"
    BY <1>1, <1>5 DEF Type
  <2>5. /\ Shaped(u) /\ KnowsHead(u) /\ u.pc # "enqueue" /\ u.pc \notin MutexPcs
        /\ SameWait(th[t], u) /\ SameGrant(th[t], u)
    BY <1>1, <1>2, <2>3, <2>4 DEF Shaped, CallPcs, EnterPcs, WaitPcs, MutexPcs, KnowsHead, SameWait,
              SameGrant, InQueue, WaitsShared, WaitsExclusive, IsCounted, Type
  <2>6. ~IsOwner(u) /\ ~HasShared(u) /\ HasExclusive(u)
    BY <1>1, <2>3, <2>4 DEF IsOwner, HasShared, HasExclusive
  <2>7. QED
    BY <1>1, <1>2, <2>2, <2>3, <2>5, <2>6, ExchangeStep DEF Exchange
<1>6. QED
  BY <1>3, <1>4, <1>5

LEMMA ExchangeInMutexKeeps ==
    ASSUME IInv, NEW t \in Thread, ExchangeInMutex(t)
    PROVE  IInv'
<1>1. /\ th[t] \in TH /\ Shaped(th[t]) /\ th[t].pc = "qcas" /\ lockState \in Int /\ Typed
      /\ th[t].type \in Type /\ th[t].held = "none" /\ ~th[t].granted /\ Free(th[t].type, th[t].old)
      /\ "qdone" \in PcSet /\ "queue?" \in PcSet
  BY ThreadFacts DEF ExchangeInMutex, Shaped, CallPcs, EnterPcs, WaitPcs, PcSet
<1>2. CASE lockState # th[t].old
  BY <1>1, <1>2, RetryKeeps DEF ExchangeInMutex
<1>3. CASE lockState = th[t].old
  <2> DEFINE u == Moved(th[t], "qdone", 0)
  <2>1. Goes(t, "qdone") /\ lockState' = Taken(th[t].type, lockState)
    BY <1>3 DEF ExchangeInMutex
  <2>2. /\ Step(t, u) /\ u \in TH /\ u.pc = "qdone" /\ u.type = th[t].type /\ u.held = th[t].held
        /\ u.granted = th[t].granted
    BY <1>1, <2>1, GoesIs
  <2> HIDE DEF u
  <2>3. /\ Shaped(u) /\ KnowsHead(u) /\ u.pc # "enqueue"
        /\ u.pc \in MutexPcs /\ th[t].pc \in MutexPcs
        /\ SameWait(th[t], u) /\ SameGrant(th[t], u)
    BY <1>1, <2>2 DEF Shaped, CallPcs, EnterPcs, WaitPcs, MutexPcs, KnowsHead, SameWait,
              SameGrant, InQueue, WaitsShared, WaitsExclusive, IsCounted
  <2>4. ~IsOwner(u) /\ ~IsOwner(th[t]) /\ ~HasShared(th[t])
    BY <1>1, <2>2 DEF IsOwner, HasShared
  <2>5. CASE th[t].type = "shared"
    <3>1. HasShared(u) /\ ~HasExclusive(u) /\ lockState >= 0 /\ lockState' = lockState + 1
      BY <1>1, <1>3, <2>1, <2>2, <2>5 DEF HasShared, HasExclusive, Taken, Free
    <3>2. QED
      BY <1>1, <2>2, <2>3, <2>4, <3>1, ExchangeStep DEF ExchangeInMutex
  <2>6. CASE th[t].type = "exclusive"
    <3>1. ~HasShared(u) /\ HasExclusive(u) /\ lockState = 0 /\ lockState' = -1
      BY <1>1, <1>3, <2>1, <2>2, <2>6 DEF HasShared, HasExclusive, Taken, Free
    <3>2. QED
      BY <1>1, <2>2, <2>3, <2>4, <3>1, ExchangeStep DEF ExchangeInMutex
  <2>7. QED
    BY <1>1, <2>5, <2>6 DEF Type
<1>4. QED
  BY <1>2, <1>3

-----------------------------------------------------------------------------
(* Steps that change more than lockState. *)

\* The first part of the invariant, piece by piece.
LEMMA BasicStep ==
    ASSUME Basic, NEW t \in Thread, NEW u \in TH, Step(t, u), Shaped(u),
           lockState' \in Int, waiters' \in Int,
           waiters' + Weight(th[t]) = waiters + Weight(u),
           \/ mutex' = mutex /\ (u.pc \in MutexPcs <=> th[t].pc \in MutexPcs)
           \/ mutex = NoThread /\ mutex' = t /\ u.pc \in MutexPcs
           \/ th[t].pc \in MutexPcs /\ mutex' = NoThread /\ u.pc \notin MutexPcs,
           monitorCount' = monitorCount,
           \/ /\ exclusiveThread' = exclusiveThread /\ (IsOwner(u) <=> IsOwner(th[t]))
              /\ th[t].held = "exclusive" => u.held = "exclusive"
           \/ exclusiveThread = NoThread /\ exclusiveThread' = t /\ IsOwner(u)
           \/ /\ exclusiveThread \in {t, NoThread} /\ exclusiveThread' = NoThread /\ ~IsOwner(u)
              /\ monitorCount = 0,
           waitingThreads' \in Seq(Thread), QueueRight', HeadKnown'
    PROVE  Basic'
<1>1. th'[t] = u /\ (\A v \in Thread : v # t => th'[v] = th[v]) /\ th' \in [Thread -> TH]
  BY StepPointwise DEF Basic
<1>2. MutexRight' /\ mutex' \in Thread \cup {NoThread}
  BY MutexStep
<1>3. OwnerKnown' /\ exclusiveThread' \in Thread \cup {NoThread}
  BY OwnerStep
<1>4. WaitersRight'
  BY WaitersStep DEF Basic
<1>5. Typed'
  BY <1>1, <1>2, <1>3 DEF Basic, Typed
<1>6. ThreadsShaped'
  BY <1>1 DEF Basic, ThreadsShaped
<1>7. QED
  BY <1>2, <1>3, <1>4, <1>5, <1>6 DEF Basic

\* What a thread that is not counted before nor after adds to waiters.
LEMMA SameWeight ==
    ASSUME Basic, NEW x, NEW u, SameWait(x, u), waiters' = waiters
    PROVE  waiters' \in Int /\ waiters' + Weight(x) = waiters + Weight(u)
<1>1. Weight(u) = Weight(x) /\ Weight(u) \in Int /\ waiters \in Int
  BY DEF Weight, SameWait, One, Basic, Typed, WRITER_INCR
<1>2. QED
  BY <1>1

\* Whoever has the lock, or is about to know it, finds at most itself as the
\* exclusive thread.
LEMMA OwnerIsHolder ==
    ASSUME IInv, NEW t \in Thread, HasShared(th[t]) \/ HasExclusive(th[t])
    PROVE  /\ exclusiveThread \in {t, NoThread}
           /\ ~IsOwner(th[t]) => exclusiveThread = NoThread
<1>1. \A v \in Thread : IsOwner(th[v]) => v \in Excluding
  BY DEF IsOwner, Excluding, HasExclusive
<1>2. t \in Sharing \/ t \in Excluding
  BY DEF Sharing, Excluding
<1>3. \A v \in Excluding : v = t
  BY <1>2 DEF IInv, StateRight
<1>4. /\ exclusiveThread \in Thread \cup {NoThread}
      /\ \A v \in Thread : exclusiveThread = v <=> IsOwner(th[v])
  BY DEF IInv, Basic, Typed, OwnerKnown
<1>5. QED
  BY <1>1, <1>3, <1>4

\* unlock resets the exclusive thread before it changes lockState.
LEMMA unlockKeeps ==
    ASSUME IInv, NEW t \in Thread, unlock(t)
    PROVE  IInv'
<1>1. /\ th[t] \in TH /\ Shaped(th[t]) /\ th \in [Thread -> TH] /\ Typed
      /\ th[t].pc = "idle" /\ th[t].held # "none" /\ th[t].held \in Type \cup {"none"}
      /\ th[t].type = "none" /\ ~th[t].granted /\ "unlock" \in PcSet
  BY ThreadFacts DEF unlock, Shaped, TH, PcSet, WaitPcs
<1>2. CASE monitorCount > 0 /\ monitorCount' = monitorCount - 1 /\ UNCHANGED <<exclusiveThread, th>>
  <2>1. monitorCount' \in 0..MaxDepth
    BY <1>1, <1>2, SOConstants DEF Typed
  <2>2. \E v \in Thread : th[v].held = "exclusive"
    BY <1>2 DEF IInv, Basic, OwnerKnown
  <2>3. QED
    BY <1>2, <2>1, <2>2, MonitorKeeps DEF unlock
<1>3. CASE /\ monitorCount = 0
           /\ exclusiveThread' = NoThread
           /\ th' = [th EXCEPT ![t].pc = "unlock", ![t].type = th[t].held, ![t].held = "none"]
           /\ UNCHANGED monitorCount
  <2> DEFINE u == [th[t] EXCEPT !.pc = "unlock", !.type = th[t].held, !.held = "none"]
  <2>1. Step(t, u)
    BY <1>1, <1>3 DEF Step
  <2>2. /\ u \in TH /\ u.pc = "unlock" /\ u.type = th[t].held /\ u.held = "none"
        /\ u.granted = th[t].granted
    BY <1>1 DEF TH
  <2> HIDE DEF u
  <2>3. th[t].held \in Type
    BY <1>1
  <2>4. Shaped(u)
    BY <1>1, <2>2, <2>3 DEF Shaped, CallPcs, EnterPcs, WaitPcs
  <2>5. SameWait(th[t], u) /\ KnowsHead(u) /\ SameGrant(th[t], u) /\ u.pc # "enqueue"
    BY <1>1, <2>2 DEF SameWait, InQueue, WaitsShared, WaitsExclusive, IsCounted, EnterPcs, WaitPcs,
                KnowsHead, SameGrant
  <2>6. u.pc \notin MutexPcs /\ th[t].pc \notin MutexPcs
    BY <1>1, <2>2 DEF MutexPcs, EnterPcs
  <2>7. /\ ~IsOwner(u) /\ ~Wakener(th[t])
        /\ HasShared(u) <=> HasShared(th[t])
        /\ HasExclusive(u) <=> HasExclusive(th[t])
        /\ HasShared(u) \/ HasExclusive(u)
    BY <1>1, <2>2, <2>3 DEF IsOwner, HasShared, HasExclusive, Wakener, Type
  <2>8. exclusiveThread \in {t, NoThread}
    BY <2>7, OwnerIsHolder
  <2>9. /\ lockState' = lockState /\ waiters' = waiters /\ waitingThreads' = waitingThreads
        /\ mutex' = mutex /\ lockState \in Int /\ waitingThreads \in Seq(Thread) /\ Basic /\ StateRight
        /\ Woken
    BY <1>1 DEF unlock, Typed, IInv
  <2>10. QueueRight' /\ HeadKnown'
    BY <2>1, <2>2, <2>5, <2>9, QueueStep
  <2>11. waiters' \in Int /\ waiters' + Weight(th[t]) = waiters + Weight(u)
    BY <2>5, <2>9, SameWeight
  <2>12. Basic'
    BY <1>3, <2>1, <2>2, <2>4, <2>6, <2>7, <2>8, <2>9, <2>10, <2>11, BasicStep
  <2>13. StateRight'
    BY <1>1, <2>1, <2>2, <2>5, <2>7, <2>9, StateSame DEF SameWait
  <2>14. Woken'
    BY <2>1, <2>2, <2>5, <2>7, <2>9, WokenStep
  <2>15. QED
    BY <2>12, <2>13, <2>14 DEF IInv
<1>4. QED
  BY <1>2, <1>3 DEF unlock

\* The lock is given back.  The last one to do so goes on to look for those
\* who wait.
LEMMA UnlockExchangeKeeps ==
    ASSUME IInv, NEW t \in Thread, UnlockExchange(t)
    PROVE  IInv'
<1> DEFINE new == IF th[t].type = "shared" THEN th[t].old - 1 ELSE 0
<1>1. /\ th[t] \in TH /\ Shaped(th[t]) /\ Typed /\ lockState \in Int
      /\ th[t].pc = "ucas" /\ th[t].type \in Type /\ th[t].held = "none" /\ ~th[t].granted
      /\ "unlock" \in PcSet /\ "grant?" \in PcSet /\ "none" \in Type \cup {"none"}
      /\ waiters' = waiters /\ monitorCount' = monitorCount
      /\ exclusiveThread' = exclusiveThread /\ waitingThreads' = waitingThreads /\ mutex' = mutex
      /\ Basic /\ StateRight /\ Woken
  BY ThreadFacts DEF UnlockExchange, Shaped, CallPcs, PcSet, WaitPcs, IInv
<1>2. CASE lockState # th[t].old
  BY <1>1, <1>2, RetryKeeps DEF UnlockExchange
<1>3. CASE lockState = th[t].old
  <2>1. lockState' = new
    BY <1>3 DEF UnlockExchange
  <2>2. PICK u \in TH : /\ Step(t, u) /\ Shaped(u) /\ ~InQueue(u) /\ ~WaitsShared(u) /\ ~WaitsExclusive(u)
                        /\ u.pc \notin MutexPcs /\ KnowsHead(u) /\ u.pc # "enqueue"
                        /\ u.pc # "gwake" /\ u.pc # "gown"
                        /\ ~IsOwner(u) /\ ~HasShared(u) /\ ~HasExclusive(u)
                        /\ lockState' = 0 => Wakener(u)
    <3>1. CASE new = 0
      <4> DEFINE u == Moved(th[t], "grant?", 0)
      <4>1. Goes(t, "grant?")
        BY <1>3, <3>1 DEF UnlockExchange
      <4>2. /\ Step(t, u) /\ u \in TH /\ u.pc = "grant?" /\ u.type = th[t].type /\ u.held = th[t].held
            /\ u.granted = th[t].granted
        BY <1>1, <4>1, GoesIs
      <4> HIDE DEF u
      <4>3. /\ Shaped(u) /\ ~InQueue(u) /\ ~WaitsShared(u) /\ ~WaitsExclusive(u)
            /\ u.pc \notin MutexPcs /\ KnowsHead(u) /\ u.pc # "enqueue"
            /\ u.pc # "gwake" /\ u.pc # "gown"
            /\ ~IsOwner(u) /\ ~HasShared(u) /\ ~HasExclusive(u) /\ Wakener(u)
        BY <1>1, <4>2 DEF Shaped, CallPcs, EnterPcs, WaitPcs, MutexPcs, KnowsHead, InQueue,
                    WaitsShared, WaitsExclusive, IsCounted, IsOwner, HasShared, HasExclusive, Wakener
      <4>4. QED
        BY <4>2, <4>3
    <3>2. CASE new # 0
      <4> DEFINE u == Ended(t, "none")
      <4>1. Step(t, u)
        BY <1>3, <3>2 DEF UnlockExchange, Step, Ends, Ended
      <4>2. u \in TH /\ Shaped(u)
        BY <1>1, EndedIs
      <4>3. /\ ~InQueue(u) /\ ~WaitsShared(u) /\ ~WaitsExclusive(u)
            /\ u.pc \notin MutexPcs /\ KnowsHead(u) /\ u.pc # "enqueue"
            /\ u.pc # "gwake" /\ u.pc # "gown"
            /\ ~IsOwner(u) /\ ~HasShared(u) /\ ~HasExclusive(u)
        BY <1>1, EndedCounts
      <4> HIDE DEF u
      <4>4. QED
        BY <2>1, <3>2, <4>1, <4>2, <4>3
    <3>3. QED
      BY <3>1, <3>2
  <2>3. /\ ~InQueue(th[t]) /\ ~WaitsShared(th[t]) /\ ~WaitsExclusive(th[t]) /\ th[t].pc \notin MutexPcs
        /\ ~IsOwner(th[t]) /\ ~Wakener(th[t])
    BY <1>1 DEF InQueue, WaitsShared, WaitsExclusive, IsCounted, MutexPcs, EnterPcs, WaitPcs, IsOwner,
                Wakener
  <2>4. SameWait(th[t], u) /\ SameGrant(th[t], u)
    BY <1>1, <2>2, <2>3 DEF SameWait, SameGrant
  <2>5. lockState' \in Int
    BY <1>1, <1>3, <2>1
  <2>6. Basic'
    BY <1>1, <2>2, <2>3, <2>4, <2>5, BasicKept
  <2>7. StateRight'
    <3>1. CASE th[t].type = "shared"
      <4>1. HasShared(th[t]) /\ lockState' = lockState - 1
        BY <1>1, <1>3, <2>1, <3>1 DEF HasShared
      <4>2. QED
        BY <1>1, <2>2, <2>3, <2>4, <4>1, StateUnshared
    <3>2. CASE th[t].type = "exclusive"
      <4>1. HasExclusive(th[t]) /\ lockState' = One(HasShared(u))
        BY <1>1, <1>3, <2>1, <2>2, <3>2 DEF HasExclusive, One
      <4>2. QED
        BY <1>1, <2>2, <2>3, <2>4, <4>1, StateLeft
    <3>3. QED
      BY <1>1, <3>1, <3>2 DEF Type
  <2>8. Woken'
    BY <1>1, <2>2, <2>3, WokenStep
  <2>9. QED
    BY <2>6, <2>7, <2>8 DEF IInv
<1>4. QED
  BY <1>2, <1>3

\* downgrade.
LEMMA downgradeKeeps ==
    ASSUME IInv, NEW t \in Thread, downgrade(t)
    PROVE  IInv'
<1> DEFINE u == [th[t] EXCEPT !.held = "shared", !.pc = "rgrant?"]
<1>1. /\ th[t] \in TH /\ Shaped(th[t]) /\ th \in [Thread -> TH] /\ Typed
      /\ th[t].pc = "idle" /\ th[t].held = "exclusive" /\ th[t].type = "none" /\ ~th[t].granted
      /\ "rgrant?" \in PcSet /\ "shared" \in Type
      /\ waiters' = waiters /\ monitorCount' = monitorCount /\ monitorCount = 0
      /\ exclusiveThread' = NoThread /\ waitingThreads' = waitingThreads /\ mutex' = mutex
      /\ waitingThreads \in Seq(Thread) /\ lockState' = 1
      /\ Basic /\ StateRight /\ Woken
  BY ThreadFacts DEF downgrade, Shaped, PcSet, WaitPcs, IInv, Type, Typed
<1>2. Step(t, u)
  BY <1>1 DEF Step, downgrade
<1>3. /\ u \in TH /\ u.pc = "rgrant?" /\ u.type = th[t].type /\ u.held = "shared"
      /\ u.granted = th[t].granted
  BY <1>1 DEF TH
<1> HIDE DEF u
<1>4. Shaped(u) /\ SameWait(th[t], u) /\ KnowsHead(u) /\ SameGrant(th[t], u) /\ u.pc # "enqueue"
  BY <1>1, <1>3 DEF Shaped, CallPcs, SameWait, InQueue, WaitsShared, WaitsExclusive, IsCounted,
              EnterPcs, WaitPcs, KnowsHead, SameGrant
<1>5. u.pc \notin MutexPcs /\ th[t].pc \notin MutexPcs
  BY <1>1, <1>3 DEF MutexPcs, EnterPcs
<1>6. ~IsOwner(u) /\ HasShared(u) /\ ~HasExclusive(u) /\ HasExclusive(th[t])
  BY <1>1, <1>3 DEF IsOwner, HasShared, HasExclusive
<1>7. exclusiveThread \in {t, NoThread}
  BY <1>6, OwnerIsHolder
<1>8. QueueRight' /\ HeadKnown'
  BY <1>1, <1>2, <1>3, <1>4, QueueStep
<1>9. waiters' \in Int /\ waiters' + Weight(th[t]) = waiters + Weight(u)
  BY <1>1, <1>4, SameWeight
<1>10. Basic'
  BY <1>1, <1>2, <1>3, <1>4, <1>5, <1>6, <1>7, <1>8, <1>9, BasicStep
<1>11. lockState' = One(HasShared(u)) /\ lockState' # 0
  BY <1>1, <1>6 DEF One
<1>12. StateRight'
  BY <1>1, <1>2, <1>3, <1>4, <1>6, <1>11, StateLeft DEF SameWait
<1>13. Woken'
  BY <1>11 DEF Woken
<1>14. QED
  BY <1>10, <1>12, <1>13 DEF IInv

\* The thread that took the lock outside the mutex becomes the exclusive one.
LEMMA OwnsKeeps ==
    ASSUME IInv, NEW t \in Thread, Owns(t)
    PROVE  IInv'
<1> DEFINE u == Ended(t, "exclusive")
<1>1. /\ th[t] \in TH /\ Shaped(th[t]) /\ Typed /\ lockState \in Int /\ waitingThreads \in Seq(Thread)
      /\ th[t].pc = "own" /\ th[t].held = "none" /\ th[t].type = "exclusive" /\ ~th[t].granted
      /\ "exclusive" \in Type \cup {"none"}
      /\ lockState' = lockState /\ waiters' = waiters /\ monitorCount' = monitorCount
      /\ exclusiveThread' = t /\ waitingThreads' = waitingThreads /\ mutex' = mutex
      /\ Basic /\ StateRight /\ Woken
  BY ThreadFacts DEF Owns, Shaped, WaitPcs, CallPcs, IInv, Type, Typed
<1>2. Step(t, u)
  BY <1>1 DEF Step, Owns, Has, Ends, Ended
<1>3. u \in TH /\ Shaped(u)
  BY <1>1, EndedIs
<1>4. /\ ~InQueue(u) /\ ~WaitsShared(u) /\ ~WaitsExclusive(u)
      /\ u.pc \notin MutexPcs /\ KnowsHead(u) /\ u.pc # "enqueue"
      /\ u.pc # "gwake" /\ u.pc # "gown"
      /\ IsOwner(u) /\ ~HasShared(u) /\ HasExclusive(u)
  BY <1>1, EndedCounts
<1> HIDE DEF u
<1>5. /\ ~InQueue(th[t]) /\ ~WaitsShared(th[t]) /\ ~WaitsExclusive(th[t]) /\ th[t].pc \notin MutexPcs
      /\ ~IsOwner(th[t]) /\ ~Wakener(th[t]) /\ HasExclusive(th[t]) /\ ~HasShared(th[t])
  BY <1>1 DEF InQueue, WaitsShared, WaitsExclusive, IsCounted, MutexPcs, EnterPcs, WaitPcs, IsOwner,
              Wakener, HasExclusive, HasShared
<1>6. SameWait(th[t], u) /\ SameGrant(th[t], u)
  BY <1>1, <1>4, <1>5 DEF SameWait, SameGrant
<1>7. exclusiveThread = NoThread
  BY <1>5, OwnerIsHolder
<1>8. QueueRight' /\ HeadKnown'
  BY <1>1, <1>2, <1>3, <1>4, <1>6, QueueStep
<1>9. waiters' \in Int /\ waiters' + Weight(th[t]) = waiters + Weight(u)
  BY <1>1, <1>6, SameWeight
<1>10. Basic'
  BY <1>1, <1>2, <1>3, <1>4, <1>5, <1>7, <1>8, <1>9, BasicStep
<1>11. StateRight'
  BY <1>1, <1>2, <1>3, <1>4, <1>5, <1>6, StateSame
<1>12. Woken'
  BY <1>1, <1>2, <1>3, <1>4, <1>5, WokenStep
<1>13. QED
  BY <1>10, <1>11, <1>12 DEF IInv

-----------------------------------------------------------------------------
(* Steps that take, keep or leave the mutex. *)

\* What a thread adds to waiters.
LEMMA WeightIs ==
    ASSUME NEW x
    PROVE  /\ Weight(x) \in Int
           /\ ~IsCounted(x) => Weight(x) = 0
           /\ IsCounted(x) /\ x.type \in Type => Weight(x) = Incr(x.type)
BY DEF Weight, One, WaitsShared, WaitsExclusive, Incr, WRITER_INCR, Type

LEMMA IncrIs ==
    ASSUME NEW type PROVE Incr(type) \in Int
BY DEF Incr, WRITER_INCR

\* A thread outside the queue; the queue is left alone.
LEMMA QueueOut ==
    ASSUME Basic, NEW t \in Thread, NEW u \in TH, Step(t, u), ~InQueue(th[t]), ~InQueue(u), KnowsHead(u),
           waitingThreads' = waitingThreads
    PROVE  QueueRight' /\ HeadKnown' /\ waitingThreads' \in Seq(Thread)
<1>1. th'[t] = u /\ \A v \in Thread : v # t => th'[v] = th[v]
  BY StepPointwise DEF Basic
<1>2. QueueRight'
  BY <1>1 DEF Basic, QueueRight
<1>3. waitingThreads # <<>> => th'[Head(waitingThreads)] = th[Head(waitingThreads)]
  BY <1>1, HeadQueued
<1>4. \A v \in Thread : KnowsHead(th'[v])
  BY <1>1 DEF Basic, HeadKnown, KnowsHead
<1>5. HeadKnown'
  BY <1>3, <1>4 DEF HeadKnown, KnowsHead
<1>6. QED
  BY <1>2, <1>5 DEF Basic, Typed

\* Nobody is inside grantLocks.
LEMMA NobodyGrants ==
    ASSUME \A v \in Thread : th'[v].pc \notin {"gshared", "gwake", "gexcl", "gown"}
    PROVE  HeadKnown'
BY DEF HeadKnown

\* While the mutex is free, or the thread has it, nobody else is about to wake
\* up those who wait, or to be queued.
LEMMA MutexQuiet ==
    ASSUME Basic, NEW t \in Thread, mutex = NoThread \/ th[t].pc \in MutexPcs
    PROVE  /\ \A v \in Thread : v # t => th[v].pc \notin MutexPcs
           /\ th[t].pc # "gwake" => ~AtPc("gwake")
           /\ th[t].pc # "gown" => ~AtPc("gown")
           /\ th[t].pc # "enqueue" => ~AtPc("enqueue")
<1>1. mutex = t \/ mutex = NoThread
  BY DEF Basic, MutexRight
<1>2. \A v \in Thread : v # t => th[v].pc \notin MutexPcs
  BY <1>1, OutsideMutex
<1>3. QED
  BY <1>2 DEF AtPc, MutexPcs, EnterPcs

\* A call that may not wait ends; the others are counted under the mutex.
LEMMA SlowKeeps ==
    ASSUME IInv, NEW t \in Thread, Slow(t)
    PROVE  IInv'
<1>1. /\ th[t] \in TH /\ Shaped(th[t]) /\ Typed /\ lockState \in Int /\ waiters \in Int
      /\ th[t].pc = "slow" /\ th[t].held = "none" /\ th[t].type \in Type /\ ~th[t].granted
      /\ "none" \in Type \cup {"none"} /\ "queue?" \in PcSet
      /\ lockState' = lockState /\ monitorCount' = monitorCount
      /\ exclusiveThread' = exclusiveThread /\ waitingThreads' = waitingThreads
      /\ Basic /\ StateRight /\ Woken
  BY ThreadFacts DEF Slow, Shaped, WaitPcs, CallPcs, IInv, Typed, PcSet
<1>2. /\ ~InQueue(th[t]) /\ ~IsCounted(th[t]) /\ th[t].pc \notin MutexPcs /\ ~IsOwner(th[t])
      /\ ~HasShared(th[t]) /\ ~HasExclusive(th[t]) /\ ~Wakener(th[t])
  BY <1>1 DEF InQueue, IsCounted, MutexPcs, EnterPcs, WaitPcs, IsOwner, HasShared, HasExclusive, Wakener
<1>3. CASE Fails(t) /\ UNCHANGED <<mutex, waiters>>
  BY <1>1, <1>2, <1>3, EndsKeeps DEF Fails, Type
<1>4. CASE /\ mutex = NoThread /\ mutex' = t
           /\ waiters' = waiters + Incr(th[t].type)
           /\ Goes(t, "queue?")
  <2> DEFINE u == Moved(th[t], "queue?", 0)
  <2>1. /\ Step(t, u) /\ u \in TH /\ u.pc = "queue?" /\ u.type = th[t].type /\ u.held = th[t].held
        /\ u.granted = th[t].granted
    BY <1>1, <1>4, GoesIs
  <2> HIDE DEF u
  <2>2. /\ Shaped(u) /\ KnowsHead(u) /\ u.pc # "enqueue" /\ u.pc \in MutexPcs
        /\ ~InQueue(u) /\ IsCounted(u) /\ SameGrant(th[t], u)
    BY <1>1, <2>1 DEF Shaped, CallPcs, EnterPcs, WaitPcs, MutexPcs, KnowsHead,
              SameGrant, InQueue, IsCounted
  <2>3. ~IsOwner(u) /\ ~HasShared(u) /\ ~HasExclusive(u)
    BY <1>1, <2>1 DEF IsOwner, HasShared, HasExclusive
  <2>4. /\ Weight(th[t]) = 0 /\ Weight(u) = Incr(th[t].type) /\ Incr(th[t].type) \in Int
    BY <1>1, <1>2, <2>1, <2>2, WeightIs, IncrIs
  <2>5. waiters' \in Int /\ waiters' + Weight(th[t]) = waiters + Weight(u)
    BY <1>1, <1>4, <2>4
  <2>6. QueueRight' /\ HeadKnown' /\ waitingThreads' \in Seq(Thread)
    BY <1>1, <1>2, <2>1, <2>2, QueueOut
  <2>7. Basic'
    BY <1>1, <1>2, <1>4, <2>1, <2>2, <2>3, <2>5, <2>6, BasicStep
  <2>8. ~AtPc("gwake")
    BY <1>1, <1>4, MutexQuiet
  <2>9. StateRight'
    BY <1>1, <1>2, <2>1, <2>2, <2>3, <2>8, StateSame
  <2>10. Woken'
    BY <1>1, <1>2, <2>1, <2>2, WokenStep
  <2>11. QED
    BY <2>7, <2>9, <2>10 DEF IInv
<1>5. QED
  BY <1>3, <1>4 DEF Slow

\* The lock has been taken under the mutex: the thread is not counted any more.
LEMMA DoneInMutexKeeps ==
    ASSUME IInv, NEW t \in Thread, DoneInMutex(t)
    PROVE  IInv'
<1> DEFINE u == Ended(t, th[t].type)
<1>1. /\ th[t] \in TH /\ Shaped(th[t]) /\ Typed /\ lockState \in Int /\ waiters \in Int
      /\ th[t].pc = "qdone" /\ th[t].held = "none" /\ th[t].type \in Type /\ ~th[t].granted
      /\ lockState' = lockState /\ monitorCount' = monitorCount
      /\ waitingThreads' = waitingThreads /\ mutex' = NoThread
      /\ waiters' = waiters - Incr(th[t].type)
      /\ Basic /\ StateRight /\ Woken
  BY ThreadFacts DEF DoneInMutex, Shaped, WaitPcs, EnterPcs, CallPcs, IInv, Typed
<1>2. /\ ~InQueue(th[t]) /\ IsCounted(th[t]) /\ th[t].pc \in MutexPcs /\ ~IsOwner(th[t])
      /\ ~Wakener(th[t])
      /\ HasShared(th[t]) <=> th[t].type = "shared"
      /\ HasExclusive(th[t]) <=> th[t].type = "exclusive"
  BY <1>1 DEF InQueue, IsCounted, MutexPcs, EnterPcs, WaitPcs, IsOwner, HasShared, HasExclusive, Wakener
<1>3. Step(t, u)
  BY DEF DoneInMutex, Has, Ends, Ended, Step
<1>4. u \in TH /\ Shaped(u)
  BY <1>1, EndedIs
<1>5. /\ ~InQueue(u) /\ ~WaitsShared(u) /\ ~WaitsExclusive(u)
      /\ u.pc \notin MutexPcs /\ KnowsHead(u) /\ u.pc # "enqueue"
      /\ u.pc # "gwake" /\ u.pc # "gown"
      /\ IsOwner(u) <=> th[t].type = "exclusive"
      /\ HasShared(u) <=> th[t].type = "shared"
      /\ HasExclusive(u) <=> th[t].type = "exclusive"
  BY <1>1, EndedCounts
<1> HIDE DEF u
<1>6. /\ Weight(th[t]) = Incr(th[t].type) /\ Weight(u) = 0 /\ Incr(th[t].type) \in Int
  <2>1. ~IsCounted(u)
    BY <1>5 DEF IsCounted, MutexPcs
  <2>2. QED
    BY <1>1, <1>2, <2>1, WeightIs, IncrIs
<1>7. waiters' \in Int /\ waiters' + Weight(th[t]) = waiters + Weight(u)
  BY <1>1, <1>6
<1>8. QueueRight' /\ HeadKnown' /\ waitingThreads' \in Seq(Thread)
  BY <1>1, <1>2, <1>3, <1>4, <1>5, QueueOut
<1>9. \/ /\ exclusiveThread' = exclusiveThread /\ (IsOwner(u) <=> IsOwner(th[t]))
      \/ exclusiveThread = NoThread /\ exclusiveThread' = t /\ IsOwner(u)
  <2>1. CASE th[t].type = "exclusive"
    <3>1. exclusiveThread = NoThread
      BY <1>2, <2>1, OwnerIsHolder
    <3>2. QED
      BY <1>5, <2>1, <3>1 DEF DoneInMutex
  <2>2. CASE th[t].type # "exclusive"
    BY <1>2, <1>5, <2>2 DEF DoneInMutex
  <2>3. QED
    BY <2>1, <2>2
<1>10. Basic'
  BY <1>1, <1>2, <1>3, <1>4, <1>5, <1>7, <1>8, <1>9, BasicStep
<1>11. ~AtPc("gwake")
  BY <1>1, <1>2, MutexQuiet
<1>12. StateRight'
  <2>1. SameGrant(th[t], u)
    BY <1>1, <1>5 DEF SameGrant
  <2>2. QED
    BY <1>1, <1>2, <1>3, <1>4, <1>5, <1>11, <2>1, StateSame
<1>13. Woken'
  BY <1>1, <1>2, <1>3, <1>4, <1>5, WokenStep
<1>14. QED
  BY <1>10, <1>12, <1>13 DEF IInv

\* The thread is queued and leaves the mutex.
LEMMA waitKeeps ==
    ASSUME IInv, NEW t \in Thread, wait(t)
    PROVE  IInv'
<1> DEFINE u == [th[t] EXCEPT !.pc = "check", !.granted = FALSE]
<1>1. /\ th[t] \in TH /\ Shaped(th[t]) /\ Typed /\ lockState \in Int /\ waiters \in Int
      /\ th \in [Thread -> TH] /\ "check" \in PcSet /\ waitingThreads \in Seq(Thread)
      /\ th[t].pc = "enqueue" /\ th[t].held = "none" /\ th[t].type \in Type /\ ~th[t].granted
      /\ lockState' = lockState /\ waiters' = waiters /\ monitorCount' = monitorCount
      /\ exclusiveThread' = exclusiveThread /\ mutex' = NoThread
      /\ waitingThreads' = Append(waitingThreads, t)
      /\ Basic /\ StateRight /\ Woken
  BY ThreadFacts DEF wait, Shaped, WaitPcs, EnterPcs, CallPcs, IInv, Typed, PcSet
<1>2. Step(t, u)
  BY <1>1 DEF wait, Step
<1>3. /\ u \in TH /\ u.pc = "check" /\ u.type = th[t].type /\ u.held = th[t].held
      /\ u.granted = FALSE
  BY <1>1 DEF TH
<1> HIDE DEF u
<1>4. /\ ~InQueue(th[t]) /\ IsCounted(th[t]) /\ th[t].pc \in MutexPcs /\ ~IsOwner(th[t])
      /\ ~HasShared(th[t]) /\ ~HasExclusive(th[t]) /\ ~Wakener(th[t])
  BY <1>1 DEF InQueue, IsCounted, MutexPcs, EnterPcs, WaitPcs, IsOwner, HasShared, HasExclusive, Wakener
<1>5. /\ Shaped(u) /\ u.pc # "enqueue" /\ u.pc \notin MutexPcs /\ SameGrant(th[t], u)
      /\ InQueue(u) /\ IsCounted(u)
  BY <1>1, <1>3 DEF Shaped, CallPcs, EnterPcs, WaitPcs, MutexPcs, SameGrant, InQueue, IsCounted
<1>6. ~IsOwner(u) /\ ~HasShared(u) /\ ~HasExclusive(u)
  BY <1>1, <1>3 DEF IsOwner, HasShared, HasExclusive
<1>7. Weight(th[t]) = Weight(u) /\ Weight(u) \in Int /\ (WaitsShared(u) <=> WaitsShared(th[t]))
  BY <1>3, <1>4, <1>5, WeightIs DEF Weight, WaitsShared, WaitsExclusive
<1>8. waiters' \in Int /\ waiters' + Weight(th[t]) = waiters + Weight(u)
  BY <1>1, <1>7
<1>9. th'[t] = u /\ \A v \in Thread : v # t => th'[v] = th[v]
  BY <1>1, <1>2, <1>3, StepPointwise
<1>10. QueueRight' /\ waitingThreads' \in Seq(Thread)
  <2>1. Distinct(waitingThreads) /\ Members(waitingThreads) = {v \in Thread : InQueue(th[v])}
    BY <1>1 DEF Basic, QueueRight
  <2>2. t \notin Members(waitingThreads)
    BY <1>4, <2>1
  <2>3. /\ waitingThreads' \in Seq(Thread) /\ Distinct(waitingThreads')
        /\ Members(waitingThreads') = Members(waitingThreads) \cup {t}
    BY <1>1, <2>1, <2>2, AppendIsRight
  <2>4. Members(waitingThreads') = {v \in Thread : InQueue(th'[v])}
    BY <1>5, <1>9, <2>1, <2>3
  <2>5. QED
    BY <2>3, <2>4 DEF QueueRight
<1>11. HeadKnown'
  <2>1. \A v \in Thread : v # t => th[v].pc \notin MutexPcs
    BY <1>1, <1>4, MutexQuiet
  <2>2. \A v \in Thread : th'[v].pc \notin {"gshared", "gwake", "gexcl", "gown"}
    BY <1>3, <1>9, <2>1 DEF MutexPcs
  <2>3. QED
    BY <2>2, NobodyGrants
<1>12. Basic'
  BY <1>1, <1>2, <1>3, <1>4, <1>5, <1>6, <1>8, <1>10, <1>11, BasicStep
<1>13. StateRight'
  BY <1>1, <1>2, <1>3, <1>4, <1>5, <1>6, <1>7, StateSame
<1>14. Woken'
  BY <1>1, <1>2, <1>3, <1>4, <1>5, WokenStep
<1>15. QED
  BY <1>12, <1>13, <1>14 DEF IInv

\* The timeout is over: the thread finds the lock granted after all, or leaves
\* the queue.
LEMMA ExpiresKeeps ==
    ASSUME IInv, NEW t \in Thread, Expires(t)
    PROVE  IInv'
<1>1. /\ th[t] \in TH /\ Shaped(th[t]) /\ Typed /\ lockState \in Int /\ waiters \in Int
      /\ waitingThreads \in Seq(Thread) /\ "none" \in Type \cup {"none"}
      /\ th[t].pc = "expired" /\ th[t].held = "none" /\ th[t].type \in Type
      /\ lockState' = lockState /\ monitorCount' = monitorCount
      /\ exclusiveThread' = exclusiveThread /\ mutex' = mutex /\ mutex = NoThread
      /\ Basic /\ StateRight /\ Woken
  BY ThreadFacts DEF Expires, Shaped, WaitPcs, EnterPcs, CallPcs, IInv, Typed
<1>2. CASE th[t].granted
  <2>1. Ends(t, th[t].type) /\ waiters' = waiters /\ waitingThreads' = waitingThreads
    BY <1>2 DEF Expires, Has
  <2>2. /\ th[t].pc \notin MutexPcs /\ ~InQueue(th[t])
        /\ th[t].type = "shared" <=> HasShared(th[t])
        /\ th[t].type = "exclusive" <=> HasExclusive(th[t])
        /\ IsOwner(th[t]) <=> HasExclusive(th[t])
        /\ ~Wakener(th[t])
    BY <1>1, <1>2 DEF MutexPcs, EnterPcs, InQueue, HasShared, HasExclusive, IsOwner, Wakener
  <2>3. QED
    BY <1>1, <2>1, <2>2, EndsKeeps
<1>3. CASE ~th[t].granted
  <2> DEFINE u == Ended(t, "none")
  <2>1. Step(t, u)
    BY <1>3 DEF Expires, Fails, Ends, Ended, Step
  <2>2. u \in TH /\ Shaped(u)
    BY <1>1, EndedIs
  <2>3. /\ ~InQueue(u) /\ ~WaitsShared(u) /\ ~WaitsExclusive(u)
        /\ u.pc \notin MutexPcs /\ u.pc # "enqueue"
        /\ u.pc # "gwake" /\ u.pc # "gown"
        /\ ~IsOwner(u) /\ ~HasShared(u) /\ ~HasExclusive(u)
    BY <1>1, EndedCounts DEF Type
  <2> HIDE DEF u
  <2>4. /\ InQueue(th[t]) /\ IsCounted(th[t]) /\ th[t].pc \notin MutexPcs /\ ~IsOwner(th[t])
        /\ ~HasShared(th[t]) /\ ~HasExclusive(th[t]) /\ ~Wakener(th[t])
    BY <1>1, <1>3 DEF InQueue, IsCounted, MutexPcs, EnterPcs, WaitPcs, IsOwner, HasShared,
                HasExclusive, Wakener
  <2>5. Weight(th[t]) = Incr(th[t].type) /\ Weight(u) = 0 /\ Incr(th[t].type) \in Int
    <3>1. ~IsCounted(u)
      BY <2>3 DEF IsCounted, MutexPcs
    <3>2. QED
      BY <1>1, <2>4, <3>1, WeightIs, IncrIs
  <2>6. waiters' \in Int /\ waiters' + Weight(th[t]) = waiters + Weight(u)
    BY <1>1, <1>3, <2>5 DEF Expires
  <2>7. th'[t] = u /\ \A v \in Thread : v # t => th'[v] = th[v]
    BY <1>1, <2>1, <2>2, StepPointwise
  <2>8. QueueRight' /\ waitingThreads' \in Seq(Thread) /\ waitingThreads # <<>>
    <3>1. Distinct(waitingThreads) /\ Members(waitingThreads) = {v \in Thread : InQueue(th[v])}
      BY <1>1 DEF Basic, QueueRight
    <3>2. waitingThreads' = Without(waitingThreads, {t})
      BY <1>3 DEF Expires
    <3>3. /\ waitingThreads' \in Seq(Thread) /\ Distinct(waitingThreads')
          /\ Members(waitingThreads') = Members(waitingThreads) \ {t}
      BY <1>1, <3>1, <3>2, WithoutIsRight
    <3>4. Members(waitingThreads') = {v \in Thread : InQueue(th'[v])}
      BY <2>3, <2>7, <3>1, <3>3
    <3>5. t \in Members(waitingThreads)
      BY <2>4, <3>1
    <3>6. QED
      BY <3>3, <3>4, <3>5 DEF QueueRight, Members
  <2>9. HeadKnown'
    <3>1. \A v \in Thread : v # t => th[v].pc \notin MutexPcs
      BY <1>1, MutexQuiet
    <3>2. \A v \in Thread : th'[v].pc \notin {"gshared", "gwake", "gexcl", "gown"}
      BY <2>3, <2>7, <3>1 DEF MutexPcs
    <3>3. QED
      BY <3>2, NobodyGrants
  <2>10. Basic'
    BY <1>1, <2>1, <2>2, <2>3, <2>4, <2>6, <2>8, <2>9, BasicStep
  <2>11. ~AtPc("gwake")
    BY <1>1, MutexQuiet
  <2>12. StateRight'
    <3>1. SameGrant(th[t], u)
      BY <1>1, <2>3 DEF SameGrant
    <3>2. QED
      BY <1>1, <2>1, <2>2, <2>3, <2>4, <2>11, <3>1, StateSame
  <2>13. Woken'
    BY <1>1, <2>1, <2>2, <2>3, <2>4, <2>8, WokenStep
  <2>14. QED
    BY <2>10, <2>12, <2>13 DEF IInv
<1>4. QED
  BY <1>2, <1>3

-----------------------------------------------------------------------------
(* grantLocks. *)

\* A thread inside grantLocks is nobody else's business until it has promised
\* the lock: it is not queued, not counted and does not own anything.
LEMMA GrantorFacts ==
    ASSUME IInv, NEW t \in Thread, th[t].pc \in {"gmutex", "gshared", "gexcl", "gwake", "gown"}
    PROVE  /\ th[t].held \in Type \cup {"none"} /\ th[t].held # "exclusive" /\ ~th[t].granted
           /\ ~InQueue(th[t]) /\ ~WaitsShared(th[t]) /\ ~WaitsExclusive(th[t])
           /\ ~IsOwner(th[t]) /\ ~HasExclusive(th[t])
           /\ HasShared(th[t]) <=> th[t].held = "shared"
           /\ th[t].pc # "gmutex" => th[t].pc \in MutexPcs
<1>1. th[t] \in TH /\ Shaped(th[t])
  BY ThreadFacts
<1>2. ~th[t].granted /\ th[t].held # "exclusive" /\ th[t].held \in Type \cup {"none"}
  BY <1>1 DEF Shaped, WaitPcs, TH
<1>3. QED
  BY <1>2 DEF InQueue, WaitsShared, WaitsExclusive, IsCounted, EnterPcs, WaitPcs, IsOwner, HasShared,
              HasExclusive, MutexPcs

LEMMA grantLocksKeeps ==
    ASSUME IInv, NEW t \in Thread, grantLocks(t)
    PROVE  IInv'
<1>1. /\ th[t] \in TH /\ Shaped(th[t]) /\ Typed /\ lockState \in Int /\ th \in [Thread -> TH]
      /\ waitingThreads \in Seq(Thread) /\ "gshared" \in PcSet /\ "gexcl" \in PcSet
      /\ th[t].pc = "gmutex" /\ mutex = NoThread
      /\ lockState' = lockState /\ waiters' = waiters /\ monitorCount' = monitorCount
      /\ exclusiveThread' = exclusiveThread /\ waitingThreads' = waitingThreads
      /\ Basic /\ StateRight /\ Woken
  BY ThreadFacts DEF grantLocks, IInv, Typed, PcSet
<1>2. /\ th[t].held \in Type \cup {"none"} /\ th[t].held # "exclusive" /\ ~th[t].granted
      /\ ~InQueue(th[t]) /\ ~WaitsShared(th[t]) /\ ~WaitsExclusive(th[t])
      /\ ~IsOwner(th[t]) /\ ~HasExclusive(th[t])
      /\ HasShared(th[t]) <=> th[t].held = "shared"
  BY <1>1, GrantorFacts
<1>3. ~AtPc("enqueue") /\ th[t].pc \notin MutexPcs
  BY <1>1, MutexQuiet DEF MutexPcs, EnterPcs
<1>4. CASE waitingThreads = <<>>
  <2>1. Ends(t, th[t].held) /\ mutex' = mutex
    BY <1>4 DEF grantLocks
  <2>2. QED
    BY <1>1, <1>2, <1>3, <1>4, <2>1, EndsKeeps
<1>5. CASE waitingThreads # <<>>
  <2>1. mutex' = t
    BY <1>5 DEF grantLocks
  <2>2. PICK u \in TH : /\ Step(t, u) /\ u.pc \in {"gshared", "gexcl"} /\ KnowsHead(u)
                        /\ u.held = th[t].held /\ u.type = th[t].type /\ u.granted = th[t].granted
                        /\ u.pc = "gshared" => u.old = lockState
    <3>1. CASE th[Head(waitingThreads)].type = "shared"
      <4> DEFINE u == Moved(th[t], "gshared", lockState)
      <4>1. th' = [th EXCEPT ![t].old = lockState, ![t].pc = "gshared"]
        BY <1>5, <3>1 DEF grantLocks
      <4>2. Step(t, u)
        BY <1>1, <4>1 DEF Step, Moved
      <4>3. /\ u \in TH /\ u.pc = "gshared" /\ u.type = th[t].type /\ u.held = th[t].held
            /\ u.granted = th[t].granted /\ u.old = lockState
        BY <1>1, MovedIs
      <4> HIDE DEF u
      <4>4. QED
        BY <1>5, <3>1, <4>2, <4>3 DEF KnowsHead
    <3>2. CASE th[Head(waitingThreads)].type # "shared"
      <4> DEFINE u == Moved(th[t], "gexcl", 0)
      <4>1. Goes(t, "gexcl")
        BY <1>5, <3>2 DEF grantLocks
      <4>2. /\ Step(t, u) /\ u \in TH /\ u.pc = "gexcl" /\ u.type = th[t].type /\ u.held = th[t].held
            /\ u.granted = th[t].granted
        BY <1>1, <4>1, GoesIs
      <4> HIDE DEF u
      <4>3. th[Head(waitingThreads)].type = "exclusive"
        BY <1>1, <1>5, <3>2, HeadQueued DEF Type
      <4>4. QED
        BY <1>5, <4>2, <4>3 DEF KnowsHead
    <3>3. QED
      BY <3>1, <3>2
  <2>3. /\ Shaped(u) /\ u.pc # "enqueue" /\ u.pc \in MutexPcs /\ SameWait(th[t], u)
        /\ SameGrant(th[t], u)
    BY <1>1, <1>2, <2>2 DEF Shaped, CallPcs, EnterPcs, WaitPcs, MutexPcs, SameWait, SameGrant, InQueue,
                WaitsShared, WaitsExclusive, IsCounted
  <2>4. ~IsOwner(u) /\ (HasShared(u) <=> HasShared(th[t])) /\ ~HasExclusive(u)
    BY <1>2, <2>2 DEF IsOwner, HasShared, HasExclusive
  <2>5. QueueRight' /\ HeadKnown'
    BY <1>1, <2>2, <2>3, QueueStep
  <2>6. waiters' \in Int /\ waiters' + Weight(th[t]) = waiters + Weight(u)
    BY <1>1, <2>3, SameWeight
  <2>7. Basic'
    BY <1>1, <1>2, <2>1, <2>2, <2>3, <2>4, <2>5, <2>6, BasicStep
  <2>8. StateRight'
    BY <1>1, <1>2, <2>2, <2>3, <2>4, StateSame DEF SameWait
  <2>9. lockState = 0 => Wakener(u)
    BY <2>2 DEF Wakener
  <2>10. Woken'
    BY <1>1, <2>2, <2>3, <2>9, WokenStep
  <2>11. QED
    BY <2>7, <2>8, <2>10 DEF IInv
<1>6. QED
  BY <1>4, <1>5

\* grantLocks gives up because the lock is not free any more.
LEMMA LeavesKeeps ==
    ASSUME IInv, NEW t \in Thread, th[t].pc \in {"gshared", "gexcl"}, Leaves(t),
           ~Wakener(th[t]) \/ lockState # 0,
           lockState' = lockState, waiters' = waiters, monitorCount' = monitorCount,
           exclusiveThread' = exclusiveThread, waitingThreads' = waitingThreads
    PROVE  IInv'
<1> DEFINE u == Ended(t, th[t].held)
<1>1. /\ th[t] \in TH /\ Typed /\ lockState \in Int /\ mutex' = NoThread
      /\ waitingThreads \in Seq(Thread) /\ Basic /\ StateRight /\ Woken
  BY ThreadFacts DEF IInv, Typed, Leaves
<1>2. /\ th[t].held \in Type \cup {"none"} /\ th[t].held # "exclusive" /\ ~th[t].granted
      /\ ~InQueue(th[t]) /\ ~WaitsShared(th[t]) /\ ~WaitsExclusive(th[t])
      /\ ~IsOwner(th[t]) /\ ~HasExclusive(th[t])
      /\ HasShared(th[t]) <=> th[t].held = "shared"
      /\ th[t].pc \in MutexPcs
  BY GrantorFacts
<1>3. Step(t, u)
  BY DEF Leaves, Ends, Ended, Step
<1>4. u \in TH /\ Shaped(u)
  BY <1>1, <1>2, EndedIs
<1>5. /\ ~InQueue(u) /\ ~WaitsShared(u) /\ ~WaitsExclusive(u) /\ ~Wakener(u)
      /\ u.pc \notin MutexPcs /\ KnowsHead(u) /\ u.pc # "enqueue"
      /\ u.pc # "gwake" /\ u.pc # "gown"
      /\ ~IsOwner(u) /\ ~HasExclusive(u)
      /\ HasShared(u) <=> th[t].held = "shared"
  BY <1>1, <1>2, EndedCounts
<1> HIDE DEF u
<1>6. SameWait(th[t], u) /\ SameGrant(th[t], u)
  BY <1>2, <1>5 DEF SameWait, SameGrant
<1>7. QueueRight' /\ HeadKnown'
  BY <1>1, <1>3, <1>4, <1>5, <1>6, QueueStep
<1>8. waiters' \in Int /\ waiters' + Weight(th[t]) = waiters + Weight(u)
  BY <1>1, <1>6, SameWeight
<1>9. Basic'
  BY <1>1, <1>2, <1>3, <1>4, <1>5, <1>7, <1>8, BasicStep
<1>10. StateRight'
  BY <1>1, <1>2, <1>3, <1>4, <1>5, <1>6, StateSame
<1>11. Woken'
  BY <1>1, <1>3, <1>4, <1>5, WokenStep
<1>12. QED
  BY <1>9, <1>10, <1>11 DEF IInv

\* The lock is promised to all readers of the queue: to as many as the low half
\* of waiters says.
LEMMA GrantSharedKeeps ==
    ASSUME IInv, NEW t \in Thread, GrantShared(t)
    PROVE  IInv'
<1>1. /\ th[t] \in TH /\ Shaped(th[t]) /\ Typed /\ lockState \in Int /\ th \in [Thread -> TH]
      /\ "gshared" \in PcSet /\ "gwake" \in PcSet
      /\ th[t].pc = "gshared" /\ th[t].old \in Int
      /\ waiters' = waiters /\ monitorCount' = monitorCount
      /\ exclusiveThread' = exclusiveThread /\ waitingThreads' = waitingThreads
      /\ Basic /\ StateRight /\ Woken /\ WaitersRight
  BY ThreadFacts DEF GrantShared, IInv, Typed, PcSet, TH, Basic
<1>2. /\ th[t].held \in Type \cup {"none"} /\ th[t].held # "exclusive" /\ ~th[t].granted
      /\ ~InQueue(th[t]) /\ ~WaitsShared(th[t]) /\ ~WaitsExclusive(th[t])
      /\ ~IsOwner(th[t]) /\ ~HasExclusive(th[t])
      /\ HasShared(th[t]) <=> th[t].held = "shared"
      /\ th[t].pc \in MutexPcs
  BY <1>1, GrantorFacts
<1>3. CASE th[t].old < 0 /\ Leaves(t) /\ UNCHANGED lockState
  <2>1. ~Wakener(th[t])
    BY <1>1, <1>3 DEF Wakener
  <2>2. QED
    BY <1>1, <1>3, <2>1, LeavesKeeps
<1>4. CASE /\ th[t].old >= 0 /\ lockState = th[t].old
           /\ lockState' = lockState + (waiters % WRITER_INCR)
           /\ Goes(t, "gwake")
           /\ UNCHANGED mutex
  <2> DEFINE u == Moved(th[t], "gwake", 0)
  <2>1. /\ Step(t, u) /\ u \in TH /\ u.pc = "gwake" /\ u.type = th[t].type /\ u.held = th[t].held
        /\ u.granted = th[t].granted
    BY <1>1, <1>4, GoesIs
  <2> HIDE DEF u
  <2>2. /\ Shaped(u) /\ u.pc # "enqueue" /\ u.pc \in MutexPcs /\ SameWait(th[t], u)
    BY <1>1, <1>2, <2>1 DEF Shaped, CallPcs, EnterPcs, WaitPcs, MutexPcs, SameWait, InQueue,
                WaitsShared, WaitsExclusive, IsCounted
  <2>3. ~IsOwner(u) /\ (HasShared(u) <=> HasShared(th[t])) /\ ~HasExclusive(u)
    BY <1>2, <2>1 DEF IsOwner, HasShared, HasExclusive
  <2>4. waitingThreads # <<>> /\ th[Head(waitingThreads)].type = "shared"
    BY <1>1 DEF Basic, HeadKnown
  <2>5. KnowsHead(u)
    BY <2>1, <2>4 DEF KnowsHead
  <2>6. /\ lockState' = lockState + Cardinality(SharedWaiters)
        /\ Cardinality(SharedWaiters) \in Nat /\ Cardinality(SharedWaiters) > 0
    BY <1>1, <1>4, <2>4, LowHalf, CountedFinite, ReadersWait
  <2>7. lockState' \in Int /\ lockState' > 0
    BY <1>1, <1>4, <2>6
  <2>8. Basic'
    BY <1>1, <1>2, <1>4, <2>1, <2>2, <2>3, <2>5, <2>7, BasicKept
  <2>9. StateRight'
    <3>1. th'[t] = u /\ \A v \in Thread : v # t => th'[v] = th[v]
      BY <1>1, <2>1, StepPointwise
    <3>2. Sharing' = Sharing /\ Excluding' = Excluding
      BY <1>2, <2>3, <3>1 DEF Sharing, Excluding
    <3>3. SharedWaiters' = SharedWaiters
      BY <2>2, <3>1 DEF SharedWaiters, SameWait
    <3>4. ~AtPc("gwake") /\ ~AtPc("gown")
      BY <1>1, <1>2, MutexQuiet
    <3>5. AtPc("gwake")' /\ ~AtPc("gown")'
      BY <2>1, <3>1, <3>4 DEF AtPc
    <3>6. lockState = Cardinality(Sharing) /\ Excluding = {} /\ Cardinality(Sharing) \in Nat
      BY <1>1, <1>4, <3>4, CountedFinite DEF StateRight, Owed
    <3>7. Owed' = Cardinality(SharedWaiters)
      BY <3>3, <3>5 DEF Owed
    <3>8. lockState' >= 0 /\ lockState' = Cardinality(Sharing') + Owed'
      BY <2>6, <2>7, <3>2, <3>6, <3>7
    <3>9. QED
      BY <3>2, <3>5, <3>6, <3>8 DEF StateRight
  <2>10. Woken'
    BY <2>7 DEF Woken
  <2>11. QED
    BY <2>8, <2>9, <2>10 DEF IInv
<1>5. CASE th' = [th EXCEPT ![t].old = lockState] /\ UNCHANGED <<lockState, mutex>>
  <2> DEFINE u == Moved(th[t], "gshared", lockState)
  <2>1. Step(t, u)
    BY <1>1, <1>5 DEF Step, Moved, TH
  <2>2. /\ u \in TH /\ u.pc = "gshared" /\ u.type = th[t].type /\ u.held = th[t].held
        /\ u.granted = th[t].granted /\ u.old = lockState
    BY <1>1, MovedIs
  <2> HIDE DEF u
  <2>3. Shaped(u) /\ SamePlace(th[t].pc, u.pc) /\ u.pc # "enqueue"
    BY <1>1, <1>2, <2>2 DEF Shaped, CallPcs, EnterPcs, WaitPcs, SamePlace
  <2>4. lockState = 0 => Wakener(u)
    BY <2>2 DEF Wakener
  <2>5. QED
    BY <1>1, <1>5, <2>1, <2>2, <2>3, <2>4, GoesKeeps
<1>6. QED
  BY <1>3, <1>4, <1>5 DEF GrantShared

\* A free lock is promised to the writer at the head of the queue.
LEMMA GrantExclusiveKeeps ==
    ASSUME IInv, NEW t \in Thread, GrantExclusive(t)
    PROVE  IInv'
<1>1. /\ th[t] \in TH /\ Shaped(th[t]) /\ Typed /\ lockState \in Int
      /\ th[t].pc = "gexcl" /\ "gown" \in PcSet
      /\ waiters' = waiters /\ monitorCount' = monitorCount
      /\ exclusiveThread' = exclusiveThread /\ waitingThreads' = waitingThreads
      /\ Basic /\ StateRight /\ Woken
  BY ThreadFacts DEF GrantExclusive, IInv, PcSet
<1>2. /\ th[t].held \in Type \cup {"none"} /\ th[t].held # "exclusive" /\ ~th[t].granted
      /\ ~InQueue(th[t]) /\ ~WaitsShared(th[t]) /\ ~WaitsExclusive(th[t])
      /\ ~IsOwner(th[t]) /\ ~HasExclusive(th[t])
      /\ HasShared(th[t]) <=> th[t].held = "shared"
      /\ th[t].pc \in MutexPcs
  BY <1>1, GrantorFacts
<1>3. CASE lockState # 0
  BY <1>1, <1>3, LeavesKeeps DEF GrantExclusive
<1>4. CASE lockState = 0
  <2> DEFINE u == Moved(th[t], "gown", 0)
  <2>1. lockState' = -1 /\ Goes(t, "gown") /\ mutex' = mutex
    BY <1>4 DEF GrantExclusive
  <2>2. /\ Step(t, u) /\ u \in TH /\ u.pc = "gown" /\ u.type = th[t].type /\ u.held = th[t].held
        /\ u.granted = th[t].granted
    BY <1>1, <2>1, GoesIs
  <2> HIDE DEF u
  <2>3. /\ Shaped(u) /\ u.pc # "enqueue" /\ u.pc \in MutexPcs /\ SameWait(th[t], u)
    BY <1>1, <1>2, <2>2 DEF Shaped, CallPcs, EnterPcs, WaitPcs, MutexPcs, SameWait, InQueue,
                WaitsShared, WaitsExclusive, IsCounted
  <2>4. ~IsOwner(u) /\ (HasShared(u) <=> HasShared(th[t])) /\ ~HasExclusive(u)
    BY <1>2, <2>2 DEF IsOwner, HasShared, HasExclusive
  <2>5. waitingThreads # <<>> /\ th[Head(waitingThreads)].type = "exclusive"
    BY <1>1 DEF Basic, HeadKnown
  <2>6. KnowsHead(u)
    BY <2>2, <2>5 DEF KnowsHead
  <2>7. lockState' \in Int /\ lockState' # 0
    BY <2>1
  <2>8. Basic'
    BY <1>1, <1>2, <2>1, <2>2, <2>3, <2>4, <2>6, <2>7, BasicKept
  <2>9. StateRight'
    <3>1. th'[t] = u /\ \A v \in Thread : v # t => th'[v] = th[v]
      BY <1>1, <2>2, StepPointwise
    <3>2. Sharing' = Sharing /\ Excluding' = Excluding
      BY <1>2, <2>4, <3>1 DEF Sharing, Excluding
    <3>3. ~AtPc("gwake") /\ ~AtPc("gown")
      BY <1>1, <1>2, MutexQuiet
    <3>4. AtPc("gown")' /\ ~AtPc("gwake")'
      BY <2>2, <3>1, <3>3 DEF AtPc
    <3>5. 0 = Cardinality(Sharing) + Owed /\ Excluding = {} /\ Owed = 0
      BY <1>1, <1>4, <3>3 DEF StateRight, Owed
    <3>6. Cardinality(Sharing) = 0
      BY <3>5, CountedFinite
    <3>7. Sharing = {}
      BY <3>6, CountedFinite, FS_EmptySet
    <3>8. QED
      BY <2>1, <3>2, <3>4, <3>5, <3>7 DEF StateRight
  <2>10. Woken'
    BY <2>7 DEF Woken
  <2>11. QED
    BY <2>8, <2>9, <2>10 DEF IInv
<1>5. QED
  BY <1>3, <1>4

-----------------------------------------------------------------------------
(* The end of grantLocks, the only step that changes several threads. *)

\* Some of the queue are told that the lock is theirs; the thread that told
\* them leaves the mutex.
LEMMA GrantedStep ==
    ASSUME IInv, NEW t \in Thread, th[t].pc \in {"gwake", "gown"}, NEW who, Granted(t, who),
           who \subseteq {v \in Thread : InQueue(th[v])}
    PROVE  /\ th' \in [Thread -> TH] /\ waitingThreads' \in Seq(Thread) /\ mutex' \in Thread \cup {NoThread}
           /\ ThreadsShaped' /\ QueueRight' /\ MutexRight' /\ HeadKnown'
           /\ SharedWaiters' = SharedWaiters \ who
           /\ ExclusiveWaiters' = ExclusiveWaiters \ who
           /\ Sharing' = Sharing \cup {v \in who : th[v].type = "shared"}
           /\ Excluding' = Excluding \cup {v \in who : th[v].type = "exclusive"}
           /\ ~AtPc("gwake")' /\ ~AtPc("gown")'
           /\ \A v \in Thread : /\ IsOwner(th'[v]) <=> IsOwner(th[v]) \/ (v \in who /\ th[v].type = "exclusive")
                                /\ th'[v].held = th[v].held
<1> DEFINE u == Ended(t, th[t].held)
           Told(v) == [th[v] EXCEPT !.granted = TRUE, !.wakeup = TRUE]
<1>1. /\ th \in [Thread -> TH] /\ Typed /\ Basic /\ waitingThreads \in Seq(Thread)
      /\ \A v \in Thread : th[v] \in TH /\ Shaped(th[v])
  BY ThreadFacts DEF IInv, Typed
<1>2. /\ th[t].held \in Type \cup {"none"} /\ th[t].held # "exclusive" /\ ~th[t].granted
      /\ ~InQueue(th[t]) /\ ~WaitsShared(th[t]) /\ ~WaitsExclusive(th[t])
      /\ ~IsOwner(th[t]) /\ ~HasExclusive(th[t])
      /\ HasShared(th[t]) <=> th[t].held = "shared"
      /\ th[t].pc \in MutexPcs
  BY GrantorFacts
<1>3. t \notin who /\ who \subseteq Thread
  BY <1>2
<1>4. /\ u \in TH /\ Shaped(u) /\ u.held = th[t].held
  BY <1>1, <1>2, EndedIs
<1>5. /\ ~InQueue(u) /\ ~WaitsShared(u) /\ ~WaitsExclusive(u)
      /\ u.pc \notin MutexPcs /\ u.pc # "gwake" /\ u.pc # "gown"
      /\ ~IsOwner(u) /\ ~HasExclusive(u)
      /\ HasShared(u) <=> th[t].held = "shared"
  BY <1>1, <1>2, EndedCounts
<1>6. ASSUME NEW v \in who
      PROVE  /\ Told(v) \in TH /\ Told(v).pc = th[v].pc /\ Told(v).type = th[v].type
             /\ Told(v).held = th[v].held /\ Told(v).granted = TRUE
             /\ th[v].pc \in WaitPcs /\ ~th[v].granted /\ th[v].type \in Type /\ th[v].held = "none"
  <2>1. v \in Thread /\ th[v] \in TH /\ Shaped(th[v]) /\ InQueue(th[v])
    BY <1>1, <1>3, <1>6
  <2>2. th[v].pc \in WaitPcs /\ ~th[v].granted /\ th[v].type \in Type /\ th[v].held = "none"
    BY <2>1 DEF InQueue, Shaped, CallPcs
  <2>3. QED
    BY <2>1, <2>2 DEF TH
<1>7. th'[t] = u /\ (\A v \in who : th'[v] = Told(v))
      /\ (\A v \in Thread : v # t /\ v \notin who => th'[v] = th[v])
  BY <1>1, <1>3 DEF Granted, Ended
<1>8. th' = [v \in Thread |-> th'[v]]
  BY DEF Granted
<1> HIDE DEF u, Told
<1>9. \A v \in who : /\ ~InQueue(Told(v)) /\ ~WaitsShared(Told(v)) /\ ~WaitsExclusive(Told(v))
                     /\ Told(v).pc \notin MutexPcs /\ Shaped(Told(v))
                     /\ HasShared(Told(v)) <=> th[v].type = "shared"
                     /\ HasExclusive(Told(v)) <=> th[v].type = "exclusive"
                     /\ IsOwner(Told(v)) <=> th[v].type = "exclusive"
                     /\ ~HasShared(th[v]) /\ ~HasExclusive(th[v]) /\ ~IsOwner(th[v])
                     /\ th[v].pc \notin MutexPcs
  BY <1>6, ZenonT(40) DEF InQueue, WaitsShared, WaitsExclusive, IsCounted, EnterPcs, WaitPcs, MutexPcs, Shaped, CallPcs,
              HasShared, HasExclusive, IsOwner, Type
<1>10. \A v \in Thread : th'[v] \in TH /\ Shaped(th'[v])
  BY <1>1, <1>4, <1>6, <1>7, <1>9
<1>11. th' \in [Thread -> TH]
  BY <1>8, <1>10
<1>12. ThreadsShaped'
  BY <1>10 DEF ThreadsShaped
<1>13. QueueRight' /\ waitingThreads' \in Seq(Thread)
  <2>1. Distinct(waitingThreads) /\ Members(waitingThreads) = {v \in Thread : InQueue(th[v])}
    BY <1>1 DEF Basic, QueueRight
  <2>2. /\ waitingThreads' \in Seq(Thread) /\ Distinct(waitingThreads')
        /\ Members(waitingThreads') = Members(waitingThreads) \ who
    BY <1>1, <2>1, WithoutIsRight DEF Granted
  <2>3. ASSUME NEW v \in Thread PROVE InQueue(th'[v]) <=> InQueue(th[v]) /\ v \notin who
    <3>1. CASE v = t
      BY <1>2, <1>5, <1>7, <3>1
    <3>2. CASE v \in who
      BY <1>7, <1>9, <3>2
    <3>3. CASE v # t /\ v \notin who
      BY <1>7, <3>3
    <3>4. QED
      BY <3>1, <3>2, <3>3
  <2>4. Members(waitingThreads') = {v \in Thread : InQueue(th'[v])}
    BY <2>1, <2>2, <2>3
  <2>5. QED
    BY <2>2, <2>4 DEF QueueRight
<1>14. \A v \in Thread : v # t => th[v].pc \notin MutexPcs
  BY <1>1, <1>2, MutexQuiet
<1>15. \A v \in Thread : th'[v].pc \notin MutexPcs
  BY <1>5, <1>7, <1>9, <1>14
<1>16. MutexRight' /\ mutex' \in Thread \cup {NoThread}
  BY <1>15, SOConstants DEF MutexRight, Granted
<1>17. HeadKnown' /\ ~AtPc("gwake")' /\ ~AtPc("gown")'
  BY <1>15 DEF HeadKnown, AtPc, MutexPcs
<1>18. SharedWaiters' = SharedWaiters \ who /\ ExclusiveWaiters' = ExclusiveWaiters \ who
  BY <1>2, <1>3, <1>5, <1>7, <1>9 DEF SharedWaiters, ExclusiveWaiters
<1>19. /\ Sharing' = Sharing \cup {v \in who : th[v].type = "shared"}
       /\ Excluding' = Excluding \cup {v \in who : th[v].type = "exclusive"}
  BY <1>2, <1>3, <1>5, <1>7, <1>9 DEF Sharing, Excluding
<1>20. ASSUME NEW v \in Thread
       PROVE  /\ IsOwner(th'[v]) <=> IsOwner(th[v]) \/ (v \in who /\ th[v].type = "exclusive")
              /\ th'[v].held = th[v].held
  <2>1. CASE v = t
    BY <1>2, <1>3, <1>4, <1>5, <1>7, <2>1
  <2>2. CASE v \in who
    BY <1>6, <1>7, <1>9, <2>2
  <2>3. CASE v # t /\ v \notin who
    BY <1>7, <2>3
  <2>4. QED
    BY <2>1, <2>2, <2>3
<1>21. QED
  BY <1>11, <1>12, <1>13, <1>16, <1>17, <1>18, <1>19, <1>20

\* The readers that are promised the lock do not have it yet.
LEMMA PromisedApart ==
    ASSUME Basic, AtPc("gwake")
    PROVE  Cardinality(Sharing \cup SharedWaiters) = Cardinality(Sharing) + Cardinality(SharedWaiters)
<1>1. PICK t \in Thread : th[t].pc = "gwake"
  BY DEF AtPc
<1>2. \A v \in Thread : v # t => th[v].pc \notin MutexPcs
  BY <1>1, MutexQuiet DEF MutexPcs
<1>3. \A v \in SharedWaiters : v \in Thread /\ InQueue(th[v]) /\ Shaped(th[v])
  BY <1>1, <1>2 DEF SharedWaiters, WaitsShared, IsCounted, MutexPcs, EnterPcs, Basic, ThreadsShaped
<1>4. \A v \in SharedWaiters : ~HasShared(th[v])
  BY <1>3 DEF HasShared, InQueue, WaitPcs, Shaped, CallPcs
<1>5. Sharing \cap SharedWaiters = {}
  BY <1>4 DEF Sharing
<1>6. Cardinality(Sharing \cap SharedWaiters) = 0
  BY <1>5, FS_EmptySet
<1>7. Cardinality(Sharing \cup SharedWaiters)
        = Cardinality(Sharing) + Cardinality(SharedWaiters) - Cardinality(Sharing \cap SharedWaiters)
  BY CountedFinite, FS_Union
<1>8. QED
  BY <1>6, <1>7, CountedFinite

\* All readers of the queue get the lock.
LEMMA WakeSharedKeeps ==
    ASSUME IInv, NEW t \in Thread, WakeShared(t)
    PROVE  IInv'
<1> DEFINE who == {waitingThreads[i] : i \in Queued("shared")}
<1>1. /\ Typed /\ lockState \in Int /\ waiters \in Int /\ th[t].pc = "gwake"
      /\ lockState' = lockState /\ monitorCount' = monitorCount
      /\ exclusiveThread' = exclusiveThread /\ Granted(t, who)
      /\ waiters' = waiters - (waiters % WRITER_INCR)
      /\ Basic /\ StateRight /\ WaitersRight /\ OwnerKnown
  BY DEF WakeShared, IInv, Basic, Typed
<1>2. AtPc("gwake") /\ th[t].pc \in MutexPcs
  BY <1>1 DEF AtPc, MutexPcs
<1>3. who = SharedWaiters
  <2>1. Members(waitingThreads) = {v \in Thread : InQueue(th[v])}
    BY <1>1 DEF Basic, QueueRight
  <2>2. who = {v \in Members(waitingThreads) : th[v].type = "shared"}
    BY DEF Queued, Members
  <2>3. \A v \in Thread : th[v].pc \notin EnterPcs
    <3>1. \A v \in Thread : v # t => th[v].pc \notin MutexPcs
      BY <1>1, <1>2, MutexQuiet
    <3>2. QED
      BY <1>1, <3>1 DEF MutexPcs, EnterPcs
  <2>4. SharedWaiters = {v \in Thread : th[v].type = "shared" /\ InQueue(th[v])}
    BY <2>3 DEF SharedWaiters, WaitsShared, IsCounted
  <2>5. QED
    BY <2>1, <2>2, <2>4
<1>4. who \subseteq {v \in Thread : InQueue(th[v])} /\ \A v \in who : th[v].type = "shared"
  BY <1>1 DEF Queued, Basic, QueueRight, Members
<1> HIDE DEF who
<1>5. /\ th' \in [Thread -> TH] /\ waitingThreads' \in Seq(Thread) /\ mutex' \in Thread \cup {NoThread}
      /\ ThreadsShaped' /\ QueueRight' /\ MutexRight' /\ HeadKnown'
      /\ SharedWaiters' = SharedWaiters \ who
      /\ ExclusiveWaiters' = ExclusiveWaiters \ who
      /\ Sharing' = Sharing \cup {v \in who : th[v].type = "shared"}
      /\ Excluding' = Excluding \cup {v \in who : th[v].type = "exclusive"}
      /\ ~AtPc("gwake")' /\ ~AtPc("gown")'
      /\ \A v \in Thread : /\ IsOwner(th'[v]) <=> IsOwner(th[v]) \/ (v \in who /\ th[v].type = "exclusive")
                           /\ th'[v].held = th[v].held
  BY <1>1, <1>4, GrantedStep
<1>6. /\ SharedWaiters' = {} /\ ExclusiveWaiters' = ExclusiveWaiters
      /\ Sharing' = Sharing \cup SharedWaiters /\ Excluding' = Excluding
      /\ \A v \in Thread : IsOwner(th'[v]) <=> IsOwner(th[v])
  <2>1. \A v \in who : v \notin ExclusiveWaiters
    BY <1>4 DEF ExclusiveWaiters, WaitsExclusive
  <2>2. QED
    BY <1>3, <1>4, <1>5, <2>1
<1>7. /\ Cardinality(SharedWaiters) \in Nat /\ Cardinality(ExclusiveWaiters) \in Nat
      /\ Cardinality(Sharing) \in Nat
  BY CountedFinite
<1>8. waiters' = WRITER_INCR * Cardinality(ExclusiveWaiters)
  <2>1. waiters = Cardinality(SharedWaiters) + WRITER_INCR * Cardinality(ExclusiveWaiters)
    BY <1>1 DEF WaitersRight
  <2>2. waiters % WRITER_INCR = Cardinality(SharedWaiters)
    BY <1>1, LowHalf
  <2>3. QED
    BY <1>1, <1>7, <2>1, <2>2 DEF WRITER_INCR
<1>9. WaitersRight' /\ waiters' \in Int
  <2>1. Cardinality(SharedWaiters') = 0
    BY <1>6, FS_EmptySet
  <2>2. waiters' = Cardinality(SharedWaiters') + WRITER_INCR * Cardinality(ExclusiveWaiters')
    BY <1>6, <1>7, <1>8, <2>1 DEF WRITER_INCR
  <2>3. waiters' \in Int
    BY <1>7, <1>8 DEF WRITER_INCR
  <2>4. QED
    BY <2>2, <2>3 DEF WaitersRight
<1>10. OwnerKnown'
  BY <1>1, <1>5, <1>6 DEF OwnerKnown
<1>11. Typed'
  BY <1>1, <1>5, <1>9 DEF Typed
<1>12. Basic'
  BY <1>5, <1>9, <1>10, <1>11 DEF Basic
<1>13. /\ lockState >= 0 /\ lockState = Cardinality(Sharing) + Cardinality(SharedWaiters)
       /\ Excluding = {}
  BY <1>1, <1>2 DEF StateRight, Owed
<1>14. StateRight'
  <2>2. Cardinality(Sharing \cup SharedWaiters) = Cardinality(Sharing) + Cardinality(SharedWaiters)
    BY <1>1, <1>2, PromisedApart
  <2>3. Owed' = 0
    BY <1>5 DEF Owed
  <2>4. lockState' = Cardinality(Sharing') + Owed' /\ lockState' >= 0
    BY <1>1, <1>6, <1>7, <1>13, <2>2, <2>3
  <2>5. QED
    BY <1>5, <1>6, <1>13, <2>4 DEF StateRight
<1>15. Woken'
  <2>1. Owed > 0
    BY <1>1, <1>2, OwedPositive
  <2>2. lockState' # 0
    BY <1>1, <1>2, <1>7, <1>13, <2>1 DEF Owed
  <2>3. QED
    BY <2>2 DEF Woken
<1>16. QED
  BY <1>12, <1>14, <1>15 DEF IInv

\* The writer at the head of the queue gets the lock.
LEMMA WakeExclusiveKeeps ==
    ASSUME IInv, NEW t \in Thread, WakeExclusive(t)
    PROVE  IInv'
<1> DEFINE h == Head(waitingThreads)
           who == {h}
<1>1. /\ Typed /\ lockState \in Int /\ waiters \in Int /\ th[t].pc = "gown"
      /\ lockState' = lockState /\ monitorCount' = monitorCount
      /\ exclusiveThread' = h /\ Granted(t, who)
      /\ waiters' = waiters - WRITER_INCR
      /\ Basic /\ StateRight /\ WaitersRight /\ OwnerKnown
  BY DEF WakeExclusive, IInv, Basic, Typed
<1>2. AtPc("gown") /\ waitingThreads # <<>> /\ th[h].type = "exclusive"
  BY <1>1 DEF AtPc, Basic, HeadKnown
<1>3. h \in Thread /\ InQueue(th[h])
  BY <1>1, <1>2, HeadQueued
<1> HIDE DEF h
<1>4. /\ th' \in [Thread -> TH] /\ waitingThreads' \in Seq(Thread) /\ mutex' \in Thread \cup {NoThread}
      /\ ThreadsShaped' /\ QueueRight' /\ MutexRight' /\ HeadKnown'
      /\ SharedWaiters' = SharedWaiters \ who
      /\ ExclusiveWaiters' = ExclusiveWaiters \ who
      /\ Sharing' = Sharing \cup {v \in who : th[v].type = "shared"}
      /\ Excluding' = Excluding \cup {v \in who : th[v].type = "exclusive"}
      /\ ~AtPc("gwake")' /\ ~AtPc("gown")'
      /\ \A v \in Thread : /\ IsOwner(th'[v]) <=> IsOwner(th[v]) \/ (v \in who /\ th[v].type = "exclusive")
                           /\ th'[v].held = th[v].held
  <2>1. who \subseteq {v \in Thread : InQueue(th[v])}
    BY <1>3
  <2> HIDE DEF who
  <2>2. QED
    BY <1>1, <2>1, GrantedStep
<1>5. lockState = -1 /\ Sharing = {} /\ Excluding = {}
  BY <1>1, <1>2 DEF StateRight
<1>6. h \notin SharedWaiters /\ h \in ExclusiveWaiters
  BY <1>2, <1>3 DEF SharedWaiters, ExclusiveWaiters, WaitsShared, WaitsExclusive, IsCounted
<1>7. /\ SharedWaiters' = SharedWaiters /\ ExclusiveWaiters' = ExclusiveWaiters \ {h}
      /\ Sharing' = {} /\ Excluding' = {h}
  BY <1>2, <1>4, <1>5, <1>6
<1>8. \A v \in Thread : ~IsOwner(th[v])
  BY <1>5 DEF Excluding, IsOwner, HasExclusive
<1>9. WaitersRight' /\ waiters' \in Int
  <2>1. /\ Cardinality(SharedWaiters) \in Nat /\ Cardinality(ExclusiveWaiters) \in Nat
        /\ IsFiniteSet(ExclusiveWaiters)
    BY CountedFinite
  <2>2. Cardinality(ExclusiveWaiters') = Cardinality(ExclusiveWaiters) - 1
    BY <1>6, <1>7, <2>1, FS_RemoveElement
  <2>3. waiters = Cardinality(SharedWaiters) + WRITER_INCR * Cardinality(ExclusiveWaiters)
    BY <1>1 DEF WaitersRight
  <2>4. waiters' = Cardinality(SharedWaiters') + WRITER_INCR * Cardinality(ExclusiveWaiters')
    BY <1>1, <1>7, <2>1, <2>2, <2>3 DEF WRITER_INCR
  <2>5. waiters' \in Int
    BY <1>1 DEF WRITER_INCR
  <2>6. QED
    BY <2>4, <2>5 DEF WaitersRight
<1>10. OwnerKnown'
  <2>1. \A v \in Thread : exclusiveThread' = v <=> IsOwner(th'[v])
    BY <1>1, <1>2, <1>4, <1>8
  <2>2. ~(monitorCount > 0)
    BY <1>1, <1>8 DEF OwnerKnown, IsOwner
  <2>3. QED
    BY <1>1, <2>1, <2>2 DEF OwnerKnown
<1>11. Typed'
  BY <1>1, <1>3, <1>4, <1>9 DEF Typed
<1>12. Basic'
  BY <1>4, <1>9, <1>10, <1>11 DEF Basic
<1>13. StateRight'
  BY <1>1, <1>3, <1>4, <1>5, <1>7 DEF StateRight
<1>14. Woken'
  BY <1>1, <1>5 DEF Woken
<1>15. QED
  BY <1>12, <1>13, <1>14 DEF IInv

-----------------------------------------------------------------------------
(* The theorems. *)

\* Every step of every thread keeps the invariant.
LEMMA NextKeeps ==
    ASSUME IInv, [Next]_vars
    PROVE  IInv'
<1>1. CASE UNCHANGED vars
  <2>1. monitorCount \in 0..MaxDepth /\ (monitorCount > 0 => \E t \in Thread : th[t].held = "exclusive")
    BY DEF IInv, Basic, Typed, OwnerKnown
  <2>2. QED
    BY <1>1, <2>1, MonitorKeeps DEF vars
<1>2. ASSUME NEW t \in Thread, Calls(t) \/ unlock(t) PROVE IInv'
  BY <1>2, lockKeeps, lockConditionalKeeps, downgradeKeeps, unlockKeeps DEF Calls
<1>3. ASSUME NEW t \in Thread, Inside(t) PROVE IInv'
  <2>1. CASE TestWaiters(t) \/ TestState(t) \/ Exchange(t) \/ Owns(t)
    BY <2>1, TestWaitersKeeps, TestStateKeeps, ExchangeKeeps, OwnsKeeps
  <2>2. CASE Slow(t) \/ TestQueue(t) \/ ExchangeInMutex(t) \/ DoneInMutex(t)
    BY <2>2, SlowKeeps, TestQueueKeeps, ExchangeInMutexKeeps, DoneInMutexKeeps
  <2>3. CASE wait(t) \/ Check(t) \/ Wakes(t) \/ Expires(t)
    BY <2>3, waitKeeps, CheckKeeps, WakesKeeps, ExpiresKeeps
  <2>4. CASE ReadState(t) \/ UnlockExchange(t) \/ TestGrant(t) \/ TestReaders(t)
    BY <2>4, ReadStateKeeps, UnlockExchangeKeeps, TestGrantKeeps
  <2>5. CASE grantLocks(t) \/ GrantShared(t) \/ WakeShared(t) \/ GrantExclusive(t) \/ WakeExclusive(t)
    BY <2>5, grantLocksKeeps, GrantSharedKeeps, WakeSharedKeeps, GrantExclusiveKeeps, WakeExclusiveKeeps
  <2>6. QED
    BY <1>3, <2>1, <2>2, <2>3, <2>4, <2>5 DEF Inside
<1>4. QED
  BY <1>1, <1>2, <1>3 DEF Next

LEMMA InitHolds ==
    ASSUME Init
    PROVE  IInv
<1>1. \A t \in Thread : th[t] = NewThread
  BY DEF Init
<1>2. /\ NewThread \in TH /\ NewThread.pc = "idle" /\ NewThread.held = "none" /\ NewThread.type = "none"
      /\ NewThread.granted = FALSE
  BY DEF NewThread, TH, PcSet
<1>3. /\ Shaped(NewThread) /\ ~InQueue(NewThread) /\ ~WaitsShared(NewThread) /\ ~WaitsExclusive(NewThread)
      /\ NewThread.pc \notin MutexPcs /\ ~IsOwner(NewThread)
      /\ ~HasShared(NewThread) /\ ~HasExclusive(NewThread)
  BY <1>2 DEF Shaped, InQueue, WaitsShared, WaitsExclusive, IsCounted, MutexPcs, EnterPcs, WaitPcs,
              CallPcs, IsOwner, HasShared, HasExclusive
<1>4. Typed
  BY <1>2, SOConstants DEF Typed, Init
<1>5. ThreadsShaped /\ MutexRight /\ HeadKnown /\ OwnerKnown
  BY <1>1, <1>2, <1>3, SOConstants DEF ThreadsShaped, MutexRight, HeadKnown, OwnerKnown, Init, MutexPcs
<1>6. QueueRight
  <2>1. waitingThreads = <<>> /\ DOMAIN waitingThreads = {}
    BY DEF Init
  <2>2. Members(waitingThreads) = {} /\ Distinct(waitingThreads)
    BY <2>1 DEF Members, Distinct
  <2>3. QED
    BY <1>1, <1>3, <2>2 DEF QueueRight
<1>7. SharedWaiters = {} /\ ExclusiveWaiters = {} /\ Sharing = {} /\ Excluding = {}
  BY <1>1, <1>3 DEF SharedWaiters, ExclusiveWaiters, Sharing, Excluding
<1>8. Cardinality({}) = 0
  BY FS_EmptySet
<1>9. WaitersRight
  <2>1. waiters = 0
    BY DEF Init
  <2>2. QED
    BY <1>7, <1>8, <2>1 DEF WaitersRight, WRITER_INCR
<1>10. ~AtPc("gwake") /\ ~AtPc("gown") /\ ~AtPc("enqueue")
  BY <1>1, <1>2 DEF AtPc
<1>11. StateRight
  BY <1>7, <1>8, <1>10 DEF StateRight, Owed, Init
<1>12. Woken
  BY <1>10 DEF Woken, Init
<1>13. QED
  BY <1>4, <1>5, <1>6, <1>9, <1>11, <1>12 DEF IInv, Basic

\* The inductive invariant of SyncObject, for any number of threads that the
\* low half of waiters can count: the queue is who waits, the counters count
\* who has the lock and who waits for it, through every race of lock, unlock,
\* timeout and grantLocks.
THEOREM Invariance == Spec => []IInv
<1>1. Init => IInv
  BY InitHolds
<1>2. IInv /\ [Next]_vars => IInv'
  BY NextKeeps
<1>3. QED
  BY <1>1, <1>2, PTL DEF Spec

\* The type invariant.  lockState never counts more readers than there are
\* threads, although grantLocks adds a number it reads elsewhere, and waiters,
\* from which grantLocks and timeouts subtract, never goes below zero.
THEOREM TypeCorrect == Spec => []TypeOK
<1>1. ASSUME IInv PROVE TypeOK
  <2>1. Basic /\ StateRight /\ Typed
    BY <1>1 DEF IInv, Basic
  <2>2. waiters \in Nat
    BY <2>1, NoWaiters
  <2>3. IsFiniteSet(Thread) /\ Cardinality(Thread) \in Nat
    BY SOConstants, FS_CardinalityType
  <2>4. lockState \in -1..Cardinality(Thread)
    <3>1. CASE lockState = -1
      BY <2>3, <3>1
    <3>2. CASE lockState # -1
      <4>1. lockState = Cardinality(Sharing) + Owed
        BY <2>1, <3>2 DEF StateRight
      <4>2. PICK S \in {Sharing, Sharing \cup SharedWaiters} : lockState = Cardinality(S)
        BY <2>1, <4>1, PromisedApart, CountedFinite DEF Owed
      <4>3. S \subseteq Thread
        BY <4>2 DEF Sharing, SharedWaiters
      <4>4. Cardinality(S) <= Cardinality(Thread) /\ Cardinality(S) \in Nat
        BY <2>3, <4>3, FS_Subset, FS_CardinalityType
      <4>5. QED
        BY <2>3, <4>2, <4>4
    <3>3. QED
      BY <3>1, <3>2
  <2>5. QED
    BY <2>1, <2>2, <2>4 DEF TypeOK, Typed, TH, PcSet
<1>2. QED
  BY <1>1, Invariance, PTL

\* The places of the queue that hold a thread of one type are as many as such
\* threads.
LEMMA QueuedCount ==
    ASSUME Basic, NEW type
    PROVE  Cardinality(Queued(type))
             = Cardinality({t \in Thread : th[t].type = type /\ InQueue(th[t])})
<1> DEFINE S == Queued(type)
           R == {t \in Thread : th[t].type = type /\ InQueue(th[t])}
           f == [i \in S |-> waitingThreads[i]]
<1>1. /\ waitingThreads \in Seq(Thread) /\ Distinct(waitingThreads)
      /\ Members(waitingThreads) = {t \in Thread : InQueue(th[t])}
  BY DEF Basic, Typed, QueueRight
<1>2. IsFiniteSet(R)
  <2>1. IsFiniteSet(Thread) /\ R \subseteq Thread
    BY SOConstants
  <2>2. QED
    BY <2>1, FS_Subset
<1>3. \A i \in S : i \in DOMAIN waitingThreads /\ waitingThreads[i] \in R
  BY <1>1 DEF Queued, Members
<1>4. \A v \in R : \E i \in S : waitingThreads[i] = v
  BY <1>1 DEF Queued, Members
<1>5. f \in Injection(S, R) /\ f \in Surjection(S, R)
  BY <1>1, <1>3, <1>4 DEF Injection, IsInjective, Surjection, Distinct
<1>6. QED
  BY <1>2, <1>5, FS_Injection

\* Whenever the mutex is free, waiters counts the queue: the threads that asked
\* for the lock and were queued by wait, and were neither granted it by
\* grantLocks nor left after a timeout.
THEOREM WaitersRightly == Spec => []WaitersCount
<1>1. ASSUME IInv, mutex = NoThread
      PROVE  waiters = Cardinality(Queued("shared")) + WRITER_INCR * Cardinality(Queued("exclusive"))
  <2>1. Basic
    BY <1>1 DEF IInv
  <2>2. \A t \in Thread : th[t].pc \notin EnterPcs
    BY <1>1, <2>1, SOConstants DEF Basic, MutexRight, MutexPcs
  <2>3. /\ SharedWaiters = {t \in Thread : th[t].type = "shared" /\ InQueue(th[t])}
        /\ ExclusiveWaiters = {t \in Thread : th[t].type = "exclusive" /\ InQueue(th[t])}
    BY <2>2 DEF SharedWaiters, ExclusiveWaiters, WaitsShared, WaitsExclusive, IsCounted
  <2>4. /\ Cardinality(Queued("shared")) = Cardinality(SharedWaiters)
        /\ Cardinality(Queued("exclusive")) = Cardinality(ExclusiveWaiters)
    BY <2>1, <2>3, QueuedCount
  <2>5. QED
    BY <2>1, <2>4 DEF Basic, WaitersRight
<1>2. IInv => WaitersCount
  BY <1>1 DEF WaitersCount
<1>3. QED
  BY <1>2, Invariance, PTL

\* lockState is the number of readers, or says that there is one writer and no
\* reader, whatever compareExchange failed, timeout met a grant, or downgrade
\* let others in.
THEOREM StateRightly == Spec => []StateCounts
<1>1. ASSUME IInv, Granting = {}
      PROVE  \/ lockState = -1 /\ Cardinality({t \in Thread : Excludes(t)}) = 1
                /\ \A t \in Thread : ~Shares(t)
             \/ lockState >= 0 /\ lockState = Cardinality({t \in Thread : Shares(t)})
                /\ \A t \in Thread : ~Excludes(t)
  <2>1. ~AtPc("gwake") /\ ~AtPc("gown")
    BY <1>1 DEF Granting, AtPc
  <2>2. Sharing = {t \in Thread : Shares(t)} /\ Excluding = {t \in Thread : Excludes(t)}
    BY DEF Sharing, Excluding, HasShared, HasExclusive, Shares, Excludes
  <2>3. \/ lockState >= 0 /\ lockState = Cardinality(Sharing) + 0 /\ Excluding = {}
        \/ lockState = -1 /\ Sharing = {} /\ \E t \in Thread : Excluding = {t}
    BY <1>1, <2>1 DEF IInv, StateRight, Owed
  <2>4. CASE lockState >= 0 /\ lockState = Cardinality(Sharing) + 0 /\ Excluding = {}
    <3>1. lockState = Cardinality(Sharing)
      BY <2>4, CountedFinite
    <3>2. QED
      BY <2>2, <2>4, <3>1
  <2>5. CASE lockState = -1 /\ Sharing = {} /\ \E t \in Thread : Excluding = {t}
    <3>1. Cardinality(Excluding) = 1
      BY <2>5, FS_Singleton
    <3>2. QED
      BY <2>2, <2>5, <3>1
  <2>6. QED
    BY <2>3, <2>4, <2>5
<1>2. IInv => StateCounts
  BY <1>1 DEF StateCounts
<1>3. QED
  BY <1>2, Invariance, PTL

\* No wakeup is lost: unlock changes lockState and reads waiters without the
\* mutex, lock counts itself and reads lockState again under it; whichever comes
\* first, a free lock with threads queued has somebody in or before grantLocks.
THEOREM WakeupsKept == Spec => []NoLostWakeup
<1>1. ASSUME IInv, lockState = 0, waitingThreads # <<>>
      PROVE  \E t \in Thread : th[t].pc \in {"grant?", "gmutex", "gshared", "gexcl"}
  BY <1>1 DEF IInv, Woken, Wakener
<1>2. IInv => NoLostWakeup
  BY <1>1 DEF NoLostWakeup
<1>3. QED
  BY <1>2, Invariance, PTL

-----------------------------------------------------------------------------
(* The read-write lock. *)

ModeOf(x) ==
    CASE x.held = "shared" -> "read"
      [] x.held = "exclusive" -> "write"
      [] OTHER -> "none"

LEMMA ModeIs ==
    /\ mode = [t \in Thread |-> ModeOf(th[t])]
    /\ mode' = [t \in Thread |-> ModeOf(th'[t])]
BY DEF mode, ModeOf

\* No thread goes from the shared lock to the exclusive one, and none but t
\* gets the lock or gives it back.
Turns(t) ==
    /\ \A v \in Thread : v # t => th'[v].held = th[v].held
    /\ th'[t].held \in Type \cup {"none"}
    /\ th[t].held = "shared" => th'[t].held # "exclusive"

LEMMA EndsTurns ==
    ASSUME IInv, NEW t \in Thread, NEW h \in Type \cup {"none"}, Ends(t, h),
           h \in {"none", th[t].held} \/ th[t].held = "none"
    PROVE  Turns(t)
<1>1. Typed /\ th \in [Thread -> TH]
  BY ThreadFacts
<1>2. Ended(t, h) \in TH /\ Ended(t, h).held = h
  BY <1>1, EndedIs
<1>3. Step(t, Ended(t, h))
  BY DEF Ends, Step, Ended
<1>4. th'[t] = Ended(t, h) /\ \A v \in Thread : v # t => th'[v] = th[v]
  BY <1>1, <1>2, <1>3, StepPointwise
<1>5. QED
  BY <1>2, <1>4 DEF Turns

LEMMA GoesTurns ==
    ASSUME IInv, NEW t \in Thread, NEW pc \in PcSet, Goes(t, pc)
    PROVE  Turns(t)
<1> DEFINE u == Moved(th[t], pc, 0)
<1>1. Typed /\ th[t] \in TH
  BY ThreadFacts
<1>2. Step(t, u) /\ u \in TH /\ u.held = th[t].held
  BY GoesIs
<1> HIDE DEF u
<1>3. th'[t] = u /\ \A v \in Thread : v # t => th'[v] = th[v]
  BY <1>1, <1>2, StepPointwise
<1>4. th[t].held \in Type \cup {"none"}
  BY <1>1 DEF TH
<1>5. QED
  BY <1>2, <1>3, <1>4 DEF Turns

\* What a call begins with, and the steps that keep a copy of lockState.
LEMMA CallsTurn ==
    ASSUME IInv, NEW t \in Thread, Calls(t) \/ unlock(t)
    PROVE  Turns(t)
<1>1. th \in [Thread -> TH] /\ th[t] \in TH /\ th[t].held \in Type \cup {"none"}
  BY ThreadFacts DEF TH
<1>2. ASSUME th' = th PROVE Turns(t)
  BY <1>1, <1>2 DEF Turns
<1>3. ASSUME NEW pc, NEW type, NEW timeOut,
             th' = [th EXCEPT ![t].pc = pc, ![t].type = type, ![t].timeOut = timeOut]
      PROVE  Turns(t)
  <2>1. th'[t].held = th[t].held /\ \A v \in Thread : v # t => th'[v] = th[v]
    BY <1>1, <1>3 DEF TH
  <2>2. QED
    BY <1>1, <2>1 DEF Turns
<1>4. ASSUME NEW type \in Type, NEW timeOut \in Timeouts, lock(t, type, timeOut) PROVE Turns(t)
  <2>1. CASE LocksAgain(t, type)
    BY <1>2, <2>1 DEF LocksAgain
  <2>2. CASE th' = [th EXCEPT ![t].pc = "waiters", ![t].type = type, ![t].timeOut = timeOut]
    BY <1>3, <2>2
  <2>3. QED
    BY <1>4, <2>1, <2>2 DEF lock
<1>5. ASSUME NEW type \in Type, lockConditional(t, type) PROVE Turns(t)
  <2>1. CASE LocksAgain(t, type)
    BY <1>2, <2>1 DEF LocksAgain
  <2>2. CASE th' = [th EXCEPT ![t].pc = IF type = "shared" THEN "test" ELSE "waiters",
                              ![t].type = type, ![t].timeOut = "cond"]
    <3> DEFINE pc == IF type = "shared" THEN "test" ELSE "waiters"
    <3>1. th' = [th EXCEPT ![t].pc = pc, ![t].type = type, ![t].timeOut = "cond"]
      BY <2>2
    <3> HIDE DEF pc
    <3>2. QED
      BY <1>3, <3>1
  <2>3. QED
    BY <1>5, <2>1, <2>2 DEF lockConditional
<1>6. CASE downgrade(t)
  <2>1. th'[t].held = "shared" /\ \A v \in Thread : v # t => th'[v] = th[v]
    BY <1>1, <1>6 DEF TH, downgrade
  <2>2. QED
    BY <2>1 DEF Turns, Type
<1>7. CASE unlock(t)
  <2>1. CASE th' = th
    BY <1>2, <2>1
  <2>2. CASE th' = [th EXCEPT ![t].pc = "unlock", ![t].type = th[t].held, ![t].held = "none"]
    <3>1. th'[t].held = "none" /\ \A v \in Thread : v # t => th'[v] = th[v]
      BY <1>1, <2>2 DEF TH
    <3>2. QED
      BY <3>1 DEF Turns
  <2>3. QED
    BY <1>7, <2>1, <2>2 DEF unlock
<1>8. QED
  BY <1>4, <1>5, <1>6, <1>7 DEF Calls

LEMMA InsideTurns ==
    ASSUME IInv, NEW t \in Thread, Inside(t)
    PROVE  Turns(t)
<1>1. /\ th \in [Thread -> TH] /\ th[t] \in TH /\ th[t].held \in Type \cup {"none"} /\ Shaped(th[t])
      /\ th[t].type \in Type \cup {"none"}
  BY ThreadFacts DEF TH
<1>2. /\ "test" \in PcSet /\ "slow" \in PcSet /\ "own" \in PcSet /\ "waiters" \in PcSet
      /\ "queue?" \in PcSet /\ "enqueue" \in PcSet /\ "qdone" \in PcSet /\ "asleep" \in PcSet
      /\ "unlock" \in PcSet /\ "grant?" \in PcSet /\ "gmutex" \in PcSet /\ "gwake" \in PcSet
      /\ "gexcl" \in PcSet /\ "gown" \in PcSet
  BY DEF PcSet
<1>3. ASSUME NEW o, NEW pc, th' = [th EXCEPT ![t].pc = pc, ![t].old = o]
      PROVE  Turns(t)
  <2>1. th'[t].held = th[t].held /\ \A v \in Thread : v # t => th'[v] = th[v]
    BY <1>1, <1>3 DEF TH
  <2>2. QED
    BY <1>1, <2>1 DEF Turns
<1>4. ASSUME th[t].pc \in CallPcs, Has(t) PROVE Turns(t)
  <2>1. th[t].held = "none" /\ th[t].type \in Type
    BY <1>1, <1>4 DEF Shaped
  <2>2. QED
    BY <1>4, <2>1, EndsTurns DEF Has
<1>5. ASSUME Ends(t, "none") \/ Ends(t, th[t].held) PROVE Turns(t)
  BY <1>1, <1>5, EndsTurns
<1>6. CASE TestWaiters(t)
  BY <1>2, <1>6, GoesTurns DEF TestWaiters
<1>7. CASE TestState(t)
  BY <1>2, <1>3, <1>7, GoesTurns DEF TestState
<1>8. CASE Exchange(t)
  <2>1. th[t].pc \in CallPcs
    BY <1>8 DEF Exchange, CallPcs
  <2>2. Has(t) \/ \E pc \in {"own", "test", "waiters"} : Goes(t, pc)
    BY <1>8 DEF Exchange
  <2>3. QED
    BY <1>2, <1>4, <2>1, <2>2, GoesTurns
<1>9. CASE Owns(t)
  BY <1>4, <1>9 DEF Owns, CallPcs
<1>10. CASE Slow(t)
  BY <1>2, <1>5, <1>10, GoesTurns DEF Slow, Fails
<1>11. CASE TestQueue(t)
  BY <1>2, <1>3, <1>11, GoesTurns DEF TestQueue
<1>12. CASE ExchangeInMutex(t)
  BY <1>2, <1>12, GoesTurns DEF ExchangeInMutex
<1>13. CASE DoneInMutex(t)
  BY <1>4, <1>13 DEF DoneInMutex, CallPcs, EnterPcs
<1>14. CASE wait(t)
  <2>1. th'[t].held = th[t].held /\ \A v \in Thread : v # t => th'[v] = th[v]
    BY <1>1, <1>14 DEF TH, wait
  <2>2. QED
    BY <1>1, <2>1 DEF Turns
<1>15. CASE Check(t)
  BY <1>2, <1>4, <1>15, GoesTurns DEF Check, CallPcs, WaitPcs
<1>16. CASE Wakes(t)
  <2>1. PICK pc \in {"check", "expired"} : th' = [th EXCEPT ![t].wakeup = FALSE, ![t].pc = pc]
    BY <1>16 DEF Wakes
  <2>2. th'[t].held = th[t].held /\ \A v \in Thread : v # t => th'[v] = th[v]
    BY <1>1, <2>1 DEF TH
  <2>3. QED
    BY <1>1, <2>2 DEF Turns
<1>17. CASE Expires(t)
  BY <1>4, <1>5, <1>17 DEF Expires, Fails, CallPcs, WaitPcs
<1>18. CASE ReadState(t)
  BY <1>3, <1>18 DEF ReadState
<1>19. CASE UnlockExchange(t)
  BY <1>2, <1>5, <1>19, GoesTurns DEF UnlockExchange
<1>20. CASE TestGrant(t) \/ TestReaders(t)
  BY <1>2, <1>5, <1>20, GoesTurns DEF TestGrant, TestReaders
<1>21. CASE grantLocks(t)
  <2>1. \/ Ends(t, th[t].held) \/ Goes(t, "gexcl")
        \/ th' = [th EXCEPT ![t].old = lockState, ![t].pc = "gshared"]
    BY <1>21 DEF grantLocks
  <2>2. CASE th' = [th EXCEPT ![t].old = lockState, ![t].pc = "gshared"]
    <3>1. th'[t].held = th[t].held /\ \A v \in Thread : v # t => th'[v] = th[v]
      BY <1>1, <2>2 DEF TH
    <3>2. QED
      BY <1>1, <3>1 DEF Turns
  <2>3. QED
    BY <1>2, <1>5, <2>1, <2>2, GoesTurns
<1>22. CASE GrantShared(t)
  <2>1. CASE th' = [th EXCEPT ![t].old = lockState]
    <3>1. th'[t].held = th[t].held /\ \A v \in Thread : v # t => th'[v] = th[v]
      BY <1>1, <2>1 DEF TH
    <3>2. QED
      BY <1>1, <3>1 DEF Turns
  <2>2. QED
    BY <1>2, <1>5, <1>22, <2>1, GoesTurns DEF GrantShared, Leaves
<1>23. CASE GrantExclusive(t)
  BY <1>2, <1>5, <1>23, GoesTurns DEF GrantExclusive, Leaves
<1>24. CASE WakeShared(t) \/ WakeExclusive(t)
  <2>1. PICK who : Granted(t, who)
    BY <1>24 DEF WakeShared, WakeExclusive
  <2>2. \A v \in Thread : th'[v].held = th[v].held
    <3>1. \A v \in Thread : th[v] \in TH
      BY <1>1
    <3>2. Typed
      BY ThreadFacts
    <3>3. Ended(t, th[t].held).held = th[t].held
      BY <1>1, <3>2, EndedIs
    <3>4. \A v \in Thread : [th[v] EXCEPT !.granted = TRUE, !.wakeup = TRUE].held = th[v].held
      BY <3>1 DEF TH
    <3>5. \A v \in Thread : th'[v] \in {[th[v] EXCEPT !.granted = TRUE, !.wakeup = TRUE], th[v]}
                            \/ (v = t /\ th'[v] = Ended(t, th[t].held))
      BY <2>1 DEF Granted, Ended
    <3>6. QED
      BY <3>3, <3>4, <3>5
  <2>3. QED
    BY <1>1, <2>2 DEF Turns
<1>25. QED
  BY <1>6, <1>7, <1>8, <1>9, <1>10, <1>11, <1>12, <1>13, <1>14, <1>15, <1>16, <1>17, <1>18, <1>19,
     <1>20, <1>21, <1>22, <1>23, <1>24 DEF Inside

\* After the step, too, a writer has the lock alone.
LEMMA HeldApartNext ==
    ASSUME IInv', NEW t \in Thread, NEW v \in Thread, v # t, th'[t].held = "exclusive"
    PROVE  th'[v].held \notin {"shared", "exclusive"}
<1>1. t \in Excluding'
  BY DEF Excluding, HasExclusive
<1>2. Sharing' = {} /\ Excluding' = {t}
  BY <1>1 DEF IInv, StateRight
<1>3. QED
  BY <1>2 DEF Sharing, Excluding, HasShared, HasExclusive

\* Such a step is one of the read-write lock.
LEMMA TurnIsStep ==
    ASSUME IInv, IInv', NEW t \in Thread, Turns(t)
    PROVE  [OneLock!Next]_mode
<1>1. /\ \A v \in Thread : v # t => th'[v].held = th[v].held
      /\ th[t].held \in Type \cup {"none"} /\ th'[t].held \in Type \cup {"none"}
      /\ th[t].held = "shared" => th'[t].held # "exclusive"
  BY ThreadFacts DEF Turns, TH
<1>2. /\ DOMAIN mode = Thread
      /\ \A v \in Thread : mode[v] = ModeOf(th[v])
      /\ mode' = [mode EXCEPT ![t] = ModeOf(th'[t])]
  BY <1>1, ModeIs DEF ModeOf
<1>3. CASE th'[t].held = th[t].held
  <2>1. ModeOf(th'[t]) = ModeOf(th[t])
    BY <1>3 DEF ModeOf
  <2>2. mode' = mode
    BY <1>2, <2>1, ModeIs
  <2>3. QED
    BY <2>2
<1>4. CASE th'[t].held = "none" /\ th[t].held # "none"
  <2>1. ModeOf(th'[t]) = "none" /\ mode[t] # "none"
    BY <1>1, <1>2, <1>4 DEF ModeOf, Type
  <2>2. QED
    BY <1>2, <2>1 DEF OneLock!Next, OneLock!Leave
<1>5. CASE th'[t].held = "shared" /\ th[t].held = "none"
  <2>1. ModeOf(th'[t]) = "read" /\ mode[t] = "none"
    BY <1>2, <1>5 DEF ModeOf
  <2>2. \A v \in Thread : th[v].held # "exclusive"
    <3>1. SUFFICES ASSUME NEW v \in Thread, v # t PROVE th[v].held # "exclusive"
      BY <1>5
    <3>2. th'[v].held # "exclusive"
      BY <1>5, <3>1, HeldApartNext
    <3>3. QED
      BY <1>1, <3>1, <3>2
  <2>3. \A v \in Thread : mode[v] # "write"
    BY <1>2, <2>2 DEF ModeOf
  <2>4. QED
    BY <1>2, <2>1, <2>3 DEF OneLock!Next, OneLock!GetRead
<1>6. CASE th'[t].held = "exclusive" /\ th[t].held = "none"
  <2>1. ModeOf(th'[t]) = "write" /\ mode[t] = "none"
    BY <1>2, <1>6 DEF ModeOf
  <2>2. \A v \in Thread : th[v].held \notin {"shared", "exclusive"}
    <3>1. SUFFICES ASSUME NEW v \in Thread, v # t PROVE th[v].held \notin {"shared", "exclusive"}
      BY <1>6
    <3>2. th'[v].held \notin {"shared", "exclusive"}
      BY <1>6, <3>1, HeldApartNext
    <3>3. QED
      BY <1>1, <3>1, <3>2
  <2>3. \A v \in Thread : mode[v] \notin {"read", "write"}
    BY <1>2, <2>2 DEF ModeOf
  <2>4. QED
    BY <1>2, <2>1, <2>3 DEF OneLock!Next, OneLock!GetWrite
<1>7. CASE th'[t].held = "shared" /\ th[t].held = "exclusive"
  <2>1. ModeOf(th'[t]) = "read" /\ mode[t] = "write"
    BY <1>2, <1>7 DEF ModeOf
  <2>2. QED
    BY <1>2, <2>1 DEF OneLock!Next, OneLock!Downgrade
<1>8. QED
  BY <1>1, <1>3, <1>4, <1>5, <1>6, <1>7 DEF Type

\* lock, lockConditional, unlock, downgrade, wait and grantLocks together are
\* one read-write lock (RWLockSpec) for any number of threads: readers are let
\* in while nobody writes, a writer alone, and only a writer becomes a reader
\* without giving the lock back.
THEOREM Refinement == Spec => IsOneLock
<1>1. Init => OneLock!Init
  BY ModeIs DEF Init, NewThread, ModeOf, OneLock!Init
<1>2. IInv /\ IInv' /\ [Next]_vars => [OneLock!Next]_mode
  <2> SUFFICES ASSUME IInv, IInv', [Next]_vars PROVE [OneLock!Next]_mode
    OBVIOUS
  <2>1. CASE UNCHANGED vars
    <3>1. th' = th
      BY <2>1 DEF vars
    <3>2. mode' = mode
      BY <3>1, ModeIs
    <3>3. QED
      BY <3>2
  <2>2. ASSUME NEW t \in Thread, Calls(t) \/ unlock(t) \/ Inside(t) PROVE [OneLock!Next]_mode
    <3>1. Turns(t)
      BY <2>2, CallsTurn, InsideTurns
    <3>2. QED
      BY <3>1, TurnIsStep
  <2>3. QED
    BY <2>1, <2>2 DEF Next
<1>3. QED
  BY <1>1, <1>2, Invariance, PTL DEF Spec, IsOneLock, OneLock!Spec
=============================================================================
