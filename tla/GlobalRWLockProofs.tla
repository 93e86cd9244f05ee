-------------------------- MODULE GlobalRWLockProofs --------------------------
(***************************************************************************)
(* Proofs about GlobalRWLock, for every number of processes and threads.    *)
(***************************************************************************)
EXTENDS GlobalRWLock, QueueProofs, FiniteSetTheorems, TLAPS

-----------------------------------------------------------------------------
(* The inductive invariant. *)

\* A thread in LCK_lock, and one that pendingLock is or will be zero for.
AskPcs == {"enqueue", "queued", "granted", "denied", "locked"}

IsReader(t) == t.pc = "reader"
IsAsker(t) == t.pc \in AskPcs
IsPending(t) == t.op = "write" /\ t.pc \in AskPcs \cup {"noReaders", "writerFinished"}

ReadersOf(p) == {c \in Client : Home[c] = p /\ IsReader(th[c])}
AskersOf(p) == {c \in Client : Home[c] = p /\ IsAsker(th[c])}
PendingOf(p) == {c \in Client : Home[c] = p /\ IsPending(th[c])}

\* The counters of every object count its threads.
CountsRight ==
    \A p \in Process :
        /\ rw[p].readers = Cardinality(ReadersOf(p))
        /\ rw[p].pendingLock = Cardinality(AskersOf(p))
        /\ rw[p].pendingWriters = Cardinality(PendingOf(p))

\* What a thread is called for where it is.
Roles ==
    \A c \in Client :
        /\ th[c].pc \in {"idle", "closed"} <=> th[c].op = "none"
        /\ th[c].pc \in {"noReaders", "writerFinished", "writer"} => th[c].op = "write"
        /\ th[c].pc \in {"readerWaits", "yield", "reader"} => th[c].op \in {"read", "jump"}

\* At most one thread of a process is in LCK_lock or writes.
Busy(c) == th[c].pc \in AskPcs \cup {"writer"}

OneBusy ==
    /\ \A c, d \in Client : Busy(c) /\ Busy(d) /\ Home[c] = Home[d] => c = d
    /\ \A p \in Process :
         rw[p].currentWriter <=> \E c \in Client : Home[c] = p /\ th[c].pc = "writer"

\* Nobody of its process reads meanwhile.
BusyAlone ==
    \A c, d \in Client : Busy(c) /\ Home[c] = Home[d] => th[d].pc # "reader"

\* Callers that take their process's own lock first are alone when they write.
GuardedAlone ==
    Guarded => /\ \A c, d \in Client :
                    c # d /\ Home[c] = Home[d] /\ th[c].op = "write" => th[d].pc = "idle"
               /\ \A c \in Client : th[c].pc # "writerFinished"

\* A writer that has been notified of the end of another one finds no reader,
\* and none that could become one before it.
NotifiedReady ==
    /\ \A c \in notified : th[c].pc \in {"noReaders", "writerFinished", "readerWaits"}
    /\ \A c \in notified : \A d \in Client :
         th[c].pc = "writerFinished" /\ Home[c] = Home[d] =>
            /\ th[d].pc # "reader"
            /\ th[d].pc \in AskPcs => th[d].op = "write"

\* What the thread in LCK_lock, and those that have the lock, know of its level.
LevelsKnown ==
    /\ \A p \in Process :
         /\ (\A c \in Client : Home[c] = p => th[c].pc # "granted") => lm[p].held = rw[p].physical
         /\ (\A c \in Client : Home[c] = p => th[c].pc # "queued") => lm[p].asked = LCK_none
    /\ \A c \in Client :
         /\ th[c].pc \in {"enqueue", "queued", "denied", "granted"} => rw[Home[c]].physical = LCK_none
         /\ th[c].pc = "granted" => lm[Home[c]].held = WantedLevel(c)
         /\ th[c].pc = "queued" => lm[Home[c]].asked = WantedLevel(c)
         /\ th[c].pc = "locked" => rw[Home[c]].physical = WantedLevel(c)
         /\ th[c].pc = "reader" => rw[Home[c]].physical # LCK_none
         /\ th[c].pc = "writer" => rw[Home[c]].physical = LCK_write

\* The lock manager grants compatible levels.
HeldAgree ==
    \A p, q \in Process : p # q => Agree(lm[p].held, lm[q].held)

\* A notice that has been delivered and has not been acted upon is remembered,
\* whether or not somebody waits at the moment.
Remembered ==
    \A p \in Process :
        (lm[p].notice = "seen" /\ ~lm[p].ast /\ lm[p].held # LCK_none) =>
            /\ rw[p].blocking
            /\ \E c \in Client : Home[c] = p /\ th[c].pc \in AskPcs \cup {"reader", "writer"}

\* What holds whatever the callers do.
Counting == TypeOK /\ CountsRight /\ Roles /\ OneBusy

\* What holds if callers take their process's own lock first, or a condition
\* never returns unasked.
Disciplined == Guarded \/ ~Spurious

IInv ==
    /\ Counting
    /\ BusyAlone
    /\ GuardedAlone
    /\ NotifiedReady
    /\ LevelsKnown
    /\ HeldAgree
    /\ Remembered

-----------------------------------------------------------------------------
(* What the counters say of the threads. *)

TH == [pc : PC, op : {"none", "read", "jump", "write"}, wait : {"wait", "no_wait", "timeout"}]

LM == [held : RWLevel, asked : RWLevel, notice : {"none", "posted", "seen"}, ast : BOOLEAN]

\* The threads counted are finitely many.
LEMMA CountedFinite ==
    ASSUME NEW p
    PROVE  IsFiniteSet(ReadersOf(p)) /\ IsFiniteSet(AskersOf(p)) /\ IsFiniteSet(PendingOf(p))
<1>1. IsFiniteSet(Client)
  BY RWConstants
<1>2. ReadersOf(p) \subseteq Client /\ AskersOf(p) \subseteq Client /\ PendingOf(p) \subseteq Client
  BY DEF ReadersOf, AskersOf, PendingOf
<1>3. QED
  BY <1>1, <1>2, FS_Subset

\* A counter is zero when there is nobody to count.
LEMMA ZeroIsNobody ==
    ASSUME CountsRight, NEW p \in Process
    PROVE  /\ rw[p].readers = 0 <=> \A c \in Client : Home[c] = p => th[c].pc # "reader"
           /\ rw[p].pendingLock = 0 <=> \A c \in Client : Home[c] = p => th[c].pc \notin AskPcs
           /\ rw[p].pendingWriters = 0 <=> \A c \in Client : Home[c] = p => ~IsPending(th[c])
<1>1. IsFiniteSet(ReadersOf(p)) /\ IsFiniteSet(AskersOf(p)) /\ IsFiniteSet(PendingOf(p))
  BY CountedFinite
<1>2. /\ rw[p].readers = 0 <=> ReadersOf(p) = {}
      /\ rw[p].pendingLock = 0 <=> AskersOf(p) = {}
      /\ rw[p].pendingWriters = 0 <=> PendingOf(p) = {}
  BY <1>1, FS_EmptySet DEF CountsRight
<1>3. QED
  BY <1>2 DEF ReadersOf, AskersOf, PendingOf, IsReader, IsAsker

\* The same of the readers after a step.
LEMMA NobodyReadsNext ==
    ASSUME CountsRight', NEW p \in Process
    PROVE  rw'[p].readers = 0 <=> \A c \in Client : Home[c] = p => th'[c].pc # "reader"
<1>1. IsFiniteSet(ReadersOf(p)')
  <2>1. IsFiniteSet(Client)
    BY RWConstants
  <2>2. ReadersOf(p)' \subseteq Client
    BY DEF ReadersOf
  <2>3. QED
    BY <2>1, <2>2, FS_Subset
<1>2. rw'[p].readers = Cardinality(ReadersOf(p)')
  BY DEF CountsRight
<1>3. rw'[p].readers = 0 <=> ReadersOf(p)' = {}
  BY <1>1, <1>2, FS_EmptySet
<1>4. QED
  BY <1>3 DEF ReadersOf, IsReader

-----------------------------------------------------------------------------
(* Steps of one thread. *)

\* Thread c goes on as t and leaves the object of its process as g, and what
\* the lock manager knows of the process as l.
Effect(c, g, l, t) ==
    /\ th' = [th EXCEPT ![c] = t]
    /\ rw' = [rw EXCEPT ![Home[c]] = g]
    /\ lm' = [lm EXCEPT ![Home[c]] = l]

\* The same, read off thread by thread.
LEMMA EffectPointwise ==
    ASSUME TypeOK, NEW c \in Client, NEW g, NEW l, NEW t, Effect(c, g, l, t)
    PROVE  /\ Home[c] \in Process
           /\ th'[c] = t /\ \A d \in Client : d # c => th'[d] = th[d]
           /\ rw'[Home[c]] = g /\ \A p \in Process : p # Home[c] => rw'[p] = rw[p]
           /\ lm'[Home[c]] = l /\ \A p \in Process : p # Home[c] => lm'[p] = lm[p]
BY RWConstants DEF Effect, TypeOK

\* The counters stay right if each changes by what the thread changes.
LEMMA EffectCounts ==
    ASSUME TypeOK, CountsRight, NEW c \in Client, NEW g \in RW, NEW l, NEW t, Effect(c, g, l, t),
           g.readers + One(IsReader(th[c])) = rw[Home[c]].readers + One(IsReader(t)),
           g.pendingLock + One(IsAsker(th[c])) = rw[Home[c]].pendingLock + One(IsAsker(t)),
           g.pendingWriters + One(IsPending(th[c])) = rw[Home[c]].pendingWriters + One(IsPending(t))
    PROVE  CountsRight'
<1> SUFFICES ASSUME NEW p \in Process
             PROVE  /\ rw'[p].readers = Cardinality(ReadersOf(p)')
                    /\ rw'[p].pendingLock = Cardinality(AskersOf(p)')
                    /\ rw'[p].pendingWriters = Cardinality(PendingOf(p)')
  BY DEF CountsRight
<1>1. /\ Home[c] \in Process
      /\ th'[c] = t /\ \A d \in Client : d # c => th'[d] = th[d]
      /\ rw'[Home[c]] = g /\ \A q \in Process : q # Home[c] => rw'[q] = rw[q]
  BY EffectPointwise
<1>2. IsFiniteSet(ReadersOf(p)) /\ IsFiniteSet(AskersOf(p)) /\ IsFiniteSet(PendingOf(p))
  BY CountedFinite
<1>3. /\ rw[p].readers = Cardinality(ReadersOf(p))
      /\ rw[p].pendingLock = Cardinality(AskersOf(p))
      /\ rw[p].pendingWriters = Cardinality(PendingOf(p))
  BY DEF CountsRight
<1>4. CASE p # Home[c]
  <2>1. ReadersOf(p)' = ReadersOf(p) /\ AskersOf(p)' = AskersOf(p) /\ PendingOf(p)' = PendingOf(p)
    BY <1>1, <1>4 DEF ReadersOf, AskersOf, PendingOf
  <2>2. QED
    BY <1>1, <1>3, <1>4, <2>1
<1>5. CASE p = Home[c]
  <2>1. \A b \in BOOLEAN : One(b) \in {0, 1} /\ (One(b) = 1 <=> b)
    BY DEF One
  <2>2. g.readers \in Nat /\ g.pendingLock \in Nat /\ g.pendingWriters \in Nat
    BY DEF RW
  <2>3. /\ rw[p].readers \in Nat /\ rw[p].pendingLock \in Nat /\ rw[p].pendingWriters \in Nat
    BY DEF TypeOK, RW
  <2>4. g.readers = Cardinality(ReadersOf(p)')
    <3> DEFINE a == One(IsReader(th[c]))
               b == One(IsReader(t))
    <3>1. /\ ReadersOf(p)' \subseteq ReadersOf(p) \cup {c}
          /\ ReadersOf(p) \subseteq ReadersOf(p)' \cup {c}
          /\ c \in ReadersOf(p) <=> IsReader(th[c])
          /\ c \in ReadersOf(p)' <=> IsReader(t)
      BY <1>1, <1>5 DEF ReadersOf
    <3>2. a \in {0, 1} /\ b \in {0, 1} /\ (IsReader(th[c]) <=> a = 1) /\ (IsReader(t) <=> b = 1)
      BY DEF One
    <3>3. g.readers + a = rw[p].readers + b
      BY <1>5
    <3> HIDE DEF a, b
    <3>4. Cardinality(ReadersOf(p)') + a = rw[p].readers + b /\ Cardinality(ReadersOf(p)') \in Nat
      BY <1>2, <1>3, <3>1, <3>2, OneMore
    <3>5. QED
      BY <2>2, <2>3, <3>2, <3>3, <3>4
  <2>5. g.pendingLock = Cardinality(AskersOf(p)')
    <3> DEFINE a == One(IsAsker(th[c]))
               b == One(IsAsker(t))
    <3>1. /\ AskersOf(p)' \subseteq AskersOf(p) \cup {c}
          /\ AskersOf(p) \subseteq AskersOf(p)' \cup {c}
          /\ c \in AskersOf(p) <=> IsAsker(th[c])
          /\ c \in AskersOf(p)' <=> IsAsker(t)
      BY <1>1, <1>5 DEF AskersOf
    <3>2. a \in {0, 1} /\ b \in {0, 1} /\ (IsAsker(th[c]) <=> a = 1) /\ (IsAsker(t) <=> b = 1)
      BY DEF One
    <3>3. g.pendingLock + a = rw[p].pendingLock + b
      BY <1>5
    <3> HIDE DEF a, b
    <3>4. Cardinality(AskersOf(p)') + a = rw[p].pendingLock + b /\ Cardinality(AskersOf(p)') \in Nat
      BY <1>2, <1>3, <3>1, <3>2, OneMore
    <3>5. QED
      BY <2>2, <2>3, <3>2, <3>3, <3>4
  <2>6. g.pendingWriters = Cardinality(PendingOf(p)')
    <3> DEFINE a == One(IsPending(th[c]))
               b == One(IsPending(t))
    <3>1. /\ PendingOf(p)' \subseteq PendingOf(p) \cup {c}
          /\ PendingOf(p) \subseteq PendingOf(p)' \cup {c}
          /\ c \in PendingOf(p) <=> IsPending(th[c])
          /\ c \in PendingOf(p)' <=> IsPending(t)
      BY <1>1, <1>5 DEF PendingOf
    <3>2. a \in {0, 1} /\ b \in {0, 1} /\ (IsPending(th[c]) <=> a = 1) /\ (IsPending(t) <=> b = 1)
      BY DEF One
    <3>3. g.pendingWriters + a = rw[p].pendingWriters + b
      BY <1>5
    <3> HIDE DEF a, b
    <3>4. Cardinality(PendingOf(p)') + a = rw[p].pendingWriters + b /\ Cardinality(PendingOf(p)') \in Nat
      BY <1>2, <1>3, <3>1, <3>2, OneMore
    <3>5. QED
      BY <2>2, <2>3, <3>2, <3>3, <3>4
  <2>7. QED
    BY <1>1, <1>5, <2>4, <2>5, <2>6
<1>6. QED
  BY <1>4, <1>5

\* What the counters say, thread c being at its place.
LEMMA Counted ==
    ASSUME Counting, NEW c \in Client
    PROVE  /\ Home[c] \in Process
           /\ rw[Home[c]] \in RW /\ lm[Home[c]] \in LM /\ th[c] \in TH
           /\ th[c].pc = "reader" => rw[Home[c]].readers > 0
           /\ th[c].pc \in AskPcs => rw[Home[c]].pendingLock > 0 /\ ~rw[Home[c]].currentWriter
           /\ IsPending(th[c]) => rw[Home[c]].pendingWriters > 0
           /\ th[c].pc = "writer" => rw[Home[c]].currentWriter
<1>1. Home[c] \in Process
  BY RWConstants
<1>2. rw[Home[c]] \in RW /\ lm[Home[c]] \in LM /\ th[c] \in TH
  BY <1>1 DEF Counting, TypeOK, LM, TH
<1>3. /\ rw[Home[c]].readers = 0 <=> \A d \in Client : Home[d] = Home[c] => th[d].pc # "reader"
      /\ rw[Home[c]].pendingLock = 0 <=> \A d \in Client : Home[d] = Home[c] => th[d].pc \notin AskPcs
      /\ rw[Home[c]].pendingWriters = 0 <=> \A d \in Client : Home[d] = Home[c] => ~IsPending(th[d])
  BY <1>1, ZeroIsNobody DEF Counting
<1>4. rw[Home[c]].readers \in Nat /\ rw[Home[c]].pendingLock \in Nat /\ rw[Home[c]].pendingWriters \in Nat
  BY <1>2 DEF RW
<1>5. th[c].pc = "writer" => rw[Home[c]].currentWriter
  BY <1>1 DEF Counting, OneBusy
<1>6. th[c].pc \in AskPcs => ~rw[Home[c]].currentWriter
  BY <1>1 DEF Counting, OneBusy, Busy, AskPcs
<1>7. QED
  BY <1>1, <1>2, <1>3, <1>4, <1>5, <1>6

RolesOf(t) ==
    /\ t.pc \in {"idle", "closed"} <=> t.op = "none"
    /\ t.pc \in {"noReaders", "writerFinished", "writer"} => t.op = "write"
    /\ t.pc \in {"readerWaits", "yield", "reader"} => t.op \in {"read", "jump"}

\* A step of a thread keeps Counting if it counts right, and enters LCK_lock or
\* writes only when nobody else of its process does.
LEMMA EffectCounting ==
    ASSUME Counting, NEW c \in Client, NEW g \in RW, NEW l \in LM, NEW t \in TH,
           Effect(c, g, l, t), notified' \subseteq Client, queue' \in Seq(Process),
           g.readers + One(IsReader(th[c])) = rw[Home[c]].readers + One(IsReader(t)),
           g.pendingLock + One(IsAsker(th[c])) = rw[Home[c]].pendingLock + One(IsAsker(t)),
           g.pendingWriters + One(IsPending(th[c])) = rw[Home[c]].pendingWriters + One(IsPending(t)),
           RolesOf(t),
           t.pc \in AskPcs \cup {"writer"} =>
              Busy(c) \/ (rw[Home[c]].pendingLock = 0 /\ ~rw[Home[c]].currentWriter),
           g.currentWriter <=> t.pc = "writer" \/ (rw[Home[c]].currentWriter /\ th[c].pc # "writer")
    PROVE  Counting'
<1>1. /\ Home[c] \in Process
      /\ th'[c] = t /\ \A d \in Client : d # c => th'[d] = th[d]
      /\ rw'[Home[c]] = g /\ \A p \in Process : p # Home[c] => rw'[p] = rw[p]
  BY EffectPointwise DEF Counting
<1>2. TypeOK'
  BY <1>1 DEF Effect, Counting, TypeOK, TH, LM
<1>3. CountsRight'
  BY EffectCounts DEF Counting
<1>4. Roles'
  BY <1>1 DEF Counting, Roles, RolesOf
<1>5. ASSUME t.pc \in AskPcs \cup {"writer"}, NEW d \in Client, d # c, Home[d] = Home[c]
      PROVE  ~Busy(d)
  <2>1. CASE Busy(c)
    BY <1>5, <2>1 DEF Counting, OneBusy
  <2>2. CASE rw[Home[c]].pendingLock = 0 /\ ~rw[Home[c]].currentWriter
    <3>1. th[d].pc \notin AskPcs
      BY <1>1, <1>5, <2>2, ZeroIsNobody DEF Counting
    <3>2. th[d].pc # "writer"
      BY <1>1, <1>5, <2>2 DEF Counting, OneBusy
    <3>3. QED
      BY <3>1, <3>2 DEF Busy
  <2>3. QED
    BY <1>5, <2>1, <2>2
<1>6. \A d, e \in Client : Busy(d)' /\ Busy(e)' /\ Home[d] = Home[e] => d = e
  BY <1>1, <1>5 DEF Counting, OneBusy, Busy
<1>7. ASSUME NEW p \in Process
      PROVE  rw'[p].currentWriter <=> \E d \in Client : Home[d] = p /\ th'[d].pc = "writer"
  <2>1. rw[p].currentWriter <=> \E d \in Client : Home[d] = p /\ th[d].pc = "writer"
    BY DEF Counting, OneBusy
  <2>2. CASE p # Home[c]
    BY <1>1, <2>1, <2>2
  <2>3. CASE p = Home[c] /\ th[c].pc = "writer"
    <3>1. \A d \in Client : Home[d] = p /\ d # c => th[d].pc # "writer"
      BY <2>3 DEF Counting, OneBusy, Busy
    <3>2. QED
      BY <1>1, <2>3, <3>1
  <2>4. CASE p = Home[c] /\ th[c].pc # "writer"
    BY <1>1, <2>1, <2>4
  <2>5. QED
    BY <2>2, <2>3, <2>4
<1>8. OneBusy'
  BY <1>6, <1>7 DEF OneBusy
<1>9. QED
  BY <1>2, <1>3, <1>4, <1>8 DEF Counting

\* The rest of the invariant, whose parts each step keeps under conditions on
\* the thread that takes it.

\* A thread becomes a reader while nobody is busy, or next to other readers, or
\* after LCK_lock; and busy while nobody reads.
LEMMA EffectBusyAlone ==
    ASSUME Counting, BusyAlone, NEW c \in Client, NEW g, NEW l, NEW t, Effect(c, g, l, t),
           t.pc = "reader" =>
              \/ Busy(c)
              \/ rw[Home[c]].readers > 0
              \/ rw[Home[c]].pendingLock = 0 /\ ~rw[Home[c]].currentWriter,
           t.pc \in AskPcs \cup {"writer"} => Busy(c) \/ rw[Home[c]].readers = 0
    PROVE  BusyAlone'
<1>1. /\ Home[c] \in Process
      /\ th'[c] = t /\ \A d \in Client : d # c => th'[d] = th[d]
  BY EffectPointwise DEF Counting
<1>2. /\ rw[Home[c]].readers = 0 <=> \A d \in Client : Home[d] = Home[c] => th[d].pc # "reader"
      /\ rw[Home[c]].pendingLock = 0 <=> \A d \in Client : Home[d] = Home[c] => th[d].pc \notin AskPcs
      /\ ~rw[Home[c]].currentWriter => \A d \in Client : Home[d] = Home[c] => th[d].pc # "writer"
  BY <1>1, ZeroIsNobody DEF Counting, OneBusy
<1>3. ASSUME NEW d \in Client, d # c, Home[d] = Home[c], t.pc = "reader"
      PROVE  ~Busy(d)
  <2>1. CASE Busy(c)
    BY <1>3, <2>1 DEF Counting, OneBusy
  <2>2. CASE rw[Home[c]].readers > 0
    <3>1. rw[Home[c]].readers # 0
      BY <2>2
    <3>2. PICK e \in Client : Home[e] = Home[c] /\ th[e].pc = "reader"
      BY <1>2, <3>1
    <3>3. QED
      BY <1>3, <3>2 DEF BusyAlone
  <2>3. CASE rw[Home[c]].pendingLock = 0 /\ ~rw[Home[c]].currentWriter
    BY <1>2, <1>3, <2>3 DEF Busy
  <2>4. QED
    BY <1>3, <2>1, <2>2, <2>3
<1>4. ASSUME NEW d \in Client, d # c, Home[d] = Home[c], t.pc \in AskPcs \cup {"writer"}
      PROVE  th[d].pc # "reader"
  BY <1>2, <1>4 DEF BusyAlone
<1>5. ~(t.pc = "reader" /\ t.pc \in AskPcs \cup {"writer"})
  BY DEF AskPcs
<1>6. QED
  BY <1>1, <1>3, <1>4, <1>5 DEF BusyAlone, Busy

\* Threads begin a call only as their process's own lock allows.
LEMMA EffectGuarded ==
    ASSUME Counting, GuardedAlone, NEW c \in Client, NEW g, NEW l, NEW t, Effect(c, g, l, t),
           t.op = "write" /\ th[c].op # "write" => MayWrite(c),
           th[c].pc = "idle" /\ t.op \in {"read", "jump"} => MayRead(c),
           t.pc # "idle" => t.op # "none",
           th[c].pc # "idle" /\ t.op # "none" => t.op = th[c].op,
           th[c].pc = "idle" => th[c].op = "none",
           t.op \in {"none", "read", "jump", "write"},
           Guarded => t.pc # "writerFinished"
    PROVE  GuardedAlone'
<1>1. th'[c] = t /\ \A d \in Client : d # c => th'[d] = th[d]
  BY EffectPointwise DEF Counting
<1>2. SUFFICES ASSUME Guarded PROVE GuardedAlone'
  BY DEF GuardedAlone
<1>3. ASSUME NEW d \in Client, d # c, Home[c] = Home[d], t.op = "write"
      PROVE  th[d].pc = "idle"
  BY <1>2, <1>3 DEF GuardedAlone, MayWrite, Alone
<1>4. ASSUME NEW d \in Client, d # c, Home[c] = Home[d], th[d].op = "write"
      PROVE  t.pc = "idle"
  <2>1. th[c].pc = "idle" /\ th[d].pc # "idle"
    BY <1>2, <1>4 DEF GuardedAlone, Counting, Roles
  <2>2. CASE t.op = "write"
    BY <1>4, <2>1, <2>2, <1>3
  <2>3. CASE t.op \in {"read", "jump"}
    BY <1>2, <1>4, <2>1, <2>3 DEF MayRead
  <2>4. CASE t.op = "none"
    BY <2>4
  <2>5. QED
    BY <2>2, <2>3, <2>4
<1>5. QED
  BY <1>1, <1>2, <1>3, <1>4 DEF GuardedAlone

\* Whom a step notifies, and what it makes of a reader or of a thread in
\* LCK_lock while a writer is notified.
LEMMA EffectNotified ==
    ASSUME Counting, BusyAlone, NotifiedReady,
           NEW c \in Client, NEW g, NEW l, NEW t, Effect(c, g, l, t),
           c \notin notified', notified' \subseteq Client,
           \A d \in notified' \ notified :
              /\ Home[d] = Home[c]
              /\ th[d].pc \in {"noReaders", "writerFinished", "readerWaits"}
              /\ th[d].pc = "writerFinished" => Busy(c) /\ t.pc = "idle",
           t.pc = "reader" \/ (t.pc \in AskPcs /\ t.op # "write") =>
              \/ rw[Home[c]].pendingWriters = 0
              \/ rw[Home[c]].readers > 0
              \/ th[c].pc \in AskPcs /\ th[c].op # "write"
    PROVE  NotifiedReady'
<1>1. /\ Home[c] \in Process
      /\ th'[c] = t /\ \A d \in Client : d # c => th'[d] = th[d]
  BY EffectPointwise DEF Counting
<1>2. /\ rw[Home[c]].readers = 0 <=> \A d \in Client : Home[d] = Home[c] => th[d].pc # "reader"
      /\ rw[Home[c]].pendingWriters = 0 <=> \A d \in Client : Home[d] = Home[c] => ~IsPending(th[d])
  BY <1>1, ZeroIsNobody DEF Counting
<1>3. ASSUME NEW n \in notified'
      PROVE  th'[n].pc \in {"noReaders", "writerFinished", "readerWaits"}
  BY <1>1, <1>3 DEF NotifiedReady
<1>4. ASSUME NEW n \in notified', NEW d \in Client, th'[n].pc = "writerFinished", Home[n] = Home[d]
      PROVE  th'[d].pc # "reader" /\ (th'[d].pc \in AskPcs => th'[d].op = "write")
  <2>1. n # c /\ n \in Client /\ th[n].pc = "writerFinished"
    BY <1>1, <1>4
  <2>2. CASE n \notin notified
    <3>1. Home[n] = Home[c] /\ Busy(c) /\ t.pc = "idle"
      BY <2>1, <2>2
    <3>2. CASE d = c
      BY <1>1, <3>1, <3>2 DEF AskPcs
    <3>3. CASE d # c
      <4>1. Home[d] = Home[c]
        BY <1>4, <3>1
      <4>2. ~Busy(d)
        BY <3>1, <3>3, <4>1 DEF Counting, OneBusy
      <4>3. th[d].pc # "reader"
        BY <3>1, <4>1 DEF BusyAlone
      <4>4. QED
        BY <1>1, <3>3, <4>2, <4>3 DEF Busy
    <3>4. QED
      BY <3>2, <3>3
  <2>3. CASE n \in notified
    <3>1. \A e \in Client : Home[e] = Home[n] =>
             th[e].pc # "reader" /\ (th[e].pc \in AskPcs => th[e].op = "write")
      BY <2>1, <2>3 DEF NotifiedReady
    <3>2. CASE d # c
      BY <1>1, <1>4, <3>1, <3>2
    <3>3. CASE d = c
      <4>1. SUFFICES ASSUME t.pc = "reader" \/ (t.pc \in AskPcs /\ t.op # "write") PROVE FALSE
        BY <1>1, <3>3
      <4>2. CASE rw[Home[c]].pendingWriters = 0
        <5>1. IsPending(th[n])
          BY <2>1 DEF IsPending, Counting, Roles
        <5>2. QED
          BY <1>2, <1>4, <2>1, <3>3, <4>2, <5>1
      <4>3. CASE rw[Home[c]].readers > 0
        <5>1. rw[Home[c]].readers # 0
          BY <4>3
        <5>2. QED
          BY <1>2, <1>4, <3>1, <3>3, <5>1
      <4>4. CASE th[c].pc \in AskPcs /\ th[c].op # "write"
        BY <1>4, <3>1, <3>3, <4>4
      <4>5. QED
        BY <4>1, <4>2, <4>3, <4>4
    <3>4. QED
      BY <3>2, <3>3
  <2>4. QED
    BY <2>2, <2>3
<1>5. QED
  BY <1>3, <1>4 DEF NotifiedReady

LevelOf(t) == IF t.op = "write" THEN LCK_write ELSE LCK_read

\* What LevelsKnown says of one thread t, its object g and lock table entry l.
KnowsLevel(t, g, l) ==
    /\ t.pc \in {"enqueue", "queued", "denied", "granted"} => g.physical = LCK_none
    /\ t.pc = "granted" => l.held = LevelOf(t)
    /\ t.pc = "queued" => l.asked = LevelOf(t)
    /\ t.pc = "locked" => g.physical = LevelOf(t)
    /\ t.pc = "reader" => g.physical # LCK_none
    /\ t.pc = "writer" => g.physical = LCK_write

\* A step that leaves the levels alone and neither begins nor ends in LCK_lock.
LEMMA EffectSameLevels ==
    ASSUME Counting, LevelsKnown, NEW c \in Client, NEW g, NEW l, NEW t, Effect(c, g, l, t),
           g.physical = rw[Home[c]].physical,
           l.held = lm[Home[c]].held, l.asked = lm[Home[c]].asked,
           th[c].pc \notin {"granted", "queued"}, t.pc \notin {"granted", "queued"},
           KnowsLevel(t, g, l)
    PROVE  LevelsKnown'
<1>1. /\ Home[c] \in Process
      /\ th'[c] = t /\ \A d \in Client : d # c => th'[d] = th[d]
      /\ rw'[Home[c]] = g /\ \A p \in Process : p # Home[c] => rw'[p] = rw[p]
      /\ lm'[Home[c]] = l /\ \A p \in Process : p # Home[c] => lm'[p] = lm[p]
  BY EffectPointwise DEF Counting
<1>2. \A d \in Client : Home[d] \in Process
  BY RWConstants
<1>3. \A p \in Process : /\ rw'[p].physical = rw[p].physical
                         /\ lm'[p].held = lm[p].held /\ lm'[p].asked = lm[p].asked
  BY <1>1
<1>4. ASSUME NEW p \in Process
      PROVE  /\ (\A d \in Client : Home[d] = p => th'[d].pc # "granted") => lm'[p].held = rw'[p].physical
             /\ (\A d \in Client : Home[d] = p => th'[d].pc # "queued") => lm'[p].asked = LCK_none
  <2>1. /\ (\A d \in Client : Home[d] = p => th[d].pc # "granted") => lm[p].held = rw[p].physical
        /\ (\A d \in Client : Home[d] = p => th[d].pc # "queued") => lm[p].asked = LCK_none
    BY DEF LevelsKnown
  <2>2. QED
    BY <1>1, <1>3, <2>1
<1>5. ASSUME NEW d \in Client
      PROVE  KnowsLevel(th'[d], rw'[Home[d]], lm'[Home[d]])
  <2>1. CASE d = c
    BY <1>1, <2>1
  <2>2. CASE d # c
    <3>1. KnowsLevel(th[d], rw[Home[d]], lm[Home[d]])
      BY DEF LevelsKnown, KnowsLevel, WantedLevel, LevelOf
    <3>2. QED
      BY <1>1, <1>2, <1>3, <2>2, <3>1 DEF KnowsLevel
  <2>3. QED
    BY <2>1, <2>2
<1>6. QED
  BY <1>4, <1>5 DEF LevelsKnown, KnowsLevel, WantedLevel, LevelOf

\* A step that may change the levels while nobody else of the process is busy.
LEMMA EffectNewLevels ==
    ASSUME Counting, LevelsKnown, NEW c \in Client, NEW g, NEW l, NEW t, Effect(c, g, l, t),
           \A d \in Client : d # c /\ Home[d] = Home[c] =>
              ~Busy(d) /\ (th[d].pc = "reader" => g.physical # LCK_none),
           t.pc # "granted" => l.held = g.physical,
           t.pc # "queued" => l.asked = LCK_none,
           KnowsLevel(t, g, l)
    PROVE  LevelsKnown'
<1>1. /\ Home[c] \in Process
      /\ th'[c] = t /\ \A d \in Client : d # c => th'[d] = th[d]
      /\ rw'[Home[c]] = g /\ \A p \in Process : p # Home[c] => rw'[p] = rw[p]
      /\ lm'[Home[c]] = l /\ \A p \in Process : p # Home[c] => lm'[p] = lm[p]
  BY EffectPointwise DEF Counting
<1>2. \A d \in Client : Home[d] \in Process
  BY RWConstants
<1>3. ASSUME NEW p \in Process
      PROVE  /\ (\A d \in Client : Home[d] = p => th'[d].pc # "granted") => lm'[p].held = rw'[p].physical
             /\ (\A d \in Client : Home[d] = p => th'[d].pc # "queued") => lm'[p].asked = LCK_none
  <2>1. CASE p = Home[c]
    BY <1>1, <2>1
  <2>2. CASE p # Home[c]
    <3>1. /\ (\A d \in Client : Home[d] = p => th[d].pc # "granted") => lm[p].held = rw[p].physical
          /\ (\A d \in Client : Home[d] = p => th[d].pc # "queued") => lm[p].asked = LCK_none
      BY DEF LevelsKnown
    <3>2. QED
      BY <1>1, <2>2, <3>1
  <2>3. QED
    BY <2>1, <2>2
<1>4. ASSUME NEW d \in Client
      PROVE  KnowsLevel(th'[d], rw'[Home[d]], lm'[Home[d]])
  <2>1. CASE d = c
    BY <1>1, <2>1
  <2>2. CASE Home[d] # Home[c]
    <3>1. KnowsLevel(th[d], rw[Home[d]], lm[Home[d]])
      BY DEF LevelsKnown, KnowsLevel, WantedLevel, LevelOf
    <3>2. QED
      BY <1>1, <1>2, <2>2, <3>1
  <2>3. CASE d # c /\ Home[d] = Home[c]
    BY <1>1, <2>3 DEF KnowsLevel, Busy, AskPcs
  <2>4. QED
    BY <2>1, <2>2, <2>3
<1>5. QED
  BY <1>3, <1>4 DEF LevelsKnown, KnowsLevel, WantedLevel, LevelOf

\* What is granted to the process still agrees with the others.
LEMMA EffectAgrees ==
    ASSUME Counting, HeldAgree, NEW c \in Client, NEW g, NEW l, NEW t, Effect(c, g, l, t),
           l.held = lm[Home[c]].held \/ l.held = LCK_none \/ Free(Home[c], l.held)
    PROVE  HeldAgree'
<1>1. /\ Home[c] \in Process
      /\ lm'[Home[c]] = l /\ \A p \in Process : p # Home[c] => lm'[p] = lm[p]
  BY EffectPointwise DEF Counting
<1>2. \A q \in Process : q # Home[c] => Agree(l.held, lm[q].held)
  BY <1>1 DEF HeldAgree, Agree, Free
<1>3. \A a, b : Agree(a, b) <=> Agree(b, a)
  BY DEF Agree
<1>4. QED
  BY <1>1, <1>2, <1>3 DEF HeldAgree

\* The flag blocking and a thread that will look at it.
LEMMA EffectRemembered ==
    ASSUME Counting, Remembered, NEW c \in Client, NEW g, NEW l, NEW t, Effect(c, g, l, t),
           \/ l.notice # "seen" \/ l.held = LCK_none
           \/ /\ l.notice = lm[Home[c]].notice /\ l.held = lm[Home[c]].held
              /\ l.ast = lm[Home[c]].ast
              /\ g.blocking = rw[Home[c]].blocking
              /\ \/ th[c].pc \notin AskPcs \cup {"reader", "writer"}
                 \/ t.pc \in AskPcs \cup {"reader", "writer"}
                 \/ \E d \in Client : d # c /\ Home[d] = Home[c] /\ th[d].pc = "reader"
    PROVE  Remembered'
<1>1. /\ Home[c] \in Process
      /\ th'[c] = t /\ \A d \in Client : d # c => th'[d] = th[d]
      /\ rw'[Home[c]] = g /\ \A p \in Process : p # Home[c] => rw'[p] = rw[p]
      /\ lm'[Home[c]] = l /\ \A p \in Process : p # Home[c] => lm'[p] = lm[p]
  BY EffectPointwise DEF Counting
<1>2. SUFFICES ASSUME NEW p \in Process,
                      lm'[p].notice = "seen", ~lm'[p].ast, lm'[p].held # LCK_none
               PROVE  /\ rw'[p].blocking
                      /\ \E d \in Client : Home[d] = p /\ th'[d].pc \in AskPcs \cup {"reader", "writer"}
  BY DEF Remembered
<1>3. lm[p].notice = "seen" /\ ~lm[p].ast /\ lm[p].held # LCK_none /\ rw'[p].blocking = rw[p].blocking
  BY <1>1, <1>2
<1>4. PICK e \in Client : Home[e] = p /\ th[e].pc \in AskPcs \cup {"reader", "writer"}
  BY <1>3 DEF Remembered
<1>5. rw[p].blocking
  BY <1>3 DEF Remembered
<1>6. \E d \in Client : Home[d] = p /\ th'[d].pc \in AskPcs \cup {"reader", "writer"}
  <2>1. CASE e # c
    BY <1>1, <1>4, <2>1
  <2>2. CASE e = c
    BY <1>1, <1>2, <1>4, <2>2
  <2>3. QED
    BY <2>1, <2>2
<1>7. QED
  BY <1>3, <1>5, <1>6

-----------------------------------------------------------------------------
(* The lock manager. *)

\* The parts of IInv that no level is in.
Excluding == BusyAlone /\ GuardedAlone /\ NotifiedReady

\* The parts about levels.
Leveled == LevelsKnown /\ HeldAgree /\ Remembered

\* A thread goes on inside LCK_lock.
LEMMA AskerStep ==
    ASSUME Counting, NEW c \in Client, NEW g \in RW, NEW l \in LM, NEW t \in TH, Effect(c, g, l, t),
           th[c].pc \in AskPcs, t.pc \in AskPcs, t.op = th[c].op,
           g.readers = rw[Home[c]].readers, g.pendingLock = rw[Home[c]].pendingLock,
           g.pendingWriters = rw[Home[c]].pendingWriters,
           g.currentWriter = rw[Home[c]].currentWriter,
           notified' = notified, queue' \in Seq(Process)
    PROVE  Counting' /\ (Excluding => Excluding')
<1>1. /\ Home[c] \in Process
      /\ rw[Home[c]] \in RW /\ lm[Home[c]] \in LM /\ th[c] \in TH
      /\ th[c].pc \in AskPcs => rw[Home[c]].pendingLock > 0 /\ ~rw[Home[c]].currentWriter
  BY Counted
<1>2. t.pc \notin {"idle", "closed", "reader", "writer", "noReaders", "writerFinished",
                   "readerWaits", "yield"}
  BY DEF AskPcs
<1>3. th[c].pc \notin {"idle", "closed", "reader", "writer", "noReaders", "writerFinished",
                       "readerWaits", "yield"}
  BY DEF AskPcs
<1>4. RolesOf(t)
  BY <1>2, <1>3 DEF RolesOf, Counting, Roles
<1>5. /\ IsReader(th[c]) = IsReader(t) /\ IsAsker(th[c]) = IsAsker(t)
      /\ IsPending(th[c]) = IsPending(t)
  BY <1>2, <1>3 DEF IsReader, IsAsker, IsPending
<1>6. Busy(c) /\ (g.currentWriter <=> t.pc = "writer" \/ (rw[Home[c]].currentWriter /\ th[c].pc # "writer"))
  BY <1>2, <1>3 DEF Busy
<1>7. notified' \subseteq Client
  BY DEF Counting, TypeOK
<1>8. Counting'
  BY <1>4, <1>5, <1>6, <1>7, EffectCounting
<1>9. ASSUME Excluding PROVE Excluding'
  <2>1. BusyAlone'
    BY <1>2, <1>6, <1>9, EffectBusyAlone DEF Excluding
  <2>2. GuardedAlone'
    BY <1>1, <1>2, <1>3, <1>4, <1>9, EffectGuarded DEF Excluding, TH, RolesOf
  <2>3. NotifiedReady'
    <3>1. c \notin notified'
      BY <1>3, <1>9 DEF Excluding, NotifiedReady
    <3>2. QED
      BY <1>2, <1>7, <1>9, <3>1, EffectNotified DEF Excluding
  <2>4. QED
    BY <2>1, <2>2, <2>3 DEF Excluding
<1>10. QED
  BY <1>8, <1>9

\* Its process has nobody else in LCK_lock or with the lock.
LEMMA AskerAlone ==
    ASSUME Counting, BusyAlone, NEW c \in Client, Busy(c)
    PROVE  \A d \in Client : d # c /\ Home[d] = Home[c] => ~Busy(d) /\ th[d].pc # "reader"
BY DEF Counting, OneBusy, BusyAlone

LEMMA LmEnqueueKeeps ==
    ASSUME Counting, NEW c \in Client, LmEnqueue(c)
    PROVE  Counting' /\ (IInv => IInv')
<1> DEFINE p == Home[c]
           g == rw[p]
           free == queue = <<>> /\ Free(p, WantedLevel(c))
<1>1. /\ p \in Process /\ g \in RW /\ lm[p] \in LM /\ th[c] \in TH
  BY Counted
<1>2. th[c].pc = "enqueue" /\ th[c].pc \in AskPcs /\ WantedLevel(c) = LevelOf(th[c]) /\ Busy(c)
  BY DEF LmEnqueue, AskPcs, WantedLevel, LevelOf, Busy
<1>3. WantedLevel(c) \in RWLevel
  BY DEF WantedLevel, RWLevel
<1>4. IInv => lm[p].held = LCK_none /\ g.physical = LCK_none /\ lm[p].asked = LCK_none
  <2> SUFFICES ASSUME IInv
               PROVE  lm[p].held = LCK_none /\ g.physical = LCK_none /\ lm[p].asked = LCK_none
    OBVIOUS
  <2>1. \A d \in Client : Home[d] = p => th[d].pc \notin {"granted", "queued"}
    BY <1>2, AskerAlone DEF IInv, Busy, AskPcs
  <2>2. g.physical = LCK_none
    BY <1>2 DEF IInv, LevelsKnown
  <2>3. QED
    BY <1>1, <2>1, <2>2 DEF IInv, LevelsKnown
<1>5. CASE free /\ lm' = Granted(p, WantedLevel(c)) /\ th' = [th EXCEPT ![c].pc = "granted"]
           /\ UNCHANGED <<queue, rw, notified>>
  <2> DEFINE l == [lm[p] EXCEPT !.held = WantedLevel(c), !.asked = LCK_none, !.notice = "none"]
             t == [th[c] EXCEPT !.pc = "granted"]
  <2>1. Effect(c, g, l, t)
    BY <1>1, <1>5 DEF Effect, Granted, Counting, TypeOK
  <2>2. l \in LM /\ t \in TH /\ t.pc = "granted" /\ t.pc \in AskPcs /\ t.op = th[c].op
        /\ l.held = WantedLevel(c) /\ l.asked = LCK_none /\ l.notice = "none"
    BY <1>1, <1>3 DEF LM, TH, PC, AskPcs, RWLevel
  <2>3. queue' \in Seq(Process) /\ notified' = notified
    BY <1>5 DEF Counting, TypeOK
  <2> HIDE DEF l, t
  <2>4. Counting' /\ (Excluding => Excluding')
    BY <1>1, <1>2, <2>1, <2>2, <2>3, AskerStep
  <2>5. ASSUME IInv PROVE Leveled'
    <3>1. LevelsKnown'
      <4>1. KnowsLevel(t, g, l)
        BY <1>2, <1>4, <2>2, <2>5 DEF KnowsLevel, LevelOf
      <4>2. \A d \in Client : d # c /\ Home[d] = Home[c] => ~Busy(d) /\ th[d].pc # "reader"
        BY <1>2, <2>5, AskerAlone DEF IInv
      <4>3. QED
        BY <2>1, <2>2, <2>5, <4>1, <4>2, EffectNewLevels DEF IInv
    <3>2. HeldAgree'
      BY <1>5, <2>1, <2>2, <2>5, EffectAgrees DEF IInv
    <3>3. Remembered'
      BY <2>1, <2>2, <2>5, EffectRemembered DEF IInv
    <3>4. QED
      BY <3>1, <3>2, <3>3 DEF Leveled
  <2>6. QED
    BY <2>4, <2>5 DEF IInv, Excluding, Leveled
<1>6. CASE th' = [th EXCEPT ![c].pc = "denied"] /\ UNCHANGED <<lm, queue, rw, notified>>
  <2> DEFINE l == lm[p]
             t == [th[c] EXCEPT !.pc = "denied"]
  <2>1. Effect(c, g, l, t)
    BY <1>1, <1>6 DEF Effect, Counting, TypeOK
  <2>2. l \in LM /\ t \in TH /\ t.pc = "denied" /\ t.pc \in AskPcs /\ t.op = th[c].op
    BY <1>1 DEF TH, PC, AskPcs
  <2>3. queue' \in Seq(Process) /\ notified' = notified
    BY <1>6 DEF Counting, TypeOK
  <2> HIDE DEF t
  <2>4. Counting' /\ (Excluding => Excluding')
    BY <1>1, <1>2, <2>1, <2>2, <2>3, AskerStep
  <2>5. ASSUME IInv PROVE Leveled'
    <3>1. LevelsKnown'
      <4>1. KnowsLevel(t, g, l)
        BY <1>4, <2>2, <2>5 DEF KnowsLevel
      <4>2. QED
        BY <1>2, <2>1, <2>2, <2>5, <4>1, EffectSameLevels DEF IInv
    <3>2. HeldAgree'
      BY <2>1, <2>5, EffectAgrees DEF IInv
    <3>3. Remembered'
      BY <2>1, <2>2, <2>5, EffectRemembered DEF IInv
    <3>4. QED
      BY <3>1, <3>2, <3>3 DEF Leveled
  <2>6. QED
    BY <2>4, <2>5 DEF IInv, Excluding, Leveled
<1>7. CASE lm' = [lm EXCEPT ![p].asked = WantedLevel(c)] /\ queue' = Append(queue, p)
           /\ th' = [th EXCEPT ![c].pc = "queued"] /\ UNCHANGED <<rw, notified>>
  <2> DEFINE l == [lm[p] EXCEPT !.asked = WantedLevel(c)]
             t == [th[c] EXCEPT !.pc = "queued"]
  <2>1. Effect(c, g, l, t)
    BY <1>1, <1>7 DEF Effect, Counting, TypeOK
  <2>2. l \in LM /\ t \in TH /\ t.pc = "queued" /\ t.pc \in AskPcs /\ t.op = th[c].op
        /\ l.held = lm[p].held /\ l.asked = WantedLevel(c)
    BY <1>1, <1>3 DEF LM, TH, PC, AskPcs
  <2>3. queue' \in Seq(Process) /\ notified' = notified
    BY <1>1, <1>7 DEF Counting, TypeOK
  <2> HIDE DEF l, t
  <2>4. Counting' /\ (Excluding => Excluding')
    BY <1>1, <1>2, <2>1, <2>2, <2>3, AskerStep
  <2>5. ASSUME IInv PROVE Leveled'
    <3>1. LevelsKnown'
      <4>1. KnowsLevel(t, g, l)
        BY <1>2, <1>4, <2>2, <2>5 DEF KnowsLevel, LevelOf
      <4>2. \A d \in Client : d # c /\ Home[d] = Home[c] => ~Busy(d) /\ th[d].pc # "reader"
        BY <1>2, <2>5, AskerAlone DEF IInv
      <4>3. QED
        BY <1>4, <2>1, <2>2, <2>5, <4>1, <4>2, EffectNewLevels DEF IInv
    <3>2. HeldAgree'
      BY <2>1, <2>2, <2>5, EffectAgrees DEF IInv
    <3>3. Remembered'
      BY <1>4, <2>1, <2>2, <2>5, EffectRemembered DEF IInv
    <3>4. QED
      BY <3>1, <3>2, <3>3 DEF Leveled
  <2>6. QED
    BY <2>4, <2>5 DEF IInv, Excluding, Leveled
<1>8. QED
  BY <1>5, <1>6, <1>7 DEF LmEnqueue

LEMMA LmGrantKeeps ==
    ASSUME Counting, NEW c \in Client, LmGrant(c)
    PROVE  Counting' /\ (IInv => IInv')
<1> DEFINE p == Home[c]
           g == rw[p]
           l == [lm[p] EXCEPT !.held = lm[p].asked, !.asked = LCK_none, !.notice = "none"]
           t == [th[c] EXCEPT !.pc = "granted"]
<1>1. p \in Process /\ g \in RW /\ lm[p] \in LM /\ th[c] \in TH
  BY Counted
<1>2. th[c].pc = "queued" /\ th[c].pc \in AskPcs /\ WantedLevel(c) = LevelOf(th[c]) /\ Busy(c)
  BY DEF LmGrant, AskPcs, WantedLevel, LevelOf, Busy
<1>3. Effect(c, g, l, t)
  BY <1>1 DEF Effect, LmGrant, Granted, Counting, TypeOK
<1>4. l \in LM /\ t \in TH /\ t.pc = "granted" /\ t.pc \in AskPcs /\ t.op = th[c].op
      /\ l.held = lm[p].asked /\ l.asked = LCK_none /\ l.notice = "none"
  BY <1>1 DEF LM, TH, PC, AskPcs, RWLevel
<1>5. queue' \in Seq(Process) /\ notified' = notified /\ Free(p, lm[p].asked)
  BY DEF LmGrant, Counting, TypeOK
<1> HIDE DEF l, t
<1>6. Counting' /\ (Excluding => Excluding')
  BY <1>1, <1>2, <1>3, <1>4, <1>5, AskerStep
<1>7. ASSUME IInv PROVE Leveled'
  <2>1. LevelsKnown'
    <3>1. lm[p].asked = WantedLevel(c) /\ g.physical = LCK_none
      BY <1>2, <1>7 DEF IInv, LevelsKnown
    <3>2. KnowsLevel(t, g, l)
      BY <1>2, <1>4, <3>1 DEF KnowsLevel, LevelOf
    <3>3. \A d \in Client : d # c /\ Home[d] = Home[c] => ~Busy(d) /\ th[d].pc # "reader"
      BY <1>2, <1>7, AskerAlone DEF IInv
    <3>4. QED
      BY <1>3, <1>4, <1>7, <3>2, <3>3, EffectNewLevels DEF IInv
  <2>2. HeldAgree'
    BY <1>3, <1>4, <1>5, <1>7, EffectAgrees DEF IInv
  <2>3. Remembered'
    BY <1>3, <1>4, <1>7, EffectRemembered DEF IInv
  <2>4. QED
    BY <2>1, <2>2, <2>3 DEF Leveled
<1>8. QED
  BY <1>6, <1>7 DEF IInv, Excluding, Leveled

LEMMA LmDenyKeeps ==
    ASSUME Counting, NEW c \in Client, LmDeny(c)
    PROVE  Counting' /\ (IInv => IInv')
<1> DEFINE p == Home[c]
           g == rw[p]
           l == [lm[p] EXCEPT !.asked = LCK_none]
           t == [th[c] EXCEPT !.pc = "denied"]
<1>1. p \in Process /\ g \in RW /\ lm[p] \in LM /\ th[c] \in TH
  BY Counted
<1>2. th[c].pc = "queued" /\ th[c].pc \in AskPcs /\ Busy(c)
  BY DEF LmDeny, AskPcs, Busy
<1>3. Effect(c, g, l, t)
  BY <1>1 DEF Effect, LmDeny, Counting, TypeOK
<1>4. l \in LM /\ t \in TH /\ t.pc = "denied" /\ t.pc \in AskPcs /\ t.op = th[c].op
      /\ l.held = lm[p].held /\ l.asked = LCK_none
  BY <1>1 DEF LM, TH, PC, AskPcs, RWLevel
<1>5. queue' \in Seq(Process) /\ notified' = notified
  <2>1. queue \in Seq(Process) /\ queue' = Without(queue, {p}) /\ notified' = notified
    BY DEF LmDeny, Counting, TypeOK
  <2>2. QED
    BY <2>1, WithoutIsRight
<1> HIDE DEF l, t
<1>6. Counting' /\ (Excluding => Excluding')
  BY <1>1, <1>2, <1>3, <1>4, <1>5, AskerStep
<1>7. ASSUME IInv PROVE Leveled'
  <2>1. \A d \in Client : d # c /\ Home[d] = Home[c] => ~Busy(d) /\ th[d].pc # "reader"
    BY <1>2, <1>7, AskerAlone DEF IInv
  <2>2. g.physical = LCK_none /\ lm[p].held = LCK_none
    <3>1. \A d \in Client : Home[d] = p => th[d].pc # "granted"
      BY <1>2, <2>1 DEF Busy, AskPcs
    <3>2. QED
      BY <1>1, <1>2, <1>7, <3>1 DEF IInv, LevelsKnown
  <2>3. LevelsKnown'
    <3>1. KnowsLevel(t, g, l)
      BY <1>4, <2>2 DEF KnowsLevel
    <3>2. QED
      BY <1>3, <1>4, <1>7, <2>1, <2>2, <3>1, EffectNewLevels DEF IInv
  <2>4. HeldAgree'
    BY <1>3, <1>4, <1>7, EffectAgrees DEF IInv
  <2>5. Remembered'
    BY <1>3, <1>4, <1>7, <2>2, EffectRemembered DEF IInv
  <2>6. QED
    BY <2>3, <2>4, <2>5 DEF Leveled
<1>8. QED
  BY <1>6, <1>7 DEF IInv, Excluding, Leveled

LEMMA LCK_lockKeeps ==
    ASSUME Counting, NEW c \in Client, LCK_lock(c)
    PROVE  Counting' /\ (IInv => IInv')
<1> DEFINE p == Home[c]
           g == [rw[p] EXCEPT !.physical = WantedLevel(c)]
           l == lm[p]
           t == [th[c] EXCEPT !.pc = "locked"]
<1>1. p \in Process /\ rw[p] \in RW /\ lm[p] \in LM /\ th[c] \in TH
  BY Counted
<1>2. th[c].pc = "granted" /\ th[c].pc \in AskPcs /\ WantedLevel(c) = LevelOf(th[c]) /\ Busy(c)
  BY DEF LCK_lock, AskPcs, WantedLevel, LevelOf, Busy
<1>3. Effect(c, g, l, t)
  BY <1>1 DEF Effect, LCK_lock, Counting, TypeOK
<1>4. /\ g \in RW /\ t \in TH /\ t.pc = "locked" /\ t.pc \in AskPcs /\ t.op = th[c].op
      /\ g.physical = WantedLevel(c) /\ g.readers = rw[p].readers /\ g.pendingLock = rw[p].pendingLock
      /\ g.pendingWriters = rw[p].pendingWriters /\ g.currentWriter = rw[p].currentWriter
      /\ g.blocking = rw[p].blocking
  BY <1>1 DEF RW, TH, PC, AskPcs, RWLevel, WantedLevel
<1>5. queue' \in Seq(Process) /\ notified' = notified
  BY DEF LCK_lock, Counting, TypeOK
<1> HIDE DEF g, t
<1>6. Counting' /\ (Excluding => Excluding')
  BY <1>1, <1>2, <1>3, <1>4, <1>5, AskerStep
<1>7. ASSUME IInv PROVE Leveled'
  <2>1. \A d \in Client : d # c /\ Home[d] = Home[c] => ~Busy(d) /\ th[d].pc # "reader"
    BY <1>2, <1>7, AskerAlone DEF IInv
  <2>2. l.held = WantedLevel(c) /\ l.asked = LCK_none
    <3>1. \A d \in Client : Home[d] = p => th[d].pc # "queued"
      BY <1>2, <2>1 DEF Busy, AskPcs
    <3>2. QED
      BY <1>1, <1>2, <1>7, <3>1 DEF IInv, LevelsKnown
  <2>3. LevelsKnown'
    <3>1. KnowsLevel(t, g, l)
      BY <1>2, <1>4 DEF KnowsLevel, LevelOf
    <3>2. QED
      BY <1>3, <1>4, <1>7, <2>1, <2>2, <3>1, EffectNewLevels DEF IInv
  <2>4. HeldAgree'
    BY <1>3, <1>7, EffectAgrees DEF IInv
  <2>5. Remembered'
    BY <1>3, <1>4, <1>7, EffectRemembered DEF IInv
  <2>6. QED
    BY <2>3, <2>4, <2>5 DEF Leveled
<1>8. QED
  BY <1>6, <1>7 DEF IInv, Excluding, Leveled

-----------------------------------------------------------------------------
(* Writers. *)

\* What the callers of AwaitReaders and Relock have made of the object and of
\* the thread: one more writer is pending, if it was not already.
WriterAt(c, g, t) ==
    /\ g \in RW /\ t \in TH
    /\ g = [rw[Home[c]] EXCEPT !.pendingWriters = g.pendingWriters]
    /\ g.pendingWriters + One(IsPending(th[c])) = rw[Home[c]].pendingWriters + 1
    /\ th[c].pc \in {"idle", "noReaders", "writerFinished"}
    /\ t.op = "write"
    /\ th[c].pc = "idle" => MayWrite(c)

\* Relock may go on: nobody of the process reads, nor will before c writes.
MayRelock(c) ==
    /\ Guarded => \A d \in Client : d # c /\ Home[d] = Home[c] => th[d].pc = "idle"
    /\ rw[Home[c]].readers = 0

LEMMA WriterAtFacts ==
    ASSUME Counting, NEW c \in Client, NEW g, NEW t, WriterAt(c, g, t)
    PROVE  /\ g.readers = rw[Home[c]].readers /\ g.pendingLock = rw[Home[c]].pendingLock
           /\ g.currentWriter = rw[Home[c]].currentWriter /\ g.blocking = rw[Home[c]].blocking
           /\ g.physical = rw[Home[c]].physical
           /\ g.readers \in Nat /\ g.pendingLock \in Nat /\ g.pendingWriters \in Nat
           /\ g.pendingWriters > 0
           /\ g.currentWriter \in BOOLEAN /\ g.blocking \in BOOLEAN /\ g.physical \in RWLevel
           /\ ~IsReader(th[c]) /\ ~IsAsker(th[c]) /\ ~Busy(c)
           /\ th[c].pc # "idle" => th[c].op = "write"
           /\ th[c].pc = "idle" => th[c].op = "none"
<1>1. Home[c] \in Process /\ rw[Home[c]] \in RW
  BY Counted
<1>2. /\ g.readers = rw[Home[c]].readers /\ g.pendingLock = rw[Home[c]].pendingLock
      /\ g.currentWriter = rw[Home[c]].currentWriter /\ g.blocking = rw[Home[c]].blocking
      /\ g.physical = rw[Home[c]].physical
  BY <1>1 DEF WriterAt, RW
<1>3. /\ g.readers \in Nat /\ g.pendingLock \in Nat /\ g.pendingWriters \in Nat
      /\ g.currentWriter \in BOOLEAN /\ g.blocking \in BOOLEAN /\ g.physical \in RWLevel
      /\ rw[Home[c]].pendingWriters \in Nat
  BY <1>1 DEF WriterAt, RW
<1>4. g.pendingWriters > 0
  <2>1. IsPending(th[c]) => rw[Home[c]].pendingWriters > 0
    BY Counted
  <2>2. QED
    BY <1>3, <2>1 DEF WriterAt, One
<1>5. ~IsReader(th[c]) /\ ~IsAsker(th[c]) /\ ~Busy(c)
  BY DEF WriterAt, IsReader, IsAsker, Busy, AskPcs
<1>6. (th[c].pc # "idle" => th[c].op = "write") /\ (th[c].pc = "idle" => th[c].op = "none")
  BY DEF WriterAt, Counting, Roles
<1>7. QED
  BY <1>2, <1>3, <1>4, <1>5, <1>6

\* A pending writer goes on to wait, to call LCK_lock or to write.
LEMMA WriterStep ==
    ASSUME Counting, NEW c \in Client, NEW g, NEW t, WriterAt(c, g, t),
           NEW h \in RW, NEW l \in LM, NEW pc, Effect(c, h, l, [t EXCEPT !.pc = pc]),
           notified' = notified \/ notified' = notified \ {c}, queue' = queue,
           h.readers = g.readers,
           \/ /\ pc \in {"noReaders", "writerFinished"}
              /\ h.pendingLock = g.pendingLock /\ h.pendingWriters = g.pendingWriters
              /\ h.currentWriter = g.currentWriter
           \/ /\ pc = "enqueue" /\ g.pendingLock = 0 /\ ~g.currentWriter
              /\ h.pendingLock = g.pendingLock + 1 /\ h.pendingWriters = g.pendingWriters
              /\ h.currentWriter = g.currentWriter
           \/ /\ pc = "writer" /\ g.pendingLock = 0 /\ ~g.currentWriter
              /\ h.pendingLock = g.pendingLock /\ h.pendingWriters = g.pendingWriters - 1
              /\ h.currentWriter
    PROVE  /\ Counting'
           /\ Excluding /\ (pc # "noReaders" => g.readers = 0) /\ (Guarded => pc # "writerFinished")
              /\ c \notin notified'
              => Excluding'
<1> DEFINE t2 == [t EXCEPT !.pc = pc]
<1>1. /\ g.readers = rw[Home[c]].readers /\ g.pendingLock = rw[Home[c]].pendingLock
      /\ g.currentWriter = rw[Home[c]].currentWriter
      /\ g.readers \in Nat /\ g.pendingLock \in Nat /\ g.pendingWriters \in Nat
      /\ g.currentWriter \in BOOLEAN
      /\ ~IsReader(th[c]) /\ ~IsAsker(th[c]) /\ ~Busy(c)
      /\ th[c].pc # "idle" => th[c].op = "write"
      /\ th[c].pc = "idle" => th[c].op = "none"
  BY WriterAtFacts
<1>2. /\ t2 \in TH /\ t2.pc = pc /\ t2.op = "write"
      /\ pc \in {"noReaders", "writerFinished", "enqueue", "writer"}
  BY DEF WriterAt, TH, PC
<1>3. g.pendingWriters + One(IsPending(th[c])) = rw[Home[c]].pendingWriters + 1
      /\ rw[Home[c]].pendingWriters \in Nat /\ One(IsPending(th[c])) \in Nat
  <2>1. rw[Home[c]] \in RW
    BY Counted
  <2>2. QED
    BY <2>1 DEF WriterAt, RW, One
<1>4. RolesOf(t2)
  BY <1>2 DEF RolesOf
<1>5. /\ ~IsReader(t2)
      /\ IsAsker(t2) <=> pc = "enqueue"
      /\ IsPending(t2) <=> pc # "writer"
  BY <1>2 DEF IsReader, IsAsker, IsPending, AskPcs
<1>6. th[c].pc # "writer" /\ th[c].pc \in {"idle", "noReaders", "writerFinished"}
  BY DEF WriterAt
<1>7. notified' \subseteq Client /\ queue' \in Seq(Process)
  BY DEF Counting, TypeOK
<1>8. t2.pc \in AskPcs \cup {"writer"} => pc \in {"enqueue", "writer"}
  BY <1>2 DEF AskPcs
<1> HIDE DEF t2
<1>9. Counting'
  <2>1. h.readers + One(IsReader(th[c])) = rw[Home[c]].readers + One(IsReader(t2))
    BY <1>1, <1>5 DEF One
  <2>2. h.pendingLock + One(IsAsker(th[c])) = rw[Home[c]].pendingLock + One(IsAsker(t2))
    BY <1>1, <1>5 DEF One
  <2>3. h.pendingWriters + One(IsPending(th[c])) = rw[Home[c]].pendingWriters + One(IsPending(t2))
    BY <1>1, <1>3, <1>5 DEF One
  <2>4. t2.pc \in AskPcs \cup {"writer"} =>
              Busy(c) \/ (rw[Home[c]].pendingLock = 0 /\ ~rw[Home[c]].currentWriter)
    BY <1>1, <1>8
  <2>5. h.currentWriter <=> t2.pc = "writer" \/ (rw[Home[c]].currentWriter /\ th[c].pc # "writer")
    BY <1>1, <1>2, <1>6
  <2>6. Effect(c, h, l, t2)
    BY DEF t2
  <2>7. QED
    BY <1>2, <1>4, <1>7, <2>1, <2>2, <2>3, <2>4, <2>5, <2>6, EffectCounting
<1>10. ASSUME Excluding, pc # "noReaders" => g.readers = 0, Guarded => pc # "writerFinished",
              c \notin notified'
       PROVE  Excluding'
  <2>1. Effect(c, h, l, t2)
    BY DEF t2
  <2>2. BusyAlone'
    BY <1>1, <1>2, <1>8, <1>10, <2>1, EffectBusyAlone DEF Excluding
  <2>3. GuardedAlone'
    BY <1>1, <1>2, <1>10, <2>1, EffectGuarded DEF Excluding, WriterAt
  <2>4. NotifiedReady'
    BY <1>2, <1>7, <1>10, <2>1, EffectNotified DEF Excluding
  <2>5. QED
    BY <2>2, <2>3, <2>4 DEF Excluding
<1>11. QED
  BY <1>9, <1>10

\* lockWrite's second loop.
LEMMA RelockKeeps ==
    ASSUME Counting, NEW c \in Client, NEW g, NEW t, WriterAt(c, g, t), Relock(c, g, t),
           notified' = notified \/ notified' = notified \ {c}, queue' = queue
    PROVE  Counting' /\ (IInv /\ MayRelock(c) /\ c \notin notified' => IInv')
<1> DEFINE p == Home[c]
           asks == [g EXCEPT !.pendingLock = @ + 1]
<1>1. /\ p \in Process /\ rw[p] \in RW /\ lm[p] \in LM /\ th[c] \in TH
  BY Counted
<1>2. /\ g \in RW
      /\ g.readers = rw[p].readers /\ g.pendingLock = rw[p].pendingLock
      /\ g.currentWriter = rw[p].currentWriter /\ g.blocking = rw[p].blocking
      /\ g.physical = rw[p].physical
      /\ g.readers \in Nat /\ g.pendingLock \in Nat /\ g.pendingWriters \in Nat
      /\ g.pendingWriters > 0 /\ g.currentWriter \in BOOLEAN /\ g.physical \in RWLevel
      /\ ~Busy(c)
  BY WriterAtFacts DEF WriterAt
<1>3. /\ asks \in RW /\ asks.readers = g.readers /\ asks.pendingLock = g.pendingLock + 1
      /\ asks.pendingWriters = g.pendingWriters /\ asks.currentWriter = g.currentWriter
      /\ asks.physical = g.physical /\ asks.blocking = g.blocking
  BY <1>2 DEF RW
<1>4. t \in TH /\ t.op = "write" /\ th[c].pc \in {"idle", "noReaders", "writerFinished"}
  BY DEF WriterAt
<1>5. th[c].pc \notin {"granted", "queued"} /\ th[c].pc \notin AskPcs \cup {"reader", "writer"}
  BY <1>4 DEF AskPcs
\* Nobody of the process is busy or reads.
<1>6. IInv /\ MayRelock(c) /\ g.pendingLock = 0 /\ ~g.currentWriter =>
        /\ \A d \in Client : d # c /\ Home[d] = Home[c] => ~Busy(d) /\ th[d].pc # "reader"
        /\ lm[p].held = rw[p].physical /\ lm[p].asked = LCK_none
  <2> SUFFICES ASSUME IInv, MayRelock(c), g.pendingLock = 0, ~g.currentWriter
               PROVE  /\ \A d \in Client : d # c /\ Home[d] = Home[c] => ~Busy(d) /\ th[d].pc # "reader"
                      /\ lm[p].held = rw[p].physical /\ lm[p].asked = LCK_none
    OBVIOUS
  <2>1. \A d \in Client : Home[d] = p => th[d].pc \notin AskPcs /\ th[d].pc # "reader"
    BY <1>1, <1>2, ZeroIsNobody DEF Counting, MayRelock
  <2>2. \A d \in Client : Home[d] = p => th[d].pc # "writer"
    BY <1>1, <1>2 DEF Counting, OneBusy
  <2>3. \A d \in Client : Home[d] = p => th[d].pc \notin {"granted", "queued"}
    BY <2>1 DEF AskPcs
  <2>4. lm[p].held = rw[p].physical /\ lm[p].asked = LCK_none
    BY <1>1, <2>3 DEF IInv, LevelsKnown
  <2>5. QED
    BY <2>1, <2>2, <2>4 DEF Busy
<1>7. CASE /\ g.currentWriter \/ g.pendingLock > 0
           /\ rw' = [rw EXCEPT ![p] = g]
           /\ th' = [th EXCEPT ![c] = [t EXCEPT !.pc = "writerFinished"]]
           /\ UNCHANGED lm
  <2> DEFINE t2 == [t EXCEPT !.pc = "writerFinished"]
  <2>1. Effect(c, g, lm[p], t2)
    BY <1>1, <1>7 DEF Effect, Counting, TypeOK
  <2>2. t2.pc = "writerFinished" /\ t2.op = "write"
    BY <1>4 DEF TH
  <2>3. Counting' /\ (Excluding /\ g.readers = 0 /\ ~Guarded /\ c \notin notified' => Excluding')
    BY <1>1, <1>2, <2>1, WriterStep
  <2>4. ASSUME Guarded, MayRelock(c) PROVE FALSE
    <3>1. CASE g.currentWriter
      BY <1>1, <1>2, <2>4, <3>1 DEF Counting, OneBusy, MayRelock, Busy
    <3>2. CASE g.pendingLock > 0
      <4>1. rw[p].pendingLock # 0
        BY <1>2, <3>2
      <4>2. PICK d \in Client : Home[d] = p /\ th[d].pc \in AskPcs
        BY <1>1, <4>1, ZeroIsNobody DEF Counting
      <4>3. QED
        BY <1>5, <2>4, <4>2 DEF MayRelock, AskPcs
    <3>3. QED
      BY <1>7, <3>1, <3>2
  <2> HIDE DEF t2
  <2>5. ASSUME IInv PROVE Leveled'
    <3>1. KnowsLevel(t2, g, lm[p])
      BY <2>2 DEF KnowsLevel
    <3>2. LevelsKnown'
      BY <1>2, <1>5, <2>1, <2>2, <2>5, <3>1, EffectSameLevels DEF IInv
    <3>3. HeldAgree'
      BY <2>1, <2>5, EffectAgrees DEF IInv
    <3>4. Remembered'
      BY <1>2, <1>5, <2>1, <2>5, EffectRemembered DEF IInv
    <3>5. QED
      BY <3>2, <3>3, <3>4 DEF Leveled
  <2>6. QED
    BY <1>2, <2>3, <2>4, <2>5 DEF IInv, Excluding, Leveled, MayRelock
<1>8. CASE /\ ~g.currentWriter /\ g.pendingLock = 0 /\ g.physical = LCK_write
           /\ rw' = [rw EXCEPT ![p] = [g EXCEPT !.pendingWriters = @ - 1, !.currentWriter = TRUE]]
           /\ th' = [th EXCEPT ![c] = [t EXCEPT !.pc = "writer"]]
           /\ UNCHANGED lm
  <2> DEFINE t2 == [t EXCEPT !.pc = "writer"]
             h == [g EXCEPT !.pendingWriters = @ - 1, !.currentWriter = TRUE]
  <2>1. Effect(c, h, lm[p], t2)
    BY <1>1, <1>8 DEF Effect, Counting, TypeOK
  <2>2. t2.pc = "writer" /\ t2.op = "write" /\ t2.pc \notin {"granted", "queued"}
    BY <1>4 DEF TH
  <2>3. /\ h \in RW /\ h.readers = g.readers /\ h.pendingLock = g.pendingLock
        /\ h.pendingWriters = g.pendingWriters - 1 /\ h.currentWriter = TRUE
        /\ h.physical = g.physical /\ h.blocking = g.blocking
    <3>1. g.pendingWriters - 1 \in Nat
      BY <1>2
    <3>2. QED
      BY <1>2, <3>1 DEF RW
  <2> HIDE DEF h
  <2>4. Counting' /\ (Excluding /\ g.readers = 0 /\ c \notin notified' => Excluding')
    BY <1>1, <1>8, <2>1, <2>3, WriterStep
  <2> HIDE DEF t2
  <2>5. ASSUME IInv PROVE Leveled'
    <3>1. KnowsLevel(t2, h, lm[p])
      BY <1>8, <2>2, <2>3 DEF KnowsLevel
    <3>2. LevelsKnown'
      BY <1>2, <1>5, <2>1, <2>2, <2>3, <2>5, <3>1, EffectSameLevels DEF IInv
    <3>3. HeldAgree'
      BY <2>1, <2>5, EffectAgrees DEF IInv
    <3>4. Remembered'
      BY <1>2, <1>5, <2>1, <2>3, <2>5, EffectRemembered DEF IInv
    <3>5. QED
      BY <3>2, <3>3, <3>4 DEF Leveled
  <2>6. QED
    BY <1>2, <2>4, <2>5 DEF IInv, Excluding, Leveled, MayRelock
<1>9. CASE /\ ~g.currentWriter /\ g.pendingLock = 0 /\ g.physical = LCK_read
           /\ lm' = Released(p)
           /\ rw' = [rw EXCEPT ![p] = [asks EXCEPT !.physical = LCK_none, !.blocking = FALSE]]
           /\ th' = [th EXCEPT ![c] = [t EXCEPT !.pc = "enqueue"]]
  <2> DEFINE t2 == [t EXCEPT !.pc = "enqueue"]
             h == [asks EXCEPT !.physical = LCK_none, !.blocking = FALSE]
             l == [lm[p] EXCEPT !.held = LCK_none, !.notice = "none"]
  <2>1. Effect(c, h, l, t2)
    BY <1>1, <1>9 DEF Effect, Counting, TypeOK, Released
  <2>2. t2.pc = "enqueue" /\ t2.op = "write"
    BY <1>4 DEF TH
  <2>3. /\ h \in RW /\ h.readers = g.readers /\ h.pendingLock = g.pendingLock + 1
        /\ h.pendingWriters = g.pendingWriters /\ h.currentWriter = g.currentWriter
        /\ h.physical = LCK_none
    BY <1>2, <1>3 DEF RW, RWLevel
  <2>4. l \in LM /\ l.held = LCK_none /\ l.notice = "none" /\ l.asked = lm[p].asked
    BY <1>1 DEF LM, RWLevel
  <2> HIDE DEF h, l
  <2>5. Counting' /\ (Excluding /\ g.readers = 0 /\ c \notin notified' => Excluding')
    BY <1>1, <1>9, <2>1, <2>3, <2>4, WriterStep
  <2> HIDE DEF t2
  <2>6. ASSUME IInv, MayRelock(c) PROVE Leveled'
    <3>1. KnowsLevel(t2, h, l)
      BY <2>2, <2>3 DEF KnowsLevel
    <3>2. LevelsKnown'
      BY <1>6, <1>9, <2>1, <2>2, <2>3, <2>4, <2>6, <3>1, EffectNewLevels DEF IInv
    <3>3. HeldAgree'
      BY <2>1, <2>4, <2>6, EffectAgrees DEF IInv
    <3>4. Remembered'
      BY <2>1, <2>4, <2>6, EffectRemembered DEF IInv
    <3>5. QED
      BY <3>2, <3>3, <3>4 DEF Leveled
  <2>7. QED
    BY <1>2, <2>5, <2>6 DEF IInv, Excluding, Leveled, MayRelock
<1>10. CASE /\ ~g.currentWriter /\ g.pendingLock = 0 /\ g.physical = LCK_none
            /\ rw' = [rw EXCEPT ![p] = asks]
            /\ th' = [th EXCEPT ![c] = [t EXCEPT !.pc = "enqueue"]]
            /\ UNCHANGED lm
  <2> DEFINE t2 == [t EXCEPT !.pc = "enqueue"]
  <2>1. Effect(c, asks, lm[p], t2)
    BY <1>1, <1>10 DEF Effect, Counting, TypeOK
  <2>2. t2.pc = "enqueue" /\ t2.op = "write" /\ t2.pc \notin {"granted", "queued"}
    BY <1>4 DEF TH
  <2> HIDE DEF asks
  <2>3. Counting' /\ (Excluding /\ g.readers = 0 /\ c \notin notified' => Excluding')
    BY <1>1, <1>3, <1>10, <2>1, WriterStep
  <2> HIDE DEF t2
  <2>4. ASSUME IInv PROVE Leveled'
    <3>1. KnowsLevel(t2, asks, lm[p])
      BY <1>3, <1>10, <2>2 DEF KnowsLevel
    <3>2. LevelsKnown'
      BY <1>2, <1>3, <1>5, <2>1, <2>2, <2>4, <3>1, EffectSameLevels DEF IInv
    <3>3. HeldAgree'
      BY <2>1, <2>4, EffectAgrees DEF IInv
    <3>4. Remembered'
      BY <1>2, <1>3, <1>5, <2>1, <2>4, EffectRemembered DEF IInv
    <3>5. QED
      BY <3>2, <3>3, <3>4 DEF Leveled
  <2>5. QED
    BY <1>2, <2>3, <2>4 DEF IInv, Excluding, Leveled, MayRelock
<1>11. QED
  BY <1>7, <1>8, <1>9, <1>10 DEF Relock

\* lockWrite's first loop.
LEMMA AwaitReadersKeeps ==
    ASSUME Counting, NEW c \in Client, NEW g, NEW t, WriterAt(c, g, t), AwaitReaders(c, g, t),
           notified' = notified \/ notified' = notified \ {c}, queue' = queue
    PROVE  Counting' /\ (IInv /\ c \notin notified' => IInv')
<1> DEFINE p == Home[c]
           t2 == [t EXCEPT !.pc = "noReaders"]
<1>1. /\ p \in Process /\ rw[p] \in RW /\ lm[p] \in LM /\ th[c] \in TH
  BY Counted
<1>2. /\ g \in RW /\ t \in TH
      /\ g.readers = rw[p].readers /\ g.physical = rw[p].physical /\ g.blocking = rw[p].blocking
      /\ th[c].pc # "idle" => th[c].op = "write"
      /\ th[c].pc \in {"idle", "noReaders", "writerFinished"}
  BY WriterAtFacts DEF WriterAt
<1>3. CASE /\ g.readers > 0
           /\ rw' = [rw EXCEPT ![Home[c]] = g]
           /\ th' = [th EXCEPT ![c] = [t EXCEPT !.pc = "noReaders"]]
           /\ UNCHANGED lm
  <2>1. Effect(c, g, lm[p], t2)
    BY <1>1, <1>3 DEF Effect, Counting, TypeOK
  <2>2. t2.pc = "noReaders" /\ t2.pc \notin {"granted", "queued"}
    BY <1>2 DEF TH
  <2>3. Counting' /\ (Excluding /\ c \notin notified' => Excluding')
    BY <1>1, <1>2, <2>1, WriterStep
  <2> HIDE DEF t2
  <2>4. ASSUME IInv PROVE Leveled'
    <3>1. KnowsLevel(t2, g, lm[p])
      BY <2>2 DEF KnowsLevel
    <3>2. LevelsKnown'
      BY <1>2, <2>1, <2>2, <2>4, <3>1, EffectSameLevels DEF IInv
    <3>3. HeldAgree'
      BY <2>1, <2>4, EffectAgrees DEF IInv
    <3>4. Remembered'
      BY <1>2, <2>1, <2>4, EffectRemembered DEF IInv, AskPcs
    <3>5. QED
      BY <3>2, <3>3, <3>4 DEF Leveled
  <2>5. QED
    BY <2>3, <2>4 DEF IInv, Excluding, Leveled
<1>4. CASE g.readers = 0 /\ Relock(c, g, t)
  <2>1. IInv => MayRelock(c)
    BY <1>2, <1>4 DEF IInv, MayRelock, GuardedAlone, WriterAt, MayWrite, Alone
  <2>2. QED
    BY <1>4, <2>1, RelockKeeps
<1>5. QED
  BY <1>3, <1>4 DEF AwaitReaders

\* A thread that waits for no condition has not been notified of one.
LEMMA NotNotified ==
    ASSUME IInv, NEW c \in Client, th[c].pc \notin {"noReaders", "writerFinished", "readerWaits"}
    PROVE  c \notin notified
BY DEF IInv, NotifiedReady

LEMMA lockWriteKeeps ==
    ASSUME Counting, NEW c \in Client, lockWrite(c)
    PROVE  Counting' /\ (IInv => IInv')
<1>1. PICK w \in Wait : AwaitReaders(c, [rw[Home[c]] EXCEPT !.pendingWriters = @ + 1],
                                     [pc |-> "idle", op |-> "write", wait |-> w])
  BY DEF lockWrite
<1> DEFINE g == [rw[Home[c]] EXCEPT !.pendingWriters = @ + 1]
           t == [pc |-> "idle", op |-> "write", wait |-> w]
<1>2. Home[c] \in Process /\ rw[Home[c]] \in RW /\ th[c] \in TH
  BY Counted
<1>3. th[c].pc = "idle" /\ MayWrite(c) /\ notified' = notified /\ queue' = queue
  BY DEF lockWrite
<1>4. WriterAt(c, g, t)
  <2>1. g \in RW /\ t \in TH
    BY <1>2, RWConstants DEF RW, TH, PC
  <2>2. g.pendingWriters + One(IsPending(th[c])) = rw[Home[c]].pendingWriters + 1
    BY <1>2, <1>3 DEF RW, One, IsPending, AskPcs
  <2>3. g = [rw[Home[c]] EXCEPT !.pendingWriters = g.pendingWriters]
    BY <1>2 DEF RW
  <2>4. QED
    BY <1>3, <2>1, <2>2, <2>3 DEF WriterAt
<1> HIDE DEF g, t
<1>5. AwaitReaders(c, g, t)
  BY <1>1 DEF g, t
<1>6. IInv => c \notin notified'
  BY <1>3, NotNotified
<1>7. QED
  BY <1>3, <1>4, <1>5, <1>6, AwaitReadersKeeps

\* A thread that waits in lockWrite is a pending writer.
LEMMA WaitingWriter ==
    ASSUME Counting, NEW c \in Client, th[c].pc \in {"noReaders", "writerFinished"}
    PROVE  WriterAt(c, rw[Home[c]], th[c])
<1>1. Home[c] \in Process /\ rw[Home[c]] \in RW /\ th[c] \in TH
  BY Counted
<1>2. th[c].op = "write" /\ IsPending(th[c])
  BY DEF Counting, Roles, IsPending
<1>3. rw[Home[c]] = [rw[Home[c]] EXCEPT !.pendingWriters = rw[Home[c]].pendingWriters]
  BY <1>1 DEF RW
<1>4. QED
  BY <1>1, <1>2, <1>3 DEF WriterAt, One

LEMMA ReadersGoneKeeps ==
    ASSUME Counting, NEW c \in Client, ReadersGone(c)
    PROVE  Counting' /\ (IInv => IInv')
<1>1. /\ th[c].pc = "noReaders" /\ AwaitReaders(c, rw[Home[c]], th[c])
      /\ notified' = notified \ {c} /\ queue' = queue /\ c \notin notified'
  BY DEF ReadersGone
<1>2. QED
  BY <1>1, WaitingWriter, AwaitReadersKeeps

\* This is where a writer relies on whoever woke it up.
LEMMA WriterFinishedKeeps ==
    ASSUME Counting, NEW c \in Client, WriterFinished(c)
    PROVE  Counting' /\ (IInv /\ Disciplined => IInv')
<1>1. /\ th[c].pc = "writerFinished" /\ Relock(c, rw[Home[c]], th[c]) /\ WokenUp(c)
      /\ notified' = notified \ {c} /\ queue' = queue /\ c \notin notified'
  BY DEF WriterFinished
<1>2. IInv /\ Disciplined => MayRelock(c)
  <2> SUFFICES ASSUME IInv, Disciplined PROVE MayRelock(c)
    OBVIOUS
  <2>1. ~Guarded /\ c \in notified
    BY <1>1 DEF IInv, GuardedAlone, Disciplined, WokenUp
  <2>2. \A d \in Client : Home[d] = Home[c] => th[d].pc # "reader"
    BY <1>1, <2>1 DEF IInv, NotifiedReady
  <2>3. rw[Home[c]].readers = 0
    BY <2>2, Counted, ZeroIsNobody DEF Counting
  <2>4. QED
    BY <2>1, <2>3 DEF MayRelock
<1>3. QED
  BY <1>1, <1>2, WaitingWriter, RelockKeeps

\* A busy thread that ends its call and may notify others that wait.
LEMMA BusyLeaves ==
    ASSUME Counting, NEW c \in Client, Busy(c), NEW g \in RW, NEW l \in LM, Effect(c, g, l, Idle),
           g.readers = rw[Home[c]].readers,
           g.pendingLock + One(IsAsker(th[c])) = rw[Home[c]].pendingLock,
           g.pendingWriters + One(IsPending(th[c])) = rw[Home[c]].pendingWriters,
           g.currentWriter <=> rw[Home[c]].currentWriter /\ th[c].pc # "writer",
           notified' = notified \/ notified' = NotifyWriterFinished(Home[c]), queue' = queue
    PROVE  Counting' /\ (Excluding => Excluding')
<1>1. /\ Home[c] \in Process /\ rw[Home[c]] \in RW
  BY Counted
<1>2. /\ Idle \in TH /\ Idle.pc = "idle" /\ Idle.op = "none" /\ RolesOf(Idle)
      /\ ~IsReader(Idle) /\ ~IsAsker(Idle) /\ ~IsPending(Idle)
      /\ Idle.pc \notin AskPcs \cup {"writer"}
  BY DEF Idle, TH, PC, RolesOf, IsReader, IsAsker, IsPending, AskPcs
<1>3. th[c].pc \notin {"idle", "closed", "reader", "noReaders", "writerFinished", "readerWaits"}
  BY DEF Busy, AskPcs
<1>4. notified' \subseteq Client /\ queue' \in Seq(Process)
  BY DEF Counting, TypeOK, NotifyWriterFinished, At
<1>5. /\ g.readers \in Nat /\ g.pendingLock \in Nat /\ g.pendingWriters \in Nat
      /\ rw[Home[c]].readers \in Nat /\ rw[Home[c]].pendingLock \in Nat
      /\ rw[Home[c]].pendingWriters \in Nat
  BY <1>1 DEF RW
<1>6. Counting'
  <2>1. g.readers + One(IsReader(th[c])) = rw[Home[c]].readers + One(IsReader(Idle))
    BY <1>2, <1>3, <1>5 DEF One, IsReader
  <2>2. g.pendingLock + One(IsAsker(th[c])) = rw[Home[c]].pendingLock + One(IsAsker(Idle))
    BY <1>2, <1>5 DEF One
  <2>3. g.pendingWriters + One(IsPending(th[c])) = rw[Home[c]].pendingWriters + One(IsPending(Idle))
    BY <1>2, <1>5 DEF One
  <2>4. QED
    BY <1>2, <1>4, <2>1, <2>2, <2>3, EffectCounting
<1>7. ASSUME Excluding PROVE Excluding'
  <2>1. BusyAlone'
    BY <1>2, <1>7, EffectBusyAlone DEF Excluding
  <2>2. GuardedAlone'
    BY <1>2, <1>3, <1>7, EffectGuarded DEF Excluding
  <2>3. NotifiedReady'
    <3>1. c \notin notified'
      BY <1>3, <1>7 DEF Excluding, NotifiedReady, NotifyWriterFinished, At
    <3>2. \A d \in notified' \ notified :
            Home[d] = Home[c] /\ th[d].pc \in {"noReaders", "writerFinished", "readerWaits"}
      BY DEF NotifyWriterFinished, At
    <3>3. QED
      BY <1>2, <1>4, <1>7, <3>1, <3>2, EffectNotified DEF Excluding
  <2>4. QED
    BY <2>1, <2>2, <2>3 DEF Excluding
<1>8. QED
  BY <1>6, <1>7

LEMMA lockWriteDeniedKeeps ==
    ASSUME Counting, NEW c \in Client, lockWriteDenied(c)
    PROVE  Counting' /\ (IInv => IInv')
<1> DEFINE p == Home[c]
           g == [rw[p] EXCEPT !.pendingLock = @ - 1, !.pendingWriters = @ - 1]
           l == lm[p]
<1>1. /\ th[c].pc = "denied" /\ th[c].op = "write" /\ Busy(c)
      /\ IsAsker(th[c]) /\ IsPending(th[c]) /\ th[c].pc # "writer"
  BY DEF lockWriteDenied, Busy, IsAsker, IsPending, AskPcs
<1>2. /\ p \in Process /\ rw[p] \in RW /\ l \in LM
      /\ rw[p].pendingLock > 0 /\ rw[p].pendingWriters > 0 /\ ~rw[p].currentWriter
  BY <1>1, Counted DEF IsAsker
<1>3. rw[p].pendingLock - 1 \in Nat /\ rw[p].pendingWriters - 1 \in Nat
  BY <1>2 DEF RW
<1>4. /\ g \in RW /\ g.readers = rw[p].readers /\ g.pendingLock = rw[p].pendingLock - 1
      /\ g.pendingWriters = rw[p].pendingWriters - 1 /\ g.currentWriter = rw[p].currentWriter
      /\ g.physical = rw[p].physical
  BY <1>2, <1>3 DEF RW
<1>5. Effect(c, g, l, Idle)
  BY <1>2 DEF lockWriteDenied, Effect, Counting, TypeOK
<1>6. /\ notified' = notified \/ notified' = NotifyWriterFinished(p)
      /\ queue' = queue
  BY DEF lockWriteDenied
<1>7. /\ g.pendingLock + One(IsAsker(th[c])) = rw[p].pendingLock
      /\ g.pendingWriters + One(IsPending(th[c])) = rw[p].pendingWriters
  BY <1>1, <1>2, <1>4 DEF One, RW
<1> HIDE DEF g
<1>8. Counting' /\ (Excluding => Excluding')
  BY <1>1, <1>2, <1>4, <1>5, <1>6, <1>7, BusyLeaves
<1>9. ASSUME IInv PROVE Leveled'
  <2>1. \A d \in Client : d # c /\ Home[d] = Home[c] => ~Busy(d) /\ th[d].pc # "reader"
    BY <1>1, <1>9, AskerAlone DEF IInv
  <2>2. rw[p].physical = LCK_none /\ l.held = LCK_none /\ l.asked = LCK_none
    <3>1. \A d \in Client : Home[d] = p => th[d].pc \notin {"granted", "queued"}
      BY <1>1, <2>1 DEF Busy, AskPcs
    <3>2. QED
      BY <1>1, <1>2, <1>9, <3>1 DEF IInv, LevelsKnown
  <2>3. LevelsKnown'
    <3>1. KnowsLevel(Idle, g, l)
      BY DEF KnowsLevel, Idle
    <3>2. QED
      BY <1>4, <1>5, <1>9, <2>1, <2>2, <3>1, EffectNewLevels DEF IInv
  <2>4. HeldAgree'
    BY <1>5, <1>9, EffectAgrees DEF IInv
  <2>5. Remembered'
    BY <1>5, <1>9, <2>2, EffectRemembered DEF IInv
  <2>6. QED
    BY <2>3, <2>4, <2>5 DEF Leveled
<1>10. QED
  BY <1>8, <1>9 DEF IInv, Excluding, Leveled

LEMMA lockReadDeniedKeeps ==
    ASSUME Counting, NEW c \in Client, lockReadDenied(c)
    PROVE  Counting' /\ (IInv => IInv')
<1> DEFINE p == Home[c]
           g == [rw[p] EXCEPT !.pendingLock = @ - 1]
           l == lm[p]
<1>1. /\ th[c].pc = "denied" /\ th[c].op # "write" /\ Busy(c)
      /\ IsAsker(th[c]) /\ ~IsPending(th[c]) /\ th[c].pc # "writer"
  BY DEF lockReadDenied, Busy, IsAsker, IsPending, AskPcs
<1>2. /\ p \in Process /\ rw[p] \in RW /\ l \in LM
      /\ rw[p].pendingLock > 0 /\ ~rw[p].currentWriter
  BY <1>1, Counted DEF IsAsker
<1>3. rw[p].pendingLock - 1 \in Nat
  BY <1>2 DEF RW
<1>4. /\ g \in RW /\ g.readers = rw[p].readers /\ g.pendingLock = rw[p].pendingLock - 1
      /\ g.pendingWriters = rw[p].pendingWriters /\ g.currentWriter = rw[p].currentWriter
      /\ g.physical = rw[p].physical
  BY <1>2, <1>3 DEF RW
<1>5. Effect(c, g, l, Idle)
  BY <1>2 DEF lockReadDenied, Effect, Counting, TypeOK
<1>6. notified' = notified /\ queue' = queue
  BY DEF lockReadDenied
<1>7. /\ g.pendingLock + One(IsAsker(th[c])) = rw[p].pendingLock
      /\ g.pendingWriters + One(IsPending(th[c])) = rw[p].pendingWriters
  BY <1>1, <1>2, <1>4 DEF One, RW
<1> HIDE DEF g
<1>8. Counting' /\ (Excluding => Excluding')
  BY <1>1, <1>2, <1>4, <1>5, <1>6, <1>7, BusyLeaves
<1>9. ASSUME IInv PROVE Leveled'
  <2>1. \A d \in Client : d # c /\ Home[d] = Home[c] => ~Busy(d) /\ th[d].pc # "reader"
    BY <1>1, <1>9, AskerAlone DEF IInv
  <2>2. rw[p].physical = LCK_none /\ l.held = LCK_none /\ l.asked = LCK_none
    <3>1. \A d \in Client : Home[d] = p => th[d].pc \notin {"granted", "queued"}
      BY <1>1, <2>1 DEF Busy, AskPcs
    <3>2. QED
      BY <1>1, <1>2, <1>9, <3>1 DEF IInv, LevelsKnown
  <2>3. LevelsKnown'
    <3>1. KnowsLevel(Idle, g, l)
      BY DEF KnowsLevel, Idle
    <3>2. QED
      BY <1>4, <1>5, <1>9, <2>1, <2>2, <3>1, EffectNewLevels DEF IInv
  <2>4. HeldAgree'
    BY <1>5, <1>9, EffectAgrees DEF IInv
  <2>5. Remembered'
    BY <1>5, <1>9, <2>2, EffectRemembered DEF IInv
  <2>6. QED
    BY <2>3, <2>4, <2>5 DEF Leveled
<1>10. QED
  BY <1>8, <1>9 DEF IInv, Excluding, Leveled

\* LCK_lock has returned with the lock.
LEMMA lockWriteDoneKeeps ==
    ASSUME Counting, NEW c \in Client, lockWriteDone(c)
    PROVE  Counting' /\ (IInv => IInv')
<1> DEFINE p == Home[c]
           g == [rw[p] EXCEPT !.pendingLock = @ - 1, !.pendingWriters = @ - 1, !.currentWriter = TRUE]
           l == lm[p]
           t == [th[c] EXCEPT !.pc = "writer"]
<1>1. /\ th[c].pc = "locked" /\ th[c].op = "write" /\ Busy(c)
      /\ IsAsker(th[c]) /\ IsPending(th[c]) /\ ~IsReader(th[c]) /\ th[c].pc # "writer"
  BY DEF lockWriteDone, Busy, IsAsker, IsPending, IsReader, AskPcs
<1>2. /\ p \in Process /\ rw[p] \in RW /\ l \in LM /\ th[c] \in TH
      /\ rw[p].pendingLock > 0 /\ rw[p].pendingWriters > 0 /\ ~rw[p].currentWriter
  BY <1>1, Counted DEF IsAsker
<1>3. rw[p].pendingLock - 1 \in Nat /\ rw[p].pendingWriters - 1 \in Nat
  BY <1>2 DEF RW
<1>4. /\ g \in RW /\ g.readers = rw[p].readers /\ g.pendingLock = rw[p].pendingLock - 1
      /\ g.pendingWriters = rw[p].pendingWriters - 1 /\ g.currentWriter = TRUE
      /\ g.physical = rw[p].physical /\ g.blocking = rw[p].blocking
  BY <1>2, <1>3 DEF RW
<1>5. t \in TH /\ t.pc = "writer" /\ t.op = "write"
  BY <1>1, <1>2 DEF TH, PC
<1>6. Effect(c, g, l, t)
  BY <1>2 DEF lockWriteDone, Effect, Counting, TypeOK
<1>7. notified' = notified /\ queue' = queue /\ notified' \subseteq Client /\ queue' \in Seq(Process)
  BY DEF lockWriteDone, Counting, TypeOK
<1> HIDE DEF g, t
<1>8. /\ ~IsReader(t) /\ ~IsAsker(t) /\ ~IsPending(t) /\ RolesOf(t)
  BY <1>5 DEF IsReader, IsAsker, IsPending, RolesOf, AskPcs
<1>9. Counting'
  <2>1. g.readers + One(IsReader(th[c])) = rw[p].readers + One(IsReader(t))
    BY <1>1, <1>4, <1>8 DEF One
  <2>2. g.pendingLock + One(IsAsker(th[c])) = rw[p].pendingLock + One(IsAsker(t))
    BY <1>1, <1>2, <1>4, <1>8 DEF One, RW
  <2>3. g.pendingWriters + One(IsPending(th[c])) = rw[p].pendingWriters + One(IsPending(t))
    BY <1>1, <1>2, <1>4, <1>8 DEF One, RW
  <2>4. QED
    BY <1>1, <1>2, <1>4, <1>5, <1>6, <1>7, <1>8, <2>1, <2>2, <2>3, EffectCounting
<1>10. ASSUME IInv PROVE Excluding' /\ Leveled'
  <2>1. BusyAlone'
    BY <1>1, <1>5, <1>6, <1>10, EffectBusyAlone DEF IInv
  <2>2. GuardedAlone'
    BY <1>1, <1>5, <1>6, <1>10, EffectGuarded DEF IInv
  <2>3. NotifiedReady'
    BY <1>1, <1>5, <1>6, <1>7, <1>8, <1>10, NotNotified, EffectNotified DEF IInv, AskPcs
  <2>4. \A d \in Client : d # c /\ Home[d] = Home[c] => ~Busy(d) /\ th[d].pc # "reader"
    BY <1>1, <1>10, AskerAlone DEF IInv
  <2>5. l.held = rw[p].physical /\ l.asked = LCK_none /\ rw[p].physical = LCK_write
    <3>1. \A d \in Client : Home[d] = p => th[d].pc \notin {"granted", "queued"}
      BY <1>1, <2>4 DEF Busy, AskPcs
    <3>2. QED
      BY <1>1, <1>2, <1>10, <3>1 DEF IInv, LevelsKnown, WantedLevel
  <2>6. LevelsKnown'
    <3>1. KnowsLevel(t, g, l)
      BY <1>4, <1>5, <2>5 DEF KnowsLevel
    <3>2. QED
      BY <1>4, <1>6, <1>10, <2>4, <2>5, <3>1, EffectNewLevels DEF IInv
  <2>7. HeldAgree'
    BY <1>6, <1>10, EffectAgrees DEF IInv
  <2>8. Remembered'
    BY <1>4, <1>5, <1>6, <1>10, EffectRemembered DEF IInv
  <2>9. QED
    BY <2>1, <2>2, <2>3, <2>6, <2>7, <2>8 DEF Excluding, Leveled
<1>11. QED
  BY <1>9, <1>10 DEF IInv, Excluding, Leveled

LEMMA lockReadDoneKeeps ==
    ASSUME Counting, NEW c \in Client, lockReadDone(c)
    PROVE  Counting' /\ (IInv => IInv')
<1> DEFINE p == Home[c]
           g == [rw[p] EXCEPT !.pendingLock = @ - 1, !.readers = @ + 1]
           l == lm[p]
           t == [th[c] EXCEPT !.pc = "reader"]
<1>1. /\ th[c].pc = "locked" /\ th[c].op # "write" /\ Busy(c) /\ th[c].pc \in AskPcs
      /\ IsAsker(th[c]) /\ ~IsPending(th[c]) /\ ~IsReader(th[c]) /\ th[c].pc # "writer"
  BY DEF lockReadDone, Busy, IsAsker, IsPending, IsReader, AskPcs
<1>2. /\ p \in Process /\ rw[p] \in RW /\ l \in LM /\ th[c] \in TH
      /\ rw[p].pendingLock > 0 /\ ~rw[p].currentWriter
  BY <1>1, Counted DEF IsAsker
<1>3. rw[p].pendingLock - 1 \in Nat /\ rw[p].readers + 1 \in Nat
  BY <1>2 DEF RW
<1>4. /\ g \in RW /\ g.readers = rw[p].readers + 1 /\ g.pendingLock = rw[p].pendingLock - 1
      /\ g.pendingWriters = rw[p].pendingWriters /\ g.currentWriter = rw[p].currentWriter
      /\ g.physical = rw[p].physical /\ g.blocking = rw[p].blocking
  BY <1>2, <1>3 DEF RW
<1>5. t \in TH /\ t.pc = "reader" /\ t.op = th[c].op
  BY <1>2 DEF TH, PC
<1>6. Effect(c, g, l, t)
  BY <1>2 DEF lockReadDone, Effect, Counting, TypeOK
<1>7. notified' = notified /\ queue' = queue /\ notified' \subseteq Client /\ queue' \in Seq(Process)
  BY DEF lockReadDone, Counting, TypeOK
<1>8. th[c].op \in {"read", "jump"}
  BY <1>1, <1>2 DEF Counting, Roles, TH
<1> HIDE DEF g, t
<1>9. /\ IsReader(t) /\ ~IsAsker(t) /\ ~IsPending(t) /\ RolesOf(t)
  BY <1>5, <1>8 DEF IsReader, IsAsker, IsPending, RolesOf, AskPcs
<1>10. Counting'
  <2>1. g.readers + One(IsReader(th[c])) = rw[p].readers + One(IsReader(t))
    BY <1>1, <1>2, <1>4, <1>9 DEF One, RW
  <2>2. g.pendingLock + One(IsAsker(th[c])) = rw[p].pendingLock + One(IsAsker(t))
    BY <1>1, <1>2, <1>4, <1>9 DEF One, RW
  <2>3. g.pendingWriters + One(IsPending(th[c])) = rw[p].pendingWriters + One(IsPending(t))
    BY <1>1, <1>2, <1>4, <1>9 DEF One, RW
  <2>4. QED
    BY <1>1, <1>2, <1>4, <1>5, <1>6, <1>7, <1>9, <2>1, <2>2, <2>3, EffectCounting
<1>11. ASSUME IInv PROVE Excluding' /\ Leveled'
  <2>1. BusyAlone'
    BY <1>1, <1>5, <1>6, <1>11, EffectBusyAlone DEF IInv
  <2>2. GuardedAlone'
    BY <1>1, <1>5, <1>6, <1>8, <1>11, EffectGuarded DEF IInv
  <2>3. NotifiedReady'
    BY <1>1, <1>6, <1>7, <1>11, NotNotified, EffectNotified DEF IInv
  <2>4. \A d \in Client : d # c /\ Home[d] = Home[c] => ~Busy(d) /\ th[d].pc # "reader"
    BY <1>1, <1>11, AskerAlone DEF IInv
  <2>5. l.held = rw[p].physical /\ l.asked = LCK_none /\ rw[p].physical = LCK_read
    <3>1. \A d \in Client : Home[d] = p => th[d].pc \notin {"granted", "queued"}
      BY <1>1, <2>4 DEF Busy, AskPcs
    <3>2. QED
      BY <1>1, <1>2, <1>11, <3>1 DEF IInv, LevelsKnown, WantedLevel
  <2>6. LevelsKnown'
    <3>1. KnowsLevel(t, g, l)
      BY <1>4, <1>5, <2>5 DEF KnowsLevel, LCK_read, LCK_none
    <3>2. QED
      BY <1>4, <1>6, <1>11, <2>4, <2>5, <3>1, EffectNewLevels DEF IInv
  <2>7. HeldAgree'
    BY <1>6, <1>11, EffectAgrees DEF IInv
  <2>8. Remembered'
    BY <1>4, <1>5, <1>6, <1>11, EffectRemembered DEF IInv
  <2>9. QED
    BY <2>1, <2>2, <2>3, <2>6, <2>7, <2>8 DEF Excluding, Leveled
<1>12. QED
  BY <1>10, <1>11 DEF IInv, Excluding, Leveled

\* The level LCK_downgrade leaves agrees with what others hold.
LEMMA LeftLevelFits ==
    ASSUME IInv, NEW p \in Process, lm[p].held = rw[p].physical
    PROVE  /\ LeftLevel(p) \in RWLevel
           /\ Free(p, LeftLevel(p))
           /\ rw[p].physical = LCK_none => LeftLevel(p) = LCK_none
<1>1. lm[p].held \in RWLevel /\ \A q \in Process : lm[q].held \in RWLevel
  BY DEF IInv, Counting, TypeOK
<1>2. \A q \in Process \ {p} : Agree(lm[p].held, lm[q].held)
  BY DEF IInv, HeldAgree
<1>3. LeftLevel(p) \in {LCK_none, lm[p].held} \/ (LeftLevel(p) = LCK_read /\ lm[p].held # LCK_none)
  BY DEF LeftLevel
<1>4. QED
  BY <1>1, <1>2, <1>3 DEF Free, Agree, RWLevel, LCK_none, LCK_read, LCK_write, LeftLevel

LEMMA unlockWriteKeeps ==
    ASSUME Counting, NEW c \in Client, unlockWrite(c)
    PROVE  Counting' /\ (IInv => IInv')
<1> DEFINE p == Home[c]
<1>1. /\ th[c].pc = "writer" /\ Busy(c)
      /\ ~IsAsker(th[c]) /\ ~IsPending(th[c]) /\ ~IsReader(th[c])
  BY DEF unlockWrite, Busy, IsAsker, IsPending, IsReader, AskPcs
<1>2. p \in Process /\ rw[p] \in RW /\ lm[p] \in LM /\ th[c] \in TH
  BY Counted
<1>3. notified' = NotifyWriterFinished(p) /\ queue' = queue
  BY DEF unlockWrite
<1>4. IInv => /\ \A d \in Client : d # c /\ Home[d] = Home[c] => ~Busy(d) /\ th[d].pc # "reader"
              /\ lm[p].held = LCK_write /\ rw[p].physical = LCK_write /\ lm[p].asked = LCK_none
  <2> SUFFICES ASSUME IInv
               PROVE  /\ \A d \in Client : d # c /\ Home[d] = Home[c] => ~Busy(d) /\ th[d].pc # "reader"
                      /\ lm[p].held = LCK_write /\ rw[p].physical = LCK_write /\ lm[p].asked = LCK_none
    OBVIOUS
  <2>1. \A d \in Client : d # c /\ Home[d] = Home[c] => ~Busy(d) /\ th[d].pc # "reader"
    BY <1>1, AskerAlone DEF IInv
  <2>2. \A d \in Client : Home[d] = p => th[d].pc \notin {"granted", "queued"}
    BY <1>1, <2>1 DEF Busy, AskPcs
  <2>3. QED
    BY <1>1, <1>2, <2>1, <2>2 DEF IInv, LevelsKnown
\* Whatever level is left, the rest is the same.
<1>5. ASSUME NEW k \in RWLevel, NEW l \in LM, l.asked = lm[p].asked,
             th' = [th EXCEPT ![c] = Idle], lm' = [lm EXCEPT ![p] = l],
             rw' = [rw EXCEPT ![p] = [rw[p] EXCEPT !.currentWriter = FALSE, !.blocking = FALSE,
                                                   !.physical = k]],
             IInv => l.held = k /\ (k = LCK_none \/ Free(p, k))
                     /\ (l.notice # "seen" \/ (l = lm[p] /\ ~rw[p].blocking))
      PROVE  Counting' /\ (IInv => IInv')
  <2> DEFINE g == [rw[p] EXCEPT !.currentWriter = FALSE, !.blocking = FALSE, !.physical = k]
  <2>1. /\ g \in RW /\ g.readers = rw[p].readers /\ g.pendingLock = rw[p].pendingLock
        /\ g.pendingWriters = rw[p].pendingWriters /\ g.currentWriter = FALSE
        /\ g.physical = k /\ g.blocking = FALSE
    BY <1>2 DEF RW
  <2>2. Effect(c, g, l, Idle)
    BY <1>5 DEF Effect
  <2> HIDE DEF g
  <2>3. Counting' /\ (Excluding => Excluding')
    <3>1. /\ g.pendingLock + One(IsAsker(th[c])) = rw[p].pendingLock
          /\ g.pendingWriters + One(IsPending(th[c])) = rw[p].pendingWriters
      BY <1>1, <1>2, <2>1 DEF One, RW
    <3>2. QED
      BY <1>1, <1>3, <2>1, <2>2, <3>1, BusyLeaves
  <2>4. ASSUME IInv PROVE Leveled'
    <3>1. LevelsKnown'
      <4>1. KnowsLevel(Idle, g, l)
        BY DEF KnowsLevel, Idle
      <4>2. QED
        BY <1>4, <1>5, <2>1, <2>2, <2>4, <4>1, EffectNewLevels DEF IInv
    <3>2. HeldAgree'
      BY <1>5, <2>2, <2>4, EffectAgrees DEF IInv
    <3>3. Remembered'
      <4>1. CASE l.notice # "seen"
        BY <2>2, <2>4, <4>1, EffectRemembered DEF IInv
      <4>2. CASE l = lm[p] /\ ~rw[p].blocking
        <5>1. l.notice # "seen" \/ l.ast \/ l.held = LCK_none
          BY <1>2, <2>4, <4>2 DEF IInv, Remembered
        <5>2. /\ lm'[p] = l /\ \A q \in Process : q # p => lm'[q] = lm[q]
              /\ \A q \in Process : q # p => rw'[q] = rw[q]
              /\ \A d \in Client : d # c => th'[d] = th[d]
          BY <2>2, <2>4, EffectPointwise DEF IInv, Counting
        <5>3. \A q \in Process \ {p}, d \in Client : Home[d] = q => th'[d] = th[d]
          BY <5>2
        <5>4. QED
          BY <2>4, <5>1, <5>2, <5>3 DEF IInv, Remembered
      <4>3. QED
        BY <1>5, <2>4, <4>1, <4>2
    <3>4. QED
      BY <3>1, <3>2, <3>3 DEF Leveled
  <2>5. QED
    BY <2>3, <2>4 DEF IInv, Excluding, Leveled
<1>6. th' = [th EXCEPT ![c] = Idle]
  BY DEF unlockWrite
<1>7. CASE /\ lm' = Released(p)
           /\ rw' = [rw EXCEPT ![p].currentWriter = FALSE, ![p].blocking = FALSE,
                               ![p].physical = LCK_none]
  <2> DEFINE l == [lm[p] EXCEPT !.held = LCK_none, !.notice = "none"]
  <2>1. l \in LM /\ l.asked = lm[p].asked /\ l.held = LCK_none /\ l.notice = "none"
    BY <1>2 DEF LM, RWLevel
  <2>2. lm' = [lm EXCEPT ![p] = l] /\ LCK_none \in RWLevel
    BY <1>2, <1>7 DEF Released, Counting, TypeOK, RWLevel
  <2>3. rw' = [rw EXCEPT ![p] = [rw[p] EXCEPT !.currentWriter = FALSE, !.blocking = FALSE,
                                              !.physical = LCK_none]]
    BY <1>2, <1>7 DEF Counting, TypeOK
  <2> HIDE DEF l
  <2>4. QED
    BY <1>5, <1>6, <2>1, <2>2, <2>3
<1>8. CASE /\ rw[p].blocking
           /\ lm' = Downgraded(p)
           /\ rw' = [rw EXCEPT ![p].currentWriter = FALSE, ![p].blocking = FALSE,
                               ![p].physical = LeftLevel(p)]
  <2>1. LeftLevel(p) \in RWLevel
    BY <1>2 DEF LeftLevel, RWLevel, LM
  <2>2. rw' = [rw EXCEPT ![p] = [rw[p] EXCEPT !.currentWriter = FALSE, !.blocking = FALSE,
                                              !.physical = LeftLevel(p)]]
    BY <1>2, <1>8 DEF Counting, TypeOK
  <2>3. CASE rw[p].physical = LCK_none
    <3>1. lm' = [lm EXCEPT ![p] = lm[p]]
      BY <1>2, <1>8, <2>3 DEF Downgraded, Counting, TypeOK
    <3>2. ~IInv
      BY <1>4, <2>3 DEF LCK_none, LCK_write
    <3>3. QED
      BY <1>2, <1>5, <1>6, <2>1, <2>2, <3>1, <3>2
  <2>4. CASE rw[p].physical # LCK_none
    <3> DEFINE l == [lm[p] EXCEPT !.held = LeftLevel(p), !.notice = "none"]
    <3>1. l \in LM /\ l.asked = lm[p].asked /\ l.held = LeftLevel(p) /\ l.notice = "none"
      BY <1>2, <2>1 DEF LM
    <3>2. lm' = [lm EXCEPT ![p] = l]
      BY <1>2, <1>8, <2>4 DEF Downgraded, Counting, TypeOK
    <3>3. IInv => Free(p, LeftLevel(p))
      BY <1>2, <1>4, LeftLevelFits
    <3> HIDE DEF l
    <3>4. QED
      BY <1>5, <1>6, <2>1, <2>2, <3>1, <3>2, <3>3
  <2>5. QED
    BY <2>3, <2>4
<1>9. CASE /\ ~rw[p].blocking
           /\ lm' = lm
           /\ rw' = [rw EXCEPT ![p].currentWriter = FALSE, ![p].blocking = FALSE,
                               ![p].physical = rw[p].physical]
  <2>1. rw[p].physical \in RWLevel
    BY <1>2 DEF RW
  <2>2. rw' = [rw EXCEPT ![p] = [rw[p] EXCEPT !.currentWriter = FALSE, !.blocking = FALSE,
                                              !.physical = rw[p].physical]]
    BY <1>2, <1>9 DEF Counting, TypeOK
  <2>3. lm' = [lm EXCEPT ![p] = lm[p]]
    BY <1>2, <1>9 DEF Counting, TypeOK
  <2>4. IInv => lm[p].held = rw[p].physical /\ Free(p, rw[p].physical)
    BY <1>2, <1>4 DEF IInv, HeldAgree, Free
  <2>5. QED
    BY <1>2, <1>5, <1>6, <1>9, <2>1, <2>2, <2>3, <2>4
<1>10. QED
  BY <1>7, <1>8, <1>9 DEF unlockWrite

-----------------------------------------------------------------------------
(* Readers. *)

\* A thread in lockRead that is not in LCK_lock: t is the thread so far.
ReaderAt(c, t) ==
    /\ t \in TH /\ t.op \in {"read", "jump"}
    /\ th[c].pc \in {"idle", "yield", "readerWaits"}
    /\ th[c].pc = "idle" => MayRead(c)
    /\ th[c].pc # "idle" => t.op = th[c].op

\* It goes on to wait, to read or to call LCK_lock.
LEMMA ReaderStep ==
    ASSUME Counting, NEW c \in Client, NEW t, ReaderAt(c, t),
           NEW g \in RW, NEW pc, Effect(c, g, lm[Home[c]], [t EXCEPT !.pc = pc]),
           notified' = notified \/ notified' = notified \ {c}, queue' = queue,
           g.pendingWriters = rw[Home[c]].pendingWriters,
           g.currentWriter = rw[Home[c]].currentWriter,
           g.blocking = rw[Home[c]].blocking, g.physical = rw[Home[c]].physical,
           \/ /\ pc \in {"readerWaits", "yield"}
              /\ g.readers = rw[Home[c]].readers /\ g.pendingLock = rw[Home[c]].pendingLock
           \/ /\ pc = "enqueue" /\ rw[Home[c]].pendingLock = 0 /\ ~rw[Home[c]].currentWriter
              /\ rw[Home[c]].pendingWriters = 0 /\ g.physical = LCK_none
              /\ g.readers = rw[Home[c]].readers /\ g.pendingLock = rw[Home[c]].pendingLock + 1
           \/ /\ pc = "reader" 
              /\ \/ rw[Home[c]].readers > 0
                 \/ /\ rw[Home[c]].pendingLock = 0 /\ ~rw[Home[c]].currentWriter
                    /\ rw[Home[c]].pendingWriters = 0 /\ g.physical # LCK_none
              /\ g.readers = rw[Home[c]].readers + 1 /\ g.pendingLock = rw[Home[c]].pendingLock
    PROVE  Counting' /\ (IInv /\ c \notin notified' => IInv')
<1> DEFINE p == Home[c]
           t2 == [t EXCEPT !.pc = pc]
           l == lm[p]
<1>1. p \in Process /\ rw[p] \in RW /\ l \in LM /\ th[c] \in TH
  BY Counted
<1>2. /\ t2 \in TH /\ t2.pc = pc /\ t2.op = t.op /\ t.op \in {"read", "jump"}
      /\ pc \in {"readerWaits", "yield", "enqueue", "reader"}
  BY DEF ReaderAt, TH, PC
<1>3. /\ ~IsReader(th[c]) /\ ~IsAsker(th[c]) /\ ~IsPending(th[c]) /\ ~Busy(c)
      /\ th[c].pc \notin AskPcs \cup {"reader", "writer"} /\ th[c].pc \notin {"granted", "queued"}
  BY DEF ReaderAt, IsReader, IsAsker, IsPending, Busy, AskPcs
<1>4. /\ IsReader(t2) <=> pc = "reader"
      /\ IsAsker(t2) <=> pc = "enqueue"
      /\ ~IsPending(t2) /\ RolesOf(t2)
      /\ t2.pc \in AskPcs \cup {"writer"} => pc = "enqueue"
      /\ t2.pc \notin {"granted", "queued", "writer", "writerFinished", "idle"}
  BY <1>2 DEF IsReader, IsAsker, IsPending, RolesOf, AskPcs
<1>5. notified' \subseteq Client /\ queue' \in Seq(Process)
  BY DEF Counting, TypeOK
<1>6. /\ rw[p].readers \in Nat /\ rw[p].pendingLock \in Nat /\ rw[p].pendingWriters \in Nat
  BY <1>1 DEF RW
<1>7. Effect(c, g, l, t2)
  OBVIOUS
<1>8. th[c].pc = "idle" => th[c].op = "none"
  BY DEF Counting, Roles
<1> HIDE DEF t2, l
<1>9. Counting'
  <2>1. g.readers + One(IsReader(th[c])) = rw[p].readers + One(IsReader(t2))
    BY <1>2, <1>3, <1>4, <1>6 DEF One
  <2>2. g.pendingLock + One(IsAsker(th[c])) = rw[p].pendingLock + One(IsAsker(t2))
    BY <1>2, <1>3, <1>4, <1>6 DEF One
  <2>3. g.pendingWriters + One(IsPending(th[c])) = rw[p].pendingWriters + One(IsPending(t2))
    BY <1>3, <1>4, <1>6 DEF One
  <2>4. t2.pc \in AskPcs \cup {"writer"} => rw[p].pendingLock = 0 /\ ~rw[p].currentWriter
    BY <1>4
  <2>5. g.currentWriter <=> t2.pc = "writer" \/ (rw[p].currentWriter /\ th[c].pc # "writer")
    BY <1>3, <1>4
  <2>6. QED
    BY <1>1, <1>2, <1>4, <1>5, <1>7, <2>1, <2>2, <2>3, <2>4, <2>5, EffectCounting
<1>10. ASSUME IInv, c \notin notified' PROVE Excluding' /\ Leveled'
  <2>1. pc = "enqueue" => rw[p].readers = 0
    <3>1. SUFFICES ASSUME pc = "enqueue" PROVE \A d \in Client : Home[d] = p => th[d].pc # "reader"
      BY <1>1, ZeroIsNobody DEF Counting
    <3>2. rw[p].physical = LCK_none
      BY <3>1
    <3>3. QED
      BY <1>10, <3>2 DEF IInv, LevelsKnown
  <2>2. BusyAlone'
    BY <1>2, <1>4, <1>7, <1>10, <2>1, EffectBusyAlone DEF IInv
  <2>3. GuardedAlone'
    BY <1>2, <1>3, <1>4, <1>7, <1>8, <1>10, EffectGuarded DEF IInv, ReaderAt
  <2>4. NotifiedReady'
    <3>1. t2.pc = "reader" \/ (t2.pc \in AskPcs /\ t2.op # "write") =>
              rw[p].pendingWriters = 0 \/ rw[p].readers > 0
      BY <1>2, <1>4
    <3>2. \A d \in notified' \ notified : FALSE
      OBVIOUS
    <3>3. QED
      BY <1>5, <1>7, <1>10, <3>1, <3>2, EffectNotified DEF IInv
  <2>5. pc = "reader" => g.physical # LCK_none
    <3>1. SUFFICES ASSUME pc = "reader", rw[p].readers > 0 PROVE rw[p].physical # LCK_none
      OBVIOUS
    <3>2. rw[p].readers # 0
      BY <3>1
    <3>3. PICK d \in Client : Home[d] = p /\ th[d].pc = "reader"
      BY <1>1, <3>2, ZeroIsNobody DEF Counting
    <3>4. QED
      BY <1>10, <3>3 DEF IInv, LevelsKnown
  <2>6. LevelsKnown'
    <3>1. KnowsLevel(t2, g, l)
      BY <1>2, <2>5 DEF KnowsLevel
    <3>2. QED
      BY <1>3, <1>4, <1>7, <1>10, <3>1, EffectSameLevels DEF IInv, l
  <2>7. HeldAgree'
    BY <1>7, <1>10, EffectAgrees DEF IInv, l
  <2>8. Remembered'
    BY <1>3, <1>7, <1>10, EffectRemembered DEF IInv, l
  <2>9. QED
    BY <2>2, <2>3, <2>4, <2>6, <2>7, <2>8 DEF Excluding, Leveled
<1>11. QED
  BY <1>9, <1>10 DEF IInv, Excluding, Leveled

\* lockRead's inner loop and what follows it.
LEMMA EnterReadKeeps ==
    ASSUME Counting, NEW c \in Client, NEW t, ReaderAt(c, t), EnterRead(c, t),
           notified' = notified \/ notified' = notified \ {c}, queue' = queue, lm' = lm
    PROVE  Counting' /\ (IInv /\ c \notin notified' => IInv')
<1> DEFINE p == Home[c]
<1>1. p \in Process /\ rw[p] \in RW /\ lm[p] \in LM /\ th[c] \in TH
  BY Counted
<1>2. lm' = [lm EXCEPT ![p] = lm[p]]
  BY <1>1 DEF Counting, TypeOK
<1>3. rw[p].readers + 1 \in Nat /\ rw[p].pendingLock + 1 \in Nat /\ rw[p].physical \in RWLevel
  BY <1>1 DEF RW
<1>4. ASSUME NEW pc \in {"readerWaits", "yield"},
             th' = [th EXCEPT ![c] = [t EXCEPT !.pc = pc]], rw' = rw
      PROVE  Counting' /\ (IInv /\ c \notin notified' => IInv')
  <2>1. rw' = [rw EXCEPT ![p] = rw[p]]
    BY <1>1, <1>4 DEF Counting, TypeOK
  <2>2. Effect(c, rw[p], lm[p], [t EXCEPT !.pc = pc])
    BY <1>2, <1>4, <2>1 DEF Effect
  <2>3. QED
    BY <1>1, <2>2, ReaderStep
<1>5. CASE /\ rw[p].pendingWriters = 0 /\ ~rw[p].currentWriter /\ rw[p].pendingLock = 0
           /\ rw[p].physical >= LCK_read
           /\ rw' = [rw EXCEPT ![p].readers = @ + 1]
           /\ th' = [th EXCEPT ![c] = [t EXCEPT !.pc = "reader"]]
  <2> DEFINE g == [rw[p] EXCEPT !.readers = @ + 1]
  <2>1. /\ g \in RW /\ g.readers = rw[p].readers + 1 /\ g.pendingLock = rw[p].pendingLock
        /\ g.pendingWriters = rw[p].pendingWriters /\ g.currentWriter = rw[p].currentWriter
        /\ g.physical = rw[p].physical /\ g.blocking = rw[p].blocking
    BY <1>1, <1>3 DEF RW
  <2>2. rw' = [rw EXCEPT ![p] = g]
    BY <1>1, <1>5 DEF Counting, TypeOK
  <2>3. g.physical # LCK_none
    BY <1>3, <1>5, <2>1 DEF LCK_none, LCK_read, RWLevel
  <2> HIDE DEF g
  <2>4. Effect(c, g, lm[p], [t EXCEPT !.pc = "reader"])
    BY <1>2, <1>5, <2>2 DEF Effect
  <2>5. QED
    BY <1>5, <2>1, <2>3, <2>4, ReaderStep
<1>6. CASE /\ rw[p].pendingWriters = 0 /\ ~rw[p].currentWriter /\ rw[p].pendingLock = 0
           /\ rw[p].physical < LCK_read
           /\ rw' = [rw EXCEPT ![p].pendingLock = @ + 1]
           /\ th' = [th EXCEPT ![c] = [t EXCEPT !.pc = "enqueue"]]
  <2> DEFINE g == [rw[p] EXCEPT !.pendingLock = @ + 1]
  <2>1. /\ g \in RW /\ g.readers = rw[p].readers /\ g.pendingLock = rw[p].pendingLock + 1
        /\ g.pendingWriters = rw[p].pendingWriters /\ g.currentWriter = rw[p].currentWriter
        /\ g.physical = rw[p].physical /\ g.blocking = rw[p].blocking
    BY <1>1, <1>3 DEF RW
  <2>2. rw' = [rw EXCEPT ![p] = g]
    BY <1>1, <1>6 DEF Counting, TypeOK
  <2>3. g.physical = LCK_none
    BY <1>3, <1>6, <2>1 DEF LCK_none, LCK_read, LCK_write, RWLevel
  <2> HIDE DEF g
  <2>4. Effect(c, g, lm[p], [t EXCEPT !.pc = "enqueue"])
    BY <1>2, <1>6, <2>2 DEF Effect
  <2>5. QED
    BY <1>6, <2>1, <2>3, <2>4, ReaderStep
<1>7. QED
  BY <1>4, <1>5, <1>6 DEF EnterRead

LEMMA TryReadKeeps ==
    ASSUME Counting, NEW c \in Client, NEW t, ReaderAt(c, t), TryRead(c, t),
           notified' = notified, queue' = queue, lm' = lm
    PROVE  Counting' /\ (IInv /\ c \notin notified' => IInv')
<1> DEFINE p == Home[c]
           g == [rw[p] EXCEPT !.readers = @ + 1]
<1>1. p \in Process /\ rw[p] \in RW /\ lm[p] \in LM /\ th[c] \in TH
  BY Counted
<1>2. CASE /\ rw[p].readers > 0
           /\ rw' = [rw EXCEPT ![Home[c]].readers = @ + 1]
           /\ th' = [th EXCEPT ![c] = [t EXCEPT !.pc = "reader"]]
  <2>1. rw[p].readers + 1 \in Nat
    BY <1>1 DEF RW
  <2>2. /\ g \in RW /\ g.readers = rw[p].readers + 1 /\ g.pendingLock = rw[p].pendingLock
        /\ g.pendingWriters = rw[p].pendingWriters /\ g.currentWriter = rw[p].currentWriter
        /\ g.physical = rw[p].physical /\ g.blocking = rw[p].blocking
    BY <1>1, <2>1 DEF RW
  <2>3. rw' = [rw EXCEPT ![p] = g] /\ lm' = [lm EXCEPT ![p] = lm[p]]
    BY <1>1, <1>2 DEF Counting, TypeOK
  <2> HIDE DEF g
  <2>4. Effect(c, g, lm[p], [t EXCEPT !.pc = "reader"])
    BY <1>2, <2>3 DEF Effect
  <2>5. QED
    BY <1>2, <2>2, <2>4, ReaderStep
<1>3. CASE EnterRead(c, t)
  BY <1>3, EnterReadKeeps
<1>4. QED
  BY <1>2, <1>3 DEF TryRead

LEMMA lockReadKeeps ==
    ASSUME Counting, NEW c \in Client, lockRead(c)
    PROVE  Counting' /\ (IInv => IInv')
<1>1. PICK op \in Ops \cap {"read", "jump"}, w \in Wait :
         TryRead(c, [pc |-> "idle", op |-> op, wait |-> w])
  BY DEF lockRead
<1> DEFINE t == [pc |-> "idle", op |-> op, wait |-> w]
<1>2. th[c].pc = "idle" /\ MayRead(c) /\ notified' = notified /\ queue' = queue /\ lm' = lm
  BY DEF lockRead
<1>3. ReaderAt(c, t)
  BY <1>2, RWConstants DEF ReaderAt, TH, PC
<1>4. IInv => c \notin notified'
  BY <1>2, NotNotified
<1> HIDE DEF t
<1>5. TryRead(c, t)
  BY <1>1 DEF t
<1>6. QED
  BY <1>2, <1>3, <1>4, <1>5, TryReadKeeps

\* A thread that waits in lockRead.
LEMMA WaitingReader ==
    ASSUME Counting, NEW c \in Client, th[c].pc \in {"yield", "readerWaits"}
    PROVE  ReaderAt(c, th[c])
<1>1. th[c] \in TH
  BY Counted
<1>2. QED
  BY <1>1 DEF ReaderAt, Counting, Roles

LEMMA lockReadYieldsKeeps ==
    ASSUME Counting, NEW c \in Client, lockReadYields(c)
    PROVE  Counting' /\ (IInv => IInv')
<1>1. /\ th[c].pc = "yield" /\ TryRead(c, th[c])
      /\ notified' = notified /\ queue' = queue /\ lm' = lm
  BY DEF lockReadYields
<1>2. IInv => c \notin notified'
  BY <1>1, NotNotified
<1>3. QED
  BY <1>1, <1>2, WaitingReader, TryReadKeeps

LEMMA NoWriterKeeps ==
    ASSUME Counting, NEW c \in Client, NoWriter(c)
    PROVE  Counting' /\ (IInv => IInv')
<1>1. /\ th[c].pc = "readerWaits" /\ EnterRead(c, th[c])
      /\ notified' = notified \ {c} /\ queue' = queue /\ lm' = lm /\ c \notin notified'
  BY DEF NoWriter
<1>2. QED
  BY <1>1, WaitingReader, EnterReadKeeps

LEMMA unlockReadKeeps ==
    ASSUME Counting, NEW c \in Client, unlockRead(c)
    PROVE  Counting' /\ (IInv => IInv')
<1> DEFINE p == Home[c]
<1>1. /\ th[c].pc = "reader" /\ ~Busy(c)
      /\ IsReader(th[c]) /\ ~IsAsker(th[c]) /\ ~IsPending(th[c])
  BY DEF unlockRead, Busy, IsAsker, IsPending, IsReader, AskPcs
<1>2. p \in Process /\ rw[p] \in RW /\ lm[p] \in LM /\ th[c] \in TH /\ rw[p].readers > 0
  BY <1>1, Counted
<1>3. /\ notified' = notified \/ notified' = NotifyReadersGone(p)
      /\ queue' = queue /\ th' = [th EXCEPT ![c] = Idle]
  BY DEF unlockRead
<1>4. rw[p].readers - 1 \in Nat /\ rw[p].readers \in Nat
  BY <1>2 DEF RW
<1>5. /\ Idle \in TH /\ Idle.pc = "idle" /\ Idle.op = "none" /\ RolesOf(Idle)
      /\ ~IsReader(Idle) /\ ~IsAsker(Idle) /\ ~IsPending(Idle)
      /\ Idle.pc \notin AskPcs \cup {"writer"}
  BY DEF Idle, TH, PC, RolesOf, IsReader, IsAsker, IsPending, AskPcs
<1>6. notified' \subseteq Client /\ queue' \in Seq(Process)
  BY <1>3 DEF Counting, TypeOK, NotifyReadersGone, At
<1>7. IInv => /\ \A d \in Client : Home[d] = Home[c] => ~Busy(d)
              /\ lm[p].held = rw[p].physical /\ lm[p].asked = LCK_none
  <2> SUFFICES ASSUME IInv
               PROVE  /\ \A d \in Client : Home[d] = Home[c] => ~Busy(d)
                      /\ lm[p].held = rw[p].physical /\ lm[p].asked = LCK_none
    OBVIOUS
  <2>1. \A d \in Client : Home[d] = Home[c] => ~Busy(d)
    BY <1>1 DEF IInv, BusyAlone
  <2>2. \A d \in Client : Home[d] = p => th[d].pc \notin {"granted", "queued"}
    BY <2>1 DEF Busy, AskPcs
  <2>3. QED
    BY <1>2, <2>1, <2>2 DEF IInv, LevelsKnown
\* What does not depend on the level that is left.
<1>8. ASSUME NEW g \in RW, NEW l \in LM, Effect(c, g, l, Idle), g.readers = rw[p].readers - 1,
             g.pendingLock = rw[p].pendingLock, g.pendingWriters = rw[p].pendingWriters,
             g.currentWriter = rw[p].currentWriter
      PROVE  Counting' /\ (IInv => Excluding')
  <2>1. Counting'
    <3>1. g.readers + One(IsReader(th[c])) = rw[p].readers + One(IsReader(Idle))
      BY <1>1, <1>4, <1>5, <1>8 DEF One
    <3>2. g.pendingLock + One(IsAsker(th[c])) = rw[p].pendingLock + One(IsAsker(Idle))
      BY <1>1, <1>5, <1>8 DEF One
    <3>3. g.pendingWriters + One(IsPending(th[c])) = rw[p].pendingWriters + One(IsPending(Idle))
      BY <1>1, <1>5, <1>8 DEF One
    <3>4. QED
      BY <1>1, <1>5, <1>6, <1>8, <3>1, <3>2, <3>3, EffectCounting
  <2>2. ASSUME IInv PROVE Excluding'
    <3>1. BusyAlone'
      BY <1>5, <1>8, <2>2, EffectBusyAlone DEF IInv
    <3>2. GuardedAlone'
      BY <1>1, <1>5, <1>8, <2>2, EffectGuarded DEF IInv
    <3>3. NotifiedReady'
      <4>1. c \notin notified'
        BY <1>1, <1>3, <2>2 DEF IInv, NotifiedReady, NotifyReadersGone, At
      <4>2. \A d \in notified' \ notified : Home[d] = Home[c] /\ th[d].pc = "noReaders"
        BY <1>3 DEF NotifyReadersGone, At
      <4>3. QED
        BY <1>5, <1>6, <1>8, <2>2, <4>1, <4>2, EffectNotified DEF IInv
    <3>4. QED
      BY <3>1, <3>2, <3>3 DEF Excluding
  <2>3. QED
    BY <2>1, <2>2
\* The last reader gives up the lock.
<1>9. CASE /\ rw[p].readers = 1
           /\ lm' = Released(p)
           /\ rw' = [rw EXCEPT ![p].readers = @ - 1, ![p].physical = LCK_none, ![p].blocking = FALSE]
  <2> DEFINE g == [rw[p] EXCEPT !.readers = @ - 1, !.physical = LCK_none, !.blocking = FALSE]
             l == [lm[p] EXCEPT !.held = LCK_none, !.notice = "none"]
  <2>1. /\ g \in RW /\ g.readers = rw[p].readers - 1 /\ g.pendingLock = rw[p].pendingLock
        /\ g.pendingWriters = rw[p].pendingWriters /\ g.currentWriter = rw[p].currentWriter
        /\ g.physical = LCK_none
    BY <1>2, <1>4 DEF RW, RWLevel
  <2>2. l \in LM /\ l.held = LCK_none /\ l.notice = "none" /\ l.asked = lm[p].asked
    BY <1>2 DEF LM, RWLevel
  <2>3. Effect(c, g, l, Idle)
    BY <1>2, <1>3, <1>9 DEF Effect, Released, Counting, TypeOK
  <2> HIDE DEF g, l
  <2>4. Counting' /\ (IInv => Excluding')
    BY <1>8, <2>1, <2>2, <2>3
  <2>5. ASSUME IInv PROVE Leveled'
    <3>1. \A d \in Client : d # c /\ Home[d] = Home[c] => th[d].pc # "reader"
      <4>1. rw'[p] = g /\ \A d \in Client : d # c => th'[d] = th[d]
        BY <2>3, EffectPointwise DEF Counting
      <4>0. rw'[p].readers = 0
        BY <1>9, <2>1, <4>1
      <4>2. rw'[p].readers = 0 <=> \A d \in Client : Home[d] = p => th'[d].pc # "reader"
        <5>1. CountsRight'
          BY <2>4 DEF Counting
        <5>2. QED
          BY <1>2, <5>1, NobodyReadsNext
      <4>3. QED
        BY <4>1, <4>0, <4>2
    <3>2. LevelsKnown'
      <4>1. KnowsLevel(Idle, g, l)
        BY DEF KnowsLevel, Idle
      <4>2. QED
        BY <1>7, <2>1, <2>2, <2>3, <2>5, <3>1, <4>1, EffectNewLevels DEF IInv
    <3>3. HeldAgree'
      BY <2>2, <2>3, <2>5, EffectAgrees DEF IInv
    <3>4. Remembered'
      BY <2>2, <2>3, <2>5, EffectRemembered DEF IInv
    <3>5. QED
      BY <3>2, <3>3, <3>4 DEF Leveled
  <2>6. QED
    BY <2>4, <2>5 DEF IInv, Excluding, Leveled
\* It keeps the lock, or others still read.
<1>10. CASE /\ ~(rw[p].readers = 1 /\ GivesUpLock(p))
            /\ rw' = [rw EXCEPT ![p].readers = @ - 1]
            /\ UNCHANGED lm
  <2> DEFINE g == [rw[p] EXCEPT !.readers = @ - 1]
             l == lm[p]
  <2>1. /\ g \in RW /\ g.readers = rw[p].readers - 1 /\ g.pendingLock = rw[p].pendingLock
        /\ g.pendingWriters = rw[p].pendingWriters /\ g.currentWriter = rw[p].currentWriter
        /\ g.physical = rw[p].physical /\ g.blocking = rw[p].blocking
    BY <1>2, <1>4 DEF RW
  <2>2. Effect(c, g, l, Idle)
    BY <1>2, <1>3, <1>10 DEF Effect, Counting, TypeOK
  <2> HIDE DEF g
  <2>3. Counting' /\ (IInv => Excluding')
    BY <1>2, <1>8, <2>1, <2>2
  <2>4. ASSUME IInv PROVE Leveled'
    <3>1. LevelsKnown'
      <4>1. KnowsLevel(Idle, g, l)
        BY DEF KnowsLevel, Idle
      <4>2. QED
        BY <1>1, <1>5, <2>1, <2>2, <2>4, <4>1, EffectSameLevels DEF IInv, Idle
    <3>2. HeldAgree'
      BY <2>2, <2>4, EffectAgrees DEF IInv
    <3>3. Remembered'
      <4>1. CASE rw[p].readers = 1
        <5>1. ~rw[p].blocking
          BY <1>10, <4>1 DEF GivesUpLock
        <5>2. l.notice # "seen" \/ l.ast \/ l.held = LCK_none
          BY <1>2, <2>4, <5>1 DEF IInv, Remembered
        <5>3. /\ lm' = lm /\ \A q \in Process : q # p => rw'[q] = rw[q]
              /\ \A d \in Client : d # c => th'[d] = th[d]
          BY <1>10, <2>2, EffectPointwise DEF Counting
        <5>4. \A q \in Process \ {p}, d \in Client : Home[d] = q => th'[d] = th[d]
          BY <5>3
        <5>5. QED
          BY <2>4, <5>2, <5>3, <5>4 DEF IInv, Remembered
      <4>2. CASE rw[p].readers # 1
        <5>1. \E d \in Client : d # c /\ Home[d] = Home[c] /\ th[d].pc = "reader"
          <6>1. rw'[p].readers # 0
            BY <1>4, <2>1, <2>2, <4>2, EffectPointwise DEF Counting
          <6>2. CountsRight'
            BY <2>3 DEF Counting
          <6>3. rw'[p].readers = 0 <=> \A d \in Client : Home[d] = p => th'[d].pc # "reader"
            BY <1>2, <6>2, NobodyReadsNext
          <6>4. PICK d \in Client : Home[d] = p /\ th'[d].pc = "reader"
            BY <6>1, <6>3
          <6>5. th'[c] = Idle /\ \A e \in Client : e # c => th'[e] = th[e]
            BY <2>2, EffectPointwise DEF Counting
          <6>6. QED
            BY <1>5, <6>4, <6>5
        <5>2. QED
          BY <2>1, <2>2, <2>4, <5>1, EffectRemembered DEF IInv
      <4>3. QED
        BY <4>1, <4>2
    <3>4. QED
      BY <3>1, <3>2, <3>3 DEF Leveled
  <2>5. QED
    BY <2>3, <2>4 DEF IInv, Excluding, Leveled
<1>11. QED
  BY <1>9, <1>10 DEF unlockRead

-----------------------------------------------------------------------------
(* Steps that leave the threads where they are, and the end. *)

\* The object of process p becomes g and what the lock manager knows of it l,
\* while no thread moves.
ObjectStep(p, g, l) ==
    /\ rw' = [rw EXCEPT ![p] = g]
    /\ lm' = [lm EXCEPT ![p] = l]
    /\ th' = th /\ notified' = notified /\ queue' = queue

\* Such a step counts nothing anew.
Recounts(p, g) ==
    /\ g.readers = rw[p].readers /\ g.pendingLock = rw[p].pendingLock
    /\ g.pendingWriters = rw[p].pendingWriters /\ g.currentWriter = rw[p].currentWriter

LEMMA ObjectStepCounting ==
    ASSUME Counting, NEW p \in Process, NEW g \in RW, NEW l \in LM,
           ObjectStep(p, g, l), Recounts(p, g)
    PROVE  Counting' /\ (IInv => Excluding')
<1>1. /\ rw'[p] = g /\ \A q \in Process : q # p => rw'[q] = rw[q]
      /\ th' = th /\ notified' = notified
  BY DEF ObjectStep, Counting, TypeOK
<1>2. TypeOK'
  BY DEF ObjectStep, Counting, TypeOK, LM
<1>3. \A q \in Process : /\ rw'[q].readers = rw[q].readers
                         /\ rw'[q].pendingLock = rw[q].pendingLock
                         /\ rw'[q].pendingWriters = rw[q].pendingWriters
                         /\ rw'[q].currentWriter = rw[q].currentWriter
  BY <1>1 DEF Recounts
<1>4. CountsRight'
  <2>1. \A q \in Process : /\ ReadersOf(q)' = ReadersOf(q) /\ AskersOf(q)' = AskersOf(q)
                           /\ PendingOf(q)' = PendingOf(q)
    BY <1>1 DEF ReadersOf, AskersOf, PendingOf
  <2>2. QED
    BY <1>3, <2>1 DEF CountsRight, Counting
<1>5. Roles' /\ OneBusy'
  BY <1>1, <1>3 DEF Counting, Roles, OneBusy, Busy
<1>6. ASSUME IInv PROVE Excluding'
  BY <1>1, <1>6 DEF IInv, Excluding, BusyAlone, GuardedAlone, NotifiedReady, Busy
<1>7. QED
  BY <1>2, <1>4, <1>5, <1>6 DEF Counting

\* It keeps the levels, or changes them while nobody of the process is busy.
LEMMA ObjectStepLeveled ==
    ASSUME IInv, NEW p \in Process, NEW g \in RW, NEW l \in LM,
           ObjectStep(p, g, l), l.asked = lm[p].asked,
           \/ l.held = lm[p].held /\ g.physical = rw[p].physical
           \/ /\ l.held = g.physical /\ Free(p, l.held)
              /\ \A c \in Client : Home[c] = p =>
                   ~Busy(c) /\ (th[c].pc = "reader" => g.physical # LCK_none),
           l.notice = "seen" /\ ~l.ast /\ l.held # LCK_none =>
              /\ g.blocking
              /\ \E c \in Client : Home[c] = p /\ th[c].pc \in AskPcs \cup {"reader", "writer"}
    PROVE  Leveled'
<1>1. /\ rw'[p] = g /\ \A q \in Process : q # p => rw'[q] = rw[q]
      /\ lm'[p] = l /\ \A q \in Process : q # p => lm'[q] = lm[q]
      /\ th' = th
  BY DEF ObjectStep, IInv, Counting, TypeOK
<1>2. \A c \in Client : Home[c] \in Process
  BY RWConstants
<1>3. LevelsKnown'
  <2>1. ASSUME NEW q \in Process
        PROVE  /\ (\A c \in Client : Home[c] = q => th'[c].pc # "granted") => lm'[q].held = rw'[q].physical
               /\ (\A c \in Client : Home[c] = q => th'[c].pc # "queued") => lm'[q].asked = LCK_none
    <3>1. /\ (\A c \in Client : Home[c] = q => th[c].pc # "granted") => lm[q].held = rw[q].physical
          /\ (\A c \in Client : Home[c] = q => th[c].pc # "queued") => lm[q].asked = LCK_none
      BY DEF IInv, LevelsKnown
    <3>2. CASE q # p
      BY <1>1, <3>1, <3>2
    <3>3. CASE q = p
      BY <1>1, <3>1, <3>3
    <3>4. QED
      BY <3>2, <3>3
  <2>2. ASSUME NEW c \in Client
        PROVE  KnowsLevel(th'[c], rw'[Home[c]], lm'[Home[c]])
    <3>1. KnowsLevel(th[c], rw[Home[c]], lm[Home[c]])
      BY DEF IInv, LevelsKnown, KnowsLevel, WantedLevel, LevelOf
    <3>2. CASE Home[c] # p
      BY <1>1, <1>2, <3>1, <3>2
    <3>3. CASE Home[c] = p
      BY <1>1, <3>1, <3>3 DEF KnowsLevel, Busy, AskPcs
    <3>4. QED
      BY <3>2, <3>3
  <2>3. QED
    BY <2>1, <2>2 DEF LevelsKnown, KnowsLevel, WantedLevel, LevelOf
<1>4. HeldAgree'
  <2>1. \A q \in Process : q # p => Agree(l.held, lm[q].held)
    BY DEF IInv, HeldAgree, Free
  <2>2. \A a, b : Agree(a, b) <=> Agree(b, a)
    BY DEF Agree
  <2>3. QED
    BY <1>1, <2>1, <2>2 DEF IInv, HeldAgree
<1>5. Remembered'
  BY <1>1 DEF IInv, Remembered
<1>6. QED
  BY <1>3, <1>4, <1>5 DEF Leveled

\* A process that is told, or called: the notice is remembered later.
LEMMA LmPostKeeps ==
    ASSUME Counting, NEW p \in Process, LmPost(p)
    PROVE  Counting' /\ (IInv => IInv')
<1> DEFINE l == [lm[p] EXCEPT !.notice = "posted"]
<1>1. rw[p] \in RW /\ lm[p] \in LM
  BY DEF Counting, TypeOK, LM
<1>2. l \in LM /\ l.asked = lm[p].asked /\ l.held = lm[p].held /\ l.notice = "posted"
  BY <1>1 DEF LM
<1>3. ObjectStep(p, rw[p], l) /\ Recounts(p, rw[p])
  BY <1>1 DEF ObjectStep, Recounts, LmPost, Counting, TypeOK
<1> HIDE DEF l
<1>4. Counting' /\ (IInv => Excluding')
  BY <1>1, <1>2, <1>3, ObjectStepCounting
<1>5. IInv => Leveled'
  BY <1>1, <1>2, <1>3, ObjectStepLeveled
<1>6. QED
  BY <1>4, <1>5 DEF IInv, Excluding, Leveled

LEMMA LmDeliverKeeps ==
    ASSUME Counting, NEW p \in Process, LmDeliver(p)
    PROVE  Counting' /\ (IInv => IInv')
<1> DEFINE l == [lm[p] EXCEPT !.notice = "seen", !.ast = TRUE]
<1>1. rw[p] \in RW /\ lm[p] \in LM
  BY DEF Counting, TypeOK, LM
<1>2. l \in LM /\ l.asked = lm[p].asked /\ l.held = lm[p].held /\ l.ast = TRUE
  BY <1>1 DEF LM
<1>3. ObjectStep(p, rw[p], l) /\ Recounts(p, rw[p])
  BY <1>1 DEF ObjectStep, Recounts, LmDeliver, Counting, TypeOK
<1> HIDE DEF l
<1>4. Counting' /\ (IInv => Excluding')
  BY <1>1, <1>2, <1>3, ObjectStepCounting
<1>5. IInv => Leveled'
  BY <1>1, <1>2, <1>3, ObjectStepLeveled
<1>6. QED
  BY <1>4, <1>5 DEF IInv, Excluding, Leveled

\* Nobody of a process is busy when its counters say so.
LEMMA UnusedIsIdle ==
    ASSUME Counting, NEW p \in Process, rw[p].pendingLock = 0, ~rw[p].currentWriter
    PROVE  \A c \in Client : Home[c] = p => ~Busy(c)
<1>1. \A c \in Client : Home[c] = p => th[c].pc \notin AskPcs
  BY ZeroIsNobody DEF Counting
<1>2. \A c \in Client : Home[c] = p => th[c].pc # "writer"
  BY DEF Counting, OneBusy
<1>3. QED
  BY <1>1, <1>2 DEF Busy

\* Then its level is known.
LEMMA UnusedLevel ==
    ASSUME IInv, NEW p \in Process, rw[p].pendingLock = 0, ~rw[p].currentWriter
    PROVE  lm[p].held = rw[p].physical
<1>1. \A c \in Client : Home[c] = p => ~Busy(c)
  BY UnusedIsIdle DEF IInv
<1>2. \A c \in Client : Home[c] = p => th[c].pc # "granted"
  BY <1>1 DEF Busy, AskPcs
<1>3. QED
  BY <1>2 DEF IInv, LevelsKnown

LEMMA tryReleaseLockKeeps ==
    ASSUME Counting, NEW c \in Client, tryReleaseLock(c)
    PROVE  Counting' /\ (IInv => IInv')
<1> DEFINE p == Home[c]
           g == [rw[p] EXCEPT !.physical = LCK_none, !.blocking = FALSE]
           l == [lm[p] EXCEPT !.held = LCK_none, !.notice = "none"]
<1>1. p \in Process /\ rw[p] \in RW /\ lm[p] \in LM
  BY Counted
<1>2. /\ g \in RW /\ Recounts(p, g) /\ g.physical = LCK_none
      /\ l \in LM /\ l.asked = lm[p].asked /\ l.held = LCK_none
  BY <1>1 DEF RW, LM, RWLevel, Recounts
<1>3. ObjectStep(p, g, l)
  BY <1>1 DEF ObjectStep, tryReleaseLock, Released, Counting, TypeOK
<1>4. \A d \in Client : Home[d] = p => th[d].pc = "idle"
  BY DEF tryReleaseLock, Alone
<1> HIDE DEF g, l
<1>5. \A d \in Client : Home[d] = p => ~Busy(d) /\ th[d].pc # "reader"
  BY <1>4 DEF Busy, AskPcs
<1>6. Free(p, l.held)
  BY <1>2 DEF Free, Agree
<1>7. Counting' /\ (IInv => Excluding')
  BY <1>1, <1>2, <1>3, ObjectStepCounting
<1>8. IInv => Leveled'
  BY <1>1, <1>2, <1>3, <1>5, <1>6, ObjectStepLeveled
<1>9. QED
  BY <1>7, <1>8 DEF IInv, Excluding, Leveled

\* The handler gives up what nobody uses, lowers LCK_write under readers, or
\* leaves the flag to those who use the lock.
LEMMA blockingAstHandlerKeeps ==
    ASSUME Counting, NEW p \in Process, blockingAstHandler(p)
    PROVE  Counting' /\ (IInv => IInv')
<1>1. rw[p] \in RW /\ lm[p] \in LM
  BY DEF Counting, TypeOK, LM
<1>2. th' = th /\ notified' = notified /\ queue' = queue
  BY DEF blockingAstHandler
<1>3. LeftLevel(p) \in RWLevel
  BY <1>1 DEF LeftLevel, LM, RWLevel
<1>4. CASE /\ rw[p].pendingLock = 0 /\ ~rw[p].currentWriter /\ rw[p].readers = 0
           /\ lm' = [Downgraded(p) EXCEPT ![p].ast = FALSE]
           /\ rw' = [rw EXCEPT ![p].physical = LeftLevel(p),
                               ![p].blocking = IF LeftLevel(p) < LCK_read THEN FALSE ELSE @]
  <2> DEFINE g == [rw[p] EXCEPT !.physical = LeftLevel(p),
                                !.blocking = IF LeftLevel(p) < LCK_read THEN FALSE ELSE @]
             l == [Downgraded(p)[p] EXCEPT !.ast = FALSE]
  <2>1. /\ g \in RW /\ Recounts(p, g) /\ g.physical = LeftLevel(p)
    BY <1>1, <1>3 DEF RW, Recounts
  <2>2. Downgraded(p)[p] \in LM /\ Downgraded(p) \in [Process -> LM]
    BY <1>1, <1>3 DEF Downgraded, LM, Counting, TypeOK
  <2>3. l \in LM /\ l.asked = Downgraded(p)[p].asked /\ l.held = Downgraded(p)[p].held
        /\ l.notice = Downgraded(p)[p].notice
    BY <2>2 DEF LM
  <2>4. Downgraded(p)[p].asked = lm[p].asked
    BY <1>1 DEF Downgraded, Counting, TypeOK, LM
  <2>5. /\ rw[p].physical = LCK_none => Downgraded(p)[p].held = lm[p].held
        /\ rw[p].physical # LCK_none => /\ Downgraded(p)[p].held = LeftLevel(p)
                                        /\ Downgraded(p)[p].notice = "none"
    BY <1>1 DEF Downgraded, Counting, TypeOK, LM
  <2>6. ObjectStep(p, g, l)
    <3>1. rw' = [rw EXCEPT ![p] = g]
      BY <1>1, <1>4 DEF Counting, TypeOK
    <3>2. lm' = [lm EXCEPT ![p] = l]
      <4>1. \A q \in Process : q # p => Downgraded(p)[q] = lm[q]
        BY DEF Downgraded, Counting, TypeOK
      <4>2. lm \in [Process -> LM]
        BY DEF Counting, TypeOK, LM
      <4>3. QED
        BY <1>4, <2>2, <4>1, <4>2
    <3>3. QED
      BY <1>2, <3>1, <3>2 DEF ObjectStep
  <2> HIDE DEF g, l
  <2>7. Counting' /\ (IInv => Excluding')
    BY <2>1, <2>3, <2>6, ObjectStepCounting
  <2>8. ASSUME IInv PROVE Leveled'
    <3>1. lm[p].held = rw[p].physical
      BY <1>4, <2>8, UnusedLevel
    <3>2. Free(p, LeftLevel(p)) /\ (rw[p].physical = LCK_none => LeftLevel(p) = LCK_none)
      BY <2>8, <3>1, LeftLevelFits
    <3>3. \A c \in Client : Home[c] = p => ~Busy(c) /\ th[c].pc # "reader"
      <4>1. \A c \in Client : Home[c] = p => ~Busy(c)
        BY <1>4, UnusedIsIdle
      <4>2. \A c \in Client : Home[c] = p => th[c].pc # "reader"
        BY <1>4, ZeroIsNobody DEF Counting
      <4>3. QED
        BY <4>1, <4>2
    <3>4. CASE rw[p].physical = LCK_none
      BY <2>1, <2>3, <2>4, <2>5, <2>6, <2>8, <3>1, <3>2, <3>4, ObjectStepLeveled
    <3>5. CASE rw[p].physical # LCK_none
      BY <2>1, <2>3, <2>4, <2>5, <2>6, <2>8, <3>2, <3>3, <3>5, ObjectStepLeveled
    <3>6. QED
      BY <3>4, <3>5
  <2>9. QED
    BY <2>7, <2>8 DEF IInv, Excluding, Leveled
<1>5. CASE /\ rw[p].pendingLock = 0 /\ ~rw[p].currentWriter
           /\ rw[p].readers > 0 /\ rw[p].physical > LCK_read
           /\ lm' = [[lm EXCEPT ![p].ast = FALSE] EXCEPT ![p].held = LCK_read, ![p].notice = "none"]
           /\ rw' = [rw EXCEPT ![p].physical = LCK_read]
  <2> DEFINE g == [rw[p] EXCEPT !.physical = LCK_read]
             l == [lm[p] EXCEPT !.ast = FALSE, !.held = LCK_read, !.notice = "none"]
  <2>1. g \in RW /\ Recounts(p, g) /\ g.physical = LCK_read
    BY <1>1 DEF RW, Recounts, RWLevel
  <2>2. l \in LM /\ l.asked = lm[p].asked /\ l.held = LCK_read /\ l.notice = "none"
    BY <1>1 DEF LM, RWLevel
  <2>3. ObjectStep(p, g, l)
    BY <1>1, <1>2, <1>5 DEF ObjectStep, Counting, TypeOK, LM
  <2> HIDE DEF g, l
  <2>4. Counting' /\ (IInv => Excluding')
    BY <2>1, <2>2, <2>3, ObjectStepCounting
  <2>5. ASSUME IInv PROVE Leveled'
    <3>1. lm[p].held = rw[p].physical
      BY <1>5, <2>5, UnusedLevel
    <3>2. lm[p].held = LCK_write
      BY <1>1, <1>5, <3>1 DEF RW, RWLevel, LCK_none, LCK_read, LCK_write
    <3>3. Free(p, LCK_read)
      <4>1. \A q \in Process \ {p} : Agree(LCK_write, lm[q].held)
        BY <2>5, <3>2 DEF IInv, HeldAgree
      <4>2. QED
        BY <4>1 DEF Free, Agree, LCK_none, LCK_read, LCK_write
    <3>4. \A c \in Client : Home[c] = p => ~Busy(c)
      BY <1>5, UnusedIsIdle
    <3>5. LCK_read # LCK_none
      BY DEF LCK_read, LCK_none
    <3>6. QED
      BY <2>1, <2>2, <2>3, <2>5, <3>3, <3>4, <3>5, ObjectStepLeveled
  <2>6. QED
    BY <2>4, <2>5 DEF IInv, Excluding, Leveled
<1>6. CASE /\ \/ ~(rw[p].pendingLock = 0 /\ ~rw[p].currentWriter)
              \/ rw[p].readers > 0
           /\ lm' = [lm EXCEPT ![p].ast = FALSE]
           /\ rw' = [rw EXCEPT ![p].blocking = TRUE]
  <2> DEFINE g == [rw[p] EXCEPT !.blocking = TRUE]
             l == [lm[p] EXCEPT !.ast = FALSE]
  <2>1. g \in RW /\ Recounts(p, g) /\ g.physical = rw[p].physical /\ g.blocking = TRUE
    BY <1>1 DEF RW, Recounts
  <2>2. l \in LM /\ l.asked = lm[p].asked /\ l.held = lm[p].held
    BY <1>1 DEF LM
  <2>3. ObjectStep(p, g, l)
    BY <1>1, <1>2, <1>6 DEF ObjectStep, Counting, TypeOK
  <2> HIDE DEF g, l
  <2>4. Counting' /\ (IInv => Excluding')
    BY <2>1, <2>2, <2>3, ObjectStepCounting
  <2>5. \E c \in Client : Home[c] = p /\ th[c].pc \in AskPcs \cup {"reader", "writer"}
    <3>1. /\ rw[p].readers = 0 <=> \A c \in Client : Home[c] = p => th[c].pc # "reader"
          /\ rw[p].pendingLock = 0 <=> \A c \in Client : Home[c] = p => th[c].pc \notin AskPcs
          /\ rw[p].currentWriter => \E c \in Client : Home[c] = p /\ th[c].pc = "writer"
      BY ZeroIsNobody DEF Counting, OneBusy
    <3>2. rw[p].readers > 0 => rw[p].readers # 0
      BY <1>1 DEF RW
    <3>3. QED
      BY <1>6, <3>1, <3>2
  <2>6. IInv => Leveled'
    BY <2>1, <2>2, <2>3, <2>5, ObjectStepLeveled
  <2>7. QED
    BY <2>4, <2>6 DEF IInv, Excluding, Leveled
<1>7. QED
  BY <1>4, <1>5, <1>6 DEF blockingAstHandler

\* A database is closed while no thread is in a call.
LEMMA shutdownLockKeeps ==
    ASSUME Counting, NEW p \in Process, shutdownLock(p)
    PROVE  Counting' /\ (IInv => IInv')
<1> DEFINE Closed == [Idle EXCEPT !.pc = "closed"]
<1>1. rw[p] \in RW /\ lm[p] \in LM
  BY DEF Counting, TypeOK, LM
<1>2. /\ notified' = notified /\ queue' = queue
      /\ \A c \in Client : Home[c] = p => th[c].pc = "idle" /\ th'[c] = Closed
      /\ \A c \in Client : Home[c] # p => th'[c] = th[c]
      /\ rw' = [rw EXCEPT ![p].physical = LCK_none]
      /\ lm' = IF rw[p].physical = LCK_none THEN lm ELSE Released(p)
  BY DEF shutdownLock
<1>3. Closed \in TH /\ Closed.pc = "closed" /\ Closed.op = "none"
  BY DEF Idle, TH, PC
<1> HIDE DEF Closed
<1>4. TypeOK'
  <2>1. th' \in [Client -> TH]
    <3>1. th' = [c \in Client |-> th'[c]]
      BY DEF shutdownLock
    <3>2. \A c \in Client : th'[c] \in TH
      BY <1>2, <1>3 DEF Counting, TypeOK, TH
    <3>3. QED
      BY <3>1, <3>2
  <2>2. rw' \in [Process -> RW]
    BY <1>1, <1>2 DEF Counting, TypeOK, RW, RWLevel
  <2>3. lm' \in [Process -> LM]
    BY <1>1, <1>2 DEF Counting, TypeOK, Released, LM, RWLevel
  <2>4. QED
    BY <1>2, <2>1, <2>2, <2>3 DEF Counting, TypeOK, TH, LM
<1>5. /\ \A q \in Process : /\ rw'[q].readers = rw[q].readers
                            /\ rw'[q].pendingLock = rw[q].pendingLock
                            /\ rw'[q].pendingWriters = rw[q].pendingWriters
                            /\ rw'[q].currentWriter = rw[q].currentWriter
                            /\ rw'[q].blocking = rw[q].blocking
                            /\ q # p => rw'[q] = rw[q] /\ lm'[q] = lm[q]
      /\ rw'[p].physical = LCK_none
      /\ lm'[p].asked = lm[p].asked
      /\ rw[p].physical = LCK_none => lm'[p].held = lm[p].held
      /\ rw[p].physical # LCK_none => lm'[p].held = LCK_none
  BY <1>1, <1>2 DEF Counting, TypeOK, Released, RW, LM
<1>6. \A c \in Client : /\ th'[c].pc \in PC \ {"idle", "closed"} \/ th[c].pc \in PC \ {"idle", "closed"}
                             => th'[c] = th[c]
                        /\ IsReader(th[c])' <=> IsReader(th[c])
                        /\ IsAsker(th[c])' <=> IsAsker(th[c])
                        /\ IsPending(th[c])' <=> IsPending(th[c])
                        /\ Busy(c)' <=> Busy(c)
  BY <1>2, <1>3 DEF IsReader, IsAsker, IsPending, Busy, AskPcs
<1>7. CountsRight'
  <2>1. \A q \in Process : /\ ReadersOf(q)' = ReadersOf(q) /\ AskersOf(q)' = AskersOf(q)
                           /\ PendingOf(q)' = PendingOf(q)
    BY <1>6 DEF ReadersOf, AskersOf, PendingOf
  <2>2. QED
    BY <1>5, <2>1 DEF CountsRight, Counting
<1>8. Roles'
  BY <1>2, <1>3 DEF Counting, Roles
<1>9. OneBusy'
  <2>1. \A c \in Client : th'[c].pc = "writer" <=> th[c].pc = "writer"
    BY <1>2, <1>3
  <2>2. QED
    BY <1>5, <1>6, <2>1 DEF Counting, OneBusy
<1>10. ASSUME IInv PROVE IInv'
  <2>1. BusyAlone'
    <3>1. \A c \in Client : th'[c].pc = "reader" <=> th[c].pc = "reader"
      BY <1>2, <1>3
    <3>2. QED
      BY <1>6, <1>10, <3>1 DEF IInv, BusyAlone
  <2>2. GuardedAlone'
    <3> SUFFICES ASSUME Guarded PROVE GuardedAlone'
      BY DEF GuardedAlone
    <3>1. ASSUME NEW c \in Client, NEW d \in Client, c # d, Home[c] = Home[d], th'[c].op = "write"
          PROVE  th'[d].pc = "idle"
      <4>1. Home[c] # p
        BY <1>2, <1>3, <3>1
      <4>2. th'[c] = th[c] /\ th'[d] = th[d]
        BY <1>2, <3>1, <4>1
      <4>3. QED
        BY <1>10, <3>1, <4>2 DEF IInv, GuardedAlone
    <3>2. \A c \in Client : th'[c].pc # "writerFinished"
      BY <1>2, <1>3, <1>10 DEF IInv, GuardedAlone
    <3>3. QED
      BY <3>1, <3>2 DEF GuardedAlone
  <2>3. NotifiedReady'
    <3>1. \A c \in notified : c \in Client /\ Home[c] # p /\ th'[c] = th[c]
      BY <1>2, <1>10 DEF IInv, NotifiedReady, Counting, TypeOK
    <3>2. QED
      BY <1>2, <1>10, <3>1 DEF IInv, NotifiedReady
  <2>4. LevelsKnown'
    <3>1. ASSUME NEW q \in Process
          PROVE  /\ (\A c \in Client : Home[c] = q => th'[c].pc # "granted") => lm'[q].held = rw'[q].physical
                 /\ (\A c \in Client : Home[c] = q => th'[c].pc # "queued") => lm'[q].asked = LCK_none
      <4>1. /\ (\A c \in Client : Home[c] = q => th[c].pc # "granted") => lm[q].held = rw[q].physical
            /\ (\A c \in Client : Home[c] = q => th[c].pc # "queued") => lm[q].asked = LCK_none
        BY <1>10 DEF IInv, LevelsKnown
      <4>2. CASE q # p
        BY <1>2, <1>5, <4>1, <4>2
      <4>3. CASE q = p
        BY <1>2, <1>5, <4>1, <4>3
      <4>4. QED
        BY <4>2, <4>3
    <3>2. ASSUME NEW c \in Client
          PROVE  KnowsLevel(th'[c], rw'[Home[c]], lm'[Home[c]])
      <4>1. KnowsLevel(th[c], rw[Home[c]], lm[Home[c]])
        BY <1>10 DEF IInv, LevelsKnown, KnowsLevel, WantedLevel, LevelOf
      <4>2. CASE Home[c] # p
        <5>1. Home[c] \in Process
          BY RWConstants
        <5>2. QED
          BY <1>2, <1>5, <4>1, <4>2, <5>1
      <4>3. CASE Home[c] = p
        BY <1>2, <1>3, <4>3 DEF KnowsLevel
      <4>4. QED
        BY <4>2, <4>3
    <3>3. QED
      BY <3>1, <3>2 DEF LevelsKnown, KnowsLevel, WantedLevel, LevelOf
  <2>5. lm'[p].held = LCK_none
    <3>1. \A c \in Client : Home[c] = p => th[c].pc # "granted"
      BY <1>2
    <3>2. QED
      BY <1>5, <1>10, <3>1 DEF IInv, LevelsKnown
  <2>6. HeldAgree'
    <3>1. \A a : Agree(LCK_none, a) /\ Agree(a, LCK_none)
      BY DEF Agree
    <3>2. QED
      BY <1>5, <1>10, <2>5, <3>1 DEF IInv, HeldAgree
  <2>7. Remembered'
    <3>1. ASSUME NEW q \in Process, q # p, NEW c \in Client, Home[c] = q PROVE th'[c] = th[c]
      BY <1>2, <3>1
    <3>2. QED
      BY <1>5, <1>10, <2>5, <3>1 DEF IInv, Remembered
  <2>8. QED
    BY <1>4, <1>7, <1>8, <1>9, <2>1, <2>2, <2>3, <2>4, <2>6, <2>7 DEF IInv, Counting
<1>11. QED
  BY <1>4, <1>7, <1>8, <1>9, <1>10 DEF Counting

-----------------------------------------------------------------------------
(* The specification. *)

LEMMA InitIInv == Init => IInv
<1> SUFFICES ASSUME Init PROVE IInv
  OBVIOUS
<1>1. /\ \A c \in Client : th[c] = Idle /\ Home[c] \in Process
      /\ \A p \in Process : rw[p] = NewRW /\ lm[p] = NewLm
      /\ notified = {} /\ queue = <<>>
  BY RWConstants DEF Init
<1>2. Idle.pc = "idle" /\ Idle.op = "none" /\ Idle \in TH
  BY DEF Idle, TH, PC
<1>3. NewRW \in RW /\ NewLm \in LM
  BY DEF NewRW, RW, NewLm, LM, RWLevel
<1>4. TypeOK
  BY <1>2, <1>3 DEF Init, TypeOK, TH, LM
<1>5. CountsRight
  <2>1. \A p \in Process : ReadersOf(p) = {} /\ AskersOf(p) = {} /\ PendingOf(p) = {}
    BY <1>1, <1>2 DEF ReadersOf, AskersOf, PendingOf, IsReader, IsAsker, IsPending, AskPcs
  <2>2. Cardinality({}) = 0
    BY FS_EmptySet
  <2>3. ASSUME NEW p \in Process
        PROVE  rw[p].readers = 0 /\ rw[p].pendingLock = 0 /\ rw[p].pendingWriters = 0
    BY <1>1 DEF NewRW
  <2>4. QED
    BY <2>1, <2>2, <2>3 DEF CountsRight
<1>6. Roles
  BY <1>1, <1>2 DEF Roles
<1>7. OneBusy
  BY <1>1, <1>2 DEF OneBusy, Busy, AskPcs, NewRW
<1>8. BusyAlone /\ GuardedAlone /\ NotifiedReady
  BY <1>1, <1>2 DEF BusyAlone, Busy, GuardedAlone, NotifiedReady, AskPcs
<1>9. LevelsKnown
  BY <1>1, <1>2 DEF LevelsKnown, NewRW, NewLm
<1>10. HeldAgree /\ Remembered
  BY <1>1 DEF HeldAgree, Agree, Remembered, NewLm
<1>11. QED
  BY <1>4, <1>5, <1>6, <1>7, <1>8, <1>9, <1>10 DEF IInv, Counting

LEMMA NextKeeps ==
    ASSUME Counting, [Next]_vars
    PROVE  Counting' /\ (Disciplined => (IInv => IInv'))
<1>1. CASE UNCHANGED vars
  <2>1. rw' = rw /\ th' = th /\ notified' = notified /\ lm' = lm /\ queue' = queue
    BY <1>1 DEF vars
  <2>2. CountsRight'
    <3>1. \A p \in Process : /\ ReadersOf(p)' = ReadersOf(p) /\ AskersOf(p)' = AskersOf(p)
                             /\ PendingOf(p)' = PendingOf(p)
      BY <2>1 DEF ReadersOf, AskersOf, PendingOf
    <3>2. QED
      BY <2>1, <3>1 DEF Counting, CountsRight
  <2>3. TypeOK' /\ Roles' /\ OneBusy'
    BY <2>1 DEF Counting, TypeOK, Roles, OneBusy, Busy
  <2>4. ASSUME IInv PROVE Excluding' /\ Leveled'
    <3>1. BusyAlone' /\ GuardedAlone' /\ NotifiedReady'
      BY <2>1, <2>4 DEF IInv, BusyAlone, GuardedAlone, NotifiedReady, Busy
    <3>2. LevelsKnown' /\ HeldAgree' /\ Remembered'
      BY <2>1, <2>4 DEF IInv, LevelsKnown, WantedLevel, HeldAgree, Remembered
    <3>3. QED
      BY <3>1, <3>2 DEF Excluding, Leveled
  <2>5. QED
    BY <2>2, <2>3, <2>4 DEF IInv, Counting, Excluding, Leveled
<1>2. ASSUME NEW c \in Client, lockWrite(c) \/ lockRead(c) \/ tryReleaseLock(c)
      PROVE  Counting' /\ (IInv => IInv')
  BY <1>2, lockWriteKeeps, lockReadKeeps, tryReleaseLockKeeps
<1>3. ASSUME NEW c \in Client, Manager(c)
      PROVE  Counting' /\ (IInv => IInv')
  BY <1>3, LmEnqueueKeeps, LmGrantKeeps, LmDenyKeeps, LCK_lockKeeps DEF Manager
<1>4. ASSUME NEW c \in Client, Goes(c)
      PROVE  Counting' /\ (Disciplined => (IInv => IInv'))
  BY <1>4, ReadersGoneKeeps, WriterFinishedKeeps, lockWriteDeniedKeeps, lockWriteDoneKeeps,
     lockReadYieldsKeeps, NoWriterKeeps, lockReadDeniedKeeps, lockReadDoneKeeps DEF Goes
<1>5. ASSUME NEW c \in Client, Uses(c)
      PROVE  Counting' /\ (IInv => IInv')
  BY <1>5, unlockWriteKeeps, unlockReadKeeps DEF Uses
<1>6. ASSUME NEW p \in Process, shutdownLock(p) \/ Ast(p)
      PROVE  Counting' /\ (IInv => IInv')
  BY <1>6, shutdownLockKeeps, LmPostKeeps, LmDeliverKeeps, blockingAstHandlerKeeps DEF Ast
<1>7. QED
  BY <1>1, <1>2, <1>3, <1>4, <1>5, <1>6 DEF Next

\* The counters readers, pendingLock and pendingWriters of every object
\* count its threads exactly, so that no decrement in GlobalRWLock.cpp goes
\* below zero, and at most one thread of a process is inside LCK_lock or
\* writes, whatever the callers do.
THEOREM CountersRight == Spec => []Counting
<1>1. Init => Counting
  BY InitIInv DEF IInv
<1>2. Counting /\ [Next]_vars => Counting'
  BY NextKeeps
<1>3. QED
  BY <1>1, <1>2, PTL DEF Spec

\* Every variable of the model of GlobalRWLock.cpp keeps its type, for any
\* number of processes and threads.
THEOREM TypeCorrect == Spec => []TypeOK
<1>1. Counting => TypeOK
  BY DEF Counting
<1>2. QED
  BY <1>1, CountersRight, PTL

\* The inductive invariant, where callers take their process's own lock first
\* or conditions do not return unasked.
THEOREM Invariance ==
    ASSUME Disciplined
    PROVE  Spec => []IInv
<1>1. Init => IInv
  BY InitIInv
<1>2. IInv /\ [Next]_vars => IInv'
  BY NextKeeps DEF IInv
<1>3. QED
  BY <1>1, <1>2, PTL DEF Spec

\* What the invariant says of two threads that have the lock.
LEMMA IInvExclusive == IInv => Exclusive
<1> SUFFICES ASSUME IInv, NEW c \in Client, NEW d \in Client,
                    th[c].pc = "writer", th[d].pc \in {"reader", "writer"}
             PROVE  c = d
  BY DEF Exclusive
<1>1. Home[c] \in Process /\ Home[d] \in Process
  BY RWConstants
<1>2. CASE Home[c] = Home[d]
  <2>1. Busy(c)
    BY DEF Busy
  <2>2. th[d].pc # "reader"
    BY <1>2, <2>1 DEF IInv, BusyAlone
  <2>3. Busy(d)
    BY <2>2 DEF Busy
  <2>4. QED
    BY <1>2, <2>1, <2>3 DEF IInv, Counting, OneBusy
<1>3. CASE Home[c] # Home[d]
  <2>1. ASSUME NEW e \in Client, th[e].pc \in {"reader", "writer"}
        PROVE  lm[Home[e]].held = rw[Home[e]].physical
    <3>1. \A f \in Client : Home[f] = Home[e] => th[f].pc # "granted"
      BY <2>1 DEF IInv, Counting, OneBusy, BusyAlone, Busy, AskPcs
    <3>2. Home[e] \in Process
      BY RWConstants
    <3>3. QED
      BY <3>1, <3>2 DEF IInv, LevelsKnown
  <2>2. lm[Home[c]].held = LCK_write
    BY <2>1 DEF IInv, LevelsKnown
  <2>3. lm[Home[d]].held # LCK_none
    BY <2>1 DEF IInv, LevelsKnown, LCK_write, LCK_none
  <2>4. Agree(lm[Home[c]].held, lm[Home[d]].held)
    BY <1>1, <1>3 DEF IInv, HeldAgree
  <2>5. QED
    BY <2>2, <2>3, <2>4 DEF Agree, LCK_write, LCK_read, LCK_none
<1>4. QED
  BY <1>2, <1>3

\* A thread that GlobalRWLock lets write is the only one that has the lock, in
\* all processes together.
THEOREM Exclusion ==
    ASSUME Disciplined
    PROVE  Spec => []Exclusive
BY Invariance, IInvExclusive, PTL

\* What a blocking AST has been told is acted upon or kept in the flag
\* blocking, with a thread in the process that will look at it.
THEOREM NoticesRemembered ==
    ASSUME Disciplined
    PROVE  Spec => []NoticeRemembered
<1>1. ASSUME IInv PROVE NoticeRemembered
  <2> SUFFICES ASSUME NEW p \in Process, NEW q \in Process,
                      lm[p].notice = "seen", ~lm[p].ast, ~Agree(lm[q].asked, lm[p].held)
               PROVE  /\ rw[p].blocking
                      /\ rw[p].readers > 0 \/ rw[p].currentWriter \/ rw[p].pendingLock > 0
    BY DEF NoticeRemembered
  <2>1. lm[p].held # LCK_none
    BY DEF Agree
  <2>2. rw[p].blocking
    BY <1>1, <2>1 DEF IInv, Remembered
  <2>3. PICK c \in Client : Home[c] = p /\ th[c].pc \in AskPcs \cup {"reader", "writer"}
    BY <1>1, <2>1 DEF IInv, Remembered
  <2>4. QED
    BY <1>1, <2>2, <2>3, Counted DEF IInv
<1>2. QED
  BY <1>1, Invariance, PTL

-----------------------------------------------------------------------------
(* The objects of all processes are one read-write lock. *)

\* What one thread, in control state t, has of the lock.
ModeOf(t) ==
    IF t.pc = "reader" THEN "read"
    ELSE IF t.pc = "writer" THEN "write"
    ELSE IF t.pc \in {"idle", "closed"} THEN "none"
    ELSE IF t.op = "write" THEN "asksWrite" ELSE "asksRead"

LEMMA ModeIs ==
    /\ mode = [c \in Client |-> ModeOf(th[c])]
    /\ mode' = [c \in Client |-> ModeOf(th'[c])]
<1>1. ASSUME NEW t
      PROVE  ModeOf(t) = CASE t.pc = "reader" -> "read"
                           [] t.pc = "writer" -> "write"
                           [] t.pc \in {"idle", "closed"} -> "none"
                           [] OTHER -> IF t.op = "write" THEN "asksWrite" ELSE "asksRead"
  BY DEF ModeOf
<1>2. mode = [c \in Client |-> ModeOf(th[c])]
  BY <1>1 DEF mode
<1>3. mode' = [c \in Client |-> ModeOf(th'[c])]
  BY <1>1 DEF mode
<1>4. QED
  BY <1>2, <1>3

\* How the mode of the thread that takes a step may turn.
Turns(m, n) ==
    \/ m = n \/ n = "none"
    \/ m = "none" /\ n \in {"asksRead", "asksWrite"}
    \/ m \in {"none", "asksRead"} /\ n = "read"
    \/ m \in {"none", "asksWrite"} /\ n = "write"

\* The step of one thread is a step of the lock, or none: that nobody else
\* stands in the way follows from exclusion after the step.
LEMMA OneThreadMoves ==
    ASSUME NEW c \in Client, NEW t, th \in [Client -> TH], th' = [th EXCEPT ![c] = t],
           Turns(ModeOf(th[c]), ModeOf(t)), Exclusive'
    PROVE  [OneLock!Next]_mode
<1>1. th'[c] = t /\ \A d \in Client : d # c => th'[d] = th[d]
  OBVIOUS
<1>2. mode' = [mode EXCEPT ![c] = ModeOf(t)] /\ mode[c] = ModeOf(th[c]) /\ mode'[c] = ModeOf(t)
  BY <1>1, ModeIs
<1>3. \A d \in Client : mode[d] = ModeOf(th[d]) /\ (d # c => mode'[d] = mode[d])
  BY <1>1, ModeIs
<1>4. CASE ModeOf(th[c]) = ModeOf(t)
  BY <1>2, <1>4, ModeIs
<1>5. CASE ModeOf(th[c]) # "none" /\ ModeOf(t) = "none"
  BY <1>2, <1>5 DEF OneLock!Next, OneLock!Leave
<1>6. CASE ModeOf(th[c]) = "none" /\ ModeOf(t) \in {"asksRead", "asksWrite"}
  BY <1>2, <1>6 DEF OneLock!Next, OneLock!Ask
<1>7. CASE ModeOf(th[c]) \in {"none", "asksRead"} /\ ModeOf(t) = "read"
  <2>1. th'[c].pc = "reader"
    BY <1>1, <1>7 DEF ModeOf
  <2>2. ASSUME NEW d \in Client, mode[d] = "write" PROVE FALSE
    <3>1. d # c /\ th'[d].pc = "writer"
      BY <1>1, <1>2, <1>3, <1>7, <2>2 DEF ModeOf
    <3>2. QED
      BY <2>1, <3>1 DEF Exclusive
  <2>3. QED
    BY <1>2, <1>7, <2>2 DEF OneLock!Next, OneLock!GetRead
<1>8. CASE ModeOf(th[c]) \in {"none", "asksWrite"} /\ ModeOf(t) = "write"
  <2>1. th'[c].pc = "writer"
    BY <1>1, <1>8 DEF ModeOf
  <2>2. ASSUME NEW d \in Client, mode[d] \in {"read", "write"} PROVE FALSE
    <3>1. d # c /\ th'[d].pc \in {"reader", "writer"}
      BY <1>1, <1>2, <1>3, <1>8, <2>2 DEF ModeOf
    <3>2. QED
      BY <2>1, <3>1 DEF Exclusive
  <2>3. QED
    BY <1>2, <1>8, <2>2 DEF OneLock!Next, OneLock!GetWrite
<1>9. QED
  BY <1>4, <1>5, <1>6, <1>7, <1>8 DEF Turns

Moves(c) == \E t \in TH : th' = [th EXCEPT ![c] = t] /\ Turns(ModeOf(th[c]), ModeOf(t))

\* A call goes on, gets what it asked for, or ends: which step of
\* GlobalRWLock.cpp it is only matters for the place it goes on at.
LEMMA CallGoesOn ==
    ASSUME NEW c \in Client, NEW t \in TH, NEW pc \in PC,
           th' = [th EXCEPT ![c] = [t EXCEPT !.pc = pc]],
           \/ t.op = "write" /\ pc \notin {"idle", "closed", "reader"}
           \/ t.op # "write" /\ pc \notin {"idle", "closed", "writer"},
           ModeOf(th[c]) \in {"none", IF t.op = "write" THEN "asksWrite" ELSE "asksRead"}
    PROVE  Moves(c)
<1> DEFINE u == [t EXCEPT !.pc = pc]
<1>1. u \in TH /\ u.pc = pc /\ u.op = t.op
  BY DEF TH
<1> HIDE DEF u
<1>2. Turns(ModeOf(th[c]), ModeOf(u))
  BY <1>1 DEF Turns, ModeOf
<1>3. th' = [th EXCEPT ![c] = u]
  BY DEF u
<1>4. QED
  BY <1>1, <1>2, <1>3 DEF Moves

LEMMA RelockMoves ==
    ASSUME NEW c \in Client, NEW g, NEW t \in TH, t.op = "write",
           ModeOf(th[c]) \in {"none", "asksWrite"}, AwaitReaders(c, g, t) \/ Relock(c, g, t)
    PROVE  Moves(c)
<1>1. \E pc \in {"noReaders", "writerFinished", "writer", "enqueue"} :
         th' = [th EXCEPT ![c] = [t EXCEPT !.pc = pc]]
  BY DEF AwaitReaders, Relock
<1>2. PICK pc \in {"noReaders", "writerFinished", "writer", "enqueue"} :
         th' = [th EXCEPT ![c] = [t EXCEPT !.pc = pc]]
  BY <1>1
<1>3. pc \in PC /\ pc \notin {"idle", "closed", "reader"}
  BY <1>2 DEF PC
<1>4. QED
  BY <1>2, <1>3, CallGoesOn

LEMMA EnterMoves ==
    ASSUME NEW c \in Client, NEW t \in TH, t.op # "write",
           ModeOf(th[c]) \in {"none", "asksRead"}, EnterRead(c, t) \/ TryRead(c, t)
    PROVE  Moves(c)
<1>1. \E pc \in {"readerWaits", "yield", "reader", "enqueue"} :
         th' = [th EXCEPT ![c] = [t EXCEPT !.pc = pc]]
  BY DEF TryRead, EnterRead
<1>2. PICK pc \in {"readerWaits", "yield", "reader", "enqueue"} :
         th' = [th EXCEPT ![c] = [t EXCEPT !.pc = pc]]
  BY <1>1
<1>3. pc \in PC /\ pc \notin {"idle", "closed", "writer"}
  BY <1>2 DEF PC
<1>4. QED
  BY <1>2, <1>3, CallGoesOn

\* Every step of a thread.
LEMMA ThreadMoves ==
    ASSUME IInv, NEW c \in Client,
           lockWrite(c) \/ lockRead(c) \/ Manager(c) \/ Goes(c) \/ Uses(c)
    PROVE  Moves(c)
<1>1. th[c] \in TH /\ th \in [Client -> TH]
  BY DEF IInv, Counting, TypeOK, TH
<1>2. /\ th[c].pc = "idle" => ModeOf(th[c]) = "none"
      /\ th[c].pc \in {"noReaders", "writerFinished"} =>
           th[c].op = "write" /\ ModeOf(th[c]) = "asksWrite"
      /\ th[c].pc \in {"readerWaits", "yield"} =>
           th[c].op # "write" /\ ModeOf(th[c]) = "asksRead"
      /\ th[c].pc \in AskPcs =>
           ModeOf(th[c]) = IF th[c].op = "write" THEN "asksWrite" ELSE "asksRead"
  BY DEF IInv, Counting, Roles, ModeOf, AskPcs
<1>3. ASSUME th' = [th EXCEPT ![c] = Idle] PROVE Moves(c)
  <2>1. Idle \in TH /\ ModeOf(Idle) = "none"
    BY DEF Idle, TH, PC, ModeOf
  <2>2. QED
    BY <1>3, <2>1 DEF Moves, Turns
<1>4. CASE lockWrite(c)
  <2>1. PICK w \in Wait : AwaitReaders(c, [rw[Home[c]] EXCEPT !.pendingWriters = @ + 1],
                                       [pc |-> "idle", op |-> "write", wait |-> w])
    BY <1>4 DEF lockWrite
  <2>2. [pc |-> "idle", op |-> "write", wait |-> w] \in TH
    BY RWConstants DEF TH, PC
  <2>3. th[c].pc = "idle"
    BY <1>4 DEF lockWrite
  <2>4. QED
    BY <1>2, <2>1, <2>2, <2>3, RelockMoves
<1>5. CASE lockRead(c)
  <2>1. PICK op \in Ops \cap {"read", "jump"}, w \in Wait :
          TryRead(c, [pc |-> "idle", op |-> op, wait |-> w])
    BY <1>5 DEF lockRead
  <2>2. [pc |-> "idle", op |-> op, wait |-> w] \in TH
    BY RWConstants DEF TH, PC
  <2>3. th[c].pc = "idle"
    BY <1>5 DEF lockRead
  <2>4. QED
    BY <1>2, <2>1, <2>2, <2>3, EnterMoves
<1>6. CASE Manager(c)
  <2>1. /\ th[c].pc \in AskPcs
        /\ \E pc \in AskPcs : th' = [th EXCEPT ![c] = [th[c] EXCEPT !.pc = pc]]
    BY <1>1, <1>6 DEF Manager, LmEnqueue, LmGrant, LmDeny, LCK_lock, AskPcs
  <2>2. PICK pc \in AskPcs : th' = [th EXCEPT ![c] = [th[c] EXCEPT !.pc = pc]]
    BY <2>1
  <2>3. pc \in PC /\ pc \notin {"idle", "closed", "reader", "writer"}
    BY <2>2 DEF PC, AskPcs
  <2>4. QED
    BY <1>1, <1>2, <2>1, <2>2, <2>3, CallGoesOn
<1>7. CASE ReadersGone(c) \/ WriterFinished(c)
  <2>1. /\ th[c].pc \in {"noReaders", "writerFinished"}
        /\ AwaitReaders(c, rw[Home[c]], th[c]) \/ Relock(c, rw[Home[c]], th[c])
    BY <1>7 DEF ReadersGone, WriterFinished
  <2>2. QED
    BY <1>1, <1>2, <2>1, RelockMoves
<1>8. CASE lockReadYields(c) \/ NoWriter(c)
  <2>1. /\ th[c].pc \in {"readerWaits", "yield"}
        /\ EnterRead(c, th[c]) \/ TryRead(c, th[c])
    BY <1>8 DEF lockReadYields, NoWriter
  <2>2. QED
    BY <1>1, <1>2, <2>1, EnterMoves
<1>9. CASE lockWriteDenied(c) \/ lockReadDenied(c) \/ Uses(c)
  BY <1>3, <1>9 DEF lockWriteDenied, lockReadDenied, Uses, unlockWrite, unlockRead
<1>10. CASE lockWriteDone(c)
  <2>1. /\ th[c].pc \in AskPcs /\ th[c].op = "write"
        /\ th' = [th EXCEPT ![c] = [th[c] EXCEPT !.pc = "writer"]]
    BY <1>1, <1>10 DEF lockWriteDone, AskPcs
  <2>2. "writer" \in PC
    BY DEF PC
  <2>3. QED
    BY <1>1, <1>2, <2>1, <2>2, CallGoesOn
<1>11. CASE lockReadDone(c)
  <2>1. /\ th[c].pc \in AskPcs /\ th[c].op # "write"
        /\ th' = [th EXCEPT ![c] = [th[c] EXCEPT !.pc = "reader"]]
    BY <1>1, <1>11 DEF lockReadDone, AskPcs
  <2>2. "reader" \in PC
    BY DEF PC
  <2>3. QED
    BY <1>1, <1>2, <2>1, <2>2, CallGoesOn
<1>12. QED
  BY <1>4, <1>5, <1>6, <1>7, <1>8, <1>9, <1>10, <1>11 DEF Goes

\* The objects of all processes, the lock they cache and the ASTs that move it
\* implement one read-write lock (RWLockSpec): GlobalRWLock.cpp turns no call
\* into another, lets readers in while nobody writes, and a writer alone.
THEOREM Refinement ==
    ASSUME Disciplined
    PROVE  Spec => IsOneLock
<1>1. Init => OneLock!Init
  BY ModeIs DEF Init, Idle, ModeOf, OneLock!Init
<1>2. IInv /\ Exclusive' /\ [Next]_vars => [OneLock!Next]_mode
  <2> SUFFICES ASSUME IInv, Exclusive', [Next]_vars PROVE [OneLock!Next]_mode
    OBVIOUS
  <2>1. th \in [Client -> TH]
    BY DEF IInv, Counting, TypeOK, TH
  <2>2. ASSUME th' = th PROVE [OneLock!Next]_mode
    BY <2>2, ModeIs
  <2>3. ASSUME NEW c \in Client, Moves(c) PROVE [OneLock!Next]_mode
    BY <2>1, <2>3, OneThreadMoves DEF Moves
  <2>4. CASE UNCHANGED vars
    BY <2>2, <2>4 DEF vars
  <2>5. ASSUME NEW c \in Client, lockWrite(c) \/ lockRead(c) \/ Manager(c) \/ Goes(c) \/ Uses(c)
        PROVE  [OneLock!Next]_mode
    BY <2>3, <2>5, ThreadMoves
  <2>6. ASSUME NEW c \in Client, tryReleaseLock(c) PROVE [OneLock!Next]_mode
    BY <2>2, <2>6 DEF tryReleaseLock
  <2>7. ASSUME NEW p \in Process, Ast(p) PROVE [OneLock!Next]_mode
    BY <2>2, <2>7 DEF Ast, LmPost, LmDeliver, blockingAstHandler
  <2>8. ASSUME NEW p \in Process, shutdownLock(p) PROVE [OneLock!Next]_mode
    <3>1. \A c \in Client : th'[c] = th[c] \/ (th[c].pc = "idle" /\ th'[c].pc = "closed")
      BY <2>8 DEF shutdownLock, Idle
    <3>2. \A c \in Client : ModeOf(th'[c]) = ModeOf(th[c])
      BY <3>1 DEF ModeOf
    <3>3. QED
      BY <3>2, ModeIs
  <2>9. QED
    BY <2>4, <2>5, <2>6, <2>7, <2>8 DEF Next
<1>3. QED
  BY <1>1, <1>2, Invariance, Exclusion, PTL DEF Spec, IsOneLock, OneLock!Spec
=============================================================================
