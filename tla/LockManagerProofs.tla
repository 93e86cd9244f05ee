-------------------------- MODULE LockManagerProofs --------------------------
(* Proofs about LockManager, for any number of processes, owners, threads,   *)
(* keys and request blocks.                                                   *)
EXTENDS LockTableProofs

-----------------------------------------------------------------------------
(* The inductive invariant. *)

Alive(o) == prc[ProcOf[o]].alive

WaitPC == {"blockage", "wait", "sleep", "scan", "exit"}

PrcBlock == [alive : BOOLEAN, listed : BOOLEAN, blocking : BOOLEAN]

WorkBlock == [pend : Key \cup {Nobody}, own : Owner \cup {Nobody},
              prc : Process \cup {Nobody}, probe : BOOLEAN]

ThrBlock == [pc : {"idle", "enqueue", "blockage", "wait", "sleep", "scan",
                   "exit", "shutdown", "loop"},
             todo : SUBSET Owner, dead : SUBSET Process,
             block : Owner \cup {Nobody}, ast : BOOLEAN]

CallBlock == [op : {"none", "enqueue", "convert"}, lrq : Request \cup {Nobody},
              key : Key \cup {Nobody}, level : AnyLevel,
              mode : {"no_wait", "timeout", "wait"}, ast : BOOLEAN]

ControlTypes ==
    /\ own \in [Owner -> OwnBlock]
    /\ prc \in [Process -> PrcBlock]
    /\ mutex \in Thread \cup {Nobody}
    /\ work \in WorkBlock
    /\ thr \in [Thread -> ThrBlock]
    /\ call \in [Client -> CallBlock]
    /\ poked \subseteq Client
    /\ cancelled \subseteq Client

\* A thread in wait_for_request has a request of its owner, on a lock, that no
\* other thread waits for; when it leaves the request is settled.
Waiter(c) ==
    /\ thr[c].pc \in WaitPC <=> call[c].lrq # Nobody
    /\ call[c].lrq # Nobody =>
         lrq[call[c].lrq].owner = Home[c] /\ lrq[call[c].lrq].lock \in Key
    /\ thr[c].pc = "exit" => ~Pending(call[c].lrq)
    /\ thr[c].pc = "enqueue" => call[c].key \in Key

WaitersSound ==
    /\ \A c \in Client : Waiter(c)
    /\ \A c, d \in Client : (call[c].lrq # Nobody /\ call[c].lrq = call[d].lrq) => c = d

\* A pending request is one that a thread waits for, unless its process died.
PendingOwned ==
    \A r \in Request : Pending(r) =>
        (\E c \in Client : call[c].lrq = r) \/ ~Alive(lrq[r].owner)

\* A dead process has no thread in a call.
DeadAtRest ==
    \A t \in Thread : ~prc[Pid(t)].alive => thr[t] = AtRest /\ mutex # t

\* An owner that has been shut down has no thread in enqueue or a wait.
ShutIsUnused ==
    \A c \in Client : own[Home[c]].count = 0 => thr[c].pc \notin WaitPC \cup {"enqueue"}

\* Only owners that have been shut down or whose process died are purged.
WorkSound ==
    /\ mutex = Nobody => work = NoWork
    /\ work.own # Nobody => own[work.own].count = 0 \/ ~Alive(work.own)
    /\ work.prc # Nobody => ~prc[work.prc].alive
    /\ \A t \in Thread : \A p \in thr[t].dead : ~prc[p].alive

\* A thread delivers ASTs for owners of its own process only.
DeliversAtHome ==
    \A t \in Thread : /\ thr[t].block # Nobody => ProcOf[thr[t].block] = Pid(t)
                      /\ thr[t].ast => thr[t].block # Nobody

WaitersOf(o) == {c \in Client : Home[c] = o /\ call[c].lrq # Nobody}

AstsOf(o) == {t \in Thread : thr[t].ast /\ thr[t].block = o}

\* own_waits and own_ast_count are at least the threads that wait or deliver;
\* they are more only when a process died.
Counted ==
    \A o \in Owner : /\ own[o].waits >= Cardinality(WaitersOf(o))
                     /\ own[o].asts >= Cardinality(AstsOf(o))

\* An owner of a live process that is purged, or has been, is shut down and no
\* AST is delivered for it.
GoneIsQuiet ==
    \A o \in Owner : Alive(o) =>
        /\ ~own[o].inuse => own[o].count = 0
        /\ ~own[o].inuse \/ work.own = o => AstsOf(o) = {}

\* One thread at a time waits in shutdownOwner for the ASTs of an owner.
ShutdownsSound ==
    /\ \A t \in Thread : thr[t].pc = "shutdown" =>
          /\ t \in Client
          /\ own[Home[t]].inuse /\ own[Home[t]].count = 0
          /\ work.own # Home[t]
    /\ \A c, d \in Client :
          (thr[c].pc = "shutdown" /\ thr[d].pc = "shutdown" /\ Home[c] = Home[d]) => c = d

\* A request block in use is on a lock or is a repost, and its owner is there.
BlocksSound ==
    \A r \in Request :
        /\ lrq[r].owner # Nobody => own[lrq[r].owner].inuse
        /\ lrq[r].owner # Nobody /\ lrq[r].lock = Nobody => "repost" \in lrq[r].flags
        /\ "repost" \in lrq[r].flags => lrq[r].lock = Nobody

IInv ==
    /\ Table(lrq, lbl)
    /\ ControlTypes
    /\ WaitersSound
    /\ PendingOwned
    /\ DeadAtRest
    /\ ShutIsUnused
    /\ WorkSound
    /\ DeliversAtHome
    /\ Counted
    /\ GoneIsQuiet
    /\ ShutdownsSound
    /\ BlocksSound


-----------------------------------------------------------------------------
(* Steps of one thread, and what they leave alone. *)

\* What the assumptions on the constants say of threads and owners.
LEMMA ConstantTypes ==
    /\ Nobody \notin Thread /\ Nobody \notin Client /\ Nobody \notin Process
    /\ Nobody \notin Owner /\ Nobody \notin Key /\ Nobody \notin Request
    /\ \A c \in Client : /\ c \in Thread /\ Home[c] \in Owner
                         /\ Pid(c) = ProcOf[Home[c]] /\ Pid(c) \in Process
    /\ \A p \in Process : p \in Thread /\ Pid(p) = p
    /\ \A t \in Thread : Pid(t) \in Process
    /\ \A o \in Owner : ProcOf[o] \in Process
  BY Constants DEF Thread, Pid

\* Thread t of a live process takes a step under the mutex.
StepOf(t) ==
    /\ prc[Pid(t)].alive
    /\ \A p \in Process : prc'[p].alive = prc[p].alive
    /\ \A u \in Thread \ {t} : thr'[u] = thr[u]
    /\ \A c \in Client \ {t} : call'[c] = call[c]
    /\ mutex \in {t, Nobody} /\ mutex' \in {t, Nobody}

\* A step that leaves requests and locks alone and no AST begins or ends.
ControlStep(t) ==
    /\ UNCHANGED <<lrq, lbl, call>>
    /\ OwnersKept
    /\ thr'[t].ast = thr[t].ast
    /\ thr[t].ast => thr'[t].block = thr[t].block

\* A thread in a call, or with the mutex, belongs to a live process.
LEMMA ThreadAlive ==
    ASSUME IInv, NEW t \in Thread, mutex = t \/ thr[t].pc # "idle" \/ thr[t].ast
    PROVE  prc[Pid(t)].alive
  BY DEF IInv, DeadAtRest, AtRest

\* A step of a live thread leaves the threads of dead processes at rest.
LEMMA DeadKept ==
    ASSUME IInv, NEW t \in Thread, StepOf(t)
    PROVE  DeadAtRest'
  <1>1. SUFFICES ASSUME NEW u \in Thread, ~prc'[Pid(u)].alive
                 PROVE  thr'[u] = AtRest /\ mutex' # u
    BY DEF DeadAtRest
  <1>2. ~prc[Pid(u)].alive /\ u # t
    BY <1>1, ConstantTypes DEF StepOf
  <1>3. QED
    BY <1>2, ConstantTypes DEF IInv, DeadAtRest, StepOf

\* Sets that a counter is compared with are finite.
LEMMA CountedFinite ==
    ASSUME NEW S, S \subseteq Client \/ S \subseteq Thread
    PROVE  IsFiniteSet(S) /\ Cardinality(S) \in Nat
  <1>1. IsFiniteSet(Client) /\ IsFiniteSet(Process)
    BY Constants
  <1>2. IsFiniteSet(Thread)
    BY <1>1, FS_Union DEF Thread
  <1>3. IsFiniteSet(S)
    BY <1>1, <1>2, FS_Subset
  <1>4. QED
    BY <1>3, FS_CardinalityType

\* Counters that do not go down and threads that do not begin to wait or to
\* deliver.
LEMMA CountedKept ==
    ASSUME IInv, own' \in [Owner -> OwnBlock],
           \A o \in Owner : own'[o].waits >= own[o].waits /\ own'[o].asts >= own[o].asts,
           \A c \in Client : call'[c].lrq # Nobody => call[c].lrq # Nobody,
           \A u \in Thread : thr'[u].ast => thr[u].ast /\ thr'[u].block = thr[u].block
    PROVE  Counted'
  <1>1. SUFFICES ASSUME NEW o \in Owner
                 PROVE  /\ own'[o].waits >= Cardinality(WaitersOf(o)')
                        /\ own'[o].asts >= Cardinality(AstsOf(o)')
    BY DEF Counted
  <1>2. WaitersOf(o)' \subseteq WaitersOf(o) /\ AstsOf(o)' \subseteq AstsOf(o)
    BY DEF WaitersOf, AstsOf
  <1>3. /\ IsFiniteSet(WaitersOf(o)) /\ Cardinality(WaitersOf(o)) \in Nat
        /\ IsFiniteSet(AstsOf(o)) /\ Cardinality(AstsOf(o)) \in Nat
        /\ Cardinality(WaitersOf(o)') \in Nat /\ Cardinality(AstsOf(o)') \in Nat
    <2>1. /\ WaitersOf(o) \subseteq Client /\ AstsOf(o) \subseteq Thread
          /\ WaitersOf(o)' \subseteq Client /\ AstsOf(o)' \subseteq Thread
      BY DEF WaitersOf, AstsOf
    <2>2. QED
      BY <2>1, CountedFinite
  <1>4. /\ Cardinality(WaitersOf(o)') <= Cardinality(WaitersOf(o))
        /\ Cardinality(AstsOf(o)') <= Cardinality(AstsOf(o))
    BY <1>2, <1>3, FS_Subset
  <1>5. own[o].waits >= Cardinality(WaitersOf(o)) /\ own[o].asts >= Cardinality(AstsOf(o))
    BY DEF IInv, Counted
  <1>6. /\ own[o].waits \in Nat /\ own'[o].waits \in Nat
        /\ own[o].asts \in Nat /\ own'[o].asts \in Nat
    BY DEF IInv, ControlTypes, OwnBlock
  <1>7. QED
    BY <1>3, <1>4, <1>5, <1>6

\* A control step keeps the parts of the invariant about requests and counts.
LEMMA ControlKeeps ==
    ASSUME IInv, NEW t \in Thread, StepOf(t), ControlStep(t), own' \in [Owner -> OwnBlock]
    PROVE  /\ Table(lrq, lbl)' /\ PendingOwned' /\ BlocksSound'
           /\ DeadAtRest' /\ Counted'
  <1>1. Table(lrq, lbl)'
    BY DEF IInv, ControlStep
  <1>2. PendingOwned' /\ BlocksSound'
    <2>1. \A o \in Owner : Alive(o)' <=> Alive(o)
      BY ConstantTypes DEF StepOf, Alive
    <2>2. \A r \in Request : lrq[r].owner \in Owner \cup {Nobody} /\ lrq'[r] = lrq[r]
      BY BlockTypes DEF IInv, ControlStep
    <2>3. \A r \in Request : Pending(r) => lrq[r].owner \in Owner
      BY <2>2 DEF IInv, Table, OffQueue, Pending, Waits
    <2>4. PendingOwned'
      BY <2>1, <2>2, <2>3 DEF IInv, PendingOwned, Pending, ControlStep
    <2>5. BlocksSound'
      BY <2>2, ConstantTypes DEF IInv, BlocksSound, ControlStep, OwnersKept
    <2>6. QED
      BY <2>4, <2>5
  <1>3. DeadAtRest'
    BY DeadKept
  <1>4. Counted'
    <2>1. \A o \in Owner : own'[o].waits >= own[o].waits /\ own'[o].asts >= own[o].asts
      BY DEF IInv, ControlTypes, OwnBlock, ControlStep, OwnersKept
    <2>2. \A c \in Client : call'[c].lrq # Nobody => call[c].lrq # Nobody
      BY DEF ControlStep
    <2>3. \A u \in Thread : thr'[u].ast => thr[u].ast /\ thr'[u].block = thr[u].block
      BY DEF ControlStep, StepOf
    <2>4. QED
      BY <2>1, <2>2, <2>3, CountedKept
  <1>5. QED
    BY <1>1, <1>2, <1>3, <1>4

-----------------------------------------------------------------------------
(* Every action keeps the invariant. *)

\* Giving up the lock table mutex keeps the invariant.
LEMMA release_shmemKeeps ==
    ASSUME IInv, NEW t \in Thread, release_shmem(t)
    PROVE  IInv'
  <1> USE DEF release_shmem, Quiet
  <1>1. StepOf(t) /\ ControlStep(t) /\ own' \in [Owner -> OwnBlock]
    BY ThreadAlive DEF StepOf, ControlStep, OwnersKept, IInv, ControlTypes
  <1>2. ControlTypes' /\ WaitersSound' /\ ShutIsUnused' /\ DeliversAtHome'
    BY DEF IInv, ControlTypes, WaitersSound, Waiter, WaitPC, Pending, ShutIsUnused, DeliversAtHome
  <1>3. WorkSound'
    BY DEF IInv, WorkSound, Alive
  <1>4. GoneIsQuiet' /\ ShutdownsSound'
    BY DEF IInv, GoneIsQuiet, Alive, AstsOf, ShutdownsSound
  <1>5. QED
    BY <1>1, <1>2, <1>3, <1>4, ControlKeeps DEF IInv


\* A step of a waiting thread that changes nothing but its own control state
\* and flags of owners.
LEMMA WaitStepKeeps ==
    ASSUME IInv, NEW t \in Client, thr[t].pc \in WaitPC,
           UNCHANGED <<lrq, lbl, prc, call>>, own' \in [Owner -> OwnBlock], OwnersKept,
           mutex \in {t, Nobody}, mutex' \in {t, Nobody}, mutex' = Nobody => work' = NoWork,
           work' \in WorkBlock, work'.own = work.own, work'.prc = work.prc,
           poked' \subseteq Client, cancelled' \subseteq Client,
           NEW pc \in WaitPC, thr' = [thr EXCEPT ![t].pc = pc],
           pc = "exit" => ~Pending(call[t].lrq)
    PROVE  IInv'
  <1>1. t \in Thread /\ prc[Pid(t)].alive
    BY ConstantTypes, ThreadAlive DEF WaitPC
  <1>2. /\ \A u \in Thread \ {t} : thr'[u] = thr[u]
        /\ thr'[t] = [thr[t] EXCEPT !.pc = pc]
        /\ thr' \in [Thread -> ThrBlock]
    BY <1>1 DEF IInv, ControlTypes, ThrBlock, WaitPC
  <1>3. StepOf(t) /\ ControlStep(t)
    BY <1>1, <1>2 DEF StepOf, ControlStep, OwnersKept, IInv, ControlTypes, ThrBlock
  <1>4. ControlTypes'
    BY <1>2, ConstantTypes DEF IInv, ControlTypes
  <1>5. WaitersSound'
    BY <1>1, <1>2, ConstantTypes DEF IInv, WaitersSound, Waiter, WaitPC, Pending, ThrBlock, ControlTypes
  <1>6. ShutIsUnused'
    BY <1>1, <1>2, ConstantTypes DEF IInv, ShutIsUnused, WaitPC, ThrBlock, ControlTypes, OwnersKept
  <1>7. WorkSound'
    <2>1. work.own # Nobody => work.own \in Owner
      BY DEF IInv, ControlTypes, WorkBlock
    <2>2. QED
      BY <1>1, <1>2, <2>1 DEF IInv, WorkSound, Alive, ThrBlock, ControlTypes, OwnersKept
  <1>8. DeliversAtHome'
    BY <1>1, <1>2 DEF IInv, DeliversAtHome, ThrBlock, ControlTypes
  <1>9. GoneIsQuiet'
    BY <1>1, <1>2 DEF IInv, GoneIsQuiet, Alive, AstsOf, ThrBlock, ControlTypes, OwnersKept
  <1>10. ShutdownsSound'
    BY <1>1, <1>2, ConstantTypes, SMTT(20) DEF IInv, ShutdownsSound, ThrBlock, ControlTypes, OwnersKept, WaitPC
  <1>11. QED
    BY <1>1, <1>3, <1>4, <1>5, <1>6, <1>7, <1>8, <1>9, <1>10, ControlKeeps DEF IInv

\* The test of LRQ_pending before a waiter sleeps keeps the invariant.
LEMMA WaitCheckKeeps ==
    ASSUME IInv, NEW t \in Client, WaitCheck(t)
    PROVE  IInv'
  <1>1. PICK pc \in WaitPC :
           thr' = [thr EXCEPT ![t].pc = pc] /\ (pc = "exit" => ~Pending(call[t].lrq))
    BY DEF WaitCheck, Goto, WaitPC
  <1>2. /\ UNCHANGED <<lrq, lbl, own, prc, mutex, work, call, poked, cancelled>>
        /\ mutex = t /\ thr[t].pc \in WaitPC /\ t # Nobody
    BY ConstantTypes DEF WaitCheck, Proceeds, Quiet, WaitPC
  <1>3. OwnersKept
    BY <1>2 DEF OwnersKept
  <1>4. QED
    BY <1>1, <1>2, <1>3, WaitStepKeeps DEF IInv, ControlTypes

\* Waking up to a request that is settled keeps the invariant.
LEMMA WakesResolvedKeeps ==
    ASSUME IInv, NEW t \in Client, WakesResolved(t)
    PROVE  IInv'
  <1>1. /\ thr' = [thr EXCEPT ![t].pc = "exit"] /\ ~Pending(call[t].lrq)
        /\ UNCHANGED <<lrq, lbl, own, prc, work, call, cancelled>>
        /\ mutex \in {t, Nobody} /\ mutex' = t /\ t # Nobody
        /\ poked' \subseteq poked
        /\ thr[t].pc \in WaitPC /\ "exit" \in WaitPC
    BY ConstantTypes DEF WakesResolved, Wakes, Goto, Proceeds, Quiet, WaitPC
  <1>2. OwnersKept
    BY <1>1 DEF OwnersKept
  <1>3. poked' \subseteq Client
    BY <1>1 DEF IInv, ControlTypes
  <1>4. QED
    BY <1>1, <1>2, <1>3, WaitStepKeeps DEF IInv, ControlTypes

\* A wakeup meant for another thread keeps the invariant.
LEMMA WakesBogusKeeps ==
    ASSUME IInv, NEW t \in Client, WakesBogus(t)
    PROVE  IInv'
  <1>1. /\ thr' = thr /\ thr[t].pc = "sleep"
        /\ UNCHANGED <<lrq, lbl, own, prc, work, call, cancelled>>
        /\ mutex \in {t, Nobody} /\ mutex' = t /\ t # Nobody
        /\ poked' \subseteq poked
        /\ "sleep" \in WaitPC
    BY ConstantTypes DEF WakesBogus, Wakes, Goto, Proceeds, Quiet, WaitPC
  <1>2. OwnersKept
    BY <1>1 DEF OwnersKept
  <1>3. poked' \subseteq Client
    BY <1>1 DEF IInv, ControlTypes
  <1>4. thr' = [thr EXCEPT ![t].pc = "sleep"]
    BY <1>1, ConstantTypes DEF IInv, ControlTypes, ThrBlock
  <1>5. QED
    BY <1>1, <1>2, <1>3, <1>4, WaitStepKeeps DEF IInv, ControlTypes

\* Waking up to tell the new blockers keeps the invariant.
LEMMA WakesPostedKeeps ==
    ASSUME IInv, NEW t \in Client, WakesPosted(t)
    PROVE  IInv'
  <1>1. /\ thr' = [thr EXCEPT ![t].pc = "blockage"]
        /\ UNCHANGED <<lrq, lbl, prc, work, call, cancelled>>
        /\ mutex \in {t, Nobody} /\ mutex' = t /\ t # Nobody
        /\ poked' \subseteq poked
        /\ thr[t].pc \in WaitPC /\ "blockage" \in WaitPC
    BY ConstantTypes DEF WakesPosted, Wakes, Goto, Proceeds, Quiet, WaitPC
  <1>2. OwnersKept /\ own' \in [Owner -> OwnBlock]
    BY ZenonT(40) DEF OwnersKept, WakesPosted, Awoken, IInv, ControlTypes, OwnBlock
  <1>3. poked' \subseteq Client
    BY <1>1 DEF IInv, ControlTypes
  <1>4. QED
    BY <1>1, <1>2, <1>3, WaitStepKeeps DEF IInv, ControlTypes

\* Waking up at the deadlock scan interval keeps the invariant.
LEMMA WakesToScanKeeps ==
    ASSUME IInv, NEW t \in Client, WakesToScan(t)
    PROVE  IInv'
  <1>1. /\ thr' = [thr EXCEPT ![t].pc = "scan"]
        /\ UNCHANGED <<lrq, lbl, own, prc, call, cancelled>>
        /\ work' = [work EXCEPT !.probe = TRUE]
        /\ mutex \in {t, Nobody} /\ mutex' = t /\ t # Nobody
        /\ poked' \subseteq poked
        /\ thr[t].pc \in WaitPC /\ "scan" \in WaitPC
    BY ConstantTypes DEF WakesToScan, Wakes, Goto, Proceeds, Quiet, WaitPC
  <1>2. OwnersKept
    BY <1>1 DEF OwnersKept
  <1>3. work' \in WorkBlock /\ work'.own = work.own /\ work'.prc = work.prc
    BY <1>1 DEF IInv, ControlTypes, WorkBlock
  <1>4. poked' \subseteq Client
    BY <1>1 DEF IInv, ControlTypes
  <1>5. QED
    BY <1>1, <1>2, <1>3, <1>4, WaitStepKeeps DEF IInv, ControlTypes

\* The cancel of a wait keeps the invariant.
LEMMA cancelWaitKeeps ==
    ASSUME IInv, NEW t \in Client, cancelWait(t)
    PROVE  IInv'
  <1>1. /\ thr' = thr /\ mutex = Nobody
        /\ UNCHANGED <<lrq, lbl, prc, mutex, work, call>>
        /\ own' = post_wakeup(own, Home[t]) /\ poked' = PokedBy(Home[t])
        /\ cancelled' = cancelled \cup {t}
        /\ call[t].lrq # Nobody
    BY DEF cancelWait
  <1>2. OwnersKept /\ own' \in [Owner -> OwnBlock]
    BY <1>1, WakeupEffect, ConstantTypes DEF IInv, ControlTypes
  <1>3. poked' \subseteq Client /\ cancelled' \subseteq Client
    BY <1>1, PokeEffect, ConstantTypes DEF IInv, ControlTypes
  <1>4. thr[t].pc \in WaitPC /\ (thr[t].pc = "exit" => ~Pending(call[t].lrq))
    BY <1>1 DEF IInv, WaitersSound, Waiter
  <1>5. thr' = [thr EXCEPT ![t].pc = thr[t].pc]
    BY <1>1, ConstantTypes DEF IInv, ControlTypes, ThrBlock
  <1>6. work' = NoWork /\ work' \in WorkBlock
    BY <1>1 DEF IInv, WorkSound, ControlTypes
  <1>7. QED
    BY <1>1, <1>2, <1>3, <1>4, <1>5, <1>6, WaitStepKeeps

\* A step of a thread that does not wait, in which requests are left alone.
LEMMA ThreadStepKeeps ==
    ASSUME IInv, NEW t \in Thread, StepOf(t), ControlStep(t), ControlTypes',
           \/ thr'[t].pc = thr[t].pc
           \/ thr[t].pc \notin WaitPC /\ thr'[t].pc \in {"idle", "loop"},
           thr'[t].block # Nobody => ProcOf[thr'[t].block] = Pid(t),
           WorkSound',
           \/ work'.own = Nobody \/ work'.own = work.own \/ ~Alive(work'.own)
           \/ /\ AstsOf(work'.own) = {}
              /\ \A c \in Client : Home[c] = work'.own => thr'[c].pc # "shutdown"
    PROVE  IInv'
  <1>1. /\ Table(lrq, lbl)' /\ PendingOwned' /\ BlocksSound'
        /\ DeadAtRest' /\ Counted'
    BY ControlKeeps DEF ControlTypes
  <1>2. \A u \in Thread : u # t => thr'[u] = thr[u]
    BY DEF StepOf
  <1>3. WaitersSound'
    <2>1. \A c \in Client : thr'[c].pc = thr[c].pc
                             \/ (thr[c].pc \notin WaitPC /\ thr'[c].pc \in {"idle", "loop"})
      BY <1>2, ConstantTypes
    <2>2. QED
      BY <2>1 DEF IInv, WaitersSound, Waiter, WaitPC, Pending, ControlStep
  <1>4. ShutIsUnused'
    BY <1>2, ConstantTypes DEF IInv, ShutIsUnused, WaitPC, ControlStep, OwnersKept
  <1>5. DeliversAtHome'
    BY <1>2 DEF IInv, DeliversAtHome, ControlStep
  <1>6. \A o \in Owner : AstsOf(o)' = AstsOf(o) /\ (Alive(o)' <=> Alive(o))
    <2>1. \A u \in Thread : thr'[u].ast = thr[u].ast /\ (thr[u].ast => thr'[u].block = thr[u].block)
      BY <1>2 DEF ControlStep
    <2>2. \A o \in Owner : AstsOf(o)' = AstsOf(o)
      BY <2>1 DEF AstsOf
    <2>3. \A o \in Owner : Alive(o)' <=> Alive(o)
      BY ConstantTypes DEF StepOf, Alive
    <2>4. QED
      BY <2>2, <2>3
  <1>7. GoneIsQuiet'
    <2>1. SUFFICES ASSUME NEW o \in Owner, Alive(o)'
                   PROVE  /\ ~own'[o].inuse => own'[o].count = 0
                          /\ ~own'[o].inuse \/ work'.own = o => AstsOf(o)' = {}
      BY DEF GoneIsQuiet
    <2>2. Alive(o) /\ AstsOf(o)' = AstsOf(o)
      BY <1>6, <2>1
    <2>3. o # Nobody
      BY ConstantTypes
    <2>4. QED
      BY <2>2, <2>3 DEF IInv, GoneIsQuiet, ControlStep, OwnersKept
  <1>8. ShutdownsSound'
    <2>1. ASSUME NEW u \in Thread, thr'[u].pc = "shutdown"
          PROVE  thr[u].pc = "shutdown" /\ u \in Client
      BY <1>2, <2>1 DEF IInv, ShutdownsSound
    <2>2. ASSUME NEW u \in Thread, thr'[u].pc = "shutdown"
          PROVE  /\ u \in Client
                 /\ own'[Home[u]].inuse /\ own'[Home[u]].count = 0
                 /\ work'.own # Home[u]
      <3>1. /\ u \in Client /\ Home[u] \in Owner /\ own[Home[u]].inuse /\ own[Home[u]].count = 0
            /\ work.own # Home[u]
        BY <2>1, <2>2, ConstantTypes DEF IInv, ShutdownsSound
      <3>2. prc[ProcOf[Home[u]]].alive
        BY <2>1, <2>2, <3>1, ThreadAlive, ConstantTypes
      <3>3. QED
        BY <2>2, <3>1, <3>2, ConstantTypes DEF ControlStep, OwnersKept, Alive
    <2>3. QED
      BY <2>1, <2>2, ConstantTypes DEF IInv, ShutdownsSound
  <1>9. QED
    BY <1>1, <1>3, <1>4, <1>5, <1>7, <1>8 DEF IInv

\* The end of the wait for ASTs in shutdownOwner keeps the invariant: nothing
\* is delivered for the owner that is purged next.
LEMMA AstsDoneKeeps ==
    ASSUME IInv, NEW t \in Client, AstsDone(t)
    PROVE  IInv'
  <1>1. /\ thr' = [thr EXCEPT ![t].pc = "idle"] /\ thr[t].pc = "shutdown"
        /\ UNCHANGED <<lrq, lbl, own, prc, call, poked, cancelled>>
        /\ work' = [work EXCEPT !.own = Home[t]]
        /\ mutex = Nobody /\ mutex' = t
        /\ own[Home[t]].asts = 0
    BY DEF AstsDone, Goto
  <1>2. t \in Thread /\ Home[t] \in Owner /\ prc[Pid(t)].alive
    BY <1>1, ConstantTypes, ThreadAlive
  <1>3. /\ \A u \in Thread \ {t} : thr'[u] = thr[u]
        /\ thr'[t] = [thr[t] EXCEPT !.pc = "idle"]
        /\ thr' \in [Thread -> ThrBlock]
    BY <1>1, <1>2 DEF IInv, ControlTypes, ThrBlock
  <1>4. work' \in WorkBlock /\ work'.own = Home[t] /\ work'.prc = work.prc
    BY <1>1, <1>2 DEF IInv, ControlTypes, WorkBlock
  <1>5. StepOf(t) /\ ControlStep(t)
    BY <1>1, <1>2, <1>3 DEF StepOf, ControlStep, OwnersKept, IInv, ControlTypes, ThrBlock
  <1>6. ControlTypes'
    BY <1>1, <1>2, <1>3, <1>4 DEF IInv, ControlTypes
  <1>7. WorkSound'
    BY <1>1, <1>2, <1>3, <1>4, ConstantTypes DEF IInv, WorkSound, Alive, ShutdownsSound, ControlTypes, ThrBlock
  <1>8. AstsOf(Home[t]) = {}
    <2>1. AstsOf(Home[t]) \subseteq Thread
      BY DEF AstsOf
    <2>2. IsFiniteSet(AstsOf(Home[t])) /\ Cardinality(AstsOf(Home[t])) \in Nat
      BY <2>1, CountedFinite
    <2>3. Cardinality(AstsOf(Home[t])) = 0
      BY <1>1, <1>2, <2>2 DEF IInv, Counted
    <2>4. QED
      BY <2>2, <2>3, FS_EmptySet
  <1>9. \A c \in Client : Home[c] = work'.own => thr'[c].pc # "shutdown"
    <2>1. thr'[t].pc = "idle"
      BY <1>3 DEF IInv, ControlTypes, ThrBlock
    <2>2. \A c \in Client : c # t /\ Home[c] = Home[t] => thr[c].pc # "shutdown"
      BY <1>1 DEF IInv, ShutdownsSound
    <2>3. QED
      BY <1>3, <1>4, <2>1, <2>2, ConstantTypes
  <1>10. /\ thr[t].pc \notin WaitPC /\ thr'[t].pc \in {"idle", "loop"}
         /\ thr'[t].block # Nobody => ProcOf[thr'[t].block] = Pid(t)
    BY <1>1, <1>2, <1>3 DEF IInv, ControlTypes, ThrBlock, WaitPC, DeliversAtHome
  <1>11. QED
    BY <1>2, <1>4, <1>5, <1>6, <1>7, <1>8, <1>9, <1>10, ThreadStepKeeps

\* purge_process chooses owners of a dead process and keeps the invariant.
LEMMA purge_processKeeps ==
    ASSUME IInv, NEW t \in Thread, purge_process(t)
    PROVE  IInv'
  <1>1. /\ UNCHANGED <<lrq, lbl, own, mutex, thr, call, poked, cancelled>>
        /\ mutex = t /\ work.own = Nobody /\ work.prc # Nobody
    BY DEF purge_process
  <1>2. work.prc \in Process /\ ~prc[work.prc].alive /\ prc[Pid(t)].alive
    BY <1>1, ThreadAlive DEF IInv, WorkSound, ControlTypes, WorkBlock
  <1>3. /\ prc' \in [Process -> PrcBlock]
        /\ \A p \in Process : prc'[p].alive = prc[p].alive
    <2>1. prc' = prc \/ prc' = [prc EXCEPT ![work.prc].listed = FALSE]
      BY DEF purge_process
    <2>2. prc \in [Process -> PrcBlock]
      BY DEF IInv, ControlTypes
    <2>3. CASE prc' = [prc EXCEPT ![work.prc].listed = FALSE]
      BY <1>2, <2>2, <2>3 DEF PrcBlock
    <2>4. QED
      BY <2>1, <2>2, <2>3
  <1>4. /\ work' \in WorkBlock
        /\ work'.own # Nobody => work'.own \in Owner /\ ~Alive(work'.own)
        /\ work'.prc # Nobody => work'.prc = work.prc
    <2>1. \/ work' = [work EXCEPT !.prc = Nobody]
          \/ \E o \in Owner : ProcOf[o] = work.prc /\ work' = [work EXCEPT !.own = o]
      BY DEF purge_process, Registered
    <2>2. QED
      BY <1>1, <1>2, <2>1 DEF IInv, ControlTypes, WorkBlock, Alive
  <1>5. StepOf(t) /\ ControlStep(t)
    BY <1>1, <1>2, <1>3 DEF StepOf, ControlStep, OwnersKept
  <1>6. ControlTypes'
    BY <1>1, <1>3, <1>4 DEF IInv, ControlTypes
  <1>7. WorkSound'
    BY <1>1, <1>2, <1>3, <1>4, ConstantTypes DEF IInv, WorkSound, Alive, ControlTypes, ThrBlock
  <1>8. thr'[t].block # Nobody => ProcOf[thr'[t].block] = Pid(t)
    BY <1>1 DEF IInv, DeliversAtHome
  <1>9. QED
    BY <1>1, <1>4, <1>5, <1>6, <1>7, <1>8, ThreadStepKeeps

\* probe_processes chooses dead processes only and keeps the invariant.
LEMMA probe_processesKeeps ==
    ASSUME IInv, NEW t \in Thread, probe_processes(t)
    PROVE  IInv'
  <1>1. /\ UNCHANGED <<lrq, lbl, own, prc, mutex, thr, call, poked, cancelled>>
        /\ mutex = t /\ work.own = Nobody
    BY DEF probe_processes
  <1>2. prc[Pid(t)].alive
    BY <1>1, ThreadAlive
  <1>3. /\ work' \in WorkBlock /\ work'.own = work.own
        /\ work'.prc # Nobody => work'.prc = work.prc \/ ~prc[work'.prc].alive
    <2>1. \/ work' = [work EXCEPT !.probe = FALSE]
          \/ \E p \in Process : ~prc[p].alive /\ work' = [work EXCEPT !.prc = p]
      BY DEF probe_processes, DeadProcesses
    <2>2. QED
      BY <2>1 DEF IInv, ControlTypes, WorkBlock
  <1>4. StepOf(t) /\ ControlStep(t)
    BY <1>1, <1>2 DEF StepOf, ControlStep, OwnersKept
  <1>5. ControlTypes'
    BY <1>1, <1>3 DEF IInv, ControlTypes
  <1>6. WorkSound'
    BY <1>1, <1>3, ConstantTypes DEF IInv, WorkSound, Alive
  <1>7. thr'[t].block # Nobody => ProcOf[thr'[t].block] = Pid(t)
    BY <1>1 DEF IInv, DeliversAtHome
  <1>8. QED
    BY <1>1, <1>3, <1>4, <1>5, <1>6, <1>7, ThreadStepKeeps

\* The last loop of post_blockage purges dead processes only.
LEMMA PurgeUndeliveredKeeps ==
    ASSUME IInv, NEW t \in Thread, PurgeUndelivered(t)
    PROVE  IInv'
  <1>1. PICK p \in thr[t].dead :
           /\ thr' = [thr EXCEPT ![t].dead = thr[t].dead \ {p}]
           /\ work' = [work EXCEPT !.prc = IF prc[p].listed THEN p ELSE Nobody]
           /\ UNCHANGED <<lrq, lbl, own, prc, mutex, call, poked, cancelled>>
           /\ mutex = t /\ work = NoWork
    BY DEF PurgeUndelivered, Signalling, Quiet
  <1>2. p \in Process /\ ~prc[p].alive /\ prc[Pid(t)].alive
    <2>1. p \in Process
      BY <1>1 DEF IInv, ControlTypes, ThrBlock
    <2>2. ~prc[p].alive
      BY <1>1 DEF IInv, WorkSound
    <2>3. QED
      BY <1>1, <2>1, <2>2, ThreadAlive
  <1>3. /\ \A u \in Thread \ {t} : thr'[u] = thr[u]
        /\ thr'[t] = [thr[t] EXCEPT !.dead = thr[t].dead \ {p}]
        /\ thr' \in [Thread -> ThrBlock]
    BY <1>1, <1>2, SMTT(20) DEF IInv, ControlTypes, ThrBlock
  <1>4. /\ work' \in WorkBlock /\ work'.own = Nobody
        /\ work'.prc # Nobody => work'.prc = p
    BY <1>1, <1>2 DEF IInv, ControlTypes, WorkBlock, NoWork
  <1>5. StepOf(t) /\ ControlStep(t)
    BY <1>1, <1>2, <1>3 DEF StepOf, ControlStep, OwnersKept, IInv, ControlTypes, ThrBlock
  <1>6. ControlTypes'
    BY <1>1, <1>3, <1>4 DEF IInv, ControlTypes
  <1>7. WorkSound'
    <2>1. \A u \in Thread : thr'[u].dead \subseteq thr[u].dead
      BY <1>3 DEF IInv, ControlTypes, ThrBlock
    <2>2. QED
      BY <1>1, <1>2, <1>4, <2>1, ConstantTypes DEF IInv, WorkSound
  <1>8. /\ thr'[t].block # Nobody => ProcOf[thr'[t].block] = Pid(t)
        /\ thr'[t].pc = thr[t].pc
    BY <1>3 DEF IInv, DeliversAtHome, ControlTypes, ThrBlock
  <1>9. QED
    BY <1>1, <1>4, <1>5, <1>6, <1>7, <1>8, ThreadStepKeeps

\* The wakeup of the blocking action thread keeps the invariant.
LEMMA BlockingThreadWakesKeeps ==
    ASSUME IInv, NEW t \in Process, BlockingThreadWakes(t)
    PROVE  IInv'
  <1>1. /\ thr' = [thr EXCEPT ![t].pc = "loop"] /\ thr[t] = AtRest
        /\ prc' = [prc EXCEPT ![t].blocking = FALSE] /\ prc[t].alive
        /\ UNCHANGED <<lrq, lbl, own, work, call, poked, cancelled>>
        /\ mutex = Nobody /\ mutex' = t
    BY DEF BlockingThreadWakes, Goto
  <1>2. t \in Thread /\ Pid(t) = t
    BY ConstantTypes
  <1>3. /\ \A u \in Thread \ {t} : thr'[u] = thr[u]
        /\ thr'[t] = [thr[t] EXCEPT !.pc = "loop"]
        /\ thr' \in [Thread -> ThrBlock]
    BY <1>1, <1>2 DEF IInv, ControlTypes, ThrBlock
  <1>4. /\ prc' \in [Process -> PrcBlock]
        /\ \A p \in Process : prc'[p].alive = prc[p].alive
    BY <1>1 DEF IInv, ControlTypes, PrcBlock
  <1>5. StepOf(t) /\ ControlStep(t)
    BY <1>1, <1>2, <1>3, <1>4 DEF StepOf, ControlStep, OwnersKept, AtRest
  <1>6. ControlTypes'
    BY <1>1, <1>2, <1>3, <1>4 DEF IInv, ControlTypes
  <1>7. WorkSound'
    <2>1. \A u \in Thread : thr'[u].dead = thr[u].dead
      BY <1>3 DEF IInv, ControlTypes, ThrBlock
    <2>2. work = NoWork
      BY <1>1 DEF IInv, WorkSound
    <2>3. \A u \in Thread : \A p \in thr[u].dead : p \in Process
      BY DEF IInv, ControlTypes, ThrBlock
    <2>4. QED
      BY <1>1, <1>4, <2>1, <2>2, <2>3, ConstantTypes DEF IInv, WorkSound, NoWork
  <1>8. /\ thr'[t].block # Nobody => ProcOf[thr'[t].block] = Pid(t)
        /\ thr[t].pc \notin WaitPC /\ thr'[t].pc \in {"idle", "loop"}
    BY <1>1, <1>3 DEF AtRest, WaitPC
  <1>9. QED
    BY <1>1, <1>2, <1>5, <1>6, <1>7, <1>8, ThreadStepKeeps

\* The loop of blocking_action_thread serves owners of its own process.
LEMMA blocking_action_threadKeeps ==
    ASSUME IInv, NEW t \in Process, blocking_action_thread(t)
    PROVE  IInv'
  <1>1. /\ UNCHANGED <<lrq, lbl, own, prc, mutex, work, call, poked, cancelled>>
        /\ mutex = t /\ thr[t].pc = "loop" /\ work = NoWork /\ thr[t].block = Nobody
    BY DEF blocking_action_thread, Proceeds, Quiet
  <1>2. t \in Thread /\ Pid(t) = t
    BY ConstantTypes
  <1>3. prc[Pid(t)].alive /\ ~thr[t].ast
    BY <1>1, <1>2, ThreadAlive DEF IInv, DeliversAtHome
  <1>4. thr \in [Thread -> ThrBlock] /\ thr[t] \in ThrBlock
    BY <1>2 DEF IInv, ControlTypes
  <1>5. /\ \A u \in Thread \ {t} : thr'[u] = thr[u]
        /\ thr' \in [Thread -> ThrBlock]
        /\ thr'[t].dead = thr[t].dead /\ thr'[t].ast = thr[t].ast
        /\ thr'[t].pc \in {"idle", "loop"}
        /\ thr'[t].block # Nobody => ProcOf[thr'[t].block] = Pid(t)
    <2>1. CASE \E o \in Owner : ProcOf[o] = t /\ thr' = [thr EXCEPT ![t].block = o]
      BY <1>1, <1>2, <1>4, <2>1 DEF ThrBlock
    <2>2. CASE thr' = [thr EXCEPT ![t].pc = "idle"]
      BY <1>1, <1>2, <1>4, <2>2 DEF ThrBlock
    <2>3. QED
      BY <2>1, <2>2 DEF blocking_action_thread, Goto, Registered
  <1>6. StepOf(t) /\ ControlStep(t)
    BY <1>1, <1>3, <1>5 DEF StepOf, ControlStep, OwnersKept
  <1>7. ControlTypes'
    BY <1>1, <1>2, <1>5 DEF IInv, ControlTypes
  <1>8. WorkSound'
    <2>1. \A u \in Thread : thr'[u].dead = thr[u].dead
      BY <1>5
    <2>2. QED
      BY <1>1, <2>1 DEF IInv, WorkSound, NoWork
  <1>9. thr[t].pc \notin WaitPC
    BY <1>1 DEF WaitPC
  <1>10. QED
    BY <1>1, <1>2, <1>5, <1>6, <1>7, <1>8, <1>9, ThreadStepKeeps

\* signal_owner keeps the invariant: it delivers ASTs at home only.
LEMMA signal_ownerKeeps ==
    ASSUME IInv, NEW t \in Thread, signal_owner(t)
    PROVE  IInv'
  <1>1. PICK o \in thr[t].todo :
           LET rest == [thr EXCEPT ![t].todo = thr[t].todo \ {o}]
               signaled == [own EXCEPT ![o].flags = own[o].flags \cup {"signaled"}]
           IN  /\ \/ thr' = rest
                  \/ thr' = [rest EXCEPT ![t].block = o] /\ ProcOf[o] = Pid(t)
                  \/ /\ thr' = [rest EXCEPT ![t].dead = rest[t].dead \cup {ProcOf[o]}]
                     /\ ~prc[ProcOf[o]].alive
               /\ own' = own \/ own' = signaled
               /\ prc' = prc \/ prc' = [prc EXCEPT ![ProcOf[o]].blocking =
                                          prc[ProcOf[o]].blocking \/ own[o].inuse]
    BY DEF signal_owner
  <1>2. /\ UNCHANGED <<lrq, lbl, mutex, work, call, poked, cancelled>>
        /\ mutex = t /\ work = NoWork /\ ~thr[t].ast
    BY DEF signal_owner, Signalling, Quiet
  <1>3. /\ o \in Owner /\ ProcOf[o] \in Process /\ prc[Pid(t)].alive
        /\ thr \in [Thread -> ThrBlock] /\ thr[t] \in ThrBlock
    BY <1>2, ThreadAlive, ConstantTypes DEF IInv, ControlTypes, ThrBlock
  <1>4. /\ \A u \in Thread \ {t} : thr'[u] = thr[u]
        /\ thr' \in [Thread -> ThrBlock]
        /\ thr'[t].pc = thr[t].pc /\ thr'[t].ast = thr[t].ast
        /\ thr'[t].block # Nobody => thr'[t].block = thr[t].block \/ ProcOf[thr'[t].block] = Pid(t)
        /\ \A p \in thr'[t].dead : p \in thr[t].dead \/ (p \in Process /\ ~prc[p].alive)
    <2>1. CASE thr' = [thr EXCEPT ![t].todo = thr[t].todo \ {o}]
      BY <1>3, <2>1 DEF ThrBlock
    <2>2. CASE /\ thr' = [thr EXCEPT ![t].todo = thr[t].todo \ {o}, ![t].block = o]
               /\ ProcOf[o] = Pid(t)
      BY <1>3, <2>2 DEF ThrBlock
    <2>3. CASE /\ thr' = [thr EXCEPT ![t].todo = thr[t].todo \ {o},
                                     ![t].dead = thr[t].dead \cup {ProcOf[o]}]
               /\ ~prc[ProcOf[o]].alive
      BY <1>3, <2>3 DEF ThrBlock
    <2>4. QED
      BY <1>1, <1>3, <2>1, <2>2, <2>3 DEF ThrBlock
  <1>5. own' \in [Owner -> OwnBlock] /\ OwnersKept
    <2>1. CASE own' = own
      BY <2>1 DEF IInv, ControlTypes, OwnersKept
    <2>2. CASE own' = [own EXCEPT ![o].flags = own[o].flags \cup {"signaled"}]
      BY <1>3, <2>2 DEF IInv, ControlTypes, OwnersKept, OwnBlock
    <2>3. QED
      BY <1>1, <2>1, <2>2
  <1>6. /\ prc' \in [Process -> PrcBlock]
        /\ \A p \in Process : prc'[p].alive = prc[p].alive
    <2>1. CASE prc' = prc
      BY <2>1 DEF IInv, ControlTypes
    <2>2. CASE prc' = [prc EXCEPT ![ProcOf[o]].blocking = prc[ProcOf[o]].blocking \/ own[o].inuse]
      BY <1>3, <2>2 DEF IInv, ControlTypes, PrcBlock
    <2>3. QED
      BY <1>1, <2>1, <2>2
  <1>7. StepOf(t) /\ ControlStep(t)
    BY <1>2, <1>3, <1>4, <1>5, <1>6 DEF StepOf, ControlStep
  <1>8. ControlTypes'
    BY <1>2, <1>4, <1>5, <1>6 DEF IInv, ControlTypes
  <1>9. WorkSound'
    <2>1. \A u \in Thread : \A p \in thr[u].dead : p \in Process
      BY <1>3 DEF ThrBlock
    <2>2. \A u \in Thread : \A p \in thr'[u].dead : p \in thr[u].dead \/ (p \in Process /\ ~prc[p].alive)
      BY <1>4
    <2>3. QED
      BY <1>2, <1>6, <2>1, <2>2 DEF IInv, WorkSound, NoWork
  <1>10. thr'[t].block # Nobody => ProcOf[thr'[t].block] = Pid(t)
    BY <1>4 DEF IInv, DeliversAtHome
  <1>11. QED
    BY <1>2, <1>4, <1>7, <1>8, <1>9, <1>10, ThreadStepKeeps

-----------------------------------------------------------------------------
(* Steps that change requests. *)

\* What a step of thread t must leave true of request q.
SoundFor(t, q) ==
    /\ \A c \in Client \ {t} : call[c].lrq = q =>
          lrq'[q].owner = lrq[q].owner /\ lrq'[q].lock = lrq[q].lock /\ (Pending(q)' => Pending(q))
    /\ Pending(q)' =>
          \/ t \in Client /\ call'[t].lrq = q
          \/ /\ Pending(q) /\ lrq'[q].owner = lrq[q].owner
             /\ t \in Client /\ call[t].lrq = q => call'[t].lrq = q
    /\ lrq'[q].owner # Nobody => own'[lrq'[q].owner].inuse
    /\ lrq'[q].owner # Nobody /\ lrq'[q].lock = Nobody => "repost" \in lrq'[q].flags
    /\ "repost" \in lrq'[q].flags => lrq'[q].lock = Nobody

\* The owners in use stay in use.
InUseKept == \A o \in Owner : own[o].inuse => own'[o].inuse

\* A request block that stays as it is stays sound.
LEMMA SameIsSound ==
    ASSUME IInv, NEW t \in Thread, NEW q \in Request, SameBlock(q), InUseKept,
           Pending(q) /\ t \in Client /\ call[t].lrq = q => call'[t].lrq = q
    PROVE  SoundFor(t, q)
  <1>1. /\ lrq[q].owner # Nobody => lrq[q].owner \in Owner /\ own[lrq[q].owner].inuse
        /\ lrq[q].owner # Nobody /\ lrq[q].lock = Nobody => "repost" \in lrq[q].flags
        /\ "repost" \in lrq[q].flags => lrq[q].lock = Nobody
    BY BlockTypes DEF IInv, BlocksSound
  <1>2. QED
    BY <1>1 DEF SoundFor, SameBlock, InUseKept

\* A pending request is on a lock and has an owner.
LEMMA PendingOnLock ==
    ASSUME Table(lrq, lbl), NEW r \in Request, Pending(r)
    PROVE  lrq[r].lock \in Key /\ lrq[r].owner \in Owner
  <1>1. OffQueue(lrq[r]) /\ Waits(lrq[r])
    BY DEF Table, Pending, Waits
  <1>2. QED
    BY <1>1, BlockTypes DEF OffQueue

\* A step that leaves every request sound keeps the parts of the invariant
\* that relate requests, waiters and owners.
LEMMA RequestStepKeeps ==
    ASSUME IInv, NEW t \in Thread, StepOf(t), \A q \in Request : SoundFor(t, q),
           t \in Client => /\ Waiter(t)'
                           /\ \A c \in Client \ {t} : call'[t].lrq # Nobody => call'[t].lrq # call[c].lrq
    PROVE  WaitersSound' /\ PendingOwned' /\ BlocksSound'
  <1>1. BlocksSound'
    BY DEF SoundFor, BlocksSound
  <1>2. PendingOwned'
    <2>1. SUFFICES ASSUME NEW r \in Request, Pending(r)'
                   PROVE  (\E c \in Client : call'[c].lrq = r) \/ ~Alive(lrq[r].owner)'
      BY DEF PendingOwned
    <2>2. CASE t \in Client /\ call'[t].lrq = r
      BY <2>2
    <2>3. CASE /\ Pending(r) /\ lrq'[r].owner = lrq[r].owner
               /\ t \in Client /\ call[t].lrq = r => call'[t].lrq = r
      <3>1. (\E c \in Client : call[c].lrq = r) \/ ~Alive(lrq[r].owner)
        BY <2>3 DEF IInv, PendingOwned
      <3>2. CASE \E c \in Client : call[c].lrq = r
        BY <2>3, <3>2 DEF StepOf
      <3>3. CASE ~Alive(lrq[r].owner)
        BY <2>3, <3>3, PendingOnLock, ConstantTypes DEF StepOf, Alive, IInv
      <3>4. QED
        BY <3>1, <3>2, <3>3
    <2>4. QED
      BY <2>1, <2>2, <2>3 DEF SoundFor
  <1>3. ASSUME NEW c \in Client, c # t
        PROVE  Waiter(c)'
    <2>1. Waiter(c) /\ thr'[c] = thr[c] /\ call'[c] = call[c] /\ c \in Thread
      BY <1>3, ConstantTypes DEF IInv, WaitersSound, StepOf
    <2>2. CASE call[c].lrq = Nobody
      BY <2>1, <2>2 DEF Waiter, WaitPC
    <2>3. CASE call[c].lrq # Nobody
      <3>1. call[c].lrq \in Request
        BY <2>3 DEF IInv, ControlTypes, CallBlock
      <3>2. /\ lrq'[call[c].lrq].owner = lrq[call[c].lrq].owner
            /\ lrq'[call[c].lrq].lock = lrq[call[c].lrq].lock
            /\ Pending(call[c].lrq)' => Pending(call[c].lrq)
        BY <1>3, <3>1, <2>1 DEF SoundFor, Pending
      <3>3. QED
        BY <2>1, <3>2 DEF Waiter, Pending
    <2>4. QED
      BY <2>2, <2>3
  <1>4. WaitersSound'
    BY <1>3 DEF IInv, WaitersSound, StepOf
  <1>5. QED
    BY <1>1, <1>2, <1>4

\* The other parts of the invariant, when no owner comes or goes, no AST begins
\* or ends and no purge begins.
LEMMA RestKeeps ==
    ASSUME IInv, NEW t \in Thread, StepOf(t), ControlTypes',
           \A o \in Owner : own'[o].inuse = own[o].inuse /\ own'[o].count = own[o].count,
           thr'[t].ast = thr[t].ast, thr'[t].block = thr[t].block, thr'[t].dead = thr[t].dead,
           \/ thr'[t].pc = thr[t].pc
           \/ /\ t \in Client /\ thr'[t].pc # "shutdown"
              /\ thr'[t].pc \in WaitPC \cup {"enqueue"} => own[Home[t]].count # 0,
           mutex' = t, work'.own = work.own, work'.prc = work.prc
    PROVE  /\ DeadAtRest' /\ ShutIsUnused' /\ WorkSound'
           /\ DeliversAtHome' /\ GoneIsQuiet' /\ ShutdownsSound'
  <1>1. DeadAtRest'
    BY DeadKept
  <1>2. /\ \A u \in Thread : /\ thr'[u].ast = thr[u].ast /\ thr'[u].block = thr[u].block
                             /\ thr'[u].dead = thr[u].dead
        /\ \A u \in Thread : u # t => thr'[u] = thr[u]
    BY DEF StepOf
  <1>3. \A o \in Owner : AstsOf(o)' = AstsOf(o) /\ (Alive(o)' <=> Alive(o))
    BY <1>2, ConstantTypes DEF AstsOf, StepOf, Alive
  <1>4. ShutIsUnused'
    BY <1>2, ConstantTypes DEF IInv, ShutIsUnused
  <1>5. WorkSound'
    <2>1. work.own # Nobody => work.own \in Owner
      BY DEF IInv, ControlTypes, WorkBlock
    <2>2. work.prc # Nobody => work.prc \in Process
      BY DEF IInv, ControlTypes, WorkBlock
    <2>3. \A u \in Thread : \A p \in thr[u].dead : p \in Process
      BY DEF IInv, ControlTypes, ThrBlock
    <2>4. QED
      BY <1>2, <1>3, <2>1, <2>2, <2>3, ConstantTypes DEF IInv, WorkSound, StepOf
  <1>6. DeliversAtHome'
    BY <1>2 DEF IInv, DeliversAtHome
  <1>7. GoneIsQuiet'
    BY <1>3 DEF IInv, GoneIsQuiet
  <1>8. ShutdownsSound'
    BY <1>2, ConstantTypes DEF IInv, ShutdownsSound
  <1>9. QED
    BY <1>1, <1>4, <1>5, <1>6, <1>7, <1>8

\* A thread that goes on with its own call while another request changes.
LEMMA OwnWaiterKept ==
    ASSUME IInv, NEW t \in Client, thr'[t].pc = thr[t].pc, call'[t] = call[t],
           \A q \in Request : call[t].lrq = q =>
              lrq'[q].owner = lrq[q].owner /\ lrq'[q].lock = lrq[q].lock /\ (Pending(q)' => Pending(q))
    PROVE  Waiter(t)'
  <1>1. Waiter(t) /\ (call[t].lrq # Nobody => call[t].lrq \in Request)
    BY DEF IInv, WaitersSound, ControlTypes, CallBlock
  <1>2. CASE call[t].lrq = Nobody
    BY <1>1, <1>2 DEF Waiter, WaitPC
  <1>3. CASE call[t].lrq # Nobody
    BY <1>1, <1>3 DEF Waiter, Pending
  <1>4. QED
    BY <1>2, <1>3

\* Nobody else waits for the request a thread waits for.
LEMMA OwnRequest ==
    ASSUME IInv, NEW t \in Client, NEW c \in Client \ {t}, call[t].lrq # Nobody
    PROVE  call[c].lrq # call[t].lrq
  BY DEF IInv, WaitersSound

\* A request that no other thread waits for is released.
LEMMA ReleaseSound ==
    ASSUME IInv, NEW t \in Thread, NEW r \in Request, lrq[r].lock \in Key, release_request(r),
           \A c \in Client \ {t} : call[c].lrq # r, InUseKept,
           t \in Client /\ call[t].lrq # Nobody /\ call[t].lrq # r => call'[t].lrq = call[t].lrq
    PROVE  /\ Table(lrq, lbl)' /\ \A q \in Request : SoundFor(t, q)
           /\ \A q \in Request \ {r} : SameBlock(q)
           /\ work \in WorkBlock => work' \in WorkBlock /\ work'.own = work.own /\ work'.prc = work.prc
  <1>1. /\ Table(lrq', lbl') /\ lrq'[r] = FreeLrq /\ OthersKept(r)
        /\ HeldUpBy(r) \in Key \cup {Nobody} /\ work' = [work EXCEPT !.pend = HeldUpBy(r)]
    BY ReleaseEffect DEF IInv
  <1>2. SoundFor(t, r)
    BY <1>1, ConstantTypes DEF SoundFor, FreeLrq, Pending
  <1>3. ASSUME NEW q \in Request \ {r}
        PROVE  SameBlock(q) /\ SoundFor(t, q)
    <2>1. SameBlock(q)
      BY <1>1 DEF OthersKept
    <2>2. t \in Client /\ call[t].lrq = q => call'[t].lrq = q
      BY ConstantTypes
    <2>3. QED
      BY <2>1, <2>2, SameIsSound
  <1>4. work \in WorkBlock => work' \in WorkBlock /\ work'.own = work.own /\ work'.prc = work.prc
    BY <1>1 DEF WorkBlock
  <1>5. QED
    BY <1>1, <1>2, <1>3, <1>4

\* enqueue, up to the release of the prior request, keeps the invariant.
LEMMA enqueueKeeps ==
    ASSUME IInv, NEW t \in Client, enqueue(t)
    PROVE  IInv'
  <1>1. PICK k \in Key, l \in Level, m \in Mode, a \in HasAst :
           call' = [call EXCEPT ![t] = [op |-> "enqueue", lrq |-> Nobody, key |-> k,
                                        level |-> l, mode |-> m, ast |-> a]]
           /\ \/ UNCHANGED <<lrq, lbl, work>>
              \/ \E prior \in HeldBy(Home[t]) \cap Requests(k) : release_request(prior)
    BY DEF enqueue
  <1>2. /\ thr' = [thr EXCEPT ![t].pc = "enqueue"] /\ thr[t] = AtRest
        /\ mutex = Nobody /\ mutex' = t
        /\ UNCHANGED <<own, prc, poked, cancelled>>
        /\ own[Home[t]].count # 0 /\ prc[Pid(t)].alive
    BY ConstantTypes DEF enqueue, Goto, Usable, MayCall, IInv, ControlTypes, OwnBlock
  <1>3. t \in Thread /\ thr[t].pc = "idle" /\ call[t].lrq = Nobody
    BY <1>2, ConstantTypes DEF AtRest, IInv, WaitersSound, Waiter, WaitPC
  <1>4. /\ \A u \in Thread \ {t} : thr'[u] = thr[u]
        /\ thr'[t] = [thr[t] EXCEPT !.pc = "enqueue"]
        /\ thr' \in [Thread -> ThrBlock]
    BY <1>2, <1>3 DEF IInv, ControlTypes, ThrBlock
  <1>5. thr'[t].pc = "enqueue" /\ thr'[t].ast = thr[t].ast /\ thr'[t].block = thr[t].block
        /\ thr'[t].dead = thr[t].dead
    BY <1>3, <1>4 DEF IInv, ControlTypes, ThrBlock
  <1>6. /\ \A c \in Client \ {t} : call'[c] = call[c]
        /\ call'[t].lrq = Nobody /\ call'[t].key = k
        /\ call' \in [Client -> CallBlock]
    <2>1. l \in AnyLevel /\ m \in {"no_wait", "timeout", "wait"} /\ a \in BOOLEAN
      BY Constants DEF AnyLevel
    <2>2. QED
      BY <1>1, <2>1 DEF IInv, ControlTypes, CallBlock
  <1>7. StepOf(t)
    BY <1>2, <1>4, <1>6 DEF StepOf
  <1>8. /\ Table(lrq, lbl)' /\ \A q \in Request : SoundFor(t, q)
        /\ work' \in WorkBlock /\ work'.own = work.own /\ work'.prc = work.prc
    <2>1. InUseKept
      BY <1>2 DEF InUseKept
    <2>2. CASE UNCHANGED <<lrq, lbl, work>>
      <3>1. \A q \in Request : SameBlock(q)
        BY <2>2 DEF SameBlock, Pending
      <3>2. \A q \in Request : SoundFor(t, q)
        BY <1>3, <2>1, <3>1, SameIsSound, ConstantTypes
      <3>3. QED
        BY <2>2, <3>2 DEF IInv, ControlTypes
    <2>3. CASE \E prior \in HeldBy(Home[t]) \cap Requests(k) : release_request(prior)
      <3>1. PICK prior \in HeldBy(Home[t]) \cap Requests(k) : release_request(prior)
        BY <2>3
      <3>2. /\ prior \in Request /\ lrq[prior].lock \in Key
            /\ \A c \in Client : call[c].lrq # prior
        BY <3>1 DEF HeldBy, Holds, Requests
      <3>3. QED
        BY <1>3, <2>1, <3>1, <3>2, ReleaseSound DEF IInv, ControlTypes
    <2>4. QED
      BY <1>1, <2>2, <2>3
  <1>9. ControlTypes'
    BY <1>2, <1>3, <1>4, <1>6, <1>8 DEF IInv, ControlTypes
  <1>10. WaitersSound' /\ PendingOwned' /\ BlocksSound'
    <2>1. Waiter(t)'
      BY <1>5, <1>6 DEF Waiter, WaitPC
    <2>2. QED
      BY <1>3, <1>6, <1>7, <1>8, <2>1, RequestStepKeeps
  <1>11. Counted'
    <2>1. \A c \in Client : call'[c].lrq # Nobody => call[c].lrq # Nobody
      BY <1>6
    <2>2. \A u \in Thread : thr'[u].ast => thr[u].ast /\ thr'[u].block = thr[u].block
      BY <1>4, <1>5
    <2>3. \A o \in Owner : own'[o].waits >= own[o].waits /\ own'[o].asts >= own[o].asts
      BY <1>2 DEF IInv, ControlTypes, OwnBlock
    <2>4. QED
      BY <1>9, <2>1, <2>2, <2>3, CountedKept DEF ControlTypes
  <1>12. /\ DeadAtRest' /\ ShutIsUnused' /\ WorkSound'
         /\ DeliversAtHome' /\ GoneIsQuiet' /\ ShutdownsSound'
    BY <1>2, <1>3, <1>5, <1>7, <1>8, <1>9, RestKeeps
  <1>13. QED
    BY <1>8, <1>9, <1>10, <1>11, <1>12 DEF IInv

\* All parts together.
LEMMA StepKeeps ==
    ASSUME IInv, NEW t \in Thread, StepOf(t), ControlTypes', Table(lrq, lbl)', Counted',
           \A q \in Request : SoundFor(t, q),
           t \in Client => /\ Waiter(t)'
                           /\ \A c \in Client \ {t} : call'[t].lrq # Nobody => call'[t].lrq # call[c].lrq,
           \A o \in Owner : own'[o].inuse = own[o].inuse /\ own'[o].count = own[o].count,
           thr'[t].ast = thr[t].ast, thr'[t].block = thr[t].block, thr'[t].dead = thr[t].dead,
           \/ thr'[t].pc = thr[t].pc
           \/ /\ t \in Client /\ thr'[t].pc # "shutdown"
              /\ thr'[t].pc \in WaitPC \cup {"enqueue"} => own[Home[t]].count # 0,
           mutex' = t, work'.own = work.own, work'.prc = work.prc
    PROVE  IInv'
  <1>1. WaitersSound' /\ PendingOwned' /\ BlocksSound'
    BY RequestStepKeeps
  <1>2. /\ DeadAtRest' /\ ShutIsUnused' /\ WorkSound'
        /\ DeliversAtHome' /\ GoneIsQuiet' /\ ShutdownsSound'
    BY RestKeeps
  <1>3. QED
    BY <1>1, <1>2 DEF IInv

\* The requests that a call works on.
LEMMA HeldRequest ==
    ASSUME IInv, NEW t \in Thread, NEW o \in Owner, MayCall(t, o), NEW r \in HeldBy(o)
    PROVE  /\ r \in Request /\ lrq[r].lock \in Key /\ lrq[r].owner = o
           /\ \A c \in Client : call[c].lrq # r
           /\ ~Pending(r) /\ "repost" \notin lrq[r].flags
           /\ own[o].inuse /\ prc[Pid(t)].alive
  <1>1. r \in Request /\ lrq[r].owner = o /\ lrq[r].lock # Nobody /\ \A c \in Client : call[c].lrq # r
    BY DEF HeldBy, Holds
  <1>2. lrq[r].lock \in Key
    BY <1>1, BlockTypes DEF IInv
  <1>3. own[o].inuse /\ "repost" \notin lrq[r].flags
    BY <1>1, ConstantTypes DEF IInv, BlocksSound
  <1>4. prc[Pid(t)].alive /\ Pid(t) = ProcOf[o]
    BY ConstantTypes DEF MayCall, IInv, DeliversAtHome
  <1>5. ~Pending(r)
    BY <1>1, <1>4 DEF IInv, PendingOwned, Alive
  <1>6. QED
    BY <1>1, <1>2, <1>3, <1>4, <1>5

\* Calls that a thread makes at rest or in an AST routine and that return at
\* once.
LEMMA ReleaseKeeps ==
    ASSUME IInv, NEW t \in Thread, NEW o \in Owner, MayCall(t, o), NEW r \in HeldBy(o),
           release_request(r), mutex' = t,
           UNCHANGED <<own, prc, thr, call, poked, cancelled>>
    PROVE  IInv'
  <1>1. /\ r \in Request /\ lrq[r].lock \in Key /\ \A c \in Client : call[c].lrq # r
        /\ prc[Pid(t)].alive /\ mutex = Nobody
    BY HeldRequest DEF MayCall
  <1>2. StepOf(t) /\ InUseKept
    BY <1>1 DEF StepOf, InUseKept
  <1>3. /\ Table(lrq, lbl)' /\ \A q \in Request : SoundFor(t, q)
        /\ \A q \in Request \ {r} : SameBlock(q)
        /\ work' \in WorkBlock /\ work'.own = work.own /\ work'.prc = work.prc
    BY <1>1, <1>2, ReleaseSound DEF IInv, ControlTypes
  <1>4. ControlTypes'
    BY <1>3 DEF IInv, ControlTypes
  <1>5. Counted'
    BY DEF IInv, Counted, WaitersOf, AstsOf
  <1>6. t \in Client => Waiter(t)'
    <2>1. ASSUME t \in Client, NEW q \in Request, call[t].lrq = q
          PROVE  /\ lrq'[q].owner = lrq[q].owner /\ lrq'[q].lock = lrq[q].lock
                 /\ (Pending(q)' => Pending(q))
      BY <1>1, <1>3, <2>1 DEF SameBlock
    <2>2. QED
      BY <2>1, OwnWaiterKept
  <1>7. t \in Client => \A c \in Client \ {t} : call'[t].lrq # Nobody => call'[t].lrq # call[c].lrq
    BY OwnRequest
  <1>8. QED
    BY <1>2, <1>3, <1>4, <1>5, <1>6, <1>7, StepKeeps

\* dequeue keeps the invariant.
LEMMA dequeueKeeps ==
    ASSUME IInv, NEW t \in Thread, dequeue(t)
    PROVE  IInv'
  <1>1. PICK o \in Owner : /\ MayCall(t, o)
                           /\ \E r \in HeldBy(o) : release_request(r)
                           /\ mutex' = t
                           /\ UNCHANGED <<own, prc, thr, call, poked, cancelled>>
    BY DEF dequeue, Usable
  <1>2. QED
    BY <1>1, ReleaseKeeps

\* A thread begins to wait, and own_waits is incremented.
LEMMA WaitBegins ==
    ASSUME IInv, NEW t \in Client, call[t].lrq = Nobody,
           \A c \in Client \ {t} : call'[c] = call[c],
           \A o \in Owner : /\ own'[o].asts = own[o].asts
                            /\ own'[o].waits = IF o = Home[t] THEN own[o].waits + 1 ELSE own[o].waits,
           \A u \in Thread : thr'[u].ast = thr[u].ast /\ thr'[u].block = thr[u].block
    PROVE  Counted'
  <1>1. SUFFICES ASSUME NEW o \in Owner
                 PROVE  /\ own'[o].waits >= Cardinality(WaitersOf(o)')
                        /\ own'[o].asts >= Cardinality(AstsOf(o)')
    BY DEF Counted
  <1>2. AstsOf(o)' = AstsOf(o)
    BY DEF AstsOf
  <1>3. WaitersOf(o) \subseteq Client /\ WaitersOf(o)' \subseteq Client /\ t \notin WaitersOf(o)
    BY DEF WaitersOf
  <1>4. /\ IsFiniteSet(WaitersOf(o)) /\ Cardinality(WaitersOf(o)) \in Nat
        /\ IsFiniteSet(WaitersOf(o)') /\ Cardinality(WaitersOf(o)') \in Nat
    BY <1>3, CountedFinite
  <1>5. own[o].waits \in Nat /\ own[o].asts \in Nat
    BY DEF IInv, ControlTypes, OwnBlock
  <1>6. own[o].waits >= Cardinality(WaitersOf(o)) /\ own[o].asts >= Cardinality(AstsOf(o))
    BY DEF IInv, Counted
  <1>7. CASE o = Home[t]
    <2>1. WaitersOf(o)' \subseteq WaitersOf(o) \cup {t}
      BY DEF WaitersOf
    <2>2. IsFiniteSet(WaitersOf(o) \cup {t}) /\ Cardinality(WaitersOf(o) \cup {t}) = Cardinality(WaitersOf(o)) + 1
      BY <1>3, <1>4, FS_AddElement
    <2>3. Cardinality(WaitersOf(o)') <= Cardinality(WaitersOf(o)) + 1
      BY <2>1, <2>2, FS_Subset
    <2>4. QED
      BY <1>2, <1>4, <1>5, <1>6, <1>7, <2>3
  <1>8. CASE o # Home[t]
    <2>1. WaitersOf(o)' = WaitersOf(o)
      BY <1>8 DEF WaitersOf
    <2>2. QED
      BY <1>2, <1>5, <1>6, <1>8, <2>1
  <1>9. QED
    BY <1>7, <1>8

\* internal_convert keeps the invariant; only a thread at rest waits in it.
LEMMA ConvertKeeps ==
    ASSUME IInv, NEW t \in Thread, NEW o \in Owner, MayCall(t, o), NEW r \in HeldBy(o),
           NEW l \in AnyLevel, NEW mode \in {"no_wait", "timeout", "wait"}, NEW ast \in BOOLEAN,
           NEW refused \in AnyLevel, own[o].count # 0,
           mode # "no_wait" => ~thr[t].ast,
           internal_convert(t, r, l, mode, ast, refused), mutex' = t,
           UNCHANGED <<prc, cancelled>>
    PROVE  IInv'
  <1> DEFINE k == lrq[r].lock
             asked == [lrq EXCEPT ![r].requested = l, ![r].flags = @ \ {"seen"}]
  <1>1. /\ r \in Request /\ k \in Key /\ lrq[r].owner = o
        /\ \A c \in Client : call[c].lrq # r
        /\ ~Pending(r) /\ "repost" \notin lrq[r].flags
        /\ prc[Pid(t)].alive /\ mutex = Nobody
    BY HeldRequest DEF MayCall
  <1>2. lrq \in [Request -> LrqBlock] /\ lrq[r] \in LrqBlock /\ lrq[r].flags \in SUBSET LrqFlag
    BY <1>1 DEF IInv, Table, LrqBlock
  <1>3. /\ asked \in [Request -> LrqBlock]
        /\ \A q \in Request \ {r} : asked[q] = lrq[q]
        /\ asked[r] = [lrq[r] EXCEPT !.requested = l, !.flags = lrq[r].flags \ {"seen"}]
        /\ asked[r].lock = k /\ asked[r].owner = o /\ asked[r].state = lrq[r].state
        /\ asked[r].requested = l /\ asked[r].flags = lrq[r].flags \ {"seen"}
    BY <1>1, <1>2 DEF LrqBlock
  <1>4. CASE Compatible(l, StateWithout(r))
    <2> DEFINE rq == [asked EXCEPT ![r].ast = ast, ![r].physical = l]
               counts == Without(lbl[k].counts, lrq[r].state)
    <2>1. /\ grant(rq, r, k, counts)
          /\ work' = [work EXCEPT !.pend = k]
          /\ UNCHANGED <<thr, call>>
      BY <1>4 DEF internal_convert
    <2>2. /\ rq \in [Request -> LrqBlock]
          /\ \A q \in Request \ {r} : rq[q] = lrq[q]
          /\ rq[r].lock = k /\ rq[r].owner = o /\ rq[r].requested = l
          /\ rq[r].flags = lrq[r].flags \ {"seen"}
      <3>1. asked \in [Request -> LrqBlock] /\ asked[r] \in LrqBlock
        BY <1>1, <1>3
      <3>a. rq = [asked EXCEPT ![r].ast = ast, ![r].physical = l] /\ r \in Request
        BY <1>1
      <3> HIDE DEF asked, rq
      <3>2. /\ rq[r] = [asked[r] EXCEPT !.ast = ast, !.physical = l]
            /\ \A q \in Request \ {r} : rq[q] = asked[q]
        BY <3>1, <3>a
      <3>3. /\ rq[r] \in LrqBlock /\ rq[r].lock = asked[r].lock /\ rq[r].owner = asked[r].owner
            /\ rq[r].requested = asked[r].requested /\ rq[r].flags = asked[r].flags
        BY <3>1, <3>2 DEF LrqBlock
      <3>4. rq \in [Request -> LrqBlock]
        <4>1. \A q \in Request : rq[q] \in LrqBlock
          BY <3>1, <3>2, <3>3
        <4>2. QED
          BY <3>1, <3>a, <4>1
      <3>5. QED
        BY <1>3, <3>2, <3>3, <3>4
    <2>3. counts = Without(lbl[k].counts, lrq[r].state) /\ Compatible(rq[r].requested, lock_state(counts))
      BY <1>4, <2>2 DEF StateWithout
    <2>4. Waits(rq[r]) <=> Waits(lrq[r])
      BY <2>2 DEF Waits
    <2>5. /\ k \in Key /\ lrq[r].lock = k
          /\ own \in [Owner -> OwnBlock] /\ poked \subseteq Client /\ Table(lrq, lbl)
          /\ "repost" \notin rq[r].flags
      BY <1>1, <2>2 DEF IInv, ControlTypes
    <2> HIDE DEF rq, counts, k
    <2>6. /\ Table(lrq', lbl')
          /\ lrq'[r].lock = k /\ lrq'[r].owner = rq[r].owner
          /\ ~Pending(r)' /\ "repost" \notin lrq'[r].flags
          /\ OthersKept(r)
          /\ own' \in [Owner -> OwnBlock] /\ OwnersKept
          /\ poked' \subseteq Client
      BY <1>1, <2>1, <2>2, <2>3, <2>4, <2>5, GrantEffect
    <2>7. work' \in WorkBlock /\ work'.own = work.own /\ work'.prc = work.prc
      BY <2>1, <2>5 DEF IInv, ControlTypes, WorkBlock
    <2>8. \A q \in Request : SameBlock(q)
      BY <1>1, <2>2, <2>5, <2>6 DEF OthersKept, SameBlock, Pending
    <2>9. StepOf(t) /\ InUseKept /\ ControlTypes'
      BY <1>1, <2>1, <2>6, <2>7 DEF StepOf, InUseKept, OwnersKept, IInv, ControlTypes
    <2>10. \A q \in Request : SoundFor(t, q)
      BY <2>1, <2>8, <2>9, SameIsSound
    <2>11. Counted'
      BY <2>1, <2>6 DEF IInv, Counted, WaitersOf, AstsOf, OwnersKept
    <2>12. t \in Client => Waiter(t)'
      BY <2>1, <2>8, OwnWaiterKept DEF SameBlock
    <2>13. t \in Client => \A c \in Client \ {t} : call'[t].lrq # Nobody => call'[t].lrq # call[c].lrq
      BY <2>1, OwnRequest
    <2>14. \A x \in Owner : own'[x].inuse = own[x].inuse /\ own'[x].count = own[x].count
      BY <2>6 DEF OwnersKept
    <2>15. QED
      BY <2>1, <2>6, <2>7, <2>9, <2>10, <2>11, <2>12, <2>13, <2>14, StepKeeps
  <1>5. CASE ~Compatible(l, StateWithout(r)) /\ mode = "no_wait"
    <2>1. /\ lrq' = [asked EXCEPT ![r].requested = lrq[r].state, ![r].physical = refused]
          /\ UNCHANGED <<lbl, own, work, thr, call, poked>>
      BY <1>5 DEF internal_convert
    <2>2. lrq[r].state \in AnyLevel
      BY <1>2 DEF LrqBlock
    <2> HIDE DEF asked
    <2>3. /\ lrq' \in [Request -> LrqBlock]
          /\ \A q \in Request \ {r} : lrq'[q] = lrq[q]
          /\ lrq'[r].lock = k /\ lrq'[r].owner = o /\ lrq'[r].state = lrq[r].state
          /\ lrq'[r].flags = lrq[r].flags \ {"seen"}
      <3>1. asked \in [Request -> LrqBlock] /\ asked[r] \in LrqBlock
        BY <1>1, <1>3
      <3>2. /\ lrq'[r] = [asked[r] EXCEPT !.requested = lrq[r].state, !.physical = refused]
            /\ \A q \in Request \ {r} : lrq'[q] = asked[q]
        BY <1>1, <2>1, <3>1
      <3>3. /\ lrq'[r] \in LrqBlock /\ lrq'[r].lock = asked[r].lock /\ lrq'[r].owner = asked[r].owner
            /\ lrq'[r].state = asked[r].state /\ lrq'[r].flags = asked[r].flags
        BY <2>2, <3>1, <3>2 DEF LrqBlock
      <3>4. lrq' \in [Request -> LrqBlock]
        <4>1. \A q \in Request : lrq'[q] \in LrqBlock
          BY <3>1, <3>2, <3>3
        <4>2. QED
          BY <2>1, <3>1, <4>1
      <3>5. QED
        BY <1>3, <3>2, <3>3, <3>4
    <2>4. \A q \in Request : SameBlock(q) /\ lrq'[q].state = lrq[q].state
      BY <1>1, <2>3 DEF SameBlock, Pending
    <2>5. Table(lrq', lbl')
      BY <2>1, <2>3, <2>4, MarkEffect DEF IInv
    <2>6. StepOf(t) /\ InUseKept /\ ControlTypes'
      BY <1>1, <2>1 DEF StepOf, InUseKept, IInv, ControlTypes
    <2>7. \A q \in Request : SoundFor(t, q)
      BY <2>1, <2>4, <2>6, SameIsSound
    <2>8. Counted'
      BY <2>1 DEF IInv, Counted, WaitersOf, AstsOf
    <2>9. t \in Client => Waiter(t)'
      BY <2>1, <2>4, OwnWaiterKept DEF SameBlock
    <2>10. t \in Client => \A c \in Client \ {t} : call'[t].lrq # Nobody => call'[t].lrq # call[c].lrq
      BY <2>1, OwnRequest
    <2>11. QED
      BY <2>1, <2>5, <2>6, <2>7, <2>8, <2>9, <2>10, StepKeeps
  <1>6. CASE ~Compatible(l, StateWithout(r)) /\ mode # "no_wait"
    <2>1. /\ wait_for_request(asked, r, k, mode)
          /\ call' = [call EXCEPT ![t] = [op |-> "convert", lrq |-> r, key |-> k,
                                          level |-> l, mode |-> mode, ast |-> ast]]
          /\ poked' = poked \ {t}
          /\ thr' = [thr EXCEPT ![t].pc = "blockage"]
          /\ UNCHANGED work
      BY <1>6 DEF internal_convert, Goto
    <2>2. t \in Client /\ thr[t] = AtRest /\ Home[t] = o /\ thr[t].pc = "idle" /\ call[t].lrq = Nobody
      <3>1. t \in Client /\ thr[t] = AtRest /\ Home[t] = o
        BY <1>6 DEF MayCall
      <3>2. QED
        BY <3>1 DEF AtRest, IInv, WaitersSound, Waiter, WaitPC
    <2>3. /\ Table(lrq, lbl) /\ own \in [Owner -> OwnBlock] /\ ~Waits(lrq[r])
          /\ asked \in [Request -> LrqBlock] /\ r \in Request /\ k \in Key
          /\ \A q \in Request \ {r} : asked[q] = lrq[q]
          /\ asked[r].lock = k /\ asked[r].owner \in Owner /\ asked[r].state = lrq[r].state
          /\ "repost" \notin asked[r].flags /\ lrq[r].lock = k
      BY <1>1, <1>3 DEF IInv, ControlTypes, Pending, Waits
    <2> HIDE DEF asked, k
    <2>4. /\ Table(lrq', lbl')
          /\ lrq'[r].lock = k /\ lrq'[r].owner = asked[r].owner
          /\ Pending(r)' /\ "repost" \notin lrq'[r].flags
          /\ OthersKept(r)
          /\ own' \in [Owner -> OwnBlock]
          /\ \A x \in Owner : /\ own'[x].inuse = own[x].inuse /\ own'[x].count = own[x].count
                              /\ own'[x].asts = own[x].asts
                              /\ own'[x].waits = IF x = asked[r].owner THEN own[x].waits + 1
                                                                       ELSE own[x].waits
      BY <2>1, <2>3, WaitEffect, ZenonT(40)
    <2>5. /\ \A u \in Thread \ {t} : thr'[u] = thr[u]
          /\ thr'[t] = [thr[t] EXCEPT !.pc = "blockage"]
          /\ thr' \in [Thread -> ThrBlock]
      BY <2>1 DEF IInv, ControlTypes, ThrBlock
    <2>6. /\ thr'[t].pc = "blockage" /\ thr'[t].ast = thr[t].ast /\ thr'[t].block = thr[t].block
          /\ thr'[t].dead = thr[t].dead
      BY <2>5 DEF IInv, ControlTypes, ThrBlock
    <2>7. /\ \A c \in Client \ {t} : call'[c] = call[c]
          /\ call'[t].lrq = r
          /\ call' \in [Client -> CallBlock]
      BY <1>1, <2>1, <2>2 DEF IInv, ControlTypes, CallBlock
    <2>8. StepOf(t) /\ InUseKept
      BY <1>1, <2>1, <2>4, <2>5, <2>7 DEF StepOf, InUseKept
    <2>9. ControlTypes'
      BY <2>1, <2>2, <2>4, <2>5, <2>7 DEF IInv, ControlTypes
    <2>10. \A q \in Request : SoundFor(t, q)
      <3>1. \A q \in Request \ {r} : SoundFor(t, q)
        BY <2>2, <2>4, <2>8, SameIsSound, ConstantTypes DEF OthersKept
      <3>2. own'[o].inuse
        BY <2>4, HeldRequest
      <3>3. SoundFor(t, r)
        BY <1>1, <1>3, <2>2, <2>4, <2>7, <3>2, ConstantTypes DEF SoundFor
      <3>4. QED
        BY <3>1, <3>3
    <2>11. Counted'
      <3>1. \A u \in Thread : thr'[u].ast = thr[u].ast /\ thr'[u].block = thr[u].block
        BY <2>5, <2>6
      <3>2. QED
        BY <1>3, <2>2, <2>4, <2>7, <3>1, WaitBegins
    <2>12. Waiter(t)' /\ \A c \in Client \ {t} : call'[t].lrq # call[c].lrq
      <3>1. r # Nobody
        BY <1>1, ConstantTypes
      <3>2. QED
        BY <1>1, <1>3, <2>2, <2>4, <2>6, <2>7, <3>1 DEF Waiter, WaitPC
    <2>13. QED
      BY <2>1, <2>2, <2>4, <2>6, <2>8, <2>9, <2>10, <2>11, <2>12, StepKeeps
  <1>7. QED
    BY <1>4, <1>5, <1>6

\* convert keeps the invariant.
LEMMA convertKeeps ==
    ASSUME IInv, NEW t \in Thread, convert(t)
    PROVE  IInv'
  <1>1. PICK o \in Owner, l \in Level, m \in Mode, a \in HasAst :
           /\ MayCall(t, o) /\ own[o].count # 0
           /\ thr[t].ast => m = "no_wait"
           /\ \E r \in HeldBy(o) : internal_convert(t, r, l, m, a, lrq[r].physical)
           /\ mutex' = t
           /\ UNCHANGED <<prc, cancelled>>
    BY DEF convert, Usable, IInv, ControlTypes, OwnBlock
  <1>2. PICK r \in HeldBy(o) : internal_convert(t, r, l, m, a, lrq[r].physical)
    BY <1>1
  <1>3. l \in AnyLevel /\ m \in {"no_wait", "timeout", "wait"} /\ a \in BOOLEAN
    BY Constants DEF AnyLevel
  <1>4. lrq[r].physical \in AnyLevel
    <2>1. r \in Request
      BY <1>1, HeldRequest
    <2>2. QED
      BY <2>1 DEF IInv, Table, LrqBlock
  <1>5. QED
    BY <1>1, <1>2, <1>3, <1>4, ConvertKeeps

\* Every set of levels has a highest one.
LEMMA HighestOfLevels ==
    ASSUME NEW S \in SUBSET AnyLevel, 0 \in S
    PROVE  \E s \in S : \A x \in S : x <= s
  <1>0. \A x \in S : x \in {0, 1, 2, 3, 4, 5, 6}
    BY DEF AnyLevel
  <1>1. CASE 6 \in S
    BY <1>0, <1>1
  <1>2. CASE 5 \in S /\ 6 \notin S
    BY <1>0, <1>2
  <1>3. CASE 4 \in S /\ 5 \notin S /\ 6 \notin S
    BY <1>0, <1>3
  <1>4. CASE 3 \in S /\ 4 \notin S /\ 5 \notin S /\ 6 \notin S
    BY <1>0, <1>4
  <1>5. CASE 2 \in S /\ 3 \notin S /\ 4 \notin S /\ 5 \notin S /\ 6 \notin S
    BY <1>0, <1>5
  <1>6. CASE 1 \in S /\ 2 \notin S /\ 3 \notin S /\ 4 \notin S /\ 5 \notin S /\ 6 \notin S
    BY <1>0, <1>6
  <1>7. CASE 1 \notin S /\ 2 \notin S /\ 3 \notin S /\ 4 \notin S /\ 5 \notin S /\ 6 \notin S
    BY <1>0, <1>7
  <1>8. QED
    BY <1>1, <1>2, <1>3, <1>4, <1>5, <1>6, <1>7

\* downgrade always finds a level: LCK_none is compatible with every other.
LEMMA DowngradeFinds ==
    ASSUME Table(lrq, lbl), NEW r \in Request
    PROVE  DowngradeLevel(r) \in AnyLevel
  <1> DEFINE asked == {lrq[q].requested : q \in {x \in Requests(lrq[r].lock) \ {r} : Pending(x)}}
             A == asked \cup {0}
             fit == {s \in 0..lrq[r].state : Compatible(PendingState(r), s)}
  <1>1. A \in SUBSET AnyLevel /\ 0 \in A
    BY BlockTypes DEF Requests, AnyLevel
  <1>2. \E s \in A : \A x \in A : x <= s
    <2> HIDE DEF A
    <2>1. QED
      BY <1>1, HighestOfLevels
  <1>3. PendingState(r) \in AnyLevel
    <2>1. PendingState(r) = CHOOSE s \in A : \A x \in asked : x <= s
      BY DEF PendingState, LCK_none
    <2>2. \E s \in A : \A x \in asked : x <= s
      BY <1>2
    <2>3. PendingState(r) \in A
      <3> HIDE DEF asked, A
      <3>1. QED
        BY <2>1, <2>2
    <2>4. QED
      BY <1>1, <2>3
  <1>4. lrq[r].state \in AnyLevel
    BY BlockTypes
  <1>5. fit \in SUBSET AnyLevel /\ 0 \in fit
    BY <1>3, <1>4, NoneIsCompatible DEF AnyLevel
  <1>6. \E s \in fit : \A x \in fit : x <= s
    <2> HIDE DEF fit
    <2>1. QED
      BY <1>5, HighestOfLevels
  <1>7. \E s \in 0..lrq[r].state : /\ Compatible(PendingState(r), s)
                                   /\ \A x \in 0..lrq[r].state : x > s => ~Compatible(PendingState(r), x)
    BY <1>4, <1>6 DEF AnyLevel
  <1>8. DowngradeLevel(r) \in 0..lrq[r].state
    BY <1>7 DEF DowngradeLevel
  <1>9. QED
    BY <1>4, <1>8 DEF AnyLevel

\* downgrade keeps the invariant, whichever level it finds.
LEMMA downgradeKeeps ==
    ASSUME IInv, NEW t \in Thread, downgrade(t)
    PROVE  IInv'
  <1>0. PICK o \in Owner :
           /\ MayCall(t, o) /\ own[o].count # 0
           /\ \E r \in HeldBy(o) :
                \/ release_request(r) /\ UNCHANGED <<own, thr, call, poked>>
                \/ internal_convert(t, r, DowngradeLevel(r), "no_wait", lrq[r].ast, DowngradeLevel(r))
           /\ mutex' = t
           /\ UNCHANGED <<prc, cancelled>>
    BY DEF downgrade, Usable, IInv, ControlTypes, OwnBlock
  <1>1. PICK r \in HeldBy(o) :
           /\ MayCall(t, o) /\ own[o].count # 0
           /\ \/ release_request(r) /\ UNCHANGED <<own, thr, call, poked>>
              \/ internal_convert(t, r, DowngradeLevel(r), "no_wait", lrq[r].ast, DowngradeLevel(r))
           /\ mutex' = t
           /\ UNCHANGED <<prc, cancelled>>
    BY <1>0
  <1>2. CASE release_request(r) /\ UNCHANGED <<own, thr, call, poked>>
    BY <1>1, <1>2, ReleaseKeeps
  <1>3. CASE internal_convert(t, r, DowngradeLevel(r), "no_wait", lrq[r].ast, DowngradeLevel(r))
    <2>1. r \in Request
      BY <1>1, HeldRequest
    <2>2. DowngradeLevel(r) \in AnyLevel
      BY <2>1, DowngradeFinds DEF IInv
    <2>3. lrq[r].ast \in BOOLEAN
      BY <2>1 DEF IInv, Table, LrqBlock
    <2>4. QED
      BY <1>1, <1>3, <2>2, <2>3, ConvertKeeps
  <1>4. QED
    BY <1>1, <1>2, <1>3

\* repost keeps the invariant.
LEMMA repostKeeps ==
    ASSUME IInv, NEW t \in Thread, repost(t)
    PROVE  IInv'
  <1>1. PICK o \in Owner, r \in FreeRequests :
           /\ MayCall(t, o) /\ own[o].inuse
           /\ lrq' = [lrq EXCEPT ![r] = [FreeLrq EXCEPT !.owner = o, !.ast = TRUE, !.flags = {"repost"}]]
           /\ thr' = thr \/ thr' = [thr EXCEPT ![t].todo = {o}]
           /\ mutex' = t
           /\ UNCHANGED <<lbl, own, prc, work, call, poked, cancelled>>
    BY DEF repost
  <1> DEFINE b == [FreeLrq EXCEPT !.owner = o, !.ast = TRUE, !.flags = {"repost"}]
  <1>2. /\ r \in Request /\ lrq[r].lock = Nobody /\ ~Pending(r)
        /\ \A c \in Client : call[c].lrq # r
    <2>1. r \in Request /\ lrq[r].owner = Nobody
      BY DEF FreeRequests
    <2>2. OffQueue(lrq[r])
      BY <2>1 DEF IInv, Table
    <2>3. QED
      BY <2>1, <2>2, ConstantTypes DEF OffQueue, Waits, Pending, IInv, WaitersSound, Waiter
  <1>3. /\ b \in LrqBlock /\ b.lock = Nobody /\ b.state = 0 /\ ~Waits(b)
        /\ b.owner = o /\ "repost" \in b.flags /\ "pending" \notin b.flags
    <2>1. FreeLrq.lock = Nobody /\ FreeLrq.state = 0
      BY DEF FreeLrq
    <2>2. {"repost"} \in SUBSET LrqFlag
      BY DEF LrqFlag
    <2>3. /\ b \in LrqBlock /\ b.lock = FreeLrq.lock /\ b.state = FreeLrq.state
          /\ b.owner = o /\ b.flags = {"repost"}
      BY <2>2, FreeLrqTyped DEF LrqBlock
    <2> HIDE DEF b
    <2>4. QED
      BY <2>1, <2>3 DEF Waits
  <1>4. lrq' = [lrq EXCEPT ![r] = b]
    BY <1>1
  <1> HIDE DEF b
  <1>5. Table(lrq', lbl') /\ OthersKept(r) /\ lrq'[r] = b
    BY <1>1, <1>2, <1>3, <1>4, OffQueueEffect DEF IInv
  <1>6. /\ \A u \in Thread \ {t} : thr'[u] = thr[u]
        /\ thr' \in [Thread -> ThrBlock]
        /\ thr'[t].ast = thr[t].ast /\ thr'[t].block = thr[t].block
        /\ thr'[t].dead = thr[t].dead /\ thr'[t].pc = thr[t].pc
    <2>1. CASE thr' = thr
      BY <2>1 DEF IInv, ControlTypes
    <2>2. CASE thr' = [thr EXCEPT ![t].todo = {o}]
      BY <2>2 DEF IInv, ControlTypes, ThrBlock
    <2>3. QED
      BY <1>1, <2>1, <2>2
  <1>7. StepOf(t) /\ InUseKept /\ ControlTypes'
    BY <1>1, <1>6 DEF StepOf, InUseKept, MayCall, IInv, ControlTypes
  <1>8. \A q \in Request : SoundFor(t, q)
    <2>1. \A q \in Request \ {r} : SoundFor(t, q)
      BY <1>1, <1>5, <1>7, SameIsSound DEF OthersKept
    <2>2. SoundFor(t, r)
      BY <1>1, <1>2, <1>3, <1>5 DEF SoundFor, Pending
    <2>3. QED
      BY <2>1, <2>2
  <1>9. Counted'
    <2>1. \A u \in Thread : thr'[u].ast = thr[u].ast /\ thr'[u].block = thr[u].block
      BY <1>6
    <2>2. QED
      BY <1>1, <2>1 DEF IInv, Counted, WaitersOf, AstsOf
  <1>10. t \in Client => Waiter(t)'
    BY <1>1, <1>2, <1>5, <1>6, OwnWaiterKept DEF OthersKept, SameBlock
  <1>11. t \in Client => \A c \in Client \ {t} : call'[t].lrq # Nobody => call'[t].lrq # call[c].lrq
    BY <1>1, OwnRequest
  <1>12. QED
    BY <1>1, <1>5, <1>6, <1>7, <1>8, <1>9, <1>10, <1>11, StepKeeps

\* A lock without requests has no counts.
LEMMA NewLock ==
    ASSUME Table(lrq, lbl), NEW k \in Key, Requests(k) = {}
    PROVE  lbl[k].counts = FreeLbl.counts /\ lock_state(FreeLbl.counts) = 0
  <1>1. \A j \in 1..6 : Held(lrq, k, j) = {}
    BY DEF Requests, Held
  <1>2. lbl[k].counts = CountsOf(lrq, k)
    BY DEF Table, Exact
  <1>3. lbl[k].counts = FreeLbl.counts
    BY <1>1, <1>2, FS_EmptySet DEF CountsOf, FreeLbl
  <1>4. FreeLbl.counts \in Counts /\ \A j \in 1..6 : FreeLbl.counts[j] = 0
    BY DEF FreeLbl, Counts
  <1>5. IsState(FreeLbl.counts, 0) /\ 0 \in AnyLevel
    BY <1>4 DEF IsState, LCK_none, AnyLevel
  <1>6. QED
    BY <1>3, <1>4, <1>5, StateIsUnique

\* A free request block and the request that enqueue makes of it.
LEMMA NewRequest ==
    ASSUME IInv, NEW t \in Client, call[t].key \in Key, NEW r \in FreeRequests,
           NEW x \in AnyLevel, NEW rq, rq = [lrq EXCEPT ![r] = NewLrq(t, x)]
    PROVE  /\ r \in Request /\ rq \in [Request -> LrqBlock]
           /\ \A q \in Request \ {r} : rq[q] = lrq[q]
           /\ rq[r].lock = call[t].key /\ rq[r].owner = Home[t]
           /\ rq[r].requested = call[t].level /\ rq[r].state = 0 /\ rq[r].flags = {}
           /\ lrq[r].lock = Nobody /\ lrq[r].state = 0 /\ ~Waits(lrq[r])
           /\ \A c \in Client : call[c].lrq # r
  <1>1. r \in Request /\ lrq[r].owner = Nobody
    BY DEF FreeRequests
  <1>2. OffQueue(lrq[r]) /\ lrq \in [Request -> LrqBlock]
    BY <1>1 DEF IInv, Table
  <1>3. lrq[r].lock = Nobody /\ lrq[r].state = 0 /\ ~Waits(lrq[r])
    BY <1>1, <1>2 DEF OffQueue
  <1>4. \A c \in Client : call[c].lrq # r
    BY <1>1, ConstantTypes DEF IInv, WaitersSound, Waiter
  <1>5. NewLrq(t, x) \in LrqBlock
    <2>1. Cardinality(Requests(call[t].key)) + 1 \in Nat
      <3>1. IsFiniteSet(Request) /\ Requests(call[t].key) \in SUBSET Request
        BY Constants DEF Requests
      <3>2. QED
        BY <3>1, FS_Subset, FS_CardinalityType
    <2>2. call[t].level \in AnyLevel /\ call[t].ast \in BOOLEAN
      BY DEF IInv, ControlTypes, CallBlock
    <2>3. 0 \in AnyLevel /\ {} \in SUBSET LrqFlag /\ Home[t] \in Owner
      BY ConstantTypes DEF AnyLevel
    <2>4. QED
      BY <2>1, <2>2, <2>3 DEF NewLrq, LrqBlock, LCK_none
  <1>6. /\ NewLrq(t, x).lock = call[t].key /\ NewLrq(t, x).owner = Home[t]
        /\ NewLrq(t, x).requested = call[t].level /\ NewLrq(t, x).state = 0
        /\ NewLrq(t, x).flags = {}
    BY DEF NewLrq, LCK_none
  <1>7. rq \in [Request -> LrqBlock] /\ rq[r] = NewLrq(t, x) /\ \A q \in Request \ {r} : rq[q] = lrq[q]
    BY <1>1, <1>2, <1>5
  <1>8. QED
    BY <1>1, <1>3, <1>4, <1>6, <1>7

\* The return from a call: the thread is at rest again.
LEMMA ReturnsEffect ==
    ASSUME IInv, NEW t \in Client, Returns(t)
    PROVE  /\ call' \in [Client -> CallBlock] /\ thr' \in [Thread -> ThrBlock]
           /\ \A c \in Client \ {t} : call'[c] = call[c]
           /\ call'[t].lrq = Nobody
           /\ \A u \in Thread \ {t} : thr'[u] = thr[u]
           /\ thr'[t].pc = "idle" /\ thr'[t].ast = thr[t].ast /\ thr'[t].block = thr[t].block
           /\ thr'[t].dead = thr[t].dead
           /\ Waiter(t)'
           /\ \A c \in Client : call'[c].lrq # Nobody => call[c].lrq # Nobody
           /\ \A u \in Thread : thr'[u].ast = thr[u].ast /\ thr'[u].block = thr[u].block
  <1>1. /\ call' = [call EXCEPT ![t] = NoCall] /\ thr' = [thr EXCEPT ![t].pc = "idle"]
        /\ call \in [Client -> CallBlock] /\ thr \in [Thread -> ThrBlock] /\ t \in Thread
    BY ConstantTypes DEF Returns, Goto, IInv, ControlTypes
  <1>2. NoCall \in CallBlock /\ NoCall.lrq = Nobody
    BY DEF NoCall, CallBlock, AnyLevel
  <1>3. /\ call' \in [Client -> CallBlock] /\ call'[t].lrq = Nobody
        /\ \A c \in Client \ {t} : call'[c] = call[c]
    BY <1>1, <1>2
  <1>4. /\ thr' \in [Thread -> ThrBlock] /\ \A u \in Thread \ {t} : thr'[u] = thr[u]
        /\ thr'[t].pc = "idle" /\ thr'[t].ast = thr[t].ast /\ thr'[t].block = thr[t].block
        /\ thr'[t].dead = thr[t].dead
    BY <1>1 DEF ThrBlock
  <1>5. Waiter(t)'
    BY <1>3, <1>4 DEF Waiter, WaitPC
  <1>6. QED
    BY <1>3, <1>4, <1>5

\* A thread that waits for no request returns, granted or not.
LEMMA ReturnKeeps ==
    ASSUME IInv, NEW t \in Client, call[t].lrq = Nobody, mutex = t, mutex' = t,
           Returns(t), UNCHANGED <<prc, cancelled>>, Table(lrq, lbl)',
           \A q \in Request : SoundFor(t, q),
           own' \in [Owner -> OwnBlock], OwnersKept, poked' \subseteq Client,
           work' \in WorkBlock, work'.own = work.own, work'.prc = work.prc
    PROVE  IInv'
  <1>1. /\ call' \in [Client -> CallBlock] /\ thr' \in [Thread -> ThrBlock]
        /\ \A c \in Client \ {t} : call'[c] = call[c]
        /\ call'[t].lrq = Nobody
        /\ \A u \in Thread \ {t} : thr'[u] = thr[u]
        /\ thr'[t].pc = "idle" /\ thr'[t].ast = thr[t].ast /\ thr'[t].block = thr[t].block
        /\ thr'[t].dead = thr[t].dead
        /\ Waiter(t)'
        /\ \A c \in Client : call'[c].lrq # Nobody => call[c].lrq # Nobody
        /\ \A u \in Thread : thr'[u].ast = thr[u].ast /\ thr'[u].block = thr[u].block
    BY ReturnsEffect
  <1>2. t \in Thread /\ prc[Pid(t)].alive
    BY ConstantTypes, ThreadAlive
  <1>3. StepOf(t) /\ ControlTypes'
    BY <1>1, <1>2 DEF StepOf, IInv, ControlTypes
  <1>4. Counted'
    <2>1. \A o \in Owner : own'[o].waits >= own[o].waits /\ own'[o].asts >= own[o].asts
      BY DEF IInv, ControlTypes, OwnBlock, OwnersKept
    <2>2. QED
      BY <1>1, <2>1, CountedKept
  <1>5. \A o \in Owner : own'[o].inuse = own[o].inuse /\ own'[o].count = own[o].count
    BY DEF OwnersKept
  <1>6. QED
    BY <1>1, <1>2, <1>3, <1>4, <1>5, StepKeeps DEF WaitPC

\* The second part of enqueue keeps the invariant: granted, denied or waiting.
LEMMA EnqueueRequestKeeps ==
    ASSUME IInv, NEW t \in Client, EnqueueRequest(t)
    PROVE  IInv'
  <1> DEFINE k == call[t].key
             l == call[t].level
  <1>1. /\ mutex = t /\ thr[t].pc = "enqueue" /\ UNCHANGED <<prc, mutex, cancelled>>
        /\ mutex' = t
    BY DEF EnqueueRequest, Proceeds, Quiet
  <1>2. /\ t \in Thread /\ prc[Pid(t)].alive /\ call[t].lrq = Nobody
        /\ k \in Key /\ l \in AnyLevel /\ own[Home[t]].count # 0 /\ own[Home[t]].inuse
        /\ Home[t] \in Owner
    <2>1. t \in Thread /\ prc[Pid(t)].alive /\ Home[t] \in Owner
      BY <1>1, ConstantTypes, ThreadAlive
    <2>2. call[t].lrq = Nobody /\ k \in Key
      BY <1>1 DEF IInv, WaitersSound, Waiter, WaitPC
    <2>3. l \in AnyLevel
      BY DEF IInv, ControlTypes, CallBlock
    <2>4. own[Home[t]].count # 0
      BY <1>1 DEF IInv, ShutIsUnused
    <2>5. own[Home[t]].inuse
      BY <2>1, <2>4, ConstantTypes DEF IInv, GoneIsQuiet, Alive
    <2>6. QED
      BY <2>1, <2>2, <2>3, <2>4, <2>5
  <1>3. /\ Table(lrq, lbl) /\ own \in [Owner -> OwnBlock] /\ poked \subseteq Client
        /\ work \in WorkBlock
    BY DEF IInv, ControlTypes
  \* Nothing is granted: no room, or the request is denied at once.
  <1>4. CASE /\ UNCHANGED <<lrq, lbl, own, poked>> /\ Returns(t)
             /\ work' = work \/ work' = [work EXCEPT !.pend = k]
    <2>1. \A q \in Request : SameBlock(q)
      BY <1>4 DEF SameBlock, Pending
    <2>2. InUseKept /\ OwnersKept
      BY <1>4 DEF InUseKept, OwnersKept
    <2>3. \A q \in Request : SoundFor(t, q)
      BY <1>2, <2>1, <2>2, SameIsSound, ConstantTypes
    <2>4. work' \in WorkBlock /\ work'.own = work.own /\ work'.prc = work.prc
      BY <1>2, <1>3, <1>4 DEF WorkBlock
    <2>5. QED
      BY <1>1, <1>2, <1>3, <1>4, <2>2, <2>3, <2>4, ReturnKeeps
  \* The request is granted.
  <1>5. ASSUME NEW r \in FreeRequests, NEW counts, counts = lbl[k].counts,
               Compatible(l, lock_state(counts)),
               grant([lrq EXCEPT ![r] = NewLrq(t, l)], r, k, counts),
               Returns(t), work' = work \/ work' = [work EXCEPT !.pend = k]
        PROVE  IInv'
    <2> DEFINE rq == [lrq EXCEPT ![r] = NewLrq(t, l)]
    <2>1. /\ r \in Request /\ rq \in [Request -> LrqBlock]
          /\ \A q \in Request \ {r} : rq[q] = lrq[q]
          /\ rq[r].lock = k /\ rq[r].owner = Home[t]
          /\ rq[r].requested = l /\ rq[r].state = 0 /\ rq[r].flags = {}
          /\ lrq[r].lock = Nobody /\ lrq[r].state = 0 /\ ~Waits(lrq[r])
          /\ \A c \in Client : call[c].lrq # r
      BY <1>2, NewRequest
    <2>2. counts = Without(lbl[k].counts, lrq[r].state)
      BY <1>5, <2>1 DEF Without, LCK_none
    <2>3. /\ rq[r].owner \in Owner /\ "repost" \notin rq[r].flags
          /\ Waits(rq[r]) <=> Waits(lrq[r])
          /\ Compatible(rq[r].requested, lock_state(counts))
          /\ grant(rq, r, k, counts) /\ k \in Key
      BY <1>2, <1>5, <2>1 DEF Waits
    <2> HIDE DEF rq, k, l
    <2>4. /\ Table(lrq', lbl')
          /\ lrq'[r].lock = k /\ lrq'[r].owner = rq[r].owner
          /\ ~Pending(r)' /\ "repost" \notin lrq'[r].flags
          /\ OthersKept(r)
          /\ own' \in [Owner -> OwnBlock] /\ OwnersKept
          /\ poked' \subseteq Client
      BY <1>3, <2>1, <2>2, <2>3, GrantEffect
    <2>5. InUseKept
      BY <2>4 DEF InUseKept, OwnersKept
    <2>6. \A q \in Request : SoundFor(t, q)
      <3>1. \A q \in Request \ {r} : SoundFor(t, q)
        BY <1>2, <2>4, <2>5, SameIsSound, ConstantTypes DEF OthersKept
      <3>2. SoundFor(t, r)
        BY <1>2, <2>1, <2>4, <2>3, <2>5, ConstantTypes DEF SoundFor, InUseKept
      <3>3. QED
        BY <3>1, <3>2
    <2>7. work' \in WorkBlock /\ work'.own = work.own /\ work'.prc = work.prc
      <3>1. CASE work' = work
        BY <1>3, <3>1
      <3>2. CASE work' = [work EXCEPT !.pend = k]
        BY <1>3, <2>3, <3>2 DEF WorkBlock
      <3>3. QED
        BY <1>5, <3>1, <3>2
    <2>8. QED
      BY <1>1, <1>2, <1>5, <2>4, <2>6, <2>7, ReturnKeeps
  \* The request waits.
  <1>6. ASSUME NEW r \in FreeRequests,
               wait_for_request([lrq EXCEPT ![r] = NewLrq(t, LCK_none)], r, k, call[t].mode),
               call' = [call EXCEPT ![t].lrq = r], poked' = poked \ {t},
               thr' = [thr EXCEPT ![t].pc = "blockage"], UNCHANGED work
        PROVE  IInv'
    <2> DEFINE rq == [lrq EXCEPT ![r] = NewLrq(t, LCK_none)]
    <2>1. /\ r \in Request /\ rq \in [Request -> LrqBlock]
          /\ \A q \in Request \ {r} : rq[q] = lrq[q]
          /\ rq[r].lock = k /\ rq[r].owner = Home[t]
          /\ rq[r].requested = l /\ rq[r].state = 0 /\ rq[r].flags = {}
          /\ lrq[r].lock = Nobody /\ lrq[r].state = 0 /\ ~Waits(lrq[r])
          /\ \A c \in Client : call[c].lrq # r
      <3>1. LCK_none \in AnyLevel
        BY DEF LCK_none, AnyLevel
      <3>2. QED
        BY <1>2, <3>1, NewRequest
    <2>2. /\ rq[r].owner \in Owner /\ "repost" \notin rq[r].flags /\ rq[r].state = lrq[r].state
          /\ k \in Key /\ wait_for_request(rq, r, k, call[t].mode)
      BY <1>2, <1>6, <2>1
    <2> HIDE DEF rq, k, l
    <2>3. /\ Table(lrq', lbl')
          /\ lrq'[r].lock = k /\ lrq'[r].owner = rq[r].owner
          /\ Pending(r)' /\ "repost" \notin lrq'[r].flags
          /\ OthersKept(r)
          /\ own' \in [Owner -> OwnBlock]
          /\ \A x \in Owner : /\ own'[x].inuse = own[x].inuse /\ own'[x].count = own[x].count
                              /\ own'[x].asts = own[x].asts
                              /\ own'[x].waits = IF x = rq[r].owner THEN own[x].waits + 1
                                                                    ELSE own[x].waits
      BY <1>3, <2>1, <2>2, WaitEffect
    <2>4. /\ \A u \in Thread \ {t} : thr'[u] = thr[u]
          /\ thr' \in [Thread -> ThrBlock]
          /\ thr'[t].pc = "blockage" /\ thr'[t].ast = thr[t].ast /\ thr'[t].block = thr[t].block
          /\ thr'[t].dead = thr[t].dead
      BY <1>2, <1>6, ZenonT(40) DEF IInv, ControlTypes, ThrBlock
    <2>5. /\ \A c \in Client \ {t} : call'[c] = call[c]
          /\ call'[t].lrq = r
          /\ call' \in [Client -> CallBlock]
      BY <1>6, <2>1 DEF IInv, ControlTypes, CallBlock
    <2>6. StepOf(t) /\ InUseKept
      BY <1>1, <1>2, <2>3, <2>4, <2>5 DEF StepOf, InUseKept
    <2>7. ControlTypes'
      BY <1>1, <1>6, <2>3, <2>4, <2>5 DEF IInv, ControlTypes
    <2>8. \A q \in Request : SoundFor(t, q)
      <3>1. \A q \in Request \ {r} : SoundFor(t, q)
        BY <1>2, <2>3, <2>6, SameIsSound, ConstantTypes DEF OthersKept
      <3>2. SoundFor(t, r)
        BY <1>2, <2>1, <2>2, <2>3, <2>5, <2>6, ConstantTypes DEF SoundFor, InUseKept
      <3>3. QED
        BY <3>1, <3>2
    <2>9. Counted'
      <3>1. \A u \in Thread : thr'[u].ast = thr[u].ast /\ thr'[u].block = thr[u].block
        BY <2>4
      <3>2. QED
        BY <1>2, <2>1, <2>3, <2>5, <3>1, WaitBegins
    <2>10. Waiter(t)' /\ \A c \in Client \ {t} : call'[t].lrq # call[c].lrq
      <3>1. r # Nobody
        BY <2>1, ConstantTypes
      <3>2. QED
        BY <2>1, <2>2, <2>3, <2>4, <2>5, <3>1 DEF Waiter, WaitPC
    <2>11. QED
      BY <1>1, <1>2, <1>6, <2>3, <2>4, <2>6, <2>7, <2>8, <2>9, <2>10, StepKeeps
  <1>7. CASE \E r \in FreeRequests :
               /\ Requests(k) = {}
               /\ grant([lrq EXCEPT ![r] = NewLrq(t, l)], r, k, FreeLbl.counts)
               /\ Returns(t)
               /\ UNCHANGED work
    <2>1. FreeLbl.counts = lbl[k].counts /\ lock_state(FreeLbl.counts) = 0
      BY <1>2, <1>3, <1>7, NewLock
    <2>2. Compatible(l, lock_state(FreeLbl.counts))
      BY <1>2, <2>1, NoneIsCompatible
    <2> HIDE DEF k, l
    <2>3. QED
      BY <1>5, <1>7, <2>1, <2>2
  <1>8. CASE \E r \in FreeRequests : grant_or_que(t, r, k, l)
    <2>1. PICK r \in FreeRequests : grant_or_que(t, r, k, l)
      BY <1>8
    <2>2. lbl[k].state = lock_state(lbl[k].counts)
      BY <1>2, <1>3 DEF Table, Exact
    <2>3. CASE /\ Compatible(l, lbl[k].state)
               /\ grant([lrq EXCEPT ![r] = NewLrq(t, l)], r, k, lbl[k].counts)
               /\ work' = [work EXCEPT !.pend = k]
               /\ Returns(t)
      <3> HIDE DEF k, l
      <3>1. QED
        BY <1>5, <2>2, <2>3
    <2>4. CASE /\ work' = [work EXCEPT !.pend = k]
               /\ Returns(t)
               /\ UNCHANGED <<lrq, lbl, own, poked>>
      BY <1>4, <2>4
    <2>5. CASE /\ wait_for_request([lrq EXCEPT ![r] = NewLrq(t, LCK_none)], r, k, call[t].mode)
               /\ call' = [call EXCEPT ![t].lrq = r]
               /\ poked' = poked \ {t}
               /\ Goto(t, "blockage")
               /\ UNCHANGED work
      BY <1>6, <2>5 DEF Goto
    <2>6. QED
      BY <2>1, <2>3, <2>4, <2>5 DEF grant_or_que
  <1>9. QED
    BY <1>4, <1>7, <1>8 DEF EnqueueRequest

\* Steps of a loop that keeps the mutex: no thread's control state changes.
LEMMA LoopStepKeeps ==
    ASSUME IInv, NEW t \in Thread, mutex = t, UNCHANGED <<prc, mutex, thr, call, cancelled>>,
           Table(lrq, lbl)', \A q \in Request : SoundFor(t, q),
           \A q \in Request : t \in Client /\ call[t].lrq = q =>
              lrq'[q].owner = lrq[q].owner /\ lrq'[q].lock = lrq[q].lock /\ (Pending(q)' => Pending(q)),
           own' \in [Owner -> OwnBlock], OwnersKept, poked' \subseteq Client,
           work' \in WorkBlock, work'.own = work.own, work'.prc = work.prc
    PROVE  IInv'
  <1>1. prc[Pid(t)].alive
    BY ThreadAlive
  <1>2. StepOf(t) /\ ControlTypes'
    BY <1>1 DEF StepOf, IInv, ControlTypes
  <1>3. Counted'
    BY DEF IInv, Counted, WaitersOf, AstsOf, OwnersKept
  <1>4. t \in Client => Waiter(t)'
    BY OwnWaiterKept
  <1>5. t \in Client => \A c \in Client \ {t} : call'[t].lrq # Nobody => call'[t].lrq # call[c].lrq
    BY OwnRequest
  <1>6. \A o \in Owner : own'[o].inuse = own[o].inuse /\ own'[o].count = own[o].count
    BY DEF OwnersKept
  <1>7. QED
    BY <1>2, <1>3, <1>4, <1>5, <1>6, StepKeeps

\* A pending request may be granted at the state of its lock without it.
LEMMA GrantableFits ==
    ASSUME Table(lrq, lbl), NEW r \in Request, lrq[r].lock \in Key, Grantable(r)
    PROVE  Compatible(lrq[r].requested,
                      lock_state(Without(lbl[lrq[r].lock].counts, lrq[r].state)))
  <1>1. CASE lrq[r].state # LCK_none
    BY <1>1 DEF Grantable, StateWithout
  <1>2. CASE lrq[r].state = LCK_none
    BY <1>2 DEF Grantable, Without, Table, Exact
  <1>3. QED
    BY <1>1, <1>2

\* An iteration of post_pending keeps the invariant.
LEMMA post_pendingKeeps ==
    ASSUME IInv, NEW t \in Thread, post_pending(t)
    PROVE  IInv'
  <1> DEFINE k == work.pend
  <1>1. mutex = t /\ k \in Key /\ UNCHANGED <<prc, mutex, thr, call, cancelled>>
    BY DEF post_pending, IInv, ControlTypes, WorkBlock
  <1>2. /\ Table(lrq, lbl) /\ own \in [Owner -> OwnBlock] /\ poked \subseteq Client
        /\ work \in WorkBlock
    BY DEF IInv, ControlTypes
  <1>3. work' = work \/ work' = [work EXCEPT !.pend = Nobody]
    BY DEF post_pending
  <1>4. work' \in WorkBlock /\ work'.own = work.own /\ work'.prc = work.prc
    BY <1>2, <1>3 DEF WorkBlock
  <1>5. CASE UNCHANGED <<lrq, lbl, own, poked>>
    <2>1. \A q \in Request : SameBlock(q)
      BY <1>5 DEF SameBlock, Pending
    <2>2. InUseKept /\ OwnersKept
      BY <1>5 DEF InUseKept, OwnersKept
    <2>3. \A q \in Request : SoundFor(t, q)
      BY <1>1, <2>1, <2>2, SameIsSound
    <2>4. QED
      BY <1>1, <1>2, <1>4, <1>5, <2>1, <2>2, <2>3, LoopStepKeeps DEF SameBlock
  <1>6. ASSUME NEW r \in FirstPending(k), Grantable(r),
               grant(lrq, r, k, Without(lbl[k].counts, lrq[r].state))
        PROVE  IInv'
    <2> DEFINE counts == Without(lbl[k].counts, lrq[r].state)
    <2>1. /\ r \in Request /\ lrq[r].lock = k /\ Pending(r)
          /\ lrq[r].owner \in Owner /\ "repost" \notin lrq[r].flags
      <3>1. r \in Request /\ lrq[r].lock = k /\ Pending(r)
        BY DEF FirstPending, Requests
      <3>2. QED
        BY <1>1, <1>2, <3>1, PendingOnLock, ConstantTypes DEF IInv, BlocksSound
    <2>2. Compatible(lrq[r].requested, lock_state(counts))
      BY <1>1, <1>2, <1>6, <2>1, GrantableFits
    <2>3. lrq \in [Request -> LrqBlock] /\ grant(lrq, r, k, counts)
      BY <1>2, <1>6 DEF Table
    <2>4. counts = Without(lbl[k].counts, lrq[r].state)
      OBVIOUS
    <2> HIDE DEF k, counts
    <2>5. /\ Table(lrq', lbl')
          /\ lrq'[r].lock = k /\ lrq'[r].owner = lrq[r].owner
          /\ ~Pending(r)' /\ "repost" \notin lrq'[r].flags
          /\ OthersKept(r)
          /\ own' \in [Owner -> OwnBlock] /\ OwnersKept
          /\ poked' \subseteq Client
      BY <1>1, <1>2, <2>1, <2>2, <2>3, <2>4, GrantEffect
    <2>6. InUseKept
      BY <2>5 DEF InUseKept, OwnersKept
    <2>7. \A q \in Request : SoundFor(t, q)
      <3>1. \A q \in Request \ {r} : SoundFor(t, q)
        BY <1>1, <2>5, <2>6, SameIsSound DEF OthersKept
      <3>2. own[lrq[r].owner].inuse
        BY <2>1, ConstantTypes DEF IInv, BlocksSound
      <3>3. SoundFor(t, r)
        BY <1>1, <2>1, <2>5, <2>6, <3>2, ConstantTypes DEF SoundFor, InUseKept
      <3>4. QED
        BY <3>1, <3>3
    <2>8. \A q \in Request : t \in Client /\ call[t].lrq = q =>
              lrq'[q].owner = lrq[q].owner /\ lrq'[q].lock = lrq[q].lock /\ (Pending(q)' => Pending(q))
      BY <2>1, <2>5 DEF OthersKept, SameBlock
    <2>9. QED
      BY <1>1, <1>4, <2>5, <2>7, <2>8, LoopStepKeeps
  <1>7. ASSUME NEW r \in FirstPending(k), lrq' = JustGranted(r), UNCHANGED lbl,
               own' = post_wakeup(own, lrq[r].owner), poked' = PokedBy(lrq[r].owner)
        PROVE  IInv'
    <2>1. r \in Request /\ Pending(r) /\ lrq[r].owner \in Owner
      BY <1>2, PendingOnLock DEF FirstPending, Requests
    <2>2. own' \in [Owner -> OwnBlock] /\ OwnersKept /\ poked' \subseteq Client
      BY <1>2, <1>7, <2>1, WakeupEffect, PokeEffect
    <2>3. ASSUME NEW q \in Request
          PROVE  /\ lrq'[q] \in LrqBlock /\ lrq'[q].owner = lrq[q].owner
                 /\ lrq'[q].lock = lrq[q].lock /\ lrq'[q].state = lrq[q].state
                 /\ lrq'[q].flags \in {lrq[q].flags, lrq[q].flags \cup {"granted"}}
      <3>1. lrq[q] \in LrqBlock
        BY <1>2, BlockTypes
      <3>2. lrq'[q] = lrq[q] \/ lrq'[q] = [lrq[q] EXCEPT !.flags = lrq[q].flags \cup {"granted"}]
        BY <1>7 DEF JustGranted
      <3>3. QED
        BY <3>1, <3>2 DEF LrqBlock, LrqFlag
    <2>4. lrq' \in [Request -> LrqBlock]
      BY <1>7, <2>3 DEF JustGranted
    <2>5. \A q \in Request : SameBlock(q) /\ lrq'[q].state = lrq[q].state
      BY <2>3 DEF SameBlock, Pending
    <2>6. Table(lrq', lbl')
      BY <1>2, <1>7, <2>4, <2>5, MarkEffect
    <2>7. InUseKept
      BY <2>2 DEF InUseKept, OwnersKept
    <2>8. \A q \in Request : SoundFor(t, q)
      BY <1>1, <2>5, <2>7, SameIsSound
    <2>9. QED
      BY <1>1, <1>4, <2>2, <2>5, <2>6, <2>8, LoopStepKeeps DEF SameBlock
  <1>8. QED
    BY <1>5, <1>6, <1>7 DEF post_pending

\* The marking of blocking requests keeps the invariant.
LEMMA post_blockageKeeps ==
    ASSUME IInv, NEW t \in Client, post_blockage(t)
    PROVE  IInv'
  <1> DEFINE blockers == Notified(call[t].lrq)
  <1>1. /\ mutex = t /\ mutex' = t /\ thr[t].pc = "blockage"
        /\ UNCHANGED <<lbl, own, prc, mutex, work, call, poked, cancelled>>
        /\ lrq' = [b \in Request |->
                     IF b \in blockers /\ "blocking" \notin lrq[b].flags
                     THEN [lrq[b] EXCEPT !.flags = (@ \ {"granted"}) \cup {"blocking"}]
                     ELSE lrq[b]]
        /\ thr' = [thr EXCEPT ![t].todo = {lrq[b].owner : b \in blockers}, ![t].pc = "wait"]
    BY DEF post_blockage, Proceeds, Quiet
  <1>2. t \in Thread /\ prc[Pid(t)].alive /\ call[t].lrq # Nobody /\ Table(lrq, lbl)
    BY <1>1, ConstantTypes, ThreadAlive DEF IInv, WaitersSound, Waiter, WaitPC
  <1>3. {lrq[b].owner : b \in blockers} \in SUBSET Owner
    <2>1. call[t].lrq \in Request /\ lrq[call[t].lrq].lock \in Key
      BY <1>2 DEF IInv, ControlTypes, CallBlock, WaitersSound, Waiter
    <2>2. \A b \in blockers : b \in Request /\ lrq[b].lock \in Key
      BY <2>1 DEF Notified, Requests
    <2>3. QED
      BY <1>2, <2>2, BlockTypes
  <1> HIDE DEF blockers
  <1>4. /\ \A u \in Thread \ {t} : thr'[u] = thr[u]
        /\ thr' \in [Thread -> ThrBlock]
        /\ thr'[t].pc = "wait" /\ thr'[t].ast = thr[t].ast /\ thr'[t].block = thr[t].block
        /\ thr'[t].dead = thr[t].dead
    <2> DEFINE todo == {lrq[b].owner : b \in blockers}
    <2>1. thr \in [Thread -> ThrBlock] /\ thr[t] \in ThrBlock /\ todo \in SUBSET Owner
      BY <1>2, <1>3 DEF IInv, ControlTypes
    <2>2. thr' = [thr EXCEPT ![t].todo = todo, ![t].pc = "wait"]
      BY <1>1
    <2> HIDE DEF todo
    <2>3. thr'[t] = [thr[t] EXCEPT !.todo = todo, !.pc = "wait"] /\ \A u \in Thread \ {t} : thr'[u] = thr[u]
      BY <1>2, <2>1, <2>2
    <2>4. /\ thr'[t] \in ThrBlock
          /\ thr'[t].pc = "wait" /\ thr'[t].ast = thr[t].ast /\ thr'[t].block = thr[t].block
          /\ thr'[t].dead = thr[t].dead
      BY <2>1, <2>3 DEF ThrBlock
    <2>5. thr' \in [Thread -> ThrBlock]
      <3>1. \A u \in Thread : thr'[u] \in ThrBlock
        BY <2>1, <2>3, <2>4
      <3>2. QED
        BY <2>1, <2>2, <3>1
    <2>6. QED
      BY <2>3, <2>4, <2>5
  <1>5. ASSUME NEW q \in Request
        PROVE  /\ lrq'[q] \in LrqBlock /\ lrq'[q].owner = lrq[q].owner
               /\ lrq'[q].lock = lrq[q].lock /\ lrq'[q].state = lrq[q].state
               /\ lrq'[q].flags \in {lrq[q].flags, (lrq[q].flags \ {"granted"}) \cup {"blocking"}}
    <2>1. lrq[q] \in LrqBlock
      BY <1>2, BlockTypes
    <2>2. \/ lrq'[q] = lrq[q]
          \/ lrq'[q] = [lrq[q] EXCEPT !.flags = (lrq[q].flags \ {"granted"}) \cup {"blocking"}]
      BY <1>1
    <2>3. QED
      BY <2>1, <2>2 DEF LrqBlock, LrqFlag
  <1>6. lrq' \in [Request -> LrqBlock]
    BY <1>1, <1>5
  <1>7. \A q \in Request : SameBlock(q) /\ lrq'[q].state = lrq[q].state
    BY <1>5 DEF SameBlock, Pending
  <1>8. Table(lrq', lbl')
    BY <1>1, <1>2, <1>6, <1>7, MarkEffect
  <1>9. StepOf(t) /\ InUseKept /\ ControlTypes'
    BY <1>1, <1>2, <1>4 DEF StepOf, InUseKept, IInv, ControlTypes
  <1>10. \A q \in Request : SoundFor(t, q)
    BY <1>1, <1>2, <1>7, <1>9, SameIsSound
  <1>11. Counted'
    <2>1. \A u \in Thread : thr'[u].ast = thr[u].ast /\ thr'[u].block = thr[u].block
      BY <1>4
    <2>2. QED
      BY <1>1, <2>1 DEF IInv, Counted, WaitersOf, AstsOf
  <1>12. Waiter(t)' /\ own[Home[t]].count # 0
    <2>1. call[t].lrq \in Request /\ Waiter(t)
      BY <1>2 DEF IInv, ControlTypes, CallBlock, WaitersSound
    <2>2. own[Home[t]].count # 0
      BY <1>1 DEF IInv, ShutIsUnused, WaitPC
    <2>3. QED
      BY <1>1, <1>4, <1>7, <2>1, <2>2 DEF Waiter, WaitPC, SameBlock
  <1>13. \A c \in Client \ {t} : call'[t].lrq # call[c].lrq
    BY <1>1, <1>2, OwnRequest
  <1>14. QED
    BY <1>1, <1>2, <1>4, <1>8, <1>9, <1>10, <1>11, <1>12, <1>13, StepKeeps

\* A waiting thread rejects a pending request, its own or another one.
LEMMA RejectKeeps ==
    ASSUME IInv, NEW t \in Client, thr[t].pc \in WaitPC, NEW v \in Request, Pending(v),
           lrq' = RejectedLrq(lrq, v), lbl' = OnePendingLess(lrq[v].lock),
           UNCHANGED <<prc, call>>, own' \in [Owner -> OwnBlock], OwnersKept,
           mutex \in {t, Nobody}, mutex' = t,
           work' \in WorkBlock, work'.own = work.own, work'.prc = work.prc,
           poked' \subseteq Client, cancelled' \subseteq Client,
           NEW pc \in WaitPC, thr' = [thr EXCEPT ![t].pc = pc],
           pc = "exit" => v = call[t].lrq
    PROVE  IInv'
  <1>1. /\ t \in Thread /\ prc[Pid(t)].alive /\ call[t].lrq # Nobody /\ Table(lrq, lbl)
        /\ call[t].lrq \in Request /\ own[Home[t]].count # 0
    <2>1. call[t].lrq # Nobody
      BY DEF IInv, WaitersSound, Waiter
    <2>2. QED
      BY <2>1, ConstantTypes, ThreadAlive DEF WaitPC, IInv, ControlTypes, CallBlock, ShutIsUnused
  <1>2. /\ \A u \in Thread \ {t} : thr'[u] = thr[u]
        /\ thr'[t] = [thr[t] EXCEPT !.pc = pc]
        /\ thr' \in [Thread -> ThrBlock]
    BY <1>1 DEF IInv, ControlTypes, ThrBlock, WaitPC
  <1>3. /\ thr'[t].pc = pc /\ thr'[t].ast = thr[t].ast /\ thr'[t].block = thr[t].block
        /\ thr'[t].dead = thr[t].dead
    BY <1>1, <1>2 DEF IInv, ControlTypes, ThrBlock
  <1>4. /\ Table(lrq', lbl')
        /\ lrq'[v].lock = lrq[v].lock /\ lrq'[v].owner = lrq[v].owner
        /\ ~Pending(v)' /\ ("repost" \in lrq'[v].flags <=> "repost" \in lrq[v].flags)
        /\ OthersKept(v)
    BY <1>1, RejectEffect
  <1>5. StepOf(t) /\ InUseKept /\ ControlTypes'
    BY <1>1, <1>2 DEF StepOf, InUseKept, OwnersKept, IInv, ControlTypes
  <1>6. \A q \in Request : SoundFor(t, q)
    <2>1. \A q \in Request \ {v} : SoundFor(t, q)
      BY <1>1, <1>4, <1>5, SameIsSound DEF OthersKept
    <2>2. /\ lrq[v].owner \in Owner /\ own[lrq[v].owner].inuse /\ lrq[v].lock \in Key
          /\ "repost" \notin lrq[v].flags
      BY <1>1, PendingOnLock, ConstantTypes DEF IInv, BlocksSound
    <2>3. SoundFor(t, v)
      BY <1>4, <1>5, <2>2, ConstantTypes DEF SoundFor, InUseKept
    <2>4. QED
      BY <2>1, <2>3
  <1>7. Counted'
    <2>1. \A u \in Thread : thr'[u].ast = thr[u].ast /\ thr'[u].block = thr[u].block
      BY <1>2, <1>3
    <2>2. \A o \in Owner : own'[o].waits >= own[o].waits /\ own'[o].asts >= own[o].asts
      BY DEF IInv, ControlTypes, OwnBlock, OwnersKept
    <2>3. QED
      BY <2>1, <2>2, CountedKept
  <1>8. Waiter(t)'
    <2>1. Waiter(t)
      BY DEF IInv, WaitersSound
    <2>2. /\ lrq'[call[t].lrq].owner = lrq[call[t].lrq].owner
          /\ lrq'[call[t].lrq].lock = lrq[call[t].lrq].lock
      BY <1>1, <1>4 DEF OthersKept, SameBlock
    <2>3. pc = "exit" => ~Pending(call[t].lrq)'
      BY <1>4 DEF Pending
    <2>4. QED
      BY <1>1, <1>3, <2>1, <2>2, <2>3 DEF Waiter, WaitPC
  <1>9. \A c \in Client \ {t} : call'[t].lrq # call[c].lrq
    BY <1>1, OwnRequest
  <1>10. \A o \in Owner : own'[o].inuse = own[o].inuse /\ own'[o].count = own[o].count
    BY DEF OwnersKept
  <1>11. thr'[t].pc # "shutdown"
    BY <1>3 DEF WaitPC
  <1>12. QED
    BY <1>1, <1>3, <1>4, <1>5, <1>6, <1>7, <1>8, <1>9, <1>10, <1>11, StepKeeps

\* A waiter that gives up keeps the invariant.
LEMMA GivesUpKeeps ==
    ASSUME IInv, NEW t \in Client, GivesUp(t)
    PROVE  IInv'
  <1> DEFINE r == call[t].lrq
  <1>1. /\ thr' = [thr EXCEPT ![t].pc = "exit"] /\ Pending(r)
        /\ lrq' = RejectedLrq(lrq, r) /\ lbl' = OnePendingLess(lrq[r].lock)
        /\ UNCHANGED <<prc, call, cancelled>>
        /\ work' = [work EXCEPT !.probe = TRUE]
        /\ mutex \in {t, Nobody} /\ mutex' = t
        /\ poked' \subseteq poked
        /\ thr[t].pc \in WaitPC /\ "exit" \in WaitPC
    BY DEF GivesUp, Wakes, Goto, Proceeds, Quiet, WaitPC
  <1>2. OwnersKept /\ own' \in [Owner -> OwnBlock]
    BY ZenonT(40) DEF OwnersKept, GivesUp, Awoken, IInv, ControlTypes, OwnBlock
  <1>3. work' \in WorkBlock /\ work'.own = work.own /\ work'.prc = work.prc
    BY <1>1 DEF IInv, ControlTypes, WorkBlock
  <1>4. poked' \subseteq Client /\ cancelled' \subseteq Client
    BY <1>1 DEF IInv, ControlTypes
  <1>5. r \in Request
    BY <1>1 DEF IInv, ControlTypes, CallBlock, WaitersSound, Waiter
  <1>6. QED
    BY <1>1, <1>2, <1>3, <1>4, <1>5, RejectKeeps

\* The walk goes to pending requests only.
LEMMA WalkPending ==
    ASSUME NEW r \in Request, NEW v \in deadlock_walk(r)
    PROVE  v \in Request /\ Pending(v)
  <1> DEFINE S == {q \in Request : Pending(q)}
  <1>1. v \in Request /\ v \in Walk(WaitsFor(v))
    BY DEF deadlock_walk, Walk
  <1>2. \A x \in Request : WaitsFor(x) \subseteq S
    BY DEF WaitsFor
  <1>3. S \in SUBSET Request
    OBVIOUS
  <1> HIDE DEF S
  <1>4. WaitsFor(v) \subseteq S /\ \A x \in S : WaitsFor(x) \subseteq S
    BY <1>1, <1>2, <1>3
  <1>5. v \in S
    BY <1>1, <1>3, <1>4 DEF Walk
  <1>6. QED
    BY <1>1, <1>5 DEF S

\* The deadlock scan keeps the invariant, whichever request it rejects.
LEMMA deadlock_scanKeeps ==
    ASSUME IInv, NEW t \in Client, deadlock_scan(t)
    PROVE  IInv'
  <1> DEFINE r == call[t].lrq
  <1>1. /\ mutex = t /\ mutex' = t /\ thr[t].pc = "scan" /\ t # Nobody
        /\ UNCHANGED <<prc, mutex, work, call, cancelled>>
        /\ thr[t].pc \in WaitPC /\ "exit" \in WaitPC /\ "wait" \in WaitPC /\ "blockage" \in WaitPC
    BY ConstantTypes DEF deadlock_scan, Proceeds, Quiet, WaitPC
  <1>2. /\ Table(lrq, lbl) /\ own \in [Owner -> OwnBlock] /\ work \in WorkBlock
        /\ poked \subseteq Client /\ cancelled \subseteq Client /\ Home[t] \in Owner
    BY ConstantTypes DEF IInv, ControlTypes
  <1>3. r \in Request
    BY <1>1 DEF IInv, ControlTypes, CallBlock, WaitersSound, Waiter
  <1>4. CASE ~Pending(r) /\ Goto(t, "exit") /\ UNCHANGED <<lrq, lbl, own, poked>>
    <2>1. OwnersKept
      BY <1>4 DEF OwnersKept
    <2>2. QED
      BY <1>1, <1>2, <1>4, <2>1, WaitStepKeeps DEF Goto
  <1>5. ASSUME NEW own2, own' = own2, own2 \in {own, [own EXCEPT ![Home[t]].flags = @ \cup {"scanned"}]},
               Goto(t, "blockage"), UNCHANGED <<lrq, lbl, poked>>
        PROVE  IInv'
    <2>1. own' \in [Owner -> OwnBlock] /\ OwnersKept
      <3>1. CASE own' = own
        BY <1>2, <3>1 DEF OwnersKept
      <3>2. CASE own' = [own EXCEPT ![Home[t]].flags = @ \cup {"scanned"}]
        BY <1>2, <3>2 DEF OwnersKept, OwnBlock
      <3>3. QED
        BY <1>5, <3>1, <3>2
    <2>2. QED
      BY <1>1, <1>2, <1>5, <2>1, WaitStepKeeps DEF Goto
  <1>6. ASSUME NEW v \in deadlock_walk(r), Goto(t, "wait"),
               lrq' = RejectedLrq(lrq, v), lbl' = OnePendingLess(lrq[v].lock),
               LET rescan == [own EXCEPT ![lrq[v].owner].flags = @ \ {"scanned"}]
               IN  own' = rescan \/ own' = post_wakeup(rescan, lrq[v].owner),
               poked' = poked \/ poked' = PokedBy(lrq[v].owner)
        PROVE  IInv'
    <2>1. v \in Request /\ Pending(v)
      BY <1>3, WalkPending
    <2>2. lrq[v].owner \in Owner
      BY <1>2, <2>1, PendingOnLock
    <2>3. own' \in [Owner -> OwnBlock] /\ OwnersKept
      <3> DEFINE rescan == [own EXCEPT ![lrq[v].owner].flags = @ \ {"scanned"}]
      <3>1. /\ rescan \in [Owner -> OwnBlock]
            /\ \A o \in Owner : /\ rescan[o].inuse = own[o].inuse /\ rescan[o].count = own[o].count
                                /\ rescan[o].waits = own[o].waits /\ rescan[o].asts = own[o].asts
        BY <1>2, <2>2 DEF OwnBlock
      <3>2. own' = rescan \/ own' = post_wakeup(rescan, lrq[v].owner)
        BY <1>6
      <3> HIDE DEF rescan
      <3>3. CASE own' = rescan
        BY <3>1, <3>3 DEF OwnersKept
      <3>4. CASE own' = [rescan EXCEPT ![lrq[v].owner].flags = @ \cup {"wakeup"}]
        BY <2>2, <3>1, <3>4 DEF OwnersKept, OwnBlock
      <3>5. QED
        BY <3>2, <3>3, <3>4 DEF post_wakeup
    <2>4. poked' \subseteq Client
      BY <1>2, <1>6, <2>2, PokeEffect
    <2>5. thr' = [thr EXCEPT ![t].pc = "wait"]
      BY <1>6 DEF Goto
    <2>6. QED
      BY <1>1, <1>2, <1>6, <2>1, <2>3, <2>4, <2>5, RejectKeeps
  <1>7. QED
    BY <1>4, <1>5, <1>6 DEF deadlock_scan

\* A thread that leaves wait_for_request takes itself off own_waits.
LEMMA OneWaiterLess ==
    ASSUME IInv, NEW t \in Client, call[t].lrq # Nobody,
           own' = [own EXCEPT ![Home[t]].waits = @ - 1],
           call'[t].lrq = Nobody, \A c \in Client : call'[c].lrq # Nobody => call[c].lrq # Nobody,
           \A u \in Thread : thr'[u].ast = thr[u].ast /\ thr'[u].block = thr[u].block
    PROVE  /\ own' \in [Owner -> OwnBlock] /\ Counted'
           /\ \A o \in Owner : own'[o].inuse = own[o].inuse /\ own'[o].count = own[o].count
  <1> DEFINE h == Home[t]
             W == WaitersOf(h)
  <1>1. h \in Owner /\ own \in [Owner -> OwnBlock] /\ own[h] \in OwnBlock
    BY ConstantTypes DEF IInv, ControlTypes
  <1>2. t \in W /\ IsFiniteSet(W) /\ Cardinality(W) \in Nat
    <2>1. t \in W /\ W \subseteq Client
      BY DEF WaitersOf
    <2>2. QED
      BY <2>1, CountedFinite
  <1>3. IsFiniteSet(W \ {t}) /\ Cardinality(W \ {t}) = Cardinality(W) - 1
    BY <1>2, FS_RemoveElement
  <1>4. own[h].waits \in Nat /\ own[h].waits >= Cardinality(W) /\ Cardinality(W \ {t}) \in Nat
    <2>1. own[h].waits \in Nat
      BY <1>1 DEF OwnBlock
    <2>2. own[h].waits >= Cardinality(W)
      BY <1>1 DEF IInv, Counted
    <2>3. Cardinality(W \ {t}) \in Nat
      BY <1>3, FS_CardinalityType
    <2>4. QED
      BY <2>1, <2>2, <2>3
  <1>5. own[h].waits - 1 \in Nat /\ own[h].waits - 1 >= Cardinality(W \ {t})
    BY <1>2, <1>3, <1>4
  <1>6. own' = [own EXCEPT ![h].waits = own[h].waits - 1]
    OBVIOUS
  <1>w. W = WaitersOf(h)
    OBVIOUS
  <1>h. h = Home[t]
    OBVIOUS
  <1> HIDE DEF h, W
  <1>7. own'[h] = [own[h] EXCEPT !.waits = own[h].waits - 1] /\ \A o \in Owner \ {h} : own'[o] = own[o]
    BY <1>1, <1>6
  <1>8. /\ own'[h] \in OwnBlock /\ own'[h].waits = own[h].waits - 1 /\ own'[h].asts = own[h].asts
        /\ own'[h].inuse = own[h].inuse /\ own'[h].count = own[h].count
    BY <1>1, <1>5, <1>7 DEF OwnBlock
  <1>9. own' \in [Owner -> OwnBlock]
    <2>1. \A o \in Owner : own'[o] \in OwnBlock
      BY <1>1, <1>7, <1>8
    <2>2. QED
      BY <1>1, <1>6, <2>1
  <1>10. ASSUME NEW o \in Owner
         PROVE  own'[o].waits >= Cardinality(WaitersOf(o)') /\ own'[o].asts >= Cardinality(AstsOf(o)')
    <2>1. AstsOf(o)' = AstsOf(o) /\ own'[o].asts = own[o].asts /\ own[o].asts >= Cardinality(AstsOf(o))
      <3>1. AstsOf(o)' = AstsOf(o)
        BY DEF AstsOf
      <3>2. own'[o].asts = own[o].asts
        BY <1>7, <1>8
      <3>3. own[o].asts >= Cardinality(AstsOf(o))
        BY DEF IInv, Counted
      <3>4. QED
        BY <3>1, <3>2, <3>3
    <2>2. CASE o = h
      <3>1. WaitersOf(o)' \subseteq W \ {t}
        BY <1>w, <2>2 DEF WaitersOf
      <3>2. Cardinality(WaitersOf(o)') <= Cardinality(W \ {t}) /\ Cardinality(WaitersOf(o)') \in Nat
        BY <1>3, <3>1, FS_Subset, FS_CardinalityType
      <3>3. QED
        BY <1>4, <1>5, <1>8, <2>1, <2>2, <3>2
    <2>3. CASE o # h
      <3>1. WaitersOf(o)' \subseteq WaitersOf(o) /\ WaitersOf(o) \subseteq Client
        BY DEF WaitersOf
      <3>2. IsFiniteSet(WaitersOf(o)) /\ Cardinality(WaitersOf(o)) \in Nat
        BY <3>1, CountedFinite
      <3>3. Cardinality(WaitersOf(o)') <= Cardinality(WaitersOf(o)) /\ Cardinality(WaitersOf(o)') \in Nat
        BY <3>1, <3>2, FS_Subset, FS_CardinalityType
      <3>4. own'[o].waits = own[o].waits /\ own[o].waits \in Nat
        BY <1>1, <1>7, <2>3 DEF OwnBlock
      <3>5. own[o].waits >= Cardinality(WaitersOf(o))
        BY DEF IInv, Counted
      <3>6. QED
        BY <2>1, <3>2, <3>3, <3>4, <3>5
    <2>4. QED
      BY <2>2, <2>3
  <1>11. Counted'
    BY <1>10 DEF Counted
  <1>12. \A o \in Owner : own'[o].inuse = own[o].inuse /\ own'[o].count = own[o].count
    BY <1>7, <1>8
  <1>13. QED
    BY <1>9, <1>11, <1>12

\* The return from wait_for_request keeps the invariant.
LEMMA WaitEndsKeeps ==
    ASSUME IInv, NEW t \in Client, WaitEnds(t)
    PROVE  IInv'
  <1> DEFINE r == call[t].lrq
             k == lrq[r].lock
  <1>1. /\ mutex = t /\ mutex' = t /\ thr[t].pc = "exit" /\ Returns(t)
        /\ own' = [own EXCEPT ![Home[t]].waits = @ - 1]
        /\ UNCHANGED <<prc, mutex>> /\ poked' \subseteq poked /\ cancelled' \subseteq cancelled
    BY DEF WaitEnds, Proceeds, Quiet
  <1>2. /\ Table(lrq, lbl) /\ work \in WorkBlock
        /\ poked \subseteq Client /\ cancelled \subseteq Client
        /\ t \in Thread /\ prc[Pid(t)].alive
    BY <1>1, ConstantTypes, ThreadAlive DEF IInv, ControlTypes
  <1>3. r \in Request /\ r # Nobody /\ k \in Key /\ ~Pending(r)
    <2>1. Waiter(t) /\ call[t] \in CallBlock
      BY DEF IInv, ControlTypes, WaitersSound
    <2>2. r # Nobody
      BY <1>1, <2>1 DEF Waiter, WaitPC
    <2>3. QED
      BY <1>1, <2>1, <2>2 DEF Waiter, CallBlock
  <1>4. /\ call' \in [Client -> CallBlock] /\ thr' \in [Thread -> ThrBlock]
        /\ \A c \in Client \ {t} : call'[c] = call[c]
        /\ call'[t].lrq = Nobody
        /\ \A u \in Thread \ {t} : thr'[u] = thr[u]
        /\ thr'[t].pc = "idle" /\ thr'[t].ast = thr[t].ast /\ thr'[t].block = thr[t].block
        /\ thr'[t].dead = thr[t].dead
        /\ Waiter(t)'
        /\ \A c \in Client : call'[c].lrq # Nobody => call[c].lrq # Nobody
        /\ \A u \in Thread : thr'[u].ast = thr[u].ast /\ thr'[u].block = thr[u].block
    BY <1>1, ReturnsEffect
  <1>5. /\ own' \in [Owner -> OwnBlock] /\ Counted'
        /\ \A o \in Owner : own'[o].inuse = own[o].inuse /\ own'[o].count = own[o].count
    BY <1>1, <1>3, <1>4, OneWaiterLess
  <1>6. InUseKept /\ StepOf(t) /\ \A c \in Client \ {t} : call[c].lrq # r
    BY <1>1, <1>2, <1>3, <1>4, <1>5, OwnRequest DEF InUseKept, StepOf
  <1>7. /\ Table(lrq, lbl)' /\ \A q \in Request : SoundFor(t, q)
        /\ work' \in WorkBlock /\ work'.own = work.own /\ work'.prc = work.prc
    <2>1. CASE release_request(r)
      BY <1>2, <1>3, <1>6, <2>1, ReleaseSound
    <2>2. ASSUME NEW x \in AnyLevel, NEW y \in AnyLevel, NEW a \in BOOLEAN,
                 lrq' = [lrq EXCEPT ![r] = [lrq[r] EXCEPT !.flags = lrq[r].flags \ {"timeout"},
                                              !.requested = x, !.physical = y, !.ast = a]],
                 lbl' = lbl,
                 work' = work \/ work' = [work EXCEPT !.pend = k]
          PROVE  /\ Table(lrq, lbl)' /\ \A q \in Request : SoundFor(t, q)
                 /\ work' \in WorkBlock /\ work'.own = work.own /\ work'.prc = work.prc
      <3> DEFINE b == [lrq[r] EXCEPT !.flags = lrq[r].flags \ {"timeout"},
                                     !.requested = x, !.physical = y, !.ast = a]
      <3>1. lrq[r] \in LrqBlock /\ lrq \in [Request -> LrqBlock]
        BY <1>2, <1>3 DEF Table
      <3>2. /\ b \in LrqBlock /\ b.owner = lrq[r].owner /\ b.lock = lrq[r].lock
            /\ b.state = lrq[r].state /\ b.flags = lrq[r].flags \ {"timeout"}
        BY <2>2, <3>1 DEF LrqBlock
      <3>3. lrq' = [lrq EXCEPT ![r] = b]
        BY <2>2
      <3> HIDE DEF b, r, k
      <3>4. lrq' \in [Request -> LrqBlock] /\ lrq'[r] = b /\ \A q \in Request \ {r} : lrq'[q] = lrq[q]
        BY <1>3, <3>1, <3>2, <3>3
      <3>5. \A q \in Request : SameBlock(q) /\ lrq'[q].state = lrq[q].state
        BY <3>2, <3>4 DEF SameBlock, Pending
      <3>6. Table(lrq', lbl')
        BY <1>2, <2>2, <3>4, <3>5, MarkEffect
      <3>7. \A q \in Request : SoundFor(t, q)
        BY <1>2, <1>3, <1>6, <3>5, SameIsSound DEF r
      <3>8. work' \in WorkBlock /\ work'.own = work.own /\ work'.prc = work.prc
        BY <1>2, <1>3, <2>2 DEF WorkBlock
      <3>9. QED
        BY <3>6, <3>7, <3>8
    <2>3. /\ lrq[r] \in LrqBlock /\ lrq[r].state \in AnyLevel /\ lrq[r].requested \in AnyLevel
          /\ lrq[r].physical \in AnyLevel /\ lrq[r].ast \in BOOLEAN
      BY <1>2, <1>3 DEF Table, LrqBlock
    <2>4. call[t].level \in AnyLevel /\ call[t].ast \in BOOLEAN
      BY DEF IInv, ControlTypes, CallBlock
    <2>5. CASE /\ lrq' = [lrq EXCEPT ![r] = [[lrq[r] EXCEPT !.flags = @ \ {"timeout"}]
                                                EXCEPT !.requested = lrq[r].state]]
               /\ work' = [work EXCEPT !.pend = k]
               /\ UNCHANGED lbl
      <3>1. [[lrq[r] EXCEPT !.flags = @ \ {"timeout"}] EXCEPT !.requested = lrq[r].state]
              = [lrq[r] EXCEPT !.flags = lrq[r].flags \ {"timeout"}, !.requested = lrq[r].state,
                               !.physical = lrq[r].physical, !.ast = lrq[r].ast]
        BY <2>3 DEF LrqBlock
      <3>2. QED
        BY <2>2, <2>3, <2>5, <3>1, ZenonT(40)
    <2>6. CASE /\ lrq' = [lrq EXCEPT ![r] = [[lrq[r] EXCEPT !.flags = @ \ {"timeout"}]
                                                EXCEPT !.physical = call[t].level,
                                                       !.ast = call[t].ast]]
               /\ UNCHANGED <<lbl, work>>
      <3>1. [[lrq[r] EXCEPT !.flags = @ \ {"timeout"}] EXCEPT !.physical = call[t].level,
                                                              !.ast = call[t].ast]
              = [lrq[r] EXCEPT !.flags = lrq[r].flags \ {"timeout"}, !.requested = lrq[r].requested,
                               !.physical = call[t].level, !.ast = call[t].ast]
        BY <2>3 DEF LrqBlock
      <3>2. QED
        BY <2>2, <2>3, <2>4, <2>6, <3>1
    <2>7. QED
      BY <2>1, <2>5, <2>6 DEF WaitEnds
  <1>8. ControlTypes'
    BY <1>1, <1>2, <1>4, <1>5, <1>7 DEF IInv, ControlTypes
  <1>9. QED
    BY <1>1, <1>2, <1>4, <1>5, <1>6, <1>7, <1>8, StepKeeps DEF WaitPC

\* own_ast_count follows a thread that begins or ends an AST of owner o.
LEMMA AstCounted ==
    ASSUME IInv, NEW t \in Thread, NEW o \in Owner, thr[t].block = o, call' = call,
           NEW n \in Int, own' = [own EXCEPT ![o].asts = n],
           \A u \in Thread \ {t} : thr'[u] = thr[u],
           \/ n = own[o].asts + 1 /\ thr'[t].block = o
           \/ n = own[o].asts - 1 /\ thr[t].ast /\ ~thr'[t].ast
    PROVE  /\ own' \in [Owner -> OwnBlock] /\ Counted'
           /\ \A x \in Owner : own'[x].inuse = own[x].inuse /\ own'[x].count = own[x].count
  <1> DEFINE A == AstsOf(o)
  <1>1. own \in [Owner -> OwnBlock] /\ own[o] \in OwnBlock /\ own[o].asts \in Nat
    BY DEF IInv, ControlTypes, OwnBlock
  <1>2. A \subseteq Thread /\ IsFiniteSet(A) /\ Cardinality(A) \in Nat /\ own[o].asts >= Cardinality(A)
    <2>1. A \subseteq Thread
      BY DEF AstsOf
    <2>2. QED
      BY <2>1, CountedFinite DEF IInv, Counted
  <1>3. /\ AstsOf(o)' \subseteq Thread /\ IsFiniteSet(AstsOf(o)') /\ Cardinality(AstsOf(o)') \in Nat
    <2>1. AstsOf(o)' \subseteq Thread
      BY DEF AstsOf
    <2>2. QED
      BY <2>1, CountedFinite
  <1>a. A = AstsOf(o)
    OBVIOUS
  <1> HIDE DEF A
  <1>4. n \in Nat /\ n >= Cardinality(AstsOf(o)')
    <2>1. CASE n = own[o].asts + 1 /\ thr'[t].block = o
      <3>1. AstsOf(o)' \subseteq A \cup {t}
        BY <1>a DEF AstsOf
      <3>2. IsFiniteSet(A \cup {t}) /\ Cardinality(A \cup {t}) \in {Cardinality(A), Cardinality(A) + 1}
        BY <1>2, FS_AddElement
      <3>3. Cardinality(AstsOf(o)') <= Cardinality(A \cup {t})
        BY <3>1, <3>2, FS_Subset
      <3>4. QED
        BY <1>1, <1>2, <1>3, <2>1, <3>2, <3>3
    <2>2. CASE n = own[o].asts - 1 /\ thr[t].ast /\ ~thr'[t].ast
      <3>1. AstsOf(o)' \subseteq A \ {t} /\ t \in A
        BY <1>a, <2>2 DEF AstsOf
      <3>2. IsFiniteSet(A \ {t}) /\ Cardinality(A \ {t}) = Cardinality(A) - 1
        BY <1>2, <3>1, FS_RemoveElement
      <3>3. Cardinality(AstsOf(o)') <= Cardinality(A \ {t})
        BY <3>1, <3>2, FS_Subset
      <3>4. QED
        BY <1>1, <1>2, <1>3, <2>2, <3>2, <3>3
    <2>3. QED
      BY <2>1, <2>2
  <1>5. own'[o] = [own[o] EXCEPT !.asts = n] /\ \A x \in Owner \ {o} : own'[x] = own[x]
    BY <1>1
  <1>6. /\ own'[o] \in OwnBlock /\ own'[o].asts = n /\ own'[o].waits = own[o].waits
        /\ own'[o].inuse = own[o].inuse /\ own'[o].count = own[o].count
    BY <1>1, <1>4, <1>5 DEF OwnBlock
  <1>7. own' \in [Owner -> OwnBlock]
    <2>1. \A x \in Owner : own'[x] \in OwnBlock
      BY <1>1, <1>5, <1>6
    <2>2. QED
      BY <1>1, <2>1
  <1>8. ASSUME NEW x \in Owner
        PROVE  own'[x].waits >= Cardinality(WaitersOf(x)') /\ own'[x].asts >= Cardinality(AstsOf(x)')
    <2>1. WaitersOf(x)' = WaitersOf(x) /\ own'[x].waits = own[x].waits
      <3>1. WaitersOf(x)' = WaitersOf(x)
        BY DEF WaitersOf
      <3>2. own'[x].waits = own[x].waits
        BY <1>5, <1>6
      <3>3. QED
        BY <3>1, <3>2
    <2>2. own[x].waits >= Cardinality(WaitersOf(x)) /\ own[x].asts >= Cardinality(AstsOf(x))
      BY DEF IInv, Counted
    <2>3. CASE x = o
      BY <1>4, <1>6, <2>1, <2>2, <2>3
    <2>4. CASE x # o
      <3>1. AstsOf(x)' \subseteq AstsOf(x) /\ AstsOf(x) \subseteq Thread
        BY <2>4 DEF AstsOf
      <3>2. IsFiniteSet(AstsOf(x)) /\ Cardinality(AstsOf(x)) \in Nat
        BY <3>1, CountedFinite
      <3>3. Cardinality(AstsOf(x)') <= Cardinality(AstsOf(x)) /\ Cardinality(AstsOf(x)') \in Nat
        BY <3>1, <3>2, FS_Subset, FS_CardinalityType
      <3>4. own'[x].asts = own[x].asts /\ own[x].asts \in Nat
        BY <1>1, <1>5, <2>4 DEF OwnBlock
      <3>5. QED
        BY <2>1, <2>2, <3>2, <3>3, <3>4
    <2>5. QED
      BY <2>3, <2>4
  <1>9. Counted'
    BY <1>8 DEF Counted
  <1>10. QED
    BY <1>5, <1>6, <1>7, <1>9

\* A step of blocking_action: an AST of owner o begins or ends.
LEMMA DeliverKeeps ==
    ASSUME IInv, NEW t \in Thread, StepOf(t), ControlTypes', Table(lrq, lbl)', Counted',
           \A q \in Request : SoundFor(t, q),
           \A q \in Request : t \in Client /\ call[t].lrq = q =>
              lrq'[q].owner = lrq[q].owner /\ lrq'[q].lock = lrq[q].lock /\ (Pending(q)' => Pending(q)),
           \A x \in Owner : own'[x].inuse = own[x].inuse /\ own'[x].count = own[x].count,
           mutex' = t, work = NoWork, work' = NoWork, call' = call,
           thr'[t].pc = thr[t].pc, thr'[t].dead = thr[t].dead,
           thr'[t].block \in {thr[t].block, Nobody},
           thr'[t].ast => thr'[t].block \in Owner /\ own[thr'[t].block].inuse
    PROVE  IInv'
  <1>1. t \in Client => Waiter(t)'
    BY OwnWaiterKept
  <1>2. t \in Client => \A c \in Client \ {t} : call'[t].lrq # Nobody => call'[t].lrq # call[c].lrq
    BY OwnRequest
  <1>3. WaitersSound' /\ PendingOwned' /\ BlocksSound'
    BY <1>1, <1>2, RequestStepKeeps
  <1>4. DeadAtRest'
    BY DeadKept
  <1>5. /\ \A u \in Thread : thr'[u].pc = thr[u].pc /\ thr'[u].dead = thr[u].dead
        /\ \A u \in Thread : u # t => thr'[u] = thr[u]
    BY DEF StepOf
  <1>6. \A o \in Owner : Alive(o)' <=> Alive(o)
    BY ConstantTypes DEF StepOf, Alive
  <1>7. ShutIsUnused'
    BY <1>5, ConstantTypes DEF IInv, ShutIsUnused
  <1>8. WorkSound'
    <2>1. \A u \in Thread : \A p \in thr[u].dead : p \in Process
      BY DEF IInv, ControlTypes, ThrBlock
    <2>2. QED
      BY <1>5, <2>1, ConstantTypes DEF IInv, WorkSound, StepOf, NoWork
  <1>9. DeliversAtHome'
    BY <1>5, ConstantTypes DEF IInv, DeliversAtHome
  <1>10. GoneIsQuiet'
    <2>1. SUFFICES ASSUME NEW o \in Owner, Alive(o)'
                   PROVE  /\ ~own'[o].inuse => own'[o].count = 0
                          /\ ~own'[o].inuse \/ work'.own = o => AstsOf(o)' = {}
      BY DEF GoneIsQuiet
    <2>2. Alive(o) /\ work'.own # o
      BY <1>6, <2>1, ConstantTypes DEF NoWork
    <2>3. ~own[o].inuse => own[o].count = 0 /\ AstsOf(o) = {}
      BY <2>2 DEF IInv, GoneIsQuiet
    <2>4. ~own[o].inuse => AstsOf(o)' \subseteq AstsOf(o)
      BY <1>5 DEF AstsOf
    <2>5. QED
      BY <2>2, <2>3, <2>4
  <1>11. ShutdownsSound'
    BY <1>5, ConstantTypes DEF IInv, ShutdownsSound, NoWork
  <1>12. QED
    BY <1>3, <1>4, <1>7, <1>8, <1>9, <1>10, <1>11 DEF IInv

\* The return of an AST routine keeps the invariant.
LEMMA AstReturnsKeeps ==
    ASSUME IInv, NEW t \in Thread, AstReturns(t)
    PROVE  IInv'
  <1> DEFINE o == thr[t].block
  <1>1. /\ mutex = Nobody /\ mutex' = t /\ thr[t].ast
        /\ own' = [own EXCEPT ![o].asts = own[o].asts - 1]
        /\ thr' = [thr EXCEPT ![t].ast = FALSE]
        /\ UNCHANGED <<lrq, lbl, prc, work, call, poked, cancelled>>
    BY DEF AstReturns
  <1>2. o \in Owner /\ prc[Pid(t)].alive /\ work = NoWork
    BY <1>1, ThreadAlive DEF IInv, DeliversAtHome, ControlTypes, ThrBlock, WorkSound
  <1>3. own[o].asts - 1 \in Int
    BY <1>2 DEF IInv, ControlTypes, OwnBlock
  <1>4. /\ \A u \in Thread \ {t} : thr'[u] = thr[u]
        /\ thr' \in [Thread -> ThrBlock]
        /\ thr'[t].ast = FALSE /\ thr'[t].block = o /\ thr'[t].pc = thr[t].pc
        /\ thr'[t].dead = thr[t].dead
    BY <1>1 DEF IInv, ControlTypes, ThrBlock
  <1>5. /\ own' \in [Owner -> OwnBlock] /\ Counted'
        /\ \A x \in Owner : own'[x].inuse = own[x].inuse /\ own'[x].count = own[x].count
    BY <1>1, <1>2, <1>3, <1>4, AstCounted
  <1>6. StepOf(t) /\ InUseKept /\ ControlTypes'
    BY <1>1, <1>2, <1>4, <1>5 DEF StepOf, InUseKept, IInv, ControlTypes
  <1>7. \A q \in Request : SameBlock(q)
    BY <1>1 DEF SameBlock, Pending
  <1>8. \A q \in Request : SoundFor(t, q)
    BY <1>1, <1>6, <1>7, SameIsSound
  <1>9. Table(lrq, lbl)'
    BY <1>1 DEF IInv
  <1>10. QED
    BY <1>1, <1>2, <1>4, <1>5, <1>6, <1>7, <1>8, <1>9, DeliverKeeps DEF SameBlock

\* blocking_action takes a blocking request or a repost off own_blocks.
LEMMA TakenOff ==
    ASSUME IInv, NEW t \in Thread, NEW o \in Owner, NEW r \in Blocks(o),
           lrq' = [lrq EXCEPT ![r] = IF "blocking" \in lrq[r].flags
                                     THEN [lrq[r] EXCEPT !.flags = (lrq[r].flags \ {"blocking"}) \cup {"seen"}]
                                     ELSE FreeLrq],
           UNCHANGED <<lbl, call>>, InUseKept
    PROVE  /\ Table(lrq, lbl)'
           /\ \A q \in Request : SoundFor(t, q)
           /\ \A q \in Request : t \in Client /\ call[t].lrq = q =>
                lrq'[q].owner = lrq[q].owner /\ lrq'[q].lock = lrq[q].lock /\ (Pending(q)' => Pending(q))
  <1>1. /\ r \in Request /\ lrq[r].owner = o /\ Table(lrq, lbl) /\ lrq \in [Request -> LrqBlock]
        /\ lrq[r] \in LrqBlock /\ lrq[r].flags \in SUBSET LrqFlag
        /\ "blocking" \in lrq[r].flags \/ "repost" \in lrq[r].flags
    BY BlockTypes DEF Blocks, IInv, Table
  <1>2. CASE "blocking" \in lrq[r].flags
    <2> DEFINE flags == (lrq[r].flags \ {"blocking"}) \cup {"seen"}
    <2>1. flags \in SUBSET LrqFlag
      BY <1>1 DEF LrqFlag
    <2>2. Pending(r) <=> "pending" \in flags
      BY DEF Pending
    <2>3. "repost" \in flags <=> "repost" \in lrq[r].flags
      OBVIOUS
    <2>4. lrq' = [lrq EXCEPT ![r] = [lrq[r] EXCEPT !.flags = flags]]
      BY <1>2
    <2> HIDE DEF flags
    <2>5. lrq'[r] = [lrq[r] EXCEPT !.flags = flags] /\ \A q \in Request \ {r} : lrq'[q] = lrq[q]
      BY <1>1, <2>4
    <2>6. /\ lrq'[r] \in LrqBlock /\ lrq'[r].flags = flags /\ lrq'[r].owner = lrq[r].owner
          /\ lrq'[r].lock = lrq[r].lock /\ lrq'[r].state = lrq[r].state
      BY <1>1, <2>1, <2>5 DEF LrqBlock
    <2>7. \A q \in Request : lrq'[q] \in LrqBlock
      BY <1>1, <2>5, <2>6
    <2>8. lrq' \in [Request -> LrqBlock]
      BY <1>1, <2>4, <2>7
    <2>9. \A q \in Request : SameBlock(q) /\ lrq'[q].state = lrq[q].state
      BY <2>2, <2>3, <2>5, <2>6 DEF SameBlock, Pending
    <2>10. Table(lrq', lbl')
      BY <1>1, <2>8, <2>9, MarkEffect
    <2>11. \A q \in Request : SoundFor(t, q)
      BY <2>9, SameIsSound
    <2>12. QED
      BY <2>9, <2>10, <2>11 DEF SameBlock
  <1>3. CASE "blocking" \notin lrq[r].flags
    <2>1. lrq' = [lrq EXCEPT ![r] = FreeLrq] /\ lrq[r].lock = Nobody
      BY <1>1, <1>3 DEF IInv, BlocksSound
    <2>2. /\ FreeLrq \in LrqBlock /\ FreeLrq.lock = Nobody /\ FreeLrq.state = 0 /\ ~Waits(FreeLrq)
          /\ FreeLrq.owner = Nobody /\ FreeLrq.flags = {}
      BY FreeLrqTyped DEF FreeLrq, Waits
    <2>3. Table(lrq', lbl') /\ OthersKept(r) /\ lrq'[r] = FreeLrq
      BY <1>1, <2>1, <2>2, OffQueueEffect
    <2>4. \A c \in Client : call[c].lrq # r
      <3>1. \A c \in Client : Waiter(c)
        BY DEF IInv, WaitersSound
      <3>2. QED
        BY <1>1, <2>1, <3>1, ConstantTypes DEF Waiter
    <2>5. SoundFor(t, r)
      BY <1>1, <2>2, <2>3, <2>4 DEF SoundFor, Pending
    <2>6. \A q \in Request \ {r} : SoundFor(t, q)
      BY <2>3, SameIsSound DEF OthersKept
    <2>7. QED
      BY <2>3, <2>4, <2>5, <2>6 DEF OthersKept, SameBlock
  <1>4. QED
    BY <1>2, <1>3

\* An iteration of blocking_action keeps the invariant.
LEMMA blocking_actionKeeps ==
    ASSUME IInv, NEW t \in Thread, blocking_action(t)
    PROVE  IInv'
  <1> DEFINE o == thr[t].block
  <1>1. /\ mutex = t /\ mutex' = t /\ work = NoWork /\ ~thr[t].ast /\ o # Nobody
        /\ UNCHANGED <<lbl, prc, mutex, work, call, poked, cancelled>>
    BY DEF blocking_action, Quiet
  <1>2. /\ o \in Owner /\ prc[Pid(t)].alive /\ ProcOf[o] = Pid(t)
        /\ own \in [Owner -> OwnBlock] /\ own[o] \in OwnBlock
        /\ thr \in [Thread -> ThrBlock] /\ thr[t] \in ThrBlock
    BY <1>1, ThreadAlive DEF IInv, DeliversAtHome, ControlTypes, ThrBlock
  <1>3. ASSUME own[o].count > 0, NEW r \in Blocks(o),
               lrq' = [lrq EXCEPT ![r] = IF "blocking" \in lrq[r].flags
                                         THEN [lrq[r] EXCEPT !.flags = (lrq[r].flags \ {"blocking"}) \cup {"seen"}]
                                         ELSE FreeLrq],
               own' = [own EXCEPT ![o].asts = IF lrq[r].ast THEN @ + 1 ELSE @],
               thr' = [thr EXCEPT ![t].ast = lrq[r].ast]
        PROVE  IInv'
    <2>1. lrq[r].ast \in BOOLEAN /\ own[o].inuse
      <3>1. r \in Request
        BY DEF Blocks
      <3>2. lrq[r].ast \in BOOLEAN
        BY <3>1 DEF IInv, Table, LrqBlock
      <3>3. own[o].count # 0
        BY <1>2, <1>3 DEF OwnBlock
      <3>4. QED
        BY <1>2, <3>2, <3>3 DEF IInv, GoneIsQuiet, Alive
    <2>2. /\ \A u \in Thread \ {t} : thr'[u] = thr[u]
          /\ thr' \in [Thread -> ThrBlock]
          /\ thr'[t].ast = lrq[r].ast /\ thr'[t].block = o /\ thr'[t].pc = thr[t].pc
          /\ thr'[t].dead = thr[t].dead
      BY <1>2, <1>3, <2>1 DEF ThrBlock
    <2>3. /\ own' \in [Owner -> OwnBlock] /\ Counted'
          /\ \A x \in Owner : own'[x].inuse = own[x].inuse /\ own'[x].count = own[x].count
      <3>1. CASE lrq[r].ast
        <4>1. own' = [own EXCEPT ![o].asts = own[o].asts + 1] /\ own[o].asts + 1 \in Int
          BY <1>2, <1>3, <3>1 DEF OwnBlock
        <4>2. QED
          BY <1>1, <1>2, <2>2, <4>1, AstCounted
      <3>2. CASE ~lrq[r].ast
        <4>1. own' = own
          BY <1>2, <1>3, <3>2 DEF OwnBlock
        <4>2. \A u \in Thread : thr'[u].ast => thr[u].ast /\ thr'[u].block = thr[u].block
          BY <2>2, <3>2
        <4>3. \A x \in Owner : own'[x].waits >= own[x].waits /\ own'[x].asts >= own[x].asts
          BY <1>2, <4>1 DEF OwnBlock
        <4>4. Counted'
          BY <1>1, <1>2, <4>1, <4>2, <4>3, CountedKept
        <4>5. QED
          BY <1>2, <4>1, <4>4
      <3>3. QED
        BY <3>1, <3>2
    <2>4. StepOf(t) /\ InUseKept /\ ControlTypes'
      BY <1>1, <1>2, <2>2, <2>3 DEF StepOf, InUseKept, IInv, ControlTypes
    <2>5. /\ Table(lrq, lbl)'
          /\ \A q \in Request : SoundFor(t, q)
          /\ \A q \in Request : t \in Client /\ call[t].lrq = q =>
                lrq'[q].owner = lrq[q].owner /\ lrq'[q].lock = lrq[q].lock /\ (Pending(q)' => Pending(q))
      BY <1>1, <1>2, <1>3, <2>4, TakenOff
    <2>6. work' = NoWork /\ call' = call
      BY <1>1
    <2>7. thr'[t].ast => thr'[t].block \in Owner /\ own[thr'[t].block].inuse
      BY <1>2, <2>1, <2>2
    <2>8. thr'[t].block \in {thr[t].block, Nobody}
      BY <2>2
    <2> HIDE DEF o
    <2>9. QED
      BY <1>1, <2>2, <2>3, <2>4, <2>5, <2>6, <2>7, <2>8, DeliverKeeps
  <1>4. ASSUME own' = [own EXCEPT ![o].flags = @ \ {"signaled"}],
               thr' = [thr EXCEPT ![t].block = Nobody], lrq' = lrq
        PROVE  IInv'
    <2>1. /\ \A u \in Thread \ {t} : thr'[u] = thr[u]
          /\ thr' \in [Thread -> ThrBlock]
          /\ thr'[t].ast = thr[t].ast /\ thr'[t].block = Nobody /\ thr'[t].pc = thr[t].pc
          /\ thr'[t].dead = thr[t].dead
      BY <1>2, <1>4 DEF ThrBlock
    <2>2. own' \in [Owner -> OwnBlock] /\ OwnersKept
      BY <1>2, <1>4 DEF OwnersKept, OwnBlock
    <2>3. \A u \in Thread : thr'[u].ast => thr[u].ast /\ thr'[u].block = thr[u].block
      BY <1>1, <2>1
    <2>4. Counted'
      <3>1. \A x \in Owner : own'[x].waits >= own[x].waits /\ own'[x].asts >= own[x].asts
        BY <1>2, <2>2 DEF OwnersKept, OwnBlock
      <3>2. QED
        BY <1>1, <2>2, <2>3, <3>1, CountedKept
    <2>5. StepOf(t) /\ InUseKept /\ ControlTypes'
      BY <1>1, <1>2, <2>1, <2>2 DEF StepOf, InUseKept, OwnersKept, IInv, ControlTypes
    <2>6. \A q \in Request : SameBlock(q)
      BY <1>4 DEF SameBlock, Pending
    <2>7. \A q \in Request : SoundFor(t, q)
      BY <1>1, <2>5, <2>6, SameIsSound
    <2>8. Table(lrq, lbl)'
      BY <1>1, <1>4 DEF IInv
    <2>9. \A x \in Owner : own'[x].inuse = own[x].inuse /\ own'[x].count = own[x].count
      BY <2>2 DEF OwnersKept
    <2>10. QED
      BY <1>1, <2>1, <2>4, <2>5, <2>6, <2>7, <2>8, <2>9, DeliverKeeps DEF SameBlock
  <1>5. CASE \E r \in Blocks(o) :
               /\ own[o].count > 0
               /\ lrq' = [lrq EXCEPT ![r] = IF "blocking" \in lrq[r].flags
                                            THEN [lrq[r] EXCEPT !.flags = (lrq[r].flags \ {"blocking"}) \cup {"seen"}]
                                            ELSE FreeLrq]
               /\ own' = [own EXCEPT ![o].asts = IF lrq[r].ast THEN @ + 1 ELSE @]
               /\ thr' = [thr EXCEPT ![t].ast = lrq[r].ast]
    <2>1. PICK r \in Blocks(o) :
               /\ own[o].count > 0
               /\ lrq' = [lrq EXCEPT ![r] = IF "blocking" \in lrq[r].flags
                                            THEN [lrq[r] EXCEPT !.flags = (lrq[r].flags \ {"blocking"}) \cup {"seen"}]
                                            ELSE FreeLrq]
               /\ own' = [own EXCEPT ![o].asts = IF lrq[r].ast THEN @ + 1 ELSE @]
               /\ thr' = [thr EXCEPT ![t].ast = lrq[r].ast]
      BY <1>5
    <2>2. QED
      BY <1>3, <2>1
  <1>6. QED
    BY <1>4, <1>5 DEF blocking_action

\* A thread at rest initializes or shuts down its owner: requests, calls and
\* ASTs are left alone.
LEMMA OwnerCall ==
    ASSUME IInv, NEW t \in Client, StepOf(t), UNCHANGED <<lrq, lbl, call>>, thr[t] = AtRest,
           thr'[t].pc \in {"idle", "shutdown"}, thr'[t].ast = thr[t].ast,
           thr'[t].block = thr[t].block, thr'[t].dead = thr[t].dead, InUseKept
    PROVE  /\ Table(lrq, lbl)' /\ WaitersSound' /\ PendingOwned' /\ DeadAtRest'
           /\ BlocksSound' /\ DeliversAtHome'
           /\ \A o \in Owner : /\ AstsOf(o)' = AstsOf(o) /\ WaitersOf(o)' = WaitersOf(o)
                               /\ Alive(o)' <=> Alive(o)
           /\ \A u \in Thread : thr'[u].dead = thr[u].dead
  <1>1. t \in Thread /\ thr[t].pc = "idle"
    BY ConstantTypes DEF AtRest
  <1>2. /\ \A u \in Thread : u # t => thr'[u] = thr[u]
        /\ \A u \in Thread : /\ thr'[u].ast = thr[u].ast /\ thr'[u].block = thr[u].block
                             /\ thr'[u].dead = thr[u].dead
    BY <1>1 DEF StepOf
  <1>3. Table(lrq, lbl)' /\ DeadAtRest'
    BY <1>1, DeadKept DEF IInv
  <1>4. WaitersSound'
    <2>1. \A c \in Client : thr'[c].pc = thr[c].pc \/ (thr[c].pc = "idle" /\ thr'[c].pc \in {"idle", "shutdown"})
      BY <1>1, <1>2, ConstantTypes
    <2>2. QED
      BY <2>1 DEF IInv, WaitersSound, Waiter, WaitPC, Pending
  <1>5. \A q \in Request : SameBlock(q)
    BY DEF SameBlock, Pending
  <1>6. \A q \in Request : SoundFor(t, q)
    BY <1>1, <1>5, SameIsSound
  <1>7. BlocksSound' /\ PendingOwned'
    <2>1. Waiter(t)'
      BY <1>4 DEF WaitersSound
    <2>2. \A c \in Client \ {t} : call'[t].lrq # Nobody => call'[t].lrq # call[c].lrq
      BY OwnRequest
    <2>3. QED
      BY <1>1, <1>6, <2>1, <2>2, RequestStepKeeps
  <1>8. DeliversAtHome'
    BY <1>2 DEF IInv, DeliversAtHome
  <1>9. \A o \in Owner : AstsOf(o)' = AstsOf(o)
    BY <1>2 DEF AstsOf
  <1>10. \A o \in Owner : WaitersOf(o)' = WaitersOf(o)
    BY DEF WaitersOf
  <1>11. \A o \in Owner : Alive(o)' <=> Alive(o)
    BY <1>1, ConstantTypes DEF StepOf, Alive
  <1>12. QED
    BY <1>2, <1>3, <1>4, <1>7, <1>8, <1>9, <1>10, <1>11

\* initializeOwner keeps the invariant: a new owner block begins with counters
\* that are right because nothing is left of its predecessor.
LEMMA initializeOwnerKeeps ==
    ASSUME IInv, NEW t \in Client, initializeOwner(t)
    PROVE  IInv'
  <1> DEFINE o == Home[t]
  <1>1. /\ thr[t] = AtRest /\ mutex = Nobody /\ mutex' = t /\ prc[Pid(t)].alive
        /\ UNCHANGED <<lrq, lbl, thr, call, poked, cancelled>>
        /\ \/ /\ own[o].inuse /\ own[o].count \in 1..(MaxCount - 1)
              /\ own' = [own EXCEPT ![o].count = own[o].count + 1]
              /\ UNCHANGED <<prc, work>>
           \/ /\ ~own[o].inuse
              /\ own' = [own EXCEPT ![o] = NewOwn]
              /\ prc' = [prc EXCEPT ![ProcOf[o]].listed = TRUE]
              /\ work' = [work EXCEPT !.probe = TRUE]
    BY DEF initializeOwner, MayCall
  <1>2. /\ t \in Thread /\ o \in Owner /\ ProcOf[o] = Pid(t) /\ ProcOf[o] \in Process
        /\ own \in [Owner -> OwnBlock] /\ own[o] \in OwnBlock /\ prc \in [Process -> PrcBlock]
        /\ work = NoWork /\ work \in WorkBlock
    BY <1>1, ConstantTypes DEF IInv, ControlTypes, WorkSound
  <1>3. /\ work' \in WorkBlock /\ work'.own = Nobody /\ work'.prc = Nobody
    <2>1. CASE work' = work
      BY <1>2, <2>1 DEF NoWork
    <2>2. CASE work' = [work EXCEPT !.probe = TRUE]
      BY <1>2, <2>2 DEF NoWork, WorkBlock
    <2>3. QED
      BY <1>1, <2>1, <2>2
  <1>4. prc' \in [Process -> PrcBlock] /\ \A p \in Process : prc'[p].alive = prc[p].alive
    <2>1. CASE prc' = prc
      BY <1>2, <2>1
    <2>2. CASE prc' = [prc EXCEPT ![ProcOf[o]].listed = TRUE]
      BY <1>2, <2>2 DEF PrcBlock
    <2>3. QED
      BY <1>1, <2>1, <2>2
  <1>5. StepOf(t)
    BY <1>1, <1>2, <1>4 DEF StepOf
  \* The owner is there in the end, and its counters count what they should.
  <1>6. /\ own' \in [Owner -> OwnBlock] /\ \A x \in Owner \ {o} : own'[x] = own[x]
        /\ own'[o].inuse /\ own'[o].count # 0
        /\ own'[o].waits >= Cardinality(WaitersOf(o)) /\ own'[o].asts >= Cardinality(AstsOf(o))
    <2>1. CASE /\ own[o].inuse /\ own[o].count \in 1..(MaxCount - 1)
               /\ own' = [own EXCEPT ![o].count = own[o].count + 1]
      <3>1. own[o].count + 1 \in Nat /\ own[o].count + 1 # 0
        BY <1>2 DEF OwnBlock
      <3>2. own'[o] = [own[o] EXCEPT !.count = own[o].count + 1] /\ \A x \in Owner \ {o} : own'[x] = own[x]
        BY <1>2, <2>1
      <3>3. /\ own'[o] \in OwnBlock /\ own'[o].count = own[o].count + 1 /\ own'[o].inuse = own[o].inuse
            /\ own'[o].waits = own[o].waits /\ own'[o].asts = own[o].asts
        BY <1>2, <3>1, <3>2 DEF OwnBlock
      <3>4. own' \in [Owner -> OwnBlock]
        BY <1>2, <2>1, <3>2, <3>3
      <3>5. own[o].waits >= Cardinality(WaitersOf(o)) /\ own[o].asts >= Cardinality(AstsOf(o))
        BY <1>2 DEF IInv, Counted
      <3>6. QED
        BY <2>1, <3>1, <3>2, <3>3, <3>4, <3>5
    <2>2. CASE ~own[o].inuse /\ own' = [own EXCEPT ![o] = NewOwn]
      <3>1. NewOwn \in OwnBlock /\ NewOwn.inuse /\ NewOwn.count # 0 /\ NewOwn.waits = 0 /\ NewOwn.asts = 0
        BY DEF NewOwn, OwnBlock
      <3>2. own' \in [Owner -> OwnBlock] /\ own'[o] = NewOwn /\ \A x \in Owner \ {o} : own'[x] = own[x]
        BY <1>2, <2>2, <3>1
      <3>3. own[o].count = 0 /\ AstsOf(o) = {}
        BY <1>1, <1>2, <2>2 DEF IInv, GoneIsQuiet, Alive
      <3>4. WaitersOf(o) = {}
        BY <3>3 DEF IInv, ShutIsUnused, WaitersOf, WaitersSound, Waiter
      <3>5. Cardinality(WaitersOf(o)) = 0 /\ Cardinality(AstsOf(o)) = 0
        BY <3>3, <3>4, FS_EmptySet
      <3>6. QED
        BY <3>1, <3>2, <3>5
    <2>3. QED
      BY <1>1, <2>1, <2>2
  <1>7. InUseKept /\ ControlTypes'
    BY <1>1, <1>2, <1>3, <1>4, <1>6 DEF InUseKept, IInv, ControlTypes
  <1>8. /\ Table(lrq, lbl)' /\ WaitersSound' /\ PendingOwned' /\ DeadAtRest'
        /\ BlocksSound' /\ DeliversAtHome'
        /\ \A x \in Owner : /\ AstsOf(x)' = AstsOf(x) /\ WaitersOf(x)' = WaitersOf(x)
                            /\ Alive(x)' <=> Alive(x)
        /\ \A u \in Thread : thr'[u].dead = thr[u].dead
    <2>1. thr'[t].pc \in {"idle", "shutdown"}
      BY <1>1 DEF AtRest
    <2>2. QED
      BY <1>1, <1>5, <1>7, <2>1, OwnerCall
  <1>9. Counted'
    <2>1. SUFFICES ASSUME NEW x \in Owner
                   PROVE  own'[x].waits >= Cardinality(WaitersOf(x)) /\ own'[x].asts >= Cardinality(AstsOf(x))
      BY <1>8 DEF Counted
    <2>2. CASE x = o
      BY <1>6, <2>2
    <2>3. CASE x # o
      BY <1>6, <2>3 DEF IInv, Counted
    <2>4. QED
      BY <2>2, <2>3
  <1>10. ShutIsUnused'
    BY <1>1, <1>6, ConstantTypes DEF IInv, ShutIsUnused
  <1>11. WorkSound'
    <2>1. \A u \in Thread : \A p \in thr[u].dead : p \in Process
      BY DEF IInv, ControlTypes, ThrBlock
    <2>2. QED
      BY <1>1, <1>2, <1>3, <1>4, <1>8, <2>1, ConstantTypes DEF IInv, WorkSound
  <1>12. GoneIsQuiet'
    <2>1. SUFFICES ASSUME NEW x \in Owner, Alive(x)
                   PROVE  /\ ~own'[x].inuse => own'[x].count = 0
                          /\ ~own'[x].inuse \/ work'.own = x => AstsOf(x) = {}
      BY <1>8 DEF GoneIsQuiet
    <2>2. work'.own # x
      BY <1>3, ConstantTypes
    <2>3. QED
      BY <1>6, <2>1, <2>2 DEF IInv, GoneIsQuiet
  <1>13. ShutdownsSound'
    <2>1. ASSUME NEW u \in Thread, thr[u].pc = "shutdown"
          PROVE  /\ u \in Client /\ own'[Home[u]].inuse /\ own'[Home[u]].count = 0 /\ work'.own # Home[u]
      <3>1. u \in Client /\ Home[u] \in Owner /\ own[Home[u]].inuse /\ own[Home[u]].count = 0
        BY <2>1, ConstantTypes DEF IInv, ShutdownsSound
      <3>2. Home[u] # o
        BY <1>1, <1>2, <3>1
      <3>3. QED
        BY <1>3, <1>6, <3>1, <3>2, ConstantTypes
    <2>2. QED
      BY <1>1, <2>1 DEF IInv, ShutdownsSound
  <1>14. QED
    BY <1>7, <1>8, <1>9, <1>10, <1>11, <1>12, <1>13 DEF IInv

\* shutdownOwner keeps the invariant.
LEMMA shutdownOwnerKeeps ==
    ASSUME IInv, NEW t \in Client, shutdownOwner(t)
    PROVE  IInv'
  <1> DEFINE o == Home[t]
             n == own[o].count - 1
             pc == IF own[o].count = 1 /\ own[o].asts > 0 THEN "shutdown" ELSE "idle"
             w == IF own[o].count = 1 /\ own[o].asts = 0 THEN o ELSE Nobody
  <1>1. /\ thr[t] = AtRest /\ mutex = Nobody /\ mutex' = t /\ prc[Pid(t)].alive
        /\ UNCHANGED <<lrq, lbl, prc, call, poked, cancelled>>
        /\ own[o].count > 0
        /\ own[o].count = 1 => \A c \in Client : Home[c] = o => thr[c] = AtRest
        /\ own' = [own EXCEPT ![o].count = n]
        /\ thr' = [thr EXCEPT ![t].pc = pc]
        /\ work' = [work EXCEPT !.own = w]
    BY DEF shutdownOwner, Usable, MayCall, Goto
  <1>2. /\ t \in Thread /\ o \in Owner /\ ProcOf[o] = Pid(t) /\ ProcOf[o] \in Process
        /\ own \in [Owner -> OwnBlock] /\ own[o] \in OwnBlock
        /\ thr \in [Thread -> ThrBlock] /\ thr[t] \in ThrBlock
        /\ work = NoWork /\ work \in WorkBlock
    BY <1>1, ConstantTypes DEF IInv, ControlTypes, WorkSound
  <1>3. own[o].inuse /\ own[o].count \in Nat /\ own[o].asts \in Nat /\ own[o].count # 0 /\ n \in Nat
    <2>1. own[o].count \in Nat /\ own[o].asts \in Nat
      BY <1>2 DEF OwnBlock
    <2>2. own[o].count # 0 /\ n \in Nat
      BY <1>1, <2>1
    <2>3. own[o].inuse
      BY <1>1, <1>2, <2>2 DEF IInv, GoneIsQuiet, Alive
    <2>4. QED
      BY <2>1, <2>2, <2>3
  <1>4. /\ own[o].count = 1 => n = 0
        /\ own[o].count # 1 => n # 0
        /\ pc \in {"idle", "shutdown"} /\ (pc = "shutdown" => own[o].count = 1 /\ w = Nobody)
        /\ w \in {o, Nobody} /\ (w = o => own[o].count = 1 /\ own[o].asts = 0)
    BY <1>2, <1>3, ConstantTypes
  <1> HIDE DEF n, pc, w
  <1>5. work' \in WorkBlock /\ work'.own = w /\ work'.prc = Nobody
    BY <1>1, <1>2, <1>4 DEF NoWork, WorkBlock
  <1>6. /\ \A u \in Thread \ {t} : thr'[u] = thr[u]
        /\ thr' \in [Thread -> ThrBlock]
        /\ thr'[t].pc = pc /\ thr'[t].ast = thr[t].ast /\ thr'[t].block = thr[t].block
        /\ thr'[t].dead = thr[t].dead
    BY <1>1, <1>2, <1>4 DEF ThrBlock
  <1>7. /\ own' \in [Owner -> OwnBlock] /\ \A x \in Owner \ {o} : own'[x] = own[x]
        /\ own'[o].count = n /\ own'[o].inuse
        /\ own'[o].waits = own[o].waits /\ own'[o].asts = own[o].asts
    <2>1. own'[o] = [own[o] EXCEPT !.count = n] /\ \A x \in Owner \ {o} : own'[x] = own[x]
      BY <1>1, <1>2
    <2>2. /\ own'[o] \in OwnBlock /\ own'[o].count = n /\ own'[o].inuse = own[o].inuse
          /\ own'[o].waits = own[o].waits /\ own'[o].asts = own[o].asts
      BY <1>2, <1>3, <2>1 DEF OwnBlock
    <2>3. own' \in [Owner -> OwnBlock]
      BY <1>1, <1>2, <2>1, <2>2
    <2>4. QED
      BY <1>3, <2>1, <2>2, <2>3
  <1>8. StepOf(t) /\ InUseKept /\ ControlTypes'
    BY <1>1, <1>2, <1>5, <1>6, <1>7 DEF StepOf, InUseKept, IInv, ControlTypes
  <1>9. /\ Table(lrq, lbl)' /\ WaitersSound' /\ PendingOwned' /\ DeadAtRest'
        /\ BlocksSound' /\ DeliversAtHome'
        /\ \A x \in Owner : /\ AstsOf(x)' = AstsOf(x) /\ WaitersOf(x)' = WaitersOf(x)
                            /\ Alive(x)' <=> Alive(x)
        /\ \A u \in Thread : thr'[u].dead = thr[u].dead
    BY <1>1, <1>4, <1>6, <1>8, OwnerCall
  <1>10. Counted'
    BY <1>7, <1>9 DEF IInv, Counted
  <1>11. ShutIsUnused'
    <2>1. SUFFICES ASSUME NEW c \in Client, own'[Home[c]].count = 0
                   PROVE  thr'[c].pc \notin WaitPC \cup {"enqueue"}
      BY DEF ShutIsUnused
    <2>2. Home[c] \in Owner /\ c \in Thread
      BY ConstantTypes
    <2>3. CASE c = t
      BY <1>4, <1>6, <2>3 DEF WaitPC
    <2>4. CASE c # t /\ Home[c] = o
      BY <1>1, <1>4, <1>6, <1>7, <2>1, <2>2, <2>4 DEF AtRest, WaitPC
    <2>5. CASE c # t /\ Home[c] # o
      BY <1>6, <1>7, <2>1, <2>2, <2>5 DEF IInv, ShutIsUnused
    <2>6. QED
      BY <2>3, <2>4, <2>5
  <1>12. WorkSound'
    <2>1. work'.own # Nobody => own'[work'.own].count = 0
      BY <1>4, <1>5, <1>7
    <2>2. QED
      BY <1>1, <1>2, <1>5, <1>9, <2>1, ConstantTypes DEF IInv, WorkSound
  <1>13. GoneIsQuiet'
    <2>1. SUFFICES ASSUME NEW x \in Owner, Alive(x)
                   PROVE  /\ ~own'[x].inuse => own'[x].count = 0
                          /\ ~own'[x].inuse \/ work'.own = x => AstsOf(x) = {}
      BY <1>9 DEF GoneIsQuiet
    <2>2. own[o].asts = 0 => AstsOf(o) = {}
      <3>1. AstsOf(o) \subseteq Thread
        BY DEF AstsOf
      <3>2. IsFiniteSet(AstsOf(o)) /\ Cardinality(AstsOf(o)) \in Nat
        BY <3>1, CountedFinite
      <3>3. own[o].asts >= Cardinality(AstsOf(o))
        BY <1>2 DEF IInv, Counted
      <3>4. own[o].asts = 0 => Cardinality(AstsOf(o)) = 0
        BY <3>2, <3>3
      <3>5. QED
        BY <3>2, <3>4, FS_EmptySet
    <2>3. CASE x = o
      BY <1>4, <1>5, <1>7, <2>2, <2>3, ConstantTypes
    <2>4. CASE x # o
      BY <1>4, <1>5, <1>7, <2>1, <2>4, ConstantTypes DEF IInv, GoneIsQuiet
    <2>5. QED
      BY <2>3, <2>4
  <1>14. ShutdownsSound'
    <2>1. ASSUME NEW u \in Thread, u # t, thr'[u].pc = "shutdown"
          PROVE  /\ u \in Client /\ own'[Home[u]].inuse /\ own'[Home[u]].count = 0
                 /\ work'.own # Home[u] /\ Home[u] # o /\ thr[u].pc = "shutdown"
      <3>1. /\ u \in Client /\ Home[u] \in Owner /\ own[Home[u]].inuse /\ own[Home[u]].count = 0
            /\ thr[u].pc = "shutdown"
        BY <1>6, <2>1, ConstantTypes DEF IInv, ShutdownsSound
      <3>2. Home[u] # o
        BY <1>3, <3>1
      <3>3. QED
        BY <1>4, <1>5, <1>7, <3>1, <3>2, ConstantTypes
    <2>2. thr'[t].pc = "shutdown" =>
            /\ own'[Home[t]].inuse /\ own'[Home[t]].count = 0 /\ work'.own # Home[t]
      BY <1>2, <1>4, <1>5, <1>6, <1>7, ConstantTypes
    <2>3. \A u \in Thread : thr'[u].pc = "shutdown" =>
             /\ u \in Client
             /\ own'[Home[u]].inuse /\ own'[Home[u]].count = 0
             /\ work'.own # Home[u]
      BY <2>1, <2>2
    <2>4. \A c, d \in Client :
             (thr'[c].pc = "shutdown" /\ thr'[d].pc = "shutdown" /\ Home[c] = Home[d]) => c = d
      BY <2>1, ConstantTypes DEF IInv, ShutdownsSound
    <2>5. QED
      BY <2>3, <2>4 DEF ShutdownsSound
  <1>15. QED
    BY <1>8, <1>9, <1>10, <1>11, <1>12, <1>13, <1>14 DEF IInv

\* No thread waits for a request of an owner that is being purged.
LEMMA PurgedNotWaited ==
    ASSUME IInv, work.own # Nobody, NEW r \in Request, lrq[r].owner = work.own, NEW c \in Client
    PROVE  call[c].lrq # r
  <1>1. SUFFICES ASSUME call[c].lrq = r
                 PROVE  FALSE
    OBVIOUS
  <1>2. work.own \in Owner /\ c \in Thread /\ r # Nobody
    BY ConstantTypes DEF IInv, ControlTypes, WorkBlock
  <1>3. thr[c].pc \in WaitPC /\ Home[c] = work.own
    BY <1>1, <1>2 DEF IInv, WaitersSound, Waiter
  <1>4. CASE own[work.own].count = 0
    BY <1>3, <1>4 DEF IInv, ShutIsUnused
  <1>5. CASE ~Alive(work.own)
    BY <1>2, <1>3, <1>5, ConstantTypes DEF IInv, DeadAtRest, Alive, AtRest, WaitPC
  <1>6. QED
    BY <1>4, <1>5 DEF IInv, WorkSound

\* An iteration of purge_owner keeps the invariant.
LEMMA purge_ownerKeeps ==
    ASSUME IInv, NEW t \in Thread, purge_owner(t)
    PROVE  IInv'
  <1> DEFINE o == work.own
  <1>1. mutex = t /\ o # Nobody /\ UNCHANGED <<prc, mutex, thr, call, poked, cancelled>> /\ mutex' = t
    BY DEF purge_owner
  <1>2. /\ Table(lrq, lbl) /\ own \in [Owner -> OwnBlock] /\ poked \subseteq Client
        /\ work \in WorkBlock /\ o \in Owner /\ prc[Pid(t)].alive /\ o = work.own
    BY <1>1, ThreadAlive DEF IInv, ControlTypes, WorkBlock
  <1> HIDE DEF o
  <1>3. CASE UNCHANGED own /\ \E r \in Holds(o) : release_request(r)
    <2>1. PICK r \in Holds(o) : release_request(r)
      BY <1>3
    <2>2. r \in Request /\ lrq[r].owner = o /\ lrq[r].lock \in Key
      BY <1>2, BlockTypes DEF Holds
    <2>3. \A c \in Client : call[c].lrq # r
      BY <1>1, <1>2, <2>2, PurgedNotWaited
    <2>4. InUseKept /\ OwnersKept
      BY <1>3 DEF InUseKept, OwnersKept
    <2>5. /\ Table(lrq, lbl)' /\ \A q \in Request : SoundFor(t, q)
          /\ \A q \in Request \ {r} : SameBlock(q)
          /\ work' \in WorkBlock /\ work'.own = work.own /\ work'.prc = work.prc
      BY <1>1, <1>2, <2>1, <2>2, <2>3, <2>4, ReleaseSound
    <2>6. \A q \in Request : t \in Client /\ call[t].lrq = q =>
              lrq'[q].owner = lrq[q].owner /\ lrq'[q].lock = lrq[q].lock /\ (Pending(q)' => Pending(q))
      BY <2>3, <2>5 DEF SameBlock
    <2>7. QED
      BY <1>1, <1>2, <1>3, <2>4, <2>5, <2>6, LoopStepKeeps
  <1>4. CASE /\ Holds(o) = {} /\ UNCHANGED <<lbl, own, work>>
             /\ \E r \in Blocks(o) : lrq' = [lrq EXCEPT ![r] = FreeLrq]
    <2>1. PICK r \in Blocks(o) : lrq' = [lrq EXCEPT ![r] = FreeLrq]
      BY <1>4
    <2>2. r \in Request /\ lrq[r].owner = o /\ lrq[r].lock = Nobody
      BY <1>4 DEF Holds, Blocks
    <2>3. \A c \in Client : call[c].lrq # r
      BY <1>1, <1>2, <2>2, PurgedNotWaited
    <2>4. InUseKept /\ OwnersKept
      BY <1>4 DEF InUseKept, OwnersKept
    <2>5. /\ FreeLrq \in LrqBlock /\ FreeLrq.lock = Nobody /\ FreeLrq.state = 0 /\ ~Waits(FreeLrq)
          /\ FreeLrq.owner = Nobody /\ FreeLrq.flags = {}
      BY FreeLrqTyped DEF FreeLrq, Waits
    <2>6. Table(lrq', lbl') /\ OthersKept(r) /\ lrq'[r] = FreeLrq
      BY <1>2, <1>4, <2>1, <2>2, <2>5, OffQueueEffect
    <2>7. SoundFor(t, r)
      BY <2>3, <2>5, <2>6 DEF SoundFor, Pending
    <2>8. \A q \in Request \ {r} : SoundFor(t, q)
      BY <1>1, <2>4, <2>6, SameIsSound DEF OthersKept
    <2>9. \A q \in Request : t \in Client /\ call[t].lrq = q =>
              lrq'[q].owner = lrq[q].owner /\ lrq'[q].lock = lrq[q].lock /\ (Pending(q)' => Pending(q))
      BY <2>3, <2>6 DEF OthersKept, SameBlock
    <2>10. QED
      BY <1>1, <1>2, <1>4, <2>4, <2>6, <2>7, <2>8, <2>9, LoopStepKeeps
  <1>5. CASE /\ Holds(o) = {} /\ Blocks(o) = {}
             /\ own' = [own EXCEPT ![o].inuse = FALSE, ![o].flags = {}]
             /\ work' = [work EXCEPT !.own = Nobody]
             /\ UNCHANGED <<lrq, lbl>>
    <2>1. /\ \A x \in Owner \ {o} : own'[x] = own[x]
          /\ own'[o] = [own[o] EXCEPT !.inuse = FALSE, !.flags = {}]
      BY <1>2, <1>5
    <2>2. /\ own'[o] \in OwnBlock /\ own'[o].inuse = FALSE /\ own'[o].count = own[o].count
          /\ own'[o].waits = own[o].waits /\ own'[o].asts = own[o].asts
      <3>1. own[o] \in OwnBlock /\ FALSE \in BOOLEAN /\ {} \in SUBSET {"scanned", "wakeup", "signaled"}
        BY <1>2
      <3>2. QED
        BY <2>1, <3>1 DEF OwnBlock
    <2>3. own' \in [Owner -> OwnBlock]
      BY <1>2, <1>5, <2>1, <2>2
    <2>4. work' \in WorkBlock /\ work'.own = Nobody /\ work'.prc = work.prc
      BY <1>2, <1>5 DEF WorkBlock
    <2>5. ControlTypes'
      BY <1>1, <2>3, <2>4 DEF IInv, ControlTypes
    <2>6. \A r \in Request : lrq[r].owner # o
      BY <1>2, <1>5, ConstantTypes DEF IInv, BlocksSound, Holds, Blocks
    <2>7. /\ Table(lrq, lbl)' /\ WaitersSound' /\ PendingOwned' /\ DeadAtRest' /\ DeliversAtHome'
      <3>1. Table(lrq, lbl)' /\ DeadAtRest' /\ DeliversAtHome'
        BY <1>1, <1>5 DEF IInv, DeadAtRest, DeliversAtHome
      <3>2. WaitersSound' /\ PendingOwned'
        BY <1>1, <1>5 DEF IInv, WaitersSound, Waiter, PendingOwned, Pending, Alive
      <3>3. QED
        BY <3>1, <3>2
    <2>8. BlocksSound'
      <3>1. \A r \in Request : lrq[r].owner # Nobody => lrq[r].owner \in Owner \ {o}
        BY <1>2, <2>6, BlockTypes
      <3>2. QED
        BY <1>5, <2>1, <3>1 DEF IInv, BlocksSound
    <2>9. ShutIsUnused'
      BY <1>1, <2>1, <2>2, ConstantTypes DEF IInv, ShutIsUnused
    <2>10. Counted'
      BY <1>1, <2>1, <2>2 DEF IInv, Counted, WaitersOf, AstsOf
    <2>11. WorkSound'
      BY <1>1, <2>4, ConstantTypes DEF IInv, WorkSound
    <2>12. GoneIsQuiet'
      <3>1. SUFFICES ASSUME NEW x \in Owner, Alive(x)
                     PROVE  /\ ~own'[x].inuse => own'[x].count = 0
                            /\ ~own'[x].inuse \/ work'.own = x => AstsOf(x) = {}
        BY <1>1 DEF GoneIsQuiet, Alive, AstsOf
      <3>2. work'.own # x
        BY <2>4, ConstantTypes
      <3>3. CASE x = o
        BY <1>2, <2>2, <3>1, <3>2, <3>3, ConstantTypes DEF IInv, GoneIsQuiet, WorkSound
      <3>4. CASE x # o
        BY <2>1, <3>1, <3>2, <3>4 DEF IInv, GoneIsQuiet
      <3>5. QED
        BY <3>3, <3>4
    <2>13. ShutdownsSound'
      <3>1. ASSUME NEW u \in Thread, thr[u].pc = "shutdown"
            PROVE  /\ u \in Client /\ own'[Home[u]].inuse /\ own'[Home[u]].count = 0 /\ work'.own # Home[u]
        <4>1. /\ u \in Client /\ Home[u] \in Owner /\ own[Home[u]].inuse /\ own[Home[u]].count = 0
              /\ Home[u] # o
          BY <1>2, <3>1, ConstantTypes DEF IInv, ShutdownsSound
        <4>2. QED
          BY <2>1, <2>4, <4>1, ConstantTypes
      <3>2. QED
        BY <1>1, <3>1 DEF IInv, ShutdownsSound
    <2>14. QED
      BY <2>5, <2>7, <2>8, <2>9, <2>10, <2>11, <2>12, <2>13 DEF IInv
  <1>6. QED
    BY <1>3, <1>4, <1>5 DEF purge_owner, o

\* The death of a process keeps the invariant, wherever its threads are.
LEMMA ProcessDiesKeeps ==
    ASSUME IInv, NEW p \in Process, ProcessDies(p)
    PROVE  IInv'
  <1> DEFINE T == Threads(p)
  <1>1. /\ prc' = [prc EXCEPT ![p].alive = FALSE]
        /\ thr' = [t \in Thread |-> IF t \in T THEN AtRest ELSE thr[t]]
        /\ call' = [c \in Client |-> IF c \in T THEN NoCall ELSE call[c]]
        /\ poked' \subseteq poked /\ cancelled' \subseteq cancelled
        /\ mutex' = IF mutex \in T THEN Nobody ELSE mutex
        /\ work' = IF mutex \in T THEN NoWork ELSE work
        /\ UNCHANGED <<lrq, lbl, own>>
    BY DEF ProcessDies
  <1>2. /\ \A t \in Thread : t \in T <=> Pid(t) = p
        /\ Nobody \notin T
    BY ConstantTypes DEF Threads
  <1> HIDE DEF T
  <1>3. /\ prc' \in [Process -> PrcBlock] /\ ~prc'[p].alive
        /\ \A q \in Process \ {p} : prc'[q].alive = prc[q].alive
    BY <1>1 DEF IInv, ControlTypes, PrcBlock
  <1>4. AtRest \in ThrBlock /\ NoCall \in CallBlock /\ NoWork \in WorkBlock
    <2>1. AtRest \in ThrBlock
      BY DEF AtRest, ThrBlock
    <2>2. NoCall \in CallBlock
      BY DEF NoCall, CallBlock, AnyLevel
    <2>3. NoWork \in WorkBlock
      BY DEF NoWork, WorkBlock
    <2>4. QED
      BY <2>1, <2>2, <2>3
  <1>5. /\ \A t \in Thread : (thr'[t] = thr[t] /\ t \notin T) \/ (thr'[t] = AtRest /\ t \in T)
        /\ \A c \in Client : (call'[c] = call[c] /\ c \notin T) \/ (call'[c] = NoCall /\ c \in T)
        /\ thr' \in [Thread -> ThrBlock] /\ call' \in [Client -> CallBlock]
    <2>1. thr \in [Thread -> ThrBlock] /\ call \in [Client -> CallBlock]
      BY DEF IInv, ControlTypes
    <2>2. /\ \A t \in Thread : thr'[t] = IF t \in T THEN AtRest ELSE thr[t]
          /\ \A c \in Client : call'[c] = IF c \in T THEN NoCall ELSE call[c]
      BY <1>1
    <2>3. \A t \in Thread : thr'[t] \in ThrBlock
      BY <1>4, <2>1, <2>2
    <2>4. thr' \in [Thread -> ThrBlock]
      BY <1>1, <2>3
    <2>5. \A c \in Client : call'[c] \in CallBlock
      BY <1>4, <2>1, <2>2
    <2>6. call' \in [Client -> CallBlock]
      BY <1>1, <2>5
    <2>7. QED
      BY <2>2, <2>4, <2>6
  <1>6. /\ work' \in WorkBlock /\ mutex' \in Thread \cup {Nobody} /\ mutex' \notin T
        /\ mutex' = Nobody => work' = NoWork
        /\ work' = work \/ work' = NoWork
    BY <1>1, <1>2, <1>4 DEF IInv, ControlTypes, WorkSound
  <1>7. ControlTypes'
    BY <1>1, <1>3, <1>5, <1>6 DEF IInv, ControlTypes
  <1>8. \A o \in Owner : Alive(o)' <=> Alive(o) /\ ProcOf[o] # p
    BY <1>3, ConstantTypes DEF Alive
  <1>9. Table(lrq, lbl)' /\ BlocksSound'
    BY <1>1 DEF IInv, BlocksSound
  <1>10. \A c \in Client : c \in Thread /\ (c \in T <=> ProcOf[Home[c]] = p)
    BY <1>2, ConstantTypes
  <1>11. /\ AtRest.pc = "idle" /\ AtRest.todo = {} /\ AtRest.dead = {} /\ AtRest.block = Nobody
         /\ AtRest.ast = FALSE /\ NoCall.lrq = Nobody /\ NoWork.own = Nobody /\ NoWork.prc = Nobody
    BY DEF AtRest, NoCall, NoWork
  <1>12. WaitersSound'
    <2>1. ASSUME NEW c \in Client
          PROVE  Waiter(c)'
      <3>1. Waiter(c)
        BY DEF IInv, WaitersSound
      <3>2. CASE c \in T
        BY <1>5, <1>10, <1>11, <3>2 DEF Waiter, WaitPC
      <3>3. CASE c \notin T
        BY <1>1, <1>5, <1>10, <3>1, <3>3 DEF Waiter, Pending
      <3>4. QED
        BY <3>2, <3>3
    <2>2. \A c, d \in Client : (call'[c].lrq # Nobody /\ call'[c].lrq = call'[d].lrq) => c = d
      BY <1>5, <1>11 DEF IInv, WaitersSound
    <2>3. QED
      BY <2>1, <2>2 DEF WaitersSound
  <1>13. PendingOwned'
    <2>1. SUFFICES ASSUME NEW r \in Request, Pending(r)
                   PROVE  (\E c \in Client : call'[c].lrq = r) \/ ~Alive(lrq[r].owner)'
      BY <1>1 DEF PendingOwned, Pending
    <2>2. lrq[r].owner \in Owner /\ r # Nobody
      BY <2>1, PendingOnLock, ConstantTypes DEF IInv
    <2>3. (\E c \in Client : call[c].lrq = r) \/ ~Alive(lrq[r].owner)
      BY <2>1 DEF IInv, PendingOwned
    <2>4. ASSUME NEW c \in Client, call[c].lrq = r
          PROVE  call'[c].lrq = r \/ ~Alive(lrq[r].owner)'
      <3>1. lrq[r].owner = Home[c]
        BY <2>2, <2>4 DEF IInv, WaitersSound, Waiter
      <3>2. CASE c \in T
        <4>1. ProcOf[lrq'[r].owner] = p
          BY <1>1, <1>10, <3>1, <3>2
        <4>2. QED
          BY <1>3, <4>1 DEF Alive
      <3>3. CASE c \notin T
        BY <1>5, <2>4, <3>3
      <3>4. QED
        BY <3>2, <3>3
    <2>5. ~Alive(lrq[r].owner) => ~Alive(lrq[r].owner)'
      <3>1. \A o \in Owner : ~Alive(o) => ~Alive(o)'
        BY <1>8
      <3>2. lrq'[r].owner = lrq[r].owner
        BY <1>1
      <3>3. QED
        BY <2>2, <3>1, <3>2 DEF Alive
    <2>6. QED
      BY <2>3, <2>4, <2>5
  <1>14. DeadAtRest'
    <2>1. SUFFICES ASSUME NEW t \in Thread, ~prc'[Pid(t)].alive
                   PROVE  thr'[t] = AtRest /\ mutex' # t
      BY DEF DeadAtRest
    <2>2. CASE t \in T
      BY <1>5, <1>6, <2>2
    <2>3. CASE t \notin T
      <3>1. ~prc[Pid(t)].alive
        BY <1>2, <1>3, <2>1, <2>3, ConstantTypes
      <3>2. thr[t] = AtRest /\ mutex # t
        BY <3>1 DEF IInv, DeadAtRest
      <3>3. QED
        BY <1>1, <1>5, <2>3, <3>2, ConstantTypes
    <2>4. QED
      BY <2>2, <2>3
  <1>15. ShutIsUnused'
    BY <1>1, <1>5, <1>10, <1>11 DEF IInv, ShutIsUnused, WaitPC
  <1>16. WorkSound'
    <2>1. work.own # Nobody => work.own \in Owner
      BY DEF IInv, ControlTypes, WorkBlock
    <2>2. work.prc # Nobody => work.prc \in Process
      BY DEF IInv, ControlTypes, WorkBlock
    <2>3. \A q \in Process : ~prc[q].alive => ~prc'[q].alive
      BY <1>3
    <2>4. work'.own # Nobody => own'[work'.own].count = 0 \/ ~prc'[ProcOf[work'.own]].alive
      <3>1. CASE work' = NoWork
        BY <1>11, <3>1
      <3>2. CASE work' = work
        <4>1. \A o \in Owner : ~Alive(o) => ~prc'[ProcOf[o]].alive
          BY <1>8 DEF Alive
        <4>2. work.own # Nobody => own[work.own].count = 0 \/ ~Alive(work.own)
          BY DEF IInv, WorkSound
        <4>3. QED
          BY <1>1, <2>1, <3>2, <4>1, <4>2
      <3>3. QED
        BY <1>6, <3>1, <3>2
    <2>5. work'.prc # Nobody => ~prc'[work'.prc].alive
      BY <1>6, <1>11, <2>2, <2>3 DEF IInv, WorkSound
    <2>6. \A t \in Thread : \A q \in thr'[t].dead : ~prc'[q].alive
      <3>1. \A t \in Thread : \A q \in thr[t].dead : q \in Process
        BY DEF IInv, ControlTypes, ThrBlock
      <3>2. \A t \in Thread : thr'[t].dead \subseteq thr[t].dead
        BY <1>5, <1>11
      <3>3. QED
        BY <2>3, <3>1, <3>2 DEF IInv, WorkSound
    <2>7. QED
      BY <1>6, <2>4, <2>5, <2>6 DEF WorkSound, Alive
  <1>17. DeliversAtHome'
    BY <1>5, <1>11 DEF IInv, DeliversAtHome
  <1>18. \A t \in Thread : thr'[t].ast => thr[t].ast /\ thr'[t].block = thr[t].block
    BY <1>5, <1>11
  <1>19. Counted'
    <2>1. \A c \in Client : call'[c].lrq # Nobody => call[c].lrq # Nobody
      BY <1>5, <1>11
    <2>2. \A o \in Owner : own'[o].waits >= own[o].waits /\ own'[o].asts >= own[o].asts
      BY <1>1 DEF IInv, ControlTypes, OwnBlock
    <2>3. own' \in [Owner -> OwnBlock]
      BY <1>1 DEF IInv, ControlTypes
    <2>4. QED
      BY <1>18, <2>1, <2>2, <2>3, CountedKept
  <1>20. GoneIsQuiet'
    <2>1. \A o \in Owner : AstsOf(o)' \subseteq AstsOf(o)
      BY <1>18 DEF AstsOf
    <2>2. \A o \in Owner : work'.own = o => work.own = o
      BY <1>6, <1>11, ConstantTypes
    <2>3. QED
      BY <1>1, <1>8, <2>1, <2>2 DEF IInv, GoneIsQuiet
  <1>21. ShutdownsSound'
    <2>1. ASSUME NEW u \in Thread, thr'[u].pc = "shutdown"
          PROVE  /\ u \in Client /\ own'[Home[u]].inuse /\ own'[Home[u]].count = 0
                 /\ work'.own # Home[u] /\ thr[u].pc = "shutdown"
      <3>1. thr[u].pc = "shutdown"
        BY <1>5, <1>11, <2>1
      <3>2. u \in Client /\ own[Home[u]].inuse /\ own[Home[u]].count = 0 /\ work.own # Home[u]
        BY <3>1 DEF IInv, ShutdownsSound
      <3>3. work'.own # Home[u]
        BY <1>6, <1>11, <3>2, ConstantTypes
      <3>4. QED
        BY <1>1, <3>1, <3>2, <3>3
    <2>2. QED
      BY <2>1, ConstantTypes DEF IInv, ShutdownsSound
  <1>22. QED
    BY <1>7, <1>9, <1>12, <1>13, <1>14, <1>15, <1>16, <1>17, <1>19, <1>20, <1>21 DEF IInv

-----------------------------------------------------------------------------
(* The invariant holds initially and every step keeps it. *)

\* The empty lock table is exact.
LEMMA InitTable == Init => Table(lrq, lbl)
  <1>1. SUFFICES ASSUME Init
                 PROVE  Table(lrq, lbl)
    OBVIOUS
  <1>2. /\ FreeLrq \in LrqBlock /\ FreeLrq.lock = Nobody /\ FreeLrq.state = 0 /\ FreeLrq.flags = {}
        /\ FreeLrq.owner = Nobody
    BY FreeLrqTyped DEF FreeLrq
  <1>3. lrq \in [Request -> LrqBlock] /\ \A r \in Request : lrq[r] = FreeLrq
    BY <1>1, <1>2 DEF Init
  <1>4. /\ FreeLbl \in LblBlock /\ FreeLbl.state = 0 /\ FreeLbl.pending = 0
        /\ FreeLbl.counts = [l \in 1..6 |-> 0] /\ FreeLbl.counts \in Counts
    BY DEF FreeLbl, LblBlock, AnyLevel, Counts
  <1>5. lbl \in [Key -> LblBlock] /\ \A k \in Key : lbl[k] = FreeLbl
    BY <1>1, <1>4 DEF Init
  <1>6. AllCompatible(lrq) /\ \A r \in Request : OffQueue(lrq[r])
    BY <1>2, <1>3 DEF AllCompatible, OffQueue, Waits
  <1>7. ASSUME NEW k \in Key
        PROVE  Exact(lrq, lbl[k], k)
    <2>1. PendingOf(lrq, k) = {} /\ \A l \in 1..6 : Held(lrq, k, l) = {}
      BY <1>2, <1>3, ConstantTypes DEF PendingOf, Held
    <2>2. CountsOf(lrq, k) = [l \in 1..6 |-> 0] /\ Cardinality(PendingOf(lrq, k)) = 0
      BY <2>1, FS_EmptySet DEF CountsOf
    <2>3. IsState(FreeLbl.counts, 0) /\ 0 \in AnyLevel
      BY <1>4 DEF IsState, LCK_none, AnyLevel
    <2>4. lock_state(FreeLbl.counts) = 0
      BY <1>4, <2>3, StateIsUnique
    <2>5. QED
      BY <1>4, <1>5, <2>2, <2>4 DEF Exact
  <1>8. QED
    BY <1>3, <1>5, <1>6, <1>7 DEF Table

\* The initial states satisfy the invariant.
LEMMA InitInvariant == Init => IInv
  <1>1. SUFFICES ASSUME Init
                 PROVE  IInv
    OBVIOUS
  <1>2. /\ AtRest \in ThrBlock /\ AtRest.pc = "idle" /\ AtRest.dead = {} /\ AtRest.block = Nobody
        /\ AtRest.ast = FALSE
    BY DEF AtRest, ThrBlock
  <1>3. NoCall \in CallBlock /\ NoCall.lrq = Nobody
    BY DEF NoCall, CallBlock, AnyLevel
  <1>4. NoWork \in WorkBlock /\ NoWork.own = Nobody /\ NoWork.prc = Nobody
    BY DEF NoWork, WorkBlock
  <1>5. /\ NewOwn \in OwnBlock /\ NewOwn.waits = 0 /\ NewOwn.asts = 0 /\ NewOwn.inuse
        /\ FreeOwn \in OwnBlock /\ FreeOwn.waits = 0 /\ FreeOwn.asts = 0 /\ FreeOwn.count = 0
    BY DEF NewOwn, FreeOwn, OwnBlock
  <1>6. own \in [Owner -> OwnBlock] /\ \A o \in Owner : own[o] = NewOwn \/ own[o] = FreeOwn
    BY <1>1, <1>5 DEF Init
  <1>7. prc \in [Process -> PrcBlock] /\ \A p \in Process : prc[p].alive
    BY <1>1 DEF Init, PrcBlock
  <1>8. thr \in [Thread -> ThrBlock] /\ \A t \in Thread : thr[t] = AtRest
    BY <1>1, <1>2 DEF Init
  <1>9. call \in [Client -> CallBlock] /\ \A c \in Client : call[c] = NoCall
    BY <1>1, <1>3 DEF Init
  <1>10. mutex = Nobody /\ work = NoWork /\ poked = {} /\ cancelled = {}
    BY <1>1 DEF Init
  <1>11. Table(lrq, lbl)
    BY <1>1, InitTable
  <1>12. ControlTypes
    BY <1>4, <1>6, <1>7, <1>8, <1>9, <1>10 DEF ControlTypes
  <1>13. WaitersSound
    BY <1>2, <1>3, <1>8, <1>9, ConstantTypes DEF WaitersSound, Waiter, WaitPC
  <1>14. PendingOwned /\ BlocksSound
    <2>1. \A r \in Request : lrq[r].owner = Nobody /\ lrq[r].flags = {}
      BY <1>1 DEF Init, FreeLrq
    <2>2. QED
      BY <2>1 DEF PendingOwned, BlocksSound, Pending
  <1>15. DeadAtRest /\ DeliversAtHome
    BY <1>2, <1>7, <1>8, ConstantTypes DEF DeadAtRest, DeliversAtHome
  <1>16. ShutIsUnused /\ ShutdownsSound
    BY <1>2, <1>8, ConstantTypes DEF ShutIsUnused, ShutdownsSound, WaitPC
  <1>17. WorkSound
    BY <1>2, <1>4, <1>8, <1>10 DEF WorkSound
  <1>18. \A o \in Owner : WaitersOf(o) = {} /\ AstsOf(o) = {}
    BY <1>2, <1>3, <1>8, <1>9 DEF WaitersOf, AstsOf
  <1>19. Counted
    BY <1>5, <1>6, <1>18, FS_EmptySet DEF Counted
  <1>20. GoneIsQuiet
    BY <1>5, <1>6, <1>18 DEF GoneIsQuiet
  <1>21. QED
    BY <1>11, <1>12, <1>13, <1>14, <1>15, <1>16, <1>17, <1>19, <1>20 DEF IInv

\* Stuttering keeps the invariant.
LEMMA StutteringKeeps ==
    ASSUME IInv, UNCHANGED vars
    PROVE  IInv'
  <1> USE DEF vars
  <1>1. Table(lrq, lbl)' /\ ControlTypes'
    BY DEF IInv, ControlTypes
  <1>2. WaitersSound' /\ PendingOwned' /\ BlocksSound'
    BY DEF IInv, WaitersSound, Waiter, PendingOwned, Pending, Alive, BlocksSound
  <1>3. DeadAtRest' /\ ShutIsUnused' /\ WorkSound' /\ DeliversAtHome'
    BY DEF IInv, DeadAtRest, ShutIsUnused, WorkSound, Alive, DeliversAtHome
  <1>4. Counted' /\ GoneIsQuiet' /\ ShutdownsSound'
    BY DEF IInv, Counted, WaitersOf, AstsOf, GoneIsQuiet, Alive, ShutdownsSound
  <1>5. QED
    BY <1>1, <1>2, <1>3, <1>4 DEF IInv

\* Every step of the lock manager keeps the invariant.
LEMMA NextKeeps ==
    ASSUME IInv, [Next]_vars
    PROVE  IInv'
  <1>1. ASSUME NEW c \in Client, Calling(c)
        PROVE  IInv'
    BY <1>1, initializeOwnerKeeps, shutdownOwnerKeeps, enqueueKeeps DEF Calling
  <1>2. ASSUME NEW c \in Client, Waiting(c)
        PROVE  IInv'
    BY <1>2, EnqueueRequestKeeps, post_blockageKeeps, WaitCheckKeeps, WakesResolvedKeeps,
       WakesBogusKeeps, GivesUpKeeps, WakesPostedKeeps, WakesToScanKeeps, deadlock_scanKeeps,
       WaitEndsKeeps, AstsDoneKeeps DEF Waiting
  <1>3. ASSUME NEW t \in Thread, AnyCalling(t)
        PROVE  IInv'
    BY <1>3, convertKeeps, downgradeKeeps, dequeueKeeps, repostKeeps DEF AnyCalling
  <1>4. ASSUME NEW t \in Thread, Working(t)
        PROVE  IInv'
    BY <1>4, release_shmemKeeps, post_pendingKeeps, purge_ownerKeeps, purge_processKeeps,
       probe_processesKeeps, signal_ownerKeeps, PurgeUndeliveredKeeps, blocking_actionKeeps,
       AstReturnsKeeps DEF Working
  <1>5. ASSUME NEW p \in Process, BlockingThreadWakes(p) \/ blocking_action_thread(p) \/ ProcessDies(p)
        PROVE  IInv'
    BY <1>5, BlockingThreadWakesKeeps, blocking_action_threadKeeps, ProcessDiesKeeps
  <1>6. CASE Next
    BY <1>1, <1>2, <1>3, <1>4, <1>5, <1>6, cancelWaitKeeps DEF Next
  <1>7. QED
    BY <1>6, StutteringKeeps

-----------------------------------------------------------------------------
(* Theorems. *)

\* The inductive invariant holds in every reachable state of the lock manager.
THEOREM Invariant == Spec => []IInv
  <1>1. Init => IInv
    BY InitInvariant
  <1>2. IInv /\ [Next]_vars => IInv'
    BY NextKeeps
  <1>3. QED
    BY <1>1, <1>2, PTL DEF Spec

\* Type correctness of all blocks and of the control state.
THEOREM TypeCorrect == Spec => []TypeOK
  <1>1. IInv => TypeOK
    BY DEF IInv, Table, ControlTypes, TypeOK, LblBlock, OwnBlock, PrcBlock, WorkBlock, ThrBlock, CallBlock
  <1>2. QED
    BY <1>1, Invariant, PTL

\* Requests granted on the same lock are pairwise compatible, whatever calls,
\* deaths of processes and recoveries came before.
THEOREM Compatibility == Spec => []GrantedCompatible
  <1>1. IInv => GrantedCompatible
    BY DEF IInv, Table, AllCompatible, GrantedCompatible
  <1>2. QED
    BY <1>1, Invariant, PTL

\* The counters of every lock block agree with its queue: the death of a
\* process between two steps of the code's loops leaves no stale count.
THEOREM CountsAreExact == Spec => []LockCountsExact
  <1>1. ASSUME IInv, NEW k \in Key
        PROVE  /\ \A l \in 1..6 :
                    lbl[k].counts[l] = Cardinality({r \in Requests(k) : lrq[r].state = l})
               /\ lbl[k].state = lock_state(lbl[k].counts)
               /\ lbl[k].pending = Cardinality({r \in Requests(k) : Pending(r)})
    <2>1. Exact(lrq, lbl[k], k)
      BY <1>1 DEF IInv, Table
    <2>2. \A l \in 1..6 : {r \in Requests(k) : lrq[r].state = l} = Held(lrq, k, l)
      BY DEF Requests, Held
    <2>3. {r \in Requests(k) : Pending(r)} = PendingOf(lrq, k)
      BY DEF Requests, Pending, PendingOf, Waits
    <2>4. QED
      BY <2>1, <2>2, <2>3 DEF Exact, CountsOf
  <1>2. IInv => LockCountsExact
    BY <1>1 DEF LockCountsExact
  <1>3. QED
    BY <1>2, Invariant, PTL

\* A request block in use belongs to a registered owner: purging an owner,
\* after its shutdown or the death of its process, leaves nothing behind.
THEOREM PurgeIsComplete == Spec => []PurgedOwnersAreClean
  <1>1. IInv => PurgedOwnersAreClean
    BY DEF IInv, BlocksSound, PurgedOwnersAreClean
  <1>2. QED
    BY <1>1, Invariant, PTL

\* No AST routine runs for an owner that has been purged: shutdownOwner waits
\* for the ones under way, and none begins for an owner that is shut down.
THEOREM AstsHaveOwners == Spec => []NoAstForGoneOwner
  <1>1. ASSUME IInv, NEW t \in Thread, thr[t].ast
        PROVE  own[thr[t].block].inuse
    <2>1. thr[t].block \in Owner /\ ProcOf[thr[t].block] = Pid(t) /\ prc[Pid(t)].alive
      BY <1>1, ThreadAlive DEF IInv, DeliversAtHome, ControlTypes, ThrBlock
    <2>2. t \in AstsOf(thr[t].block)
      BY <1>1 DEF AstsOf
    <2>3. QED
      BY <1>1, <2>1, <2>2 DEF IInv, GoneIsQuiet, Alive
  <1>2. IInv => NoAstForGoneOwner
    BY <1>1 DEF NoAstForGoneOwner
  <1>3. QED
    BY <1>2, Invariant, PTL
=============================================================================
