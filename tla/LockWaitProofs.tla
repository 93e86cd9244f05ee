---------------------------- MODULE LockWaitProofs ----------------------------
(* Proofs about waiting and being told, on top of the invariant of           *)
(* LockManagerProofs: nobody misses a grant, a wakeup or a blocking notice,  *)
(* levels are taken away by their owners only, callers know what they hold.  *)
EXTENDS LockManagerProofs

-----------------------------------------------------------------------------
(* What a step does to the request blocks.  Every step has one of the        *)
(* shapes below; the properties are proved shape by shape.                   *)

Rejected(q) == "rejected" \in lrq[q].flags

\* A request on a lock is as before, marks for blocking notices apart.
Kept(q) ==
    /\ lrq'[q].lock = lrq[q].lock
    /\ lrq[q].lock # Nobody =>
         /\ lrq'[q].owner = lrq[q].owner /\ lrq'[q].state = lrq[q].state
         /\ lrq'[q].requested = lrq[q].requested /\ lrq'[q].physical = lrq[q].physical
         /\ lrq'[q].pos = lrq[q].pos
         /\ Pending(q)' <=> Pending(q)
         /\ Rejected(q)' <=> Rejected(q)

\* It is as before, its place in the queue and its level apart.
SamePlace(q) ==
    /\ lrq'[q].lock = lrq[q].lock /\ lrq'[q].owner = lrq[q].owner /\ lrq'[q].pos = lrq[q].pos

OthersAreKept(r) == \A q \in Request \ {r} : Kept(q)

\* The wait a client is in is as before.
CallKept(c) ==
    /\ call'[c].lrq = call[c].lrq
    /\ call[c].lrq # Nobody => call'[c] = call[c]

CallsKept == \A c \in Client : CallKept(c)

\* Lock blocks other than that of lock k are as before.
LocksKept(k) == \A j \in Key \ {k} : lbl'[j] = lbl[j]

PendKept == work'.pend = work.pend

\* Thread t belongs to the process of the owner of request r.
AtHome(t, r) == Pid(t) = ProcOf[lrq[r].owner]

NoneWaitsFor(r) == \A c \in Client : call[c].lrq # r

\* No request changes.
Unmoved ==
    /\ lbl' = lbl /\ \A q \in Request : Kept(q)
    /\ CallsKept
    /\ work.pend = Nobody \/ PendKept

\* release_request(r): it may be waited for only by a thread that returns.
Leaves(t, r) ==
    /\ r \in Request /\ lrq[r].lock \in Key /\ lrq'[r] = FreeLrq
    /\ \A q \in Request \ {r} :
         lrq'[q] = IF lrq[q].lock = lrq[r].lock /\ lrq[q].pos > lrq[r].pos
                   THEN [lrq[q] EXCEPT !.pos = @ - 1] ELSE lrq[q]
    /\ LocksKept(lrq[r].lock)
    /\ work.pend = Nobody /\ work'.pend = HeldUpBy(r)
    /\ \A c \in Client : IF call[c].lrq = r THEN call'[c].lrq = Nobody ELSE CallKept(c)
    /\ mutex' = t /\ (Alive(lrq[r].owner) => AtHome(t, r))

\* A new request is granted at once.
NewGranted(r, k) ==
    /\ r \in Request /\ k \in Key /\ lrq[r].lock = Nobody
    /\ lrq'[r].lock = k /\ lrq'[r].pos = Cardinality(Requests(k)) + 1
    /\ lrq'[r].physical = lrq'[r].state /\ ~Pending(r)'
    /\ OthersAreKept(r) /\ LocksKept(k) /\ CallsKept
    /\ work.pend = Nobody /\ (work'.pend = k \/ (work'.pend = Nobody /\ Requests(k) = {}))

\* A conversion is granted at once.
Converted(t, r) ==
    /\ r \in Request /\ lrq[r].lock \in Key /\ SamePlace(r)
    /\ lrq'[r].physical = lrq'[r].state /\ ~Pending(r)' /\ NoneWaitsFor(r)
    /\ OthersAreKept(r) /\ LocksKept(lrq[r].lock) /\ CallsKept
    /\ work.pend = Nobody /\ work'.pend = lrq[r].lock
    /\ mutex' = t /\ AtHome(t, r)

\* A conversion is refused at once.
Refused(r) ==
    /\ r \in Request /\ lrq[r].lock \in Key /\ SamePlace(r)
    /\ lrq'[r].state = lrq[r].state /\ ~Pending(r) /\ ~Pending(r)' /\ NoneWaitsFor(r)
    /\ "downgrade" \notin Calls => lrq'[r].physical = lrq[r].physical
    /\ OthersAreKept(r) /\ lbl' = lbl /\ CallsKept /\ PendKept

\* A client begins to wait for r.
BeginsToWait(t, r) ==
    /\ t \in Client /\ r \in Request /\ Pending(r)' /\ ~Rejected(r)'
    /\ call[t].lrq = Nobody /\ call'[t].lrq = r /\ call'[t].level = lrq'[r].requested
    /\ \A c \in Client \ {t} : CallKept(c)
    /\ NoneWaitsFor(r) /\ OthersAreKept(r) /\ PendKept

\* A new request waits, since others wait already or its level conflicts.
NewWaits(t, r, k) ==
    /\ BeginsToWait(t, r)
    /\ k \in Key /\ lrq[r].lock = Nobody
    /\ lrq'[r].lock = k /\ lrq'[r].pos = Cardinality(Requests(k)) + 1
    /\ lrq'[r].state = LCK_none /\ lrq'[r].physical = LCK_none
    /\ lbl'[k].counts = lbl[k].counts /\ lbl'[k].state = lbl[k].state
    /\ LocksKept(k)
    /\ lbl[k].pending # 0 \/ ~Compatible(lrq'[r].requested, lbl[k].state)

\* A conversion waits, since its level conflicts with what others hold.
ConversionWaits(t, r) ==
    /\ BeginsToWait(t, r)
    /\ lrq[r].lock \in Key /\ SamePlace(r) /\ ~Pending(r)
    /\ lrq'[r].state = lrq[r].state /\ lrq'[r].physical = lrq[r].physical
    /\ lbl'[lrq[r].lock].counts = lbl[lrq[r].lock].counts
    /\ lbl'[lrq[r].lock].state = lbl[lrq[r].lock].state
    /\ LocksKept(lrq[r].lock)
    /\ ~Compatible(lrq'[r].requested, StateWithout(r))

\* Whoever sleeps in a wait for r has its event posted.
WaiterWoken(r) ==
    \A c \in Client : call[c].lrq = r => c \in poked' \/ thr'[c].pc # "sleep"

\* post_pending grants r.
Served(r) ==
    /\ r \in FirstPending(work.pend) /\ work.pend \in Key /\ SamePlace(r)
    /\ lrq'[r].state = lrq[r].requested /\ lrq'[r].requested = lrq[r].requested
    /\ lrq'[r].physical = lrq[r].physical
    /\ ~Pending(r)' /\ (Rejected(r)' <=> Rejected(r)) /\ WaiterWoken(r)
    /\ OthersAreKept(r) /\ LocksKept(work.pend) /\ CallsKept /\ PendKept

\* post_pending ends: nobody waits, or the first one has to.
PostingEnds ==
    /\ lbl' = lbl /\ \A q \in Request : Kept(q)
    /\ CallsKept
    /\ work.pend \in Key /\ work'.pend = Nobody
    /\ lbl[work.pend].pending = 0 \/ \E r \in FirstPending(work.pend) : ~Grantable(r)

\* A waiting request is rejected.
IsRejected(r) ==
    /\ r \in Request /\ Pending(r) /\ ~Pending(r)' /\ Rejected(r)' /\ SamePlace(r)
    /\ WaiterWoken(r)
    /\ lrq'[r].state = lrq[r].state /\ lrq'[r].physical = lrq[r].physical
    /\ lbl'[lrq[r].lock].counts = lbl[lrq[r].lock].counts
    /\ lbl'[lrq[r].lock].state = lbl[lrq[r].lock].state
    /\ OthersAreKept(r) /\ LocksKept(lrq[r].lock) /\ CallsKept /\ PendKept

\* A client returns from its wait for r, which stays on its lock.
WaitIsOver(t, r) ==
    /\ t \in Client /\ r \in Request /\ call[t].lrq = r /\ call'[t].lrq = Nobody
    /\ \A c \in Client \ {t} : CallKept(c)
    /\ SamePlace(r) /\ lrq'[r].state = lrq[r].state
    /\ ~Pending(r) /\ ~Pending(r)'
    /\ OthersAreKept(r) /\ lbl' = lbl
    /\ work.pend = Nobody
    /\ \/ Rejected(r) /\ lrq'[r].physical = lrq[r].physical /\ work'.pend = lrq[r].lock
       \/ ~Rejected(r) /\ lrq'[r].physical = call[t].level /\ work'.pend = Nobody

\* A process dies.
Death == (\E p \in Process : ~prc'[p].alive) /\ UNCHANGED <<lrq, lbl>>

Shaped ==
    \/ Unmoved
    \/ \E t \in Thread, r \in Request :
         \/ Leaves(t, r) \/ Converted(t, r) \/ ConversionWaits(t, r) \/ WaitIsOver(t, r)
         \/ \E k \in Key : NewGranted(r, k) \/ NewWaits(t, r, k)
    \/ \E r \in Request : Refused(r) \/ Served(r) \/ IsRejected(r)
    \/ PostingEnds
    \/ Death

-----------------------------------------------------------------------------
(* Every step has a shape. *)

\* Steps that leave requests, locks and calls alone.
LEMMA NothingMoves ==
    ASSUME IInv, UNCHANGED <<lrq, lbl, call>>,
           NEW x, \/ work' = work
                  \/ work' = [work EXCEPT !.own = x]
                  \/ work' = [work EXCEPT !.prc = x]
                  \/ work' = [work EXCEPT !.probe = x]
    PROVE  Unmoved
  <1>1. work \in WorkBlock
    BY DEF IInv, ControlTypes
  <1>2. PendKept
    BY <1>1 DEF WorkBlock, PendKept
  <1>3. QED
    BY <1>2 DEF Unmoved, Kept, CallsKept, CallKept, Pending, Rejected

\* Calls about owners and steps of the loops over processes.
LEMMA OwnerStepsShaped ==
    ASSUME IInv, NEW t \in Thread,
           \/ initializeOwner(t) \/ shutdownOwner(t) \/ AstsDone(t)
           \/ release_shmem(t) \/ purge_process(t) \/ probe_processes(t)
    PROVE  Unmoved
  <1>1. CASE initializeOwner(t) \/ release_shmem(t)
    BY <1>1, NothingMoves DEF initializeOwner, release_shmem
  <1>2. CASE shutdownOwner(t) \/ AstsDone(t)
    BY <1>2, NothingMoves DEF shutdownOwner, AstsDone
  <1>3. CASE purge_process(t) \/ probe_processes(t)
    BY <1>3, NothingMoves DEF purge_process, probe_processes
  <1>4. QED
    BY <1>1, <1>2, <1>3

\* Signalling, waking up and the blocking action thread.
LEMMA SignalStepsShaped ==
    ASSUME IInv, NEW t \in Thread,
           \/ signal_owner(t) \/ PurgeUndelivered(t) \/ AstReturns(t)
           \/ BlockingThreadWakes(t) \/ blocking_action_thread(t)
           \/ WaitCheck(t) \/ WakesResolved(t) \/ WakesBogus(t) \/ WakesPosted(t)
           \/ WakesToScan(t) \/ cancelWait(t)
    PROVE  Unmoved
  <1>1. CASE signal_owner(t) \/ AstReturns(t)
    BY <1>1, NothingMoves DEF signal_owner, AstReturns
  <1>2. CASE PurgeUndelivered(t)
    BY <1>2, NothingMoves DEF PurgeUndelivered
  <1>3. CASE BlockingThreadWakes(t) \/ blocking_action_thread(t)
    BY <1>3, NothingMoves DEF BlockingThreadWakes, blocking_action_thread
  <1>4. CASE WaitCheck(t) \/ WakesResolved(t) \/ WakesBogus(t) \/ WakesPosted(t) \/ cancelWait(t)
    BY <1>4, NothingMoves DEF WaitCheck, WakesResolved, WakesBogus, WakesPosted, cancelWait
  <1>5. CASE WakesToScan(t)
    BY <1>5, NothingMoves DEF WakesToScan
  <1>6. QED
    BY <1>1, <1>2, <1>3, <1>4, <1>5

\* Marks: a request keeps what is not a mark for blocking notices.
LEMMA MarkShaped ==
    ASSUME IInv, lbl' = lbl, call' = call, work' = work,
           \A q \in Request :
              \/ lrq'[q] = lrq[q]
              \/ \E f \in SUBSET LrqFlag :
                   /\ lrq'[q] = [lrq[q] EXCEPT !.flags = f]
                   /\ "pending" \in f <=> "pending" \in lrq[q].flags
                   /\ "rejected" \in f <=> "rejected" \in lrq[q].flags
              \/ lrq[q].lock = Nobody /\ lrq'[q].lock = Nobody
    PROVE  Unmoved
  <1>1. ASSUME NEW q \in Request
        PROVE  Kept(q)
    <2>1. CASE lrq'[q] = lrq[q]
      BY <2>1 DEF Kept, Pending, Rejected
    <2>2. CASE \E f \in SUBSET LrqFlag :
                   /\ lrq'[q] = [lrq[q] EXCEPT !.flags = f]
                   /\ "pending" \in f <=> "pending" \in lrq[q].flags
                   /\ "rejected" \in f <=> "rejected" \in lrq[q].flags
      <3>1. lrq[q] \in LrqBlock
        BY DEF IInv, Table
      <3>2. QED
        BY <2>2, <3>1 DEF Kept, Pending, Rejected, LrqBlock
    <2>3. CASE lrq[q].lock = Nobody /\ lrq'[q].lock = Nobody
      BY <2>3 DEF Kept
    <2>4. QED
      BY <2>1, <2>2, <2>3
  <1>2. QED
    BY <1>1 DEF Unmoved, CallsKept, CallKept, PendKept

\* The marking of blocking requests, their delivery, and reposted blocks.
LEMMA NoticeStepsShaped ==
    ASSUME IInv, NEW t \in Thread,
           post_blockage(t) \/ blocking_action(t) \/ repost(t)
    PROVE  Unmoved
  <1>0. \A q \in Request : lrq[q].flags \in SUBSET LrqFlag
    BY BlockTypes DEF IInv
  <1>1. CASE post_blockage(t)
    <2>1. ASSUME NEW q \in Request
          PROVE  \/ lrq'[q] = lrq[q]
                 \/ \E f \in SUBSET LrqFlag :
                      /\ lrq'[q] = [lrq[q] EXCEPT !.flags = f]
                      /\ "pending" \in f <=> "pending" \in lrq[q].flags
                      /\ "rejected" \in f <=> "rejected" \in lrq[q].flags
      <3>1. (lrq[q].flags \ {"granted"}) \cup {"blocking"} \in SUBSET LrqFlag
        BY <1>0 DEF LrqFlag
      <3>2. \/ lrq'[q] = lrq[q]
            \/ lrq'[q] = [lrq[q] EXCEPT !.flags = (lrq[q].flags \ {"granted"}) \cup {"blocking"}]
        BY <1>1 DEF post_blockage
      <3>3. QED
        BY <3>1, <3>2
    <2>2. lbl' = lbl /\ call' = call /\ work' = work
      BY <1>1 DEF post_blockage
    <2>3. QED
      BY <2>1, <2>2, MarkShaped
  <1>2. CASE blocking_action(t)
    <2>1. lbl' = lbl /\ call' = call /\ work' = work
      BY <1>2 DEF blocking_action
    <2>2. CASE lrq' = lrq
      BY <2>1, <2>2, MarkShaped
    <2>3. CASE \E r \in Blocks(thr[t].block) :
                 lrq' = [lrq EXCEPT ![r] = IF "blocking" \in lrq[r].flags
                                           THEN [lrq[r] EXCEPT !.flags = (@ \ {"blocking"}) \cup {"seen"}]
                                           ELSE FreeLrq]
      <3>1. PICK r \in Blocks(thr[t].block) :
                 lrq' = [lrq EXCEPT ![r] = IF "blocking" \in lrq[r].flags
                                           THEN [lrq[r] EXCEPT !.flags = (@ \ {"blocking"}) \cup {"seen"}]
                                           ELSE FreeLrq]
        BY <2>3
      <3>2. r \in Request /\ lrq \in [Request -> LrqBlock]
        BY DEF Blocks, IInv, Table
      <3>3. \A q \in Request \ {r} : lrq'[q] = lrq[q]
        BY <3>1, <3>2
      <3>4. CASE "blocking" \in lrq[r].flags
        <4> DEFINE f == (lrq[r].flags \ {"blocking"}) \cup {"seen"}
        <4>1. f \in SUBSET LrqFlag /\ lrq'[r] = [lrq[r] EXCEPT !.flags = f]
          BY <1>0, <3>1, <3>2, <3>4 DEF LrqFlag
        <4>2. /\ "pending" \in f <=> "pending" \in lrq[r].flags
              /\ "rejected" \in f <=> "rejected" \in lrq[r].flags
          OBVIOUS
        <4> HIDE DEF f
        <4>3. QED
          BY <2>1, <3>3, <4>1, <4>2, MarkShaped
      <3>5. CASE "blocking" \notin lrq[r].flags
        <4>1. lrq[r].lock = Nobody
          BY <3>2, <3>5 DEF Blocks, IInv, BlocksSound
        <4>2. lrq'[r].lock = Nobody
          BY <3>1, <3>2, <3>5 DEF FreeLrq
        <4>3. QED
          BY <2>1, <3>3, <4>1, <4>2, MarkShaped
      <3>6. QED
        BY <3>4, <3>5
    <2>4. QED
      BY <1>2, <2>2, <2>3 DEF blocking_action
  <1>3. CASE repost(t)
    <2>1. lbl' = lbl /\ call' = call /\ work' = work
      BY <1>3 DEF repost
    <2>2. PICK o \in Owner, r \in FreeRequests :
            lrq' = [lrq EXCEPT ![r] = [FreeLrq EXCEPT !.owner = o, !.ast = TRUE, !.flags = {"repost"}]]
      BY <1>3 DEF repost
    <2>3. r \in Request /\ lrq \in [Request -> LrqBlock] /\ lrq[r].lock = Nobody
      BY DEF FreeRequests, IInv, Table, OffQueue
    <2>4. lrq'[r].lock = Nobody /\ \A q \in Request \ {r} : lrq'[q] = lrq[q]
      BY <2>2, <2>3 DEF FreeLrq
    <2>5. QED
      BY <2>1, <2>3, <2>4, MarkShaped
  <1>4. QED
    BY <1>1, <1>2, <1>3

\* A thread that may call for owner o belongs to its process, and nothing is
\* left to do under the mutex.
LEMMA CallerAtHome ==
    ASSUME IInv, NEW t \in Thread, NEW o \in Owner, MayCall(t, o)
    PROVE  Pid(t) = ProcOf[o] /\ work = NoWork /\ work.pend = Nobody
  <1>1. Pid(t) = ProcOf[o]
    BY ConstantTypes DEF MayCall, IInv, DeliversAtHome
  <1>2. work = NoWork
    BY DEF MayCall, IInv, WorkSound
  <1>3. QED
    BY <1>1, <1>2 DEF NoWork

\* release_request, by whomever it is called.
LEMMA LeavesShaped ==
    ASSUME IInv, NEW t \in Thread, NEW r \in Request, lrq[r].lock \in Key, release_request(r),
           work.pend = Nobody, mutex' = t, Alive(lrq[r].owner) => AtHome(t, r),
           \A c \in Client : IF call[c].lrq = r THEN call'[c].lrq = Nobody ELSE CallKept(c)
    PROVE  Leaves(t, r)
  <1>1. lrq' = [MovedUp(lrq, r) EXCEPT ![r] = FreeLrq]
    BY DEF release_request
  <1>2. lrq'[r] = FreeLrq /\ \A q \in Request \ {r} : lrq'[q] = MovedUp(lrq, r)[q]
    BY <1>1 DEF MovedUp
  <1>3. \A q \in Request \ {r} :
         lrq'[q] = IF lrq[q].lock = lrq[r].lock /\ lrq[q].pos > lrq[r].pos
                   THEN [lrq[q] EXCEPT !.pos = @ - 1] ELSE lrq[q]
    BY <1>2 DEF MovedUp
  <1>4. LocksKept(lrq[r].lock)
    BY DEF release_request, LocksKept, IInv, Table
  <1>5. work'.pend = HeldUpBy(r)
    BY DEF release_request, IInv, ControlTypes, WorkBlock
  <1>6. QED
    BY <1>2, <1>3, <1>4, <1>5 DEF Leaves

\* The calls that release a request.
LEMMA ReleaseShaped ==
    ASSUME IInv, NEW t \in Thread, NEW o \in Owner, MayCall(t, o), NEW r \in HeldBy(o),
           release_request(r), mutex' = t, \A c \in Client : call[c].lrq # r => CallKept(c)
    PROVE  Leaves(t, r)
  <1>1. r \in Request /\ lrq[r].lock \in Key /\ lrq[r].owner = o /\ \A c \in Client : call[c].lrq # r
    BY HeldRequest
  <1>2. AtHome(t, r) /\ work.pend = Nobody
    BY <1>1, CallerAtHome DEF AtHome
  <1>3. QED
    BY <1>1, <1>2, LeavesShaped

\* enqueue, up to the release of the prior request.
LEMMA enqueueShaped ==
    ASSUME IInv, NEW t \in Client, enqueue(t)
    PROVE  Shaped
  <1>1. PICK k \in Key, l \in Level, m \in Mode, a \in HasAst :
           call' = [call EXCEPT ![t] = [op |-> "enqueue", lrq |-> Nobody, key |-> k,
                                        level |-> l, mode |-> m, ast |-> a]]
           /\ \/ UNCHANGED <<lrq, lbl, work>>
              \/ \E prior \in HeldBy(Home[t]) \cap Requests(k) : release_request(prior)
    BY DEF enqueue
  <1>2. /\ thr[t] = AtRest /\ MayCall(t, Home[t]) /\ mutex' = t
        /\ t \in Thread /\ Home[t] \in Owner
    BY ConstantTypes DEF enqueue, Usable
  <1>3. call[t].lrq = Nobody
    BY <1>2 DEF AtRest, IInv, WaitersSound, Waiter, WaitPC
  <1>4. CallsKept
    BY <1>1, <1>3 DEF CallsKept, CallKept, IInv, ControlTypes
  <1>5. CASE UNCHANGED <<lrq, lbl, work>>
    BY <1>4, <1>5 DEF Shaped, Unmoved, Kept, PendKept, Pending, Rejected
  <1>6. CASE \E prior \in HeldBy(Home[t]) \cap Requests(k) : release_request(prior)
    <2>1. PICK prior \in HeldBy(Home[t]) : release_request(prior)
      BY <1>6
    <2>2. Leaves(t, prior)
      BY <1>2, <1>4, <2>1, ReleaseShaped DEF CallsKept
    <2>3. QED
      BY <1>2, <2>2 DEF Shaped, Leaves
  <1>7. QED
    BY <1>1, <1>5, <1>6

\* dequeue.
LEMMA dequeueShaped ==
    ASSUME IInv, NEW t \in Thread, dequeue(t)
    PROVE  Shaped
  <1>1. PICK o \in Owner : MayCall(t, o) /\ \E r \in HeldBy(o) : release_request(r)
    BY DEF dequeue, Usable
  <1>2. mutex' = t /\ CallsKept
    BY DEF dequeue, CallsKept, CallKept
  <1>3. PICK r \in HeldBy(o) : release_request(r)
    BY <1>1
  <1>4. Leaves(t, r)
    BY <1>1, <1>2, <1>3, ReleaseShaped DEF CallsKept
  <1>5. QED
    BY <1>4 DEF Shaped, Leaves

\* A further conjunct of the invariant: which thread purges the owner of a
\* live process.
PurgesAtHome ==
    work.own # Nobody /\ Alive(work.own) => Pid(mutex) = ProcOf[work.own]

\* An iteration of purge_owner.
LEMMA purge_ownerShaped ==
    ASSUME IInv, PurgesAtHome, NEW t \in Thread, purge_owner(t)
    PROVE  Shaped
  <1> DEFINE o == work.own
  <1>1. /\ mutex = t /\ mutex' = t /\ o # Nobody /\ o \in Owner /\ work.pend = Nobody
        /\ call' = call
    BY DEF purge_owner, IInv, ControlTypes, WorkBlock
  <1>2. CASE \E r \in Holds(o) : release_request(r)
    <2>1. PICK r \in Holds(o) : release_request(r)
      BY <1>2
    <2>2. r \in Request /\ lrq[r].owner = o /\ lrq[r].lock \in Key
      BY BlockTypes DEF Holds, IInv
    <2>3. \A c \in Client : call[c].lrq # r
      BY <1>1, <2>2, PurgedNotWaited
    <2>4. Alive(lrq[r].owner) => AtHome(t, r)
      BY <1>1, <2>2 DEF PurgesAtHome, AtHome
    <2>5. Leaves(t, r)
      BY <1>1, <2>1, <2>2, <2>3, <2>4, LeavesShaped DEF CallKept
    <2>6. QED
      BY <2>2, <2>5 DEF Shaped
  <1>3. CASE /\ Holds(o) = {} /\ lbl' = lbl /\ work' = work
             /\ \E r \in Blocks(o) : lrq' = [lrq EXCEPT ![r] = FreeLrq]
    <2>1. PICK r \in Blocks(o) : lrq' = [lrq EXCEPT ![r] = FreeLrq]
      BY <1>3
    <2>2. r \in Request /\ lrq[r].lock = Nobody /\ lrq \in [Request -> LrqBlock]
      BY <1>3 DEF Holds, Blocks, IInv, Table
    <2>3. lrq'[r].lock = Nobody /\ \A q \in Request \ {r} : lrq'[q] = lrq[q]
      BY <2>1, <2>2 DEF FreeLrq
    <2>4. QED
      BY <1>1, <1>3, <2>2, <2>3, MarkShaped DEF Shaped
  <1>4. CASE UNCHANGED <<lrq, lbl>> /\ work' = [work EXCEPT !.own = Nobody]
    BY <1>1, <1>4, NothingMoves DEF Shaped
  <1>5. QED
    BY <1>2, <1>3, <1>4 DEF purge_owner

\* Blocks that are the same are kept.
LEMMA SameIsKept ==
    ASSUME NEW r, \A q \in Request \ {r} : lrq'[q] = lrq[q]
    PROVE  OthersAreKept(r)
  BY DEF OthersAreKept, Kept, Pending, Rejected

\* What grant does to the request blocks.
LEMMA GrantMoves ==
    ASSUME IInv, NEW rq \in [Request -> LrqBlock], NEW r \in Request, NEW k \in Key,
           \A q \in Request \ {r} : rq[q] = lrq[q], NEW counts, grant(rq, r, k, counts)
    PROVE  /\ lrq'[r].lock = rq[r].lock /\ lrq'[r].owner = rq[r].owner /\ lrq'[r].pos = rq[r].pos
           /\ lrq'[r].requested = rq[r].requested /\ lrq'[r].physical = rq[r].physical
           /\ lrq'[r].state = rq[r].requested
           /\ ~Pending(r)' /\ (Rejected(r)' <=> "rejected" \in rq[r].flags)
           /\ OthersAreKept(r) /\ LocksKept(k)
  <1>1. lrq' = GrantedLrq(rq, r)
    BY DEF grant
  <1>2. rq[r] \in LrqBlock /\ lrq'[r] = [rq[r] EXCEPT !.state = rq[r].requested, !.flags = rq[r].flags \ {"pending"}]
    BY <1>1 DEF GrantedLrq
  <1>3. \A q \in Request \ {r} : lrq'[q] = lrq[q]
    BY <1>1 DEF GrantedLrq
  <1>4. lrq'[r].flags = rq[r].flags \ {"pending"}
    BY <1>2 DEF LrqBlock
  <1>5. ~Pending(r)' /\ (Rejected(r)' <=> "rejected" \in rq[r].flags)
    BY <1>4 DEF Pending, Rejected
  <1>6. LocksKept(k)
    BY DEF grant, LocksKept, IInv, Table
  <1>7. /\ lrq'[r].lock = rq[r].lock /\ lrq'[r].owner = rq[r].owner /\ lrq'[r].pos = rq[r].pos
        /\ lrq'[r].requested = rq[r].requested /\ lrq'[r].physical = rq[r].physical
        /\ lrq'[r].state = rq[r].requested
    BY <1>2 DEF LrqBlock
  <1>8. QED
    BY <1>3, <1>5, <1>6, <1>7, SameIsKept

\* What wait_for_request does to the blocks.
LEMMA WaitMoves ==
    ASSUME IInv, NEW rq \in [Request -> LrqBlock], NEW r \in Request, NEW k \in Key,
           \A q \in Request \ {r} : rq[q] = lrq[q], NEW mode, wait_for_request(rq, r, k, mode)
    PROVE  /\ lrq'[r].lock = rq[r].lock /\ lrq'[r].owner = rq[r].owner /\ lrq'[r].pos = rq[r].pos
           /\ lrq'[r].requested = rq[r].requested /\ lrq'[r].physical = rq[r].physical
           /\ lrq'[r].state = rq[r].state
           /\ Pending(r)' /\ ~Rejected(r)'
           /\ OthersAreKept(r) /\ LocksKept(k)
           /\ lbl'[k].counts = lbl[k].counts /\ lbl'[k].state = lbl[k].state
  <1> DEFINE f == (rq[r].flags \ {"rejected"}) \cup {"pending"}
                    \cup (IF mode = "wait" THEN {} ELSE {"timeout"})
  <1>1. lrq' = [rq EXCEPT ![r].flags = f]
    BY DEF wait_for_request
  <1>2. "pending" \in f /\ "rejected" \notin f
    OBVIOUS
  <1>3. f \in SUBSET LrqFlag
    BY DEF LrqBlock, LrqFlag
  <1> HIDE DEF f
  <1>4. /\ lrq'[r] = [rq[r] EXCEPT !.flags = f] /\ rq[r] \in LrqBlock
        /\ \A q \in Request \ {r} : lrq'[q] = lrq[q]
    BY <1>1
  <1>5. /\ lrq'[r].lock = rq[r].lock /\ lrq'[r].owner = rq[r].owner /\ lrq'[r].pos = rq[r].pos
        /\ lrq'[r].requested = rq[r].requested /\ lrq'[r].physical = rq[r].physical
        /\ lrq'[r].state = rq[r].state /\ lrq'[r].flags = f
    BY <1>4 DEF LrqBlock
  <1>6. lbl' = [lbl EXCEPT ![k].pending = @ + 1] /\ lbl[k] \in LblBlock /\ lbl \in [Key -> LblBlock]
    BY DEF wait_for_request, IInv, Table
  <1>7. lbl'[k].counts = lbl[k].counts /\ lbl'[k].state = lbl[k].state /\ LocksKept(k)
    BY <1>6 DEF LblBlock, LocksKept
  <1>8. QED
    BY <1>2, <1>4, <1>5, <1>7, SameIsKept DEF Pending, Rejected

\* The calls of other clients stay as they are when t has waited for nothing.
LEMMA OnlyCallOf ==
    ASSUME NEW t \in Client, call[t].lrq = Nobody, call'[t].lrq = Nobody,
           \A c \in Client \ {t} : call'[c] = call[c]
    PROVE  CallsKept
  BY DEF CallsKept, CallKept

\* The second part of enqueue.
LEMMA EnqueueRequestShaped ==
    ASSUME IInv, NEW t \in Client, EnqueueRequest(t)
    PROVE  Shaped
  <1> DEFINE k == call[t].key
             l == call[t].level
  <1>1. /\ t \in Thread /\ thr[t].pc = "enqueue" /\ work = NoWork /\ work.pend = Nobody
        /\ call[t].lrq = Nobody /\ k \in Key /\ l \in AnyLevel
    <2>1. t \in Thread /\ thr[t].pc = "enqueue" /\ work = NoWork
      BY ConstantTypes DEF EnqueueRequest, Proceeds, Quiet
    <2>2. call[t].lrq = Nobody /\ k \in Key
      BY <2>1 DEF IInv, WaitersSound, Waiter, WaitPC
    <2>3. l \in AnyLevel
      BY DEF IInv, ControlTypes, CallBlock
    <2>4. QED
      BY <2>1, <2>2, <2>3 DEF NoWork
  <1>1a. k \in Key /\ l \in AnyLevel
    BY <1>1
  <1>2. Returns(t) => CallsKept
    BY <1>1, ReturnsEffect, OnlyCallOf
  <1>3. CASE UNCHANGED <<lrq, lbl>> /\ Returns(t)
    BY <1>1, <1>2, <1>3 DEF Shaped, Unmoved, Kept, Pending, Rejected
  <1>4. ASSUME NEW r \in FreeRequests, NEW counts,
               grant([lrq EXCEPT ![r] = NewLrq(t, l)], r, k, counts), Returns(t),
               \/ work' = work /\ Requests(k) = {}
               \/ work' = [work EXCEPT !.pend = k]
        PROVE  Shaped
    <2> DEFINE rq == [lrq EXCEPT ![r] = NewLrq(t, l)]
    <2>1. /\ r \in Request /\ rq \in [Request -> LrqBlock]
          /\ \A q \in Request \ {r} : rq[q] = lrq[q]
          /\ rq[r].lock = k /\ rq[r].owner = Home[t]
          /\ rq[r].requested = l /\ rq[r].state = 0 /\ rq[r].flags = {}
          /\ lrq[r].lock = Nobody /\ lrq[r].state = 0 /\ ~Waits(lrq[r])
          /\ \A c \in Client : call[c].lrq # r
      BY <1>1a, NewRequest
    <2>2. rq[r].pos = Cardinality(Requests(k)) + 1 /\ rq[r].physical = l
      <3>1. lrq \in [Request -> LrqBlock] /\ rq[r] = NewLrq(t, l)
        BY <2>1 DEF IInv, Table
      <3>2. QED
        BY <3>1 DEF NewLrq
    <2>3. grant(rq, r, k, counts)
      BY <1>4
    <2>4. work'.pend = k \/ (work'.pend = Nobody /\ Requests(k) = {})
      BY <1>1, <1>4 DEF NoWork
    <2> HIDE DEF rq, k, l
    <2>5. NewGranted(r, k)
      BY <1>1, <1>2, <1>4, <2>1, <2>2, <2>3, <2>4, GrantMoves DEF NewGranted
    <2>6. QED
      BY <1>1, <2>1, <2>5 DEF Shaped
  <1>5. ASSUME NEW r \in FreeRequests,
               wait_for_request([lrq EXCEPT ![r] = NewLrq(t, LCK_none)], r, k, call[t].mode),
               call' = [call EXCEPT ![t].lrq = r], work' = work,
               lbl[k].pending # 0 \/ ~Compatible(l, lbl[k].state)
        PROVE  Shaped
    <2> DEFINE rq == [lrq EXCEPT ![r] = NewLrq(t, LCK_none)]
    <2>0. LCK_none \in AnyLevel
      BY DEF LCK_none, AnyLevel
    <2>1. /\ r \in Request /\ rq \in [Request -> LrqBlock]
          /\ \A q \in Request \ {r} : rq[q] = lrq[q]
          /\ rq[r].lock = k /\ rq[r].owner = Home[t]
          /\ rq[r].requested = l /\ rq[r].state = 0 /\ rq[r].flags = {}
          /\ lrq[r].lock = Nobody /\ lrq[r].state = 0 /\ ~Waits(lrq[r])
          /\ \A c \in Client : call[c].lrq # r
      BY <1>1a, <2>0, NewRequest
    <2>2. rq[r].pos = Cardinality(Requests(k)) + 1 /\ rq[r].physical = LCK_none
      <3>1. lrq \in [Request -> LrqBlock] /\ rq[r] = NewLrq(t, LCK_none)
        BY <2>1 DEF IInv, Table
      <3>2. QED
        BY <3>1 DEF NewLrq
    <2>3. wait_for_request(rq, r, k, call[t].mode)
      BY <1>5
    <2>4. /\ call'[t].lrq = r /\ call'[t].level = l
          /\ \A c \in Client \ {t} : CallKept(c)
      BY <1>5, <2>1 DEF IInv, ControlTypes, CallBlock, CallKept
    <2> HIDE DEF rq, k, l
    <2>5. /\ lrq'[r].lock = rq[r].lock /\ lrq'[r].pos = rq[r].pos
          /\ lrq'[r].requested = rq[r].requested /\ lrq'[r].physical = rq[r].physical
          /\ lrq'[r].state = rq[r].state
          /\ Pending(r)' /\ ~Rejected(r)'
          /\ OthersAreKept(r) /\ LocksKept(k)
          /\ lbl'[k].counts = lbl[k].counts /\ lbl'[k].state = lbl[k].state
      BY <1>1, <2>1, <2>3, WaitMoves
    <2>6. BeginsToWait(t, r)
      BY <1>1, <1>5, <2>1, <2>4, <2>5 DEF BeginsToWait, NoneWaitsFor, PendKept
    <2>7. NewWaits(t, r, k)
      BY <1>1, <1>5, <2>1, <2>2, <2>5, <2>6 DEF NewWaits, LCK_none
    <2>8. QED
      BY <1>1, <2>1, <2>7 DEF Shaped
  <1>6. CASE \E r \in FreeRequests :
               /\ Requests(k) = {}
               /\ grant([lrq EXCEPT ![r] = NewLrq(t, l)], r, k, FreeLbl.counts)
               /\ Returns(t)
               /\ UNCHANGED work
    <2> HIDE DEF k, l
    <2>1. QED
      BY <1>4, <1>6
  <1>7. CASE \E r \in FreeRequests : grant_or_que(t, r, k, l)
    <2>1. PICK r \in FreeRequests : grant_or_que(t, r, k, l)
      BY <1>7
    <2>2. CASE Compatible(l, lbl[k].state) /\ (l = LCK_null \/ lbl[k].pending = 0)
      <3>1. /\ grant([lrq EXCEPT ![r] = NewLrq(t, l)], r, k, lbl[k].counts)
            /\ work' = [work EXCEPT !.pend = k]
            /\ Returns(t)
        BY <2>1, <2>2 DEF grant_or_que
      <3> HIDE DEF k, l
      <3>2. QED
        BY <1>4, <3>1
    <2>3. CASE ~(Compatible(l, lbl[k].state) /\ (l = LCK_null \/ lbl[k].pending = 0)) /\ call[t].mode = "no_wait"
      <3>1. Returns(t) /\ UNCHANGED <<lrq, lbl>>
        BY <2>1, <2>3 DEF grant_or_que
      <3>2. QED
        BY <1>3, <3>1
    <2>4. CASE ~(Compatible(l, lbl[k].state) /\ (l = LCK_null \/ lbl[k].pending = 0)) /\ call[t].mode # "no_wait"
      <3>1. /\ wait_for_request([lrq EXCEPT ![r] = NewLrq(t, LCK_none)], r, k, call[t].mode)
            /\ call' = [call EXCEPT ![t].lrq = r] /\ work' = work
        BY <2>1, <2>4 DEF grant_or_que
      <3>2. lbl[k].pending # 0 \/ ~Compatible(l, lbl[k].state)
        BY <2>4
      <3> HIDE DEF k, l
      <3>3. QED
        BY <1>5, <3>1, <3>2
    <2>5. QED
      BY <2>2, <2>3, <2>4
  <1>8. QED
    BY <1>3, <1>6, <1>7 DEF EnqueueRequest

\* internal_convert.
LEMMA InternalConvertShaped ==
    ASSUME IInv, NEW t \in Thread, NEW o \in Owner, MayCall(t, o), NEW r \in HeldBy(o),
           NEW l \in AnyLevel, NEW mode \in {"no_wait", "timeout", "wait"}, NEW ast \in BOOLEAN,
           NEW refused \in AnyLevel, mode # "no_wait" => ~thr[t].ast,
           "downgrade" \notin Calls => refused = lrq[r].physical,
           internal_convert(t, r, l, mode, ast, refused), mutex' = t
    PROVE  Shaped
  <1> DEFINE k == lrq[r].lock
             asked == [lrq EXCEPT ![r].requested = l, ![r].flags = @ \ {"seen"}]
  <1>1. /\ r \in Request /\ k \in Key /\ lrq[r].owner = o
        /\ \A c \in Client : call[c].lrq # r
        /\ ~Pending(r)
    BY HeldRequest
  <1>2. AtHome(t, r) /\ work = NoWork /\ work.pend = Nobody
    BY <1>1, CallerAtHome DEF AtHome
  <1>3. lrq \in [Request -> LrqBlock] /\ lrq[r] \in LrqBlock /\ lrq[r].flags \in SUBSET LrqFlag
    BY <1>1 DEF IInv, Table, LrqBlock
  <1>4. /\ asked \in [Request -> LrqBlock]
        /\ \A q \in Request \ {r} : asked[q] = lrq[q]
        /\ asked[r] = [lrq[r] EXCEPT !.requested = l, !.flags = lrq[r].flags \ {"seen"}]
        /\ asked[r].lock = k /\ asked[r].owner = o /\ asked[r].state = lrq[r].state
        /\ asked[r].requested = l /\ asked[r].flags = lrq[r].flags \ {"seen"}
        /\ asked[r].pos = lrq[r].pos /\ asked[r].physical = lrq[r].physical
    BY <1>1, <1>3 DEF LrqBlock
  <1>5. CASE Compatible(l, StateWithout(r))
    <2> DEFINE rq == [asked EXCEPT ![r].ast = ast, ![r].physical = l]
               counts == Without(lbl[k].counts, lrq[r].state)
    <2>1. /\ grant(rq, r, k, counts)
          /\ work' = [work EXCEPT !.pend = k]
          /\ UNCHANGED <<thr, call>>
      BY <1>5 DEF internal_convert
    <2>2. /\ rq \in [Request -> LrqBlock]
          /\ \A q \in Request \ {r} : rq[q] = lrq[q]
          /\ rq[r].lock = k /\ rq[r].owner = o /\ rq[r].requested = l
          /\ rq[r].pos = lrq[r].pos /\ rq[r].physical = l
      <3>1. asked \in [Request -> LrqBlock] /\ asked[r] \in LrqBlock
        BY <1>1, <1>4
      <3>a. rq = [asked EXCEPT ![r].ast = ast, ![r].physical = l] /\ r \in Request
        BY <1>1
      <3> HIDE DEF asked, rq
      <3>2. /\ rq[r] = [asked[r] EXCEPT !.ast = ast, !.physical = l]
            /\ \A q \in Request \ {r} : rq[q] = asked[q]
        BY <3>1, <3>a
      <3>3. /\ rq[r] \in LrqBlock /\ rq[r].lock = asked[r].lock /\ rq[r].owner = asked[r].owner
            /\ rq[r].requested = asked[r].requested /\ rq[r].pos = asked[r].pos
            /\ rq[r].physical = l
        BY <3>1, <3>2 DEF LrqBlock
      <3>4. rq \in [Request -> LrqBlock]
        <4>1. \A q \in Request : rq[q] \in LrqBlock
          BY <3>1, <3>2, <3>3
        <4>2. QED
          BY <3>1, <3>a, <4>1
      <3>5. QED
        BY <1>4, <3>2, <3>3, <3>4
    <2>3. work'.pend = k
      BY <1>2, <2>1 DEF NoWork
    <2>4. CallsKept
      BY <2>1 DEF CallsKept, CallKept
    <2>5. k = lrq[r].lock
      OBVIOUS
    <2> HIDE DEF rq, counts, k
    <2>6. /\ lrq'[r].lock = rq[r].lock /\ lrq'[r].owner = rq[r].owner /\ lrq'[r].pos = rq[r].pos
          /\ lrq'[r].requested = rq[r].requested /\ lrq'[r].physical = rq[r].physical
          /\ lrq'[r].state = rq[r].requested
          /\ ~Pending(r)' /\ (Rejected(r)' <=> "rejected" \in rq[r].flags)
          /\ OthersAreKept(r) /\ LocksKept(k)
      BY <1>1, <2>1, <2>2, GrantMoves
    <2>7. Converted(t, r)
      BY <1>1, <1>2, <2>2, <2>3, <2>4, <2>5, <2>6 DEF Converted, SamePlace, NoneWaitsFor
    <2>8. QED
      BY <1>1, <2>7 DEF Shaped
  <1>6. CASE ~Compatible(l, StateWithout(r)) /\ mode = "no_wait"
    <2>1. /\ lrq' = [asked EXCEPT ![r].requested = lrq[r].state, ![r].physical = refused]
          /\ UNCHANGED <<lbl, own, work, thr, call, poked>>
      BY <1>6 DEF internal_convert
    <2>2. lrq[r].state \in AnyLevel
      BY <1>3 DEF LrqBlock
    <2> HIDE DEF asked
    <2>3. asked \in [Request -> LrqBlock] /\ asked[r] \in LrqBlock
      BY <1>1, <1>4
    <2>4. /\ lrq'[r] = [asked[r] EXCEPT !.requested = lrq[r].state, !.physical = refused]
          /\ \A q \in Request \ {r} : lrq'[q] = asked[q]
      BY <1>1, <2>1, <2>3
    <2>5. /\ lrq'[r].lock = asked[r].lock /\ lrq'[r].owner = asked[r].owner
          /\ lrq'[r].state = asked[r].state /\ lrq'[r].flags = asked[r].flags
          /\ lrq'[r].pos = asked[r].pos /\ lrq'[r].physical = refused
      BY <2>2, <2>3, <2>4 DEF LrqBlock
    <2>6. OthersAreKept(r)
      BY <1>4, <2>4, SameIsKept
    <2>7. ~Pending(r)'
      BY <1>1, <1>4, <2>5 DEF Pending
    <2>8. Refused(r)
      BY <1>1, <1>4, <2>1, <2>5, <2>6, <2>7 DEF Refused, SamePlace, NoneWaitsFor, CallsKept, CallKept, PendKept
    <2>9. QED
      BY <1>1, <2>8 DEF Shaped
  <1>7. CASE ~Compatible(l, StateWithout(r)) /\ mode # "no_wait"
    <2>1. /\ wait_for_request(asked, r, k, mode)
          /\ call' = [call EXCEPT ![t] = [op |-> "convert", lrq |-> r, key |-> k,
                                          level |-> l, mode |-> mode, ast |-> ast]]
          /\ UNCHANGED work
      BY <1>7 DEF internal_convert
    <2>2. t \in Client /\ call[t].lrq = Nobody
      <3>1. t \in Client /\ thr[t] = AtRest
        BY <1>7 DEF MayCall
      <3>2. QED
        BY <3>1 DEF AtRest, IInv, WaitersSound, Waiter, WaitPC
    <2>3. call'[t].lrq = r /\ call'[t].level = l /\ \A c \in Client \ {t} : CallKept(c)
      BY <2>1, <2>2 DEF IInv, ControlTypes, CallKept
    <2>4. /\ k = lrq[r].lock /\ k \in Key /\ r \in Request /\ asked \in [Request -> LrqBlock]
          /\ \A q \in Request \ {r} : asked[q] = lrq[q]
          /\ wait_for_request(asked, r, k, mode)
      BY <1>1, <1>4, <2>1
    <2> HIDE DEF asked, k
    <2>5. /\ lrq'[r].lock = asked[r].lock /\ lrq'[r].owner = asked[r].owner /\ lrq'[r].pos = asked[r].pos
          /\ lrq'[r].requested = asked[r].requested /\ lrq'[r].physical = asked[r].physical
          /\ lrq'[r].state = asked[r].state
          /\ Pending(r)' /\ ~Rejected(r)'
          /\ OthersAreKept(r) /\ LocksKept(k)
          /\ lbl'[k].counts = lbl[k].counts /\ lbl'[k].state = lbl[k].state
      BY <2>4, WaitMoves
    <2>6. BeginsToWait(t, r)
      BY <1>1, <1>4, <2>1, <2>2, <2>3, <2>5 DEF BeginsToWait, NoneWaitsFor, PendKept
    <2>7. ConversionWaits(t, r)
      BY <1>1, <1>4, <1>7, <2>4, <2>5, <2>6 DEF ConversionWaits, SamePlace
    <2>8. QED
      BY <1>1, <2>7 DEF Shaped
  <1>8. QED
    BY <1>5, <1>6, <1>7

\* convert.
LEMMA convertShaped ==
    ASSUME IInv, NEW t \in Thread, convert(t)
    PROVE  Shaped
  <1>1. PICK o \in Owner, l \in Level, m \in Mode, a \in HasAst :
           /\ MayCall(t, o)
           /\ thr[t].ast => m = "no_wait"
           /\ \E r \in HeldBy(o) : internal_convert(t, r, l, m, a, lrq[r].physical)
           /\ mutex' = t
    BY DEF convert, Usable
  <1>2. PICK r \in HeldBy(o) : internal_convert(t, r, l, m, a, lrq[r].physical)
    BY <1>1
  <1>3. l \in AnyLevel /\ m \in {"no_wait", "timeout", "wait"} /\ a \in BOOLEAN
    BY Constants DEF AnyLevel
  <1>4. lrq[r].physical \in AnyLevel
    <2>1. r \in Request
      BY <1>1, HeldRequest
    <2>2. QED
      BY <2>1 DEF IInv, Table, LrqBlock
  <1>5. QED
    BY <1>1, <1>2, <1>3, <1>4, InternalConvertShaped

\* downgrade releases the request or converts it.
LEMMA downgradeShaped ==
    ASSUME IInv, NEW t \in Thread, downgrade(t)
    PROVE  Shaped
  <1>1. PICK o \in Owner :
           /\ MayCall(t, o)
           /\ \E r \in HeldBy(o) :
                IF DowngradeLevel(r) <= LCK_null
                THEN release_request(r) /\ UNCHANGED <<own, thr, call, poked>>
                ELSE internal_convert(t, r, DowngradeLevel(r), "no_wait", lrq[r].ast, DowngradeLevel(r))
           /\ mutex' = t
    BY DEF downgrade, Usable
  <1>2. PICK r \in HeldBy(o) :
          IF DowngradeLevel(r) <= LCK_null
          THEN release_request(r) /\ UNCHANGED <<own, thr, call, poked>>
          ELSE internal_convert(t, r, DowngradeLevel(r), "no_wait", lrq[r].ast, DowngradeLevel(r))
    BY <1>1
  <1>3. CASE release_request(r) /\ UNCHANGED call
    <2>1. \A c \in Client : CallKept(c)
      BY <1>3 DEF CallKept
    <2>2. Leaves(t, r)
      BY <1>1, <1>3, <2>1, ReleaseShaped
    <2>3. QED
      BY <2>2 DEF Shaped, Leaves
  <1>4. CASE internal_convert(t, r, DowngradeLevel(r), "no_wait", lrq[r].ast, DowngradeLevel(r))
    <2>1. r \in Request
      BY <1>1, HeldRequest
    <2>2. DowngradeLevel(r) \in AnyLevel /\ lrq[r].ast \in BOOLEAN
      BY <2>1, DowngradeFinds DEF IInv, Table, LrqBlock
    <2>3. "downgrade" \in Calls
      BY DEF downgrade
    <2>4. QED
      BY <1>1, <1>4, <2>1, <2>2, <2>3, InternalConvertShaped
  <1>5. QED
    BY <1>2, <1>3, <1>4

\* post_wakeup reaches the thread that waits for a request of the owner.
LEMMA WaiterPoked ==
    ASSUME IInv, NEW c \in Client, NEW r \in Request, call[c].lrq = r
    PROVE  c \in PokedBy(lrq[r].owner)
  <1>1. Home[c] \in Owner /\ lrq[r].owner = Home[c] /\ r # Nobody
    BY ConstantTypes DEF IInv, WaitersSound, Waiter
  <1>2. c \in WaitersOf(Home[c])
    BY <1>1 DEF WaitersOf
  <1>3. IsFiniteSet(WaitersOf(Home[c])) /\ Cardinality(WaitersOf(Home[c])) \in Nat
    BY CountedFinite DEF WaitersOf
  <1>4. Cardinality(WaitersOf(Home[c])) # 0
    BY <1>2, <1>3, FS_EmptySet
  <1>5. own[Home[c]].waits \in Nat /\ own[Home[c]].waits >= Cardinality(WaitersOf(Home[c]))
    BY <1>1 DEF IInv, ControlTypes, OwnBlock, Counted
  <1>6. own[Home[c]].waits > 0
    BY <1>3, <1>4, <1>5
  <1>7. QED
    BY <1>1, <1>6 DEF PokedBy

\* An iteration of post_pending.
LEMMA post_pendingShaped ==
    ASSUME IInv, NEW t \in Thread, post_pending(t)
    PROVE  Shaped
  <1> DEFINE k == work.pend
  <1>1. k \in Key /\ call' = call /\ CallsKept /\ work \in WorkBlock
    BY DEF post_pending, IInv, ControlTypes, WorkBlock, CallsKept, CallKept
  <1>2. CASE lbl[k].pending = 0 /\ work' = [work EXCEPT !.pend = Nobody] /\ UNCHANGED <<lrq, lbl>>
    <2>1. work'.pend = Nobody
      BY <1>1, <1>2 DEF WorkBlock
    <2>2. QED
      BY <1>1, <1>2, <2>1 DEF Shaped, PostingEnds, Kept, Pending, Rejected
  <1>3. CASE \E r \in FirstPending(k) :
               /\ Grantable(r)
               /\ grant(lrq, r, k, Without(lbl[k].counts, lrq[r].state))
               /\ UNCHANGED work
    <2>1. PICK r \in FirstPending(k) :
               /\ Grantable(r)
               /\ grant(lrq, r, k, Without(lbl[k].counts, lrq[r].state))
               /\ UNCHANGED work
      BY <1>3
    <2>2. r \in Request /\ lrq[r].lock = k /\ lrq \in [Request -> LrqBlock]
      BY DEF FirstPending, Requests, IInv, Table
    <2>3. /\ lrq'[r].lock = lrq[r].lock /\ lrq'[r].owner = lrq[r].owner /\ lrq'[r].pos = lrq[r].pos
          /\ lrq'[r].requested = lrq[r].requested /\ lrq'[r].physical = lrq[r].physical
          /\ lrq'[r].state = lrq[r].requested
          /\ ~Pending(r)' /\ (Rejected(r)' <=> "rejected" \in lrq[r].flags)
          /\ OthersAreKept(r) /\ LocksKept(k)
      BY <1>1, <2>1, <2>2, GrantMoves
    <2>a. WaiterWoken(r)
      <3>1. poked' = PokedBy(lrq[r].owner)
        BY <2>1 DEF grant
      <3>2. QED
        BY <2>2, <3>1, WaiterPoked DEF WaiterWoken
    <2>4. Served(r)
      BY <1>1, <2>1, <2>2, <2>3, <2>a DEF Served, SamePlace, PendKept, Rejected
    <2>5. QED
      BY <2>2, <2>4 DEF Shaped
  <1>4. CASE \E r \in FirstPending(k) :
               /\ ~Grantable(r)
               /\ lrq' = JustGranted(r)
               /\ work' = [work EXCEPT !.pend = Nobody]
               /\ UNCHANGED lbl
    <2>1. PICK r \in FirstPending(k) :
               /\ ~Grantable(r)
               /\ lrq' = JustGranted(r)
               /\ work' = [work EXCEPT !.pend = Nobody]
               /\ UNCHANGED lbl
      BY <1>4
    <2>2. work'.pend = Nobody
      BY <1>1, <2>1 DEF WorkBlock
    <2>3. ASSUME NEW q \in Request
          PROVE  Kept(q)
      <3>1. lrq[q] \in LrqBlock /\ lrq[q].flags \in SUBSET LrqFlag
        BY DEF IInv, Table, LrqBlock
      <3>2. lrq'[q] = lrq[q] \/ lrq'[q] = [lrq[q] EXCEPT !.flags = lrq[q].flags \cup {"granted"}]
        BY <2>1 DEF JustGranted
      <3>3. CASE lrq'[q] = [lrq[q] EXCEPT !.flags = lrq[q].flags \cup {"granted"}]
        <4>1. /\ lrq'[q].lock = lrq[q].lock /\ lrq'[q].owner = lrq[q].owner
              /\ lrq'[q].state = lrq[q].state /\ lrq'[q].requested = lrq[q].requested
              /\ lrq'[q].physical = lrq[q].physical /\ lrq'[q].pos = lrq[q].pos
              /\ lrq'[q].flags = lrq[q].flags \cup {"granted"}
          BY <3>1, <3>3 DEF LrqBlock
        <4>2. QED
          BY <4>1 DEF Kept, Pending, Rejected
      <3>4. QED
        BY <3>2, <3>3 DEF Kept, Pending, Rejected
    <2>4. PostingEnds
      BY <1>1, <2>1, <2>2, <2>3 DEF PostingEnds
    <2>5. QED
      BY <2>4 DEF Shaped
  <1>5. QED
    BY <1>2, <1>3, <1>4 DEF post_pending

\* A rejection.
LEMMA RejectShaped ==
    ASSUME IInv, NEW v \in Request, Pending(v), lrq' = RejectedLrq(lrq, v),
           lbl' = OnePendingLess(lrq[v].lock), call' = call, PendKept, WaiterWoken(v)
    PROVE  IsRejected(v)
  <1> DEFINE f == (lrq[v].flags \cup {"rejected"}) \ {"pending"}
             k == lrq[v].lock
  <1>1. lrq' = [lrq EXCEPT ![v].flags = f] /\ "rejected" \in f /\ "pending" \notin f
    BY DEF RejectedLrq
  <1>2. lrq[v] \in LrqBlock /\ lrq \in [Request -> LrqBlock]
    BY DEF IInv, Table
  <1> HIDE DEF f
  <1>3. lrq'[v] = [lrq[v] EXCEPT !.flags = f] /\ \A q \in Request \ {v} : lrq'[q] = lrq[q]
    BY <1>1, <1>2
  <1>4. /\ lrq'[v].lock = lrq[v].lock /\ lrq'[v].owner = lrq[v].owner /\ lrq'[v].pos = lrq[v].pos
        /\ lrq'[v].state = lrq[v].state /\ lrq'[v].physical = lrq[v].physical
        /\ lrq'[v].flags = f
    BY <1>2, <1>3 DEF LrqBlock
  <1>5. k \in Key
    BY PendingOnLock DEF IInv
  <1>6. lbl' = [lbl EXCEPT ![k].pending = @ - 1] /\ lbl[k] \in LblBlock /\ lbl \in [Key -> LblBlock]
    BY <1>5 DEF OnePendingLess, IInv, Table
  <1>7. lbl'[k].counts = lbl[k].counts /\ lbl'[k].state = lbl[k].state /\ LocksKept(k)
    BY <1>5, <1>6 DEF LblBlock, LocksKept
  <1>8. QED
    BY <1>1, <1>3, <1>4, <1>7, SameIsKept
       DEF IsRejected, Pending, Rejected, SamePlace, CallsKept, CallKept

\* A waiter gives up.
LEMMA GivesUpShaped ==
    ASSUME IInv, NEW t \in Client, GivesUp(t)
    PROVE  Shaped
  <1>0. thr[t].pc \in WaitPC
    BY DEF GivesUp, WaitPC
  <1>1. PICK r \in Request : r = call[t].lrq
    BY <1>0 DEF IInv, WaitersSound, Waiter, ControlTypes, CallBlock
  <1>2. /\ Pending(r) /\ call' = call
        /\ lrq' = RejectedLrq(lrq, r) /\ lbl' = OnePendingLess(lrq[r].lock)
        /\ work' = [work EXCEPT !.probe = TRUE]
        /\ thr' = [thr EXCEPT ![t].pc = "exit"]
    BY <1>1 DEF GivesUp, Goto
  <1>3. PendKept
    BY <1>2 DEF PendKept, IInv, ControlTypes, WorkBlock
  <1>4. thr'[t].pc = "exit"
    BY <1>2, ConstantTypes DEF IInv, ControlTypes, ThrBlock
  <1>5. \A c \in Client \ {t} : call[c].lrq # r
    BY <1>1, ConstantTypes, OwnRequest
  <1>6. WaiterWoken(r)
    BY <1>4, <1>5 DEF WaiterWoken
  <1>7. QED
    BY <1>2, <1>3, <1>6, RejectShaped DEF Shaped

\* The deadlock scan.
LEMMA deadlock_scanShaped ==
    ASSUME IInv, NEW t \in Client, deadlock_scan(t)
    PROVE  Shaped
  <1>1. /\ thr[t].pc = "scan" /\ call' = call /\ work' = work
    BY DEF deadlock_scan
  <1>2. PICK r \in Request : r = call[t].lrq
    BY <1>1 DEF IInv, WaitersSound, Waiter, ControlTypes, CallBlock, WaitPC
  <1>3. CASE UNCHANGED <<lrq, lbl>>
    BY <1>1, <1>3 DEF Shaped, Unmoved, Kept, Pending, Rejected, CallsKept, CallKept, PendKept
  <1>4. CASE /\ thr' = [thr EXCEPT ![t].pc = "wait"]
             /\ \E v \in deadlock_walk(r) :
                  /\ lrq' = RejectedLrq(lrq, v) /\ lbl' = OnePendingLess(lrq[v].lock)
                  /\ poked' = IF v = r THEN poked ELSE PokedBy(lrq[v].owner)
    <2>1. PICK v \in deadlock_walk(r) :
                  /\ lrq' = RejectedLrq(lrq, v) /\ lbl' = OnePendingLess(lrq[v].lock)
                  /\ poked' = IF v = r THEN poked ELSE PokedBy(lrq[v].owner)
      BY <1>4
    <2>2. v \in Request /\ Pending(v)
      BY <1>2, WalkPending
    <2>3. thr'[t].pc = "wait"
      BY <1>4, ConstantTypes DEF IInv, ControlTypes, ThrBlock
    <2>4. WaiterWoken(v)
      <3>1. CASE v = r
        BY <1>2, <2>3, <3>1, ConstantTypes, OwnRequest DEF WaiterWoken
      <3>2. CASE v # r
        BY <2>1, <2>2, <3>2, WaiterPoked DEF WaiterWoken
      <3>3. QED
        BY <3>1, <3>2
    <2>5. QED
      BY <1>1, <2>1, <2>2, <2>4, RejectShaped DEF Shaped, PendKept
  <1>5. QED
    BY <1>2, <1>3, <1>4 DEF deadlock_scan, Goto

\* The return from wait_for_request.
LEMMA WaitEndsShaped ==
    ASSUME IInv, NEW t \in Client, WaitEnds(t)
    PROVE  Shaped
  <1>0. call[t].lrq \in Request
    <2>1. thr[t].pc \in WaitPC
      BY DEF WaitEnds, WaitPC
    <2>2. QED
      BY <2>1 DEF IInv, WaitersSound, Waiter, ControlTypes, CallBlock
  <1>a. PICK r \in Request : r = call[t].lrq
    BY <1>0
  <1> DEFINE k == lrq[r].lock
             done == [lrq[r] EXCEPT !.flags = @ \ {"timeout"}]
  <1>1. /\ thr[t].pc = "exit" /\ mutex = t /\ mutex' = t /\ work = NoWork /\ work.pend = Nobody
        /\ Returns(t) /\ t \in Thread
    BY ConstantTypes DEF WaitEnds, Proceeds, Quiet, NoWork
  <1>2. /\ r \in Request /\ k \in Key /\ lrq[r].owner = Home[t] /\ ~Pending(r)
        /\ \A c \in Client \ {t} : call[c].lrq # r
    BY <1>1, <1>a, ConstantTypes, OwnRequest DEF IInv, WaitersSound, Waiter, WaitPC
  <1>3. call'[t].lrq = Nobody /\ \A c \in Client \ {t} : call'[c] = call[c] /\ CallKept(c)
    BY <1>1, ReturnsEffect DEF CallKept
  <1>4. AtHome(t, r)
    BY <1>2, ConstantTypes DEF AtHome
  <1>5. CASE release_request(r)
    <2>1. Leaves(t, r)
      <3>1. \A c \in Client : IF call[c].lrq = r THEN call'[c].lrq = Nobody ELSE CallKept(c)
        BY <1>2, <1>3, <1>a
      <3>2. QED
        BY <1>1, <1>2, <1>4, <1>5, <3>1, LeavesShaped
    <2>2. QED
      BY <1>1, <1>2, <2>1 DEF Shaped
  <1>6. lrq[r] \in LrqBlock /\ lrq \in [Request -> LrqBlock] /\ lrq[r].flags \in SUBSET LrqFlag
    BY <1>2 DEF IInv, Table, LrqBlock
  <1>7. /\ done \in LrqBlock
        /\ done.lock = k /\ done.owner = lrq[r].owner /\ done.pos = lrq[r].pos
        /\ done.state = lrq[r].state /\ done.physical = lrq[r].physical
        /\ done.flags = lrq[r].flags \ {"timeout"}
    BY <1>6 DEF LrqBlock
  <1>8. call[t].level \in AnyLevel /\ call[t].ast \in BOOLEAN /\ lrq[r].state \in AnyLevel
    BY <1>6 DEF IInv, ControlTypes, CallBlock, LrqBlock
  <1>9. CASE /\ "rejected" \in lrq[r].flags
             /\ lrq' = [lrq EXCEPT ![r] = [done EXCEPT !.requested = lrq[r].state]]
             /\ work' = [work EXCEPT !.pend = k] /\ UNCHANGED lbl
    <2> HIDE DEF done
    <2>1. lrq'[r] = [done EXCEPT !.requested = lrq[r].state] /\ \A q \in Request \ {r} : lrq'[q] = lrq[q]
      BY <1>2, <1>6, <1>9
    <2>2. /\ lrq'[r].lock = done.lock /\ lrq'[r].owner = done.owner /\ lrq'[r].pos = done.pos
          /\ lrq'[r].state = done.state /\ lrq'[r].physical = done.physical /\ lrq'[r].flags = done.flags
      BY <1>7, <2>1 DEF LrqBlock
    <2>3. work'.pend = k
      BY <1>1, <1>9 DEF NoWork
    <2>4. ~Pending(r)' /\ OthersAreKept(r)
      BY <1>2, <1>7, <2>1, <2>2, SameIsKept DEF Pending
    <2>5. WaitIsOver(t, r)
      BY <1>1, <1>2, <1>3, <1>7, <1>a, <1>9, <2>2, <2>3, <2>4 DEF WaitIsOver, SamePlace, Rejected
    <2>6. QED
      BY <1>1, <1>2, <2>5 DEF Shaped
  <1>10. CASE /\ "rejected" \notin lrq[r].flags
              /\ lrq' = [lrq EXCEPT ![r] = [done EXCEPT !.physical = call[t].level, !.ast = call[t].ast]]
              /\ UNCHANGED <<lbl, work>>
    <2> HIDE DEF done
    <2>1. /\ lrq'[r] = [done EXCEPT !.physical = call[t].level, !.ast = call[t].ast]
          /\ \A q \in Request \ {r} : lrq'[q] = lrq[q]
      BY <1>2, <1>6, <1>10
    <2>2. /\ lrq'[r].lock = done.lock /\ lrq'[r].owner = done.owner /\ lrq'[r].pos = done.pos
          /\ lrq'[r].state = done.state /\ lrq'[r].physical = call[t].level /\ lrq'[r].flags = done.flags
      BY <1>7, <1>8, <2>1 DEF LrqBlock
    <2>3. ~Pending(r)' /\ OthersAreKept(r)
      BY <1>2, <1>7, <2>1, <2>2, SameIsKept DEF Pending
    <2>4. WaitIsOver(t, r)
      BY <1>1, <1>2, <1>3, <1>7, <1>a, <1>10, <2>2, <2>3 DEF WaitIsOver, SamePlace, Rejected
    <2>5. QED
      BY <1>1, <1>2, <2>4 DEF Shaped
  <1>11. QED
    BY <1>a, <1>5, <1>9, <1>10 DEF WaitEnds

\* Every step of the lock manager has a shape.
LEMMA NextShaped ==
    ASSUME IInv, PurgesAtHome, [Next]_vars
    PROVE  Shaped
  <1>1. CASE vars' = vars
    BY <1>1 DEF vars, Shaped, Unmoved, Kept, CallsKept, CallKept, PendKept, Pending, Rejected
  <1>2. ASSUME NEW c \in Client, Calling(c) \/ Waiting(c) \/ cancelWait(c)
        PROVE  Shaped
    <2>1. c \in Thread
      BY ConstantTypes
    <2>2. CASE initializeOwner(c) \/ shutdownOwner(c) \/ AstsDone(c)
      BY <2>1, <2>2, OwnerStepsShaped DEF Shaped
    <2>3. CASE enqueue(c) \/ EnqueueRequest(c) \/ GivesUp(c) \/ deadlock_scan(c) \/ WaitEnds(c)
      BY <2>3, enqueueShaped, EnqueueRequestShaped, GivesUpShaped, deadlock_scanShaped, WaitEndsShaped
    <2>4. CASE post_blockage(c)
      BY <2>1, <2>4, NoticeStepsShaped DEF Shaped
    <2>5. CASE \/ WaitCheck(c) \/ WakesResolved(c) \/ WakesBogus(c) \/ WakesPosted(c)
               \/ WakesToScan(c) \/ cancelWait(c)
      BY <2>1, <2>5, SignalStepsShaped DEF Shaped
    <2>6. QED
      BY <1>2, <2>2, <2>3, <2>4, <2>5 DEF Calling, Waiting
  <1>3. ASSUME NEW t \in Thread, AnyCalling(t) \/ Working(t)
        PROVE  Shaped
    <2>1. CASE convert(t) \/ downgrade(t) \/ dequeue(t) \/ post_pending(t) \/ purge_owner(t)
      BY <2>1, convertShaped, downgradeShaped, dequeueShaped, post_pendingShaped, purge_ownerShaped
    <2>2. CASE repost(t) \/ blocking_action(t)
      BY <2>2, NoticeStepsShaped DEF Shaped
    <2>3. CASE release_shmem(t) \/ purge_process(t) \/ probe_processes(t)
      BY <2>3, OwnerStepsShaped DEF Shaped
    <2>4. CASE signal_owner(t) \/ PurgeUndelivered(t) \/ AstReturns(t)
      BY <2>4, SignalStepsShaped DEF Shaped
    <2>5. QED
      BY <1>3, <2>1, <2>2, <2>3, <2>4 DEF AnyCalling, Working
  <1>4. ASSUME NEW p \in Process, BlockingThreadWakes(p) \/ blocking_action_thread(p) \/ ProcessDies(p)
        PROVE  Shaped
    <2>1. CASE BlockingThreadWakes(p) \/ blocking_action_thread(p)
      BY <2>1, SignalStepsShaped, ConstantTypes DEF Shaped
    <2>2. CASE ProcessDies(p)
      <3>1. ~prc'[p].alive
        BY <2>2 DEF ProcessDies, IInv, ControlTypes, PrcBlock
      <3>2. QED
        BY <2>2, <3>1 DEF ProcessDies, Shaped, Death
    <2>3. QED
      BY <1>4, <2>1, <2>2
  <1>5. QED
    BY <1>1, <1>2, <1>3, <1>4 DEF Next

-----------------------------------------------------------------------------
(* Levels are taken away by their owners only. *)

\* Steps that begin no purge.
LEMMA PurgesKept ==
    ASSUME IInv, PurgesAtHome, work'.own \in {work.own, Nobody},
           mutex' = mutex \/ mutex = Nobody \/ work = NoWork,
           \A p \in Process : prc'[p].alive => prc[p].alive
    PROVE  PurgesAtHome'
  <1>1. mutex = Nobody => work = NoWork
    BY DEF IInv, WorkSound
  <1>2. work = NoWork => work.own = Nobody
    BY DEF NoWork
  <1>3. work.own \in Owner \cup {Nobody}
    BY DEF IInv, ControlTypes, WorkBlock
  <1>4. CASE work'.own = Nobody
    BY <1>4 DEF PurgesAtHome
  <1>5. CASE work'.own = work.own /\ mutex' = mutex /\ work.own \in Owner
    <2>1. Alive(work.own)' => Alive(work.own)
      BY <1>5, ConstantTypes DEF Alive
    <2>2. QED
      BY <1>5, <2>1 DEF PurgesAtHome
  <1>6. QED
    BY <1>1, <1>2, <1>3, <1>4, <1>5

\* An owner of a live process is purged by a thread of that process.
LEMMA PurgesAtHomeStep ==
    ASSUME IInv, PurgesAtHome, [Next]_vars
    PROVE  PurgesAtHome'
  <1>0. work \in WorkBlock /\ prc \in [Process -> PrcBlock]
    BY DEF IInv, ControlTypes
  <1>1. CASE vars' = vars
    BY <1>1, PurgesKept DEF vars
  <1>2. ASSUME NEW c \in Client, Calling(c) \/ Waiting(c) \/ cancelWait(c)
        PROVE  PurgesAtHome'
    <2>1. c \in Thread /\ Home[c] \in Owner /\ Pid(c) = ProcOf[Home[c]]
      BY ConstantTypes
    <2>2. CASE initializeOwner(c)
      <3>1. mutex = Nobody /\ (work' = work \/ work' = [work EXCEPT !.probe = TRUE])
        BY <2>2 DEF initializeOwner, MayCall
      <3>2. prc' = prc \/ prc' = [prc EXCEPT ![ProcOf[Home[c]]].listed = TRUE]
        BY <2>2 DEF initializeOwner
      <3>3. work'.own = work.own
        BY <1>0, <3>1 DEF WorkBlock
      <3>4. \A p \in Process : prc'[p].alive => prc[p].alive
        BY <1>0, <3>2 DEF PrcBlock
      <3>5. QED
        BY <3>1, <3>3, <3>4, PurgesKept
    <2>3. CASE shutdownOwner(c) \/ AstsDone(c)
      <3>1. mutex' = c /\ (work'.own = Home[c] \/ work'.own = Nobody)
        BY <1>0, <2>3 DEF shutdownOwner, AstsDone, WorkBlock
      <3>2. QED
        BY <2>1, <3>1 DEF PurgesAtHome
    <2>4. CASE enqueue(c)
      <3>1. mutex = Nobody /\ prc' = prc
        BY <2>4 DEF enqueue, Usable, MayCall
      <3>2. \/ work' = work
            \/ \E x : work' = [work EXCEPT !.pend = x]
        BY <2>4 DEF enqueue, release_request
      <3>3. work'.own = work.own
        BY <1>0, <3>2 DEF WorkBlock
      <3>4. QED
        BY <3>1, <3>3, PurgesKept
    <2>5. CASE EnqueueRequest(c)
      <3>1. mutex' = mutex /\ prc' = prc
        BY <2>5 DEF EnqueueRequest
      <3>2. work' = work \/ work' = [work EXCEPT !.pend = call[c].key]
        BY <2>5 DEF EnqueueRequest, grant_or_que
      <3>3. work'.own = work.own
        BY <1>0, <3>2 DEF WorkBlock
      <3>4. QED
        BY <3>1, <3>3, PurgesKept
    <2>6. CASE \/ WakesResolved(c) \/ WakesBogus(c) \/ GivesUp(c) \/ WakesPosted(c) \/ WakesToScan(c)
      <3>1. prc' = prc /\ (work' = work \/ work' = [work EXCEPT !.probe = TRUE])
        BY <2>6 DEF WakesResolved, WakesBogus, GivesUp, WakesPosted, WakesToScan
      <3>2. mutex' = c /\ (mutex = c \/ mutex = Nobody)
        BY <2>6 DEF WakesResolved, WakesBogus, GivesUp, WakesPosted, WakesToScan, Wakes, Proceeds, Quiet
      <3>3. work'.own = work.own
        BY <1>0, <3>1 DEF WorkBlock
      <3>4. QED
        BY <3>1, <3>2, <3>3, PurgesKept
    <2>7. CASE post_blockage(c) \/ WaitCheck(c) \/ deadlock_scan(c) \/ cancelWait(c)
      BY <2>7, PurgesKept DEF post_blockage, WaitCheck, deadlock_scan, cancelWait
    <2>8. CASE WaitEnds(c)
      <3>1. mutex' = mutex /\ prc' = prc
        BY <2>8 DEF WaitEnds
      <3>2. \/ work' = work
            \/ \E x : work' = [work EXCEPT !.pend = x]
        BY <2>8 DEF WaitEnds, release_request
      <3>3. work'.own = work.own
        BY <1>0, <3>2 DEF WorkBlock
      <3>4. QED
        BY <3>1, <3>3, PurgesKept
    <2>9. QED
      BY <1>2, <2>2, <2>3, <2>4, <2>5, <2>6, <2>7, <2>8 DEF Calling, Waiting
  <1>3. ASSUME NEW t \in Thread, AnyCalling(t) \/ Working(t)
        PROVE  PurgesAtHome'
    <2>1. CASE convert(t) \/ downgrade(t) \/ dequeue(t)
      <3>1. mutex = Nobody /\ prc' = prc
        BY <2>1 DEF convert, downgrade, dequeue, Usable, MayCall
      <3>2. \/ work' = work
            \/ \E x : work' = [work EXCEPT !.pend = x]
        <4>0. ASSUME NEW r, NEW l, NEW m, NEW a, NEW refused, internal_convert(t, r, l, m, a, refused)
              PROVE  work' = work \/ \E x : work' = [work EXCEPT !.pend = x]
          BY <4>0 DEF internal_convert
        <4>1. CASE convert(t)
          BY <4>0, <4>1 DEF convert
        <4>2. CASE downgrade(t)
          BY <4>0, <4>2 DEF downgrade, release_request
        <4>3. CASE dequeue(t)
          BY <4>3 DEF dequeue, release_request
        <4>4. QED
          BY <2>1, <4>1, <4>2, <4>3
      <3>3. work'.own = work.own
        BY <1>0, <3>2 DEF WorkBlock
      <3>4. QED
        BY <3>1, <3>3, PurgesKept
    <2>2. CASE repost(t) \/ AstReturns(t)
      BY <2>2, PurgesKept DEF repost, AstReturns, MayCall
    <2>3. CASE blocking_action(t)
      BY <2>3, PurgesKept DEF blocking_action
    <2>4. CASE release_shmem(t)
      BY <2>4, PurgesKept DEF release_shmem, Quiet
    <2>5. CASE post_pending(t) \/ probe_processes(t)
      <3>1. prc' = prc /\ mutex' = mutex
        BY <2>5 DEF post_pending, probe_processes
      <3>2. \/ work' = work
            \/ \E x : work' = [work EXCEPT !.pend = x]
            \/ \E x : work' = [work EXCEPT !.prc = x]
            \/ work' = [work EXCEPT !.probe = FALSE]
        BY <2>5 DEF post_pending, probe_processes
      <3>3. work'.own = work.own
        BY <1>0, <3>2 DEF WorkBlock
      <3>4. QED
        BY <3>1, <3>3, PurgesKept
    <2>6. CASE purge_owner(t)
      <3>1. prc' = prc /\ mutex' = mutex
        BY <2>6 DEF purge_owner
      <3>2. \/ work' = work
            \/ \E x : work' = [work EXCEPT !.pend = x]
            \/ work' = [work EXCEPT !.own = Nobody]
        BY <2>6 DEF purge_owner, release_request
      <3>3. work'.own \in {work.own, Nobody}
        BY <1>0, <3>2 DEF WorkBlock
      <3>4. QED
        BY <3>1, <3>3, PurgesKept
    <2>7. CASE purge_process(t)
      <3>1. CASE \E o \in Registered(work.prc) : work' = [work EXCEPT !.own = o] /\ prc' = prc
        <4>1. PICK o \in Registered(work.prc) : work' = [work EXCEPT !.own = o] /\ prc' = prc
          BY <3>1
        <4>2. work'.own = o /\ ProcOf[o] = work.prc
          BY <1>0, <4>1 DEF WorkBlock, Registered
        <4>3. ~prc[work.prc].alive
          BY <2>7 DEF purge_process, IInv, WorkSound
        <4>4. QED
          BY <4>1, <4>2, <4>3 DEF PurgesAtHome, Alive
      <3>2. CASE work' = [work EXCEPT !.prc = Nobody] /\ prc' = [prc EXCEPT ![work.prc].listed = FALSE]
        <4>1. work'.own = work.own
          BY <1>0, <3>2 DEF WorkBlock
        <4>2. \A p \in Process : prc'[p].alive => prc[p].alive
          BY <1>0, <3>2 DEF PrcBlock
        <4>3. QED
          BY <2>7, <4>1, <4>2, PurgesKept DEF purge_process
      <3>3. QED
        BY <2>7, <3>1, <3>2 DEF purge_process
    <2>8. CASE signal_owner(t)
      <3>1. work' = work /\ mutex' = mutex
        BY <2>8 DEF signal_owner
      <3>2. PICK o \in Owner : \/ prc' = prc
                               \/ prc' = [prc EXCEPT ![ProcOf[o]].blocking = @ \/ own[o].inuse]
        BY <2>8 DEF signal_owner, IInv, ControlTypes, ThrBlock
      <3>3. \A p \in Process : prc'[p].alive => prc[p].alive
        BY <1>0, <3>2 DEF PrcBlock
      <3>4. QED
        BY <3>1, <3>3, PurgesKept
    <2>9. CASE PurgeUndelivered(t)
      <3>1. prc' = prc /\ mutex' = mutex /\ \E x : work' = [work EXCEPT !.prc = x]
        BY <2>9 DEF PurgeUndelivered
      <3>2. work'.own = work.own
        BY <1>0, <3>1 DEF WorkBlock
      <3>3. QED
        BY <3>1, <3>2, PurgesKept
    <2>10. QED
      BY <1>3, <2>1, <2>2, <2>3, <2>4, <2>5, <2>6, <2>7, <2>8, <2>9 DEF AnyCalling, Working
  <1>4. ASSUME NEW p \in Process, BlockingThreadWakes(p) \/ blocking_action_thread(p) \/ ProcessDies(p)
        PROVE  PurgesAtHome'
    <2>1. CASE BlockingThreadWakes(p)
      <3>1. \A x \in Process : prc'[x].alive => prc[x].alive
        BY <1>0, <2>1 DEF BlockingThreadWakes, PrcBlock
      <3>2. QED
        BY <2>1, <3>1, PurgesKept DEF BlockingThreadWakes
    <2>2. CASE blocking_action_thread(p)
      BY <2>2, PurgesKept DEF blocking_action_thread
    <2>3. CASE ProcessDies(p)
      <3>1. \A x \in Process : prc'[x].alive => prc[x].alive
        BY <1>0, <2>3 DEF ProcessDies, PrcBlock
      <3>2. CASE mutex \in Threads(p)
        BY <2>3, <3>2 DEF ProcessDies, PurgesAtHome, NoWork
      <3>3. CASE mutex \notin Threads(p)
        BY <2>3, <3>1, <3>3, PurgesKept DEF ProcessDies
      <3>4. QED
        BY <3>2, <3>3
    <2>4. QED
      BY <1>4, <2>1, <2>2, <2>3
  <1>5. QED
    BY <1>1, <1>2, <1>3, <1>4 DEF Next

\* A step of a given shape takes no level away from a live owner, unless it
\* is one of the owner's process, and gives one only to who asked for it.
LEMMA ShapedKeepsHeld ==
    ASSUME IInv, Shaped, NEW r \in Request, NEW o \in Owner, lrq[r].owner = o,
           lrq[r].lock # Nobody, prc[ProcOf[o]].alive
    PROVE  \/ lrq'[r].owner = o /\ lrq'[r].state = lrq[r].state
           \/ mutex' \in Threads(ProcOf[o])
           \/ Pending(r) /\ lrq'[r].state = lrq[r].requested
  <1>0. Kept(r) => lrq'[r].owner = o /\ lrq'[r].state = lrq[r].state
    BY DEF Kept
  <1>1. CASE Unmoved \/ PostingEnds
    BY <1>0, <1>1 DEF Unmoved, PostingEnds
  <1>2. ASSUME NEW t \in Thread, NEW x \in Request, Leaves(t, x)
        PROVE  \/ lrq'[r].owner = o /\ lrq'[r].state = lrq[r].state
               \/ mutex' \in Threads(ProcOf[o])
    <2>1. CASE r = x
      BY <1>2, <2>1 DEF Leaves, AtHome, Alive, Threads
    <2>2. CASE r # x
      <3>1. lrq[r] \in LrqBlock
        BY DEF IInv, Table
      <3>2. lrq'[r] = lrq[r] \/ lrq'[r] = [lrq[r] EXCEPT !.pos = lrq[r].pos - 1]
        BY <1>2, <2>2 DEF Leaves
      <3>3. QED
        BY <3>1, <3>2 DEF LrqBlock
    <2>3. QED
      BY <2>1, <2>2
  <1>3. ASSUME NEW t \in Thread, NEW x \in Request, Converted(t, x)
        PROVE  \/ lrq'[r].owner = o /\ lrq'[r].state = lrq[r].state
               \/ mutex' \in Threads(ProcOf[o])
    BY <1>0, <1>3 DEF Converted, AtHome, Threads, OthersAreKept
  <1>4. ASSUME NEW t \in Thread, NEW x \in Request,
               \/ ConversionWaits(t, x) \/ WaitIsOver(t, x) \/ Refused(x) \/ IsRejected(x)
        PROVE  lrq'[r].owner = o /\ lrq'[r].state = lrq[r].state
    BY <1>0, <1>4 DEF ConversionWaits, BeginsToWait, WaitIsOver, Refused, IsRejected, SamePlace, OthersAreKept
  <1>5. ASSUME NEW t \in Thread, NEW x \in Request, NEW k \in Key, NewGranted(x, k) \/ NewWaits(t, x, k)
        PROVE  lrq'[r].owner = o /\ lrq'[r].state = lrq[r].state
    BY <1>0, <1>5 DEF NewGranted, NewWaits, BeginsToWait, OthersAreKept
  <1>6. ASSUME NEW x \in Request, Served(x)
        PROVE  \/ lrq'[r].owner = o /\ lrq'[r].state = lrq[r].state
               \/ Pending(r) /\ lrq'[r].state = lrq[r].requested
    BY <1>0, <1>6 DEF Served, FirstPending, OthersAreKept
  <1>7. CASE Death
    BY <1>7 DEF Death
  <1>8. ASSUME NEW x \in Request, Refused(x) \/ IsRejected(x)
        PROVE  lrq'[r].owner = o /\ lrq'[r].state = lrq[r].state
    BY <1>0, <1>8 DEF Refused, IsRejected, SamePlace, OthersAreKept
  <1>9. QED
    BY <1>1, <1>2, <1>3, <1>4, <1>5, <1>6, <1>7, <1>8 DEF Shaped

\* lock.cpp never changes a level behind the back of a live owner: of what
\* any step does, only a thread of the owner's process releases, converts or
\* purges a request, and post_pending gives a waiting one what it asked for.
THEOREM HeldKept == Spec => HeldIsKept
  <1> DEFINE HeldStep ==
        \A r \in Request :
          LET o == lrq[r].owner
          IN  (o # Nobody /\ lrq[r].lock # Nobody /\ prc[ProcOf[o]].alive) =>
                \/ lrq'[r].owner = o /\ lrq'[r].state = lrq[r].state
                \/ mutex' \in Threads(ProcOf[o])
                \/ Pending(r) /\ lrq'[r].state = lrq[r].requested
  <1>1. Init => PurgesAtHome
    BY DEF Init, PurgesAtHome, NoWork
  <1>2. IInv /\ PurgesAtHome /\ [Next]_vars => PurgesAtHome'
    BY PurgesAtHomeStep
  <1>3. IInv /\ PurgesAtHome /\ [Next]_vars => [HeldStep]_vars
    <2> SUFFICES ASSUME IInv, PurgesAtHome, [Next]_vars
                 PROVE  HeldStep
      OBVIOUS
    <2>1. Shaped
      BY NextShaped
    <2>2. \A r \in Request : lrq[r].owner \in Owner \cup {Nobody}
      BY DEF IInv, Table, LrqBlock
    <2>3. QED
      BY <2>1, <2>2, ShapedKeepsHeld
  <1>4. QED
    BY <1>1, <1>2, <1>3, Invariant, PTL DEF Spec, HeldIsKept

-----------------------------------------------------------------------------
(* Wakeups. *)

\* Who sleeps after a step slept before it or has just seen that its request
\* is pending; events stay posted, but for waiters that have to wait on.
Sleepers ==
    \A c \in Client : thr'[c].pc = "sleep" =>
        call'[c].lrq = call[c].lrq /\ (Pending(call[c].lrq) \/ c \in poked')

\* A step of thread t, which does not sleep after it.
LEMMA OthersSleep ==
    ASSUME NoLostWakeup, NEW t \in Thread,
           \A c \in Client \ {t} : thr'[c].pc = thr[c].pc /\ call'[c] = call[c],
           \A c \in Client \ {t} : c \in poked => c \in poked',
           t \in Client => thr'[t].pc # "sleep"
    PROVE  Sleepers
  BY DEF NoLostWakeup, Sleepers

\* A step that changes no client's control state.
LEMMA AllSleep ==
    ASSUME NoLostWakeup, call' = call, \A c \in Client : thr'[c].pc = thr[c].pc,
           \A c \in Client : c \in poked => c \in poked'
    PROVE  Sleepers
  BY DEF NoLostWakeup, Sleepers

\* post_wakeup takes no event away.
LEMMA PokesStay ==
    ASSUME NEW o
    PROVE  poked \subseteq PokedBy(o)
  BY DEF PokedBy

\* Steps of a client.
LEMMA ClientStepSleepers ==
    ASSUME IInv, NoLostWakeup, NEW c \in Client, Calling(c) \/ Waiting(c) \/ cancelWait(c)
    PROVE  Sleepers
  <1>0. /\ thr \in [Thread -> ThrBlock] /\ call \in [Client -> CallBlock]
        /\ c \in Thread /\ \A d \in Client : d \in Thread
    BY ConstantTypes DEF IInv, ControlTypes
  <1>1. CASE initializeOwner(c)
    BY <1>1, AllSleep DEF initializeOwner
  <1>2. CASE shutdownOwner(c) \/ AstsDone(c)
    <2>1. PICK pc \in {"shutdown", "idle"} : thr' = [thr EXCEPT ![c].pc = pc]
      BY <1>2 DEF shutdownOwner, AstsDone, Goto
    <2>2. call' = call /\ poked' = poked
      BY <1>2 DEF shutdownOwner, AstsDone
    <2>3. QED
      BY <1>0, <2>1, <2>2, OthersSleep DEF ThrBlock
  <1>3. CASE enqueue(c)
    <2>1. thr' = [thr EXCEPT ![c].pc = "enqueue"] /\ poked' = poked
      BY <1>3 DEF enqueue, Goto
    <2>2. \A d \in Client \ {c} : call'[d] = call[d]
      BY <1>0, <1>3 DEF enqueue
    <2>3. QED
      BY <1>0, <2>1, <2>2, OthersSleep DEF ThrBlock
  <1>4. CASE EnqueueRequest(c)
    <2>1. \E pc \in {"idle", "blockage"} : thr' = [thr EXCEPT ![c].pc = pc]
      BY <1>4 DEF EnqueueRequest, grant_or_que, Returns, Goto
    <2>2. \E x : call' = [call EXCEPT ![c] = x]
      <3>1. \/ call' = [call EXCEPT ![c] = NoCall]
            \/ \E r \in Request : call' = [call EXCEPT ![c].lrq = r]
        BY <1>4 DEF EnqueueRequest, grant_or_que, Returns, FreeRequests
      <3>2. QED
        BY <3>1
    <2>3. \A d \in Client \ {c} : d \in poked => d \in poked'
      <3>1. \/ poked' = poked
            \/ \E r \in FreeRequests :
                  \/ \E rq, k, counts : grant(rq, r, k, counts)
                  \/ grant_or_que(c, r, call[c].key, call[c].level)
        BY <1>4 DEF EnqueueRequest
      <3>2. ASSUME NEW r, grant_or_que(c, r, call[c].key, call[c].level)
            PROVE  \/ poked' = poked
                   \/ poked' = poked \ {c}
                   \/ \E rq, k, counts : grant(rq, r, k, counts)
        BY <3>2 DEF grant_or_que
      <3>3. ASSUME NEW r, NEW rq, NEW k, NEW counts, grant(rq, r, k, counts)
            PROVE  poked \subseteq poked'
        <4>1. poked' = PokedBy(rq[r].owner)
          BY <3>3 DEF grant
        <4>2. QED
          BY <4>1, PokesStay
      <3>4. QED
        BY <3>1, <3>2, <3>3
    <2>4. thr'[c].pc # "sleep" /\ \A d \in Client \ {c} : thr'[d].pc = thr[d].pc
      BY <1>0, <2>1 DEF ThrBlock
    <2>5. \A d \in Client \ {c} : call'[d] = call[d]
      BY <1>0, <2>2
    <2>6. QED
      BY <1>0, <2>3, <2>4, <2>5, OthersSleep
  <1>5. CASE post_blockage(c)
    <2>1. /\ call' = call /\ poked' = poked
          /\ thr' = [thr EXCEPT ![c].todo = {lrq[b].owner : b \in Notified(call[c].lrq)}, ![c].pc = "wait"]
      BY <1>5 DEF post_blockage
    <2>2. thr'[c].pc # "sleep" /\ \A d \in Client \ {c} : thr'[d].pc = thr[d].pc
      BY <1>0, <2>1 DEF ThrBlock
    <2>3. QED
      BY <1>0, <2>1, <2>2, OthersSleep
  <1>6. CASE WaitCheck(c)
    <2>1. call' = call /\ poked' = poked
      BY <1>6 DEF WaitCheck
    <2>2. \/ thr' = [thr EXCEPT ![c].pc = "exit"]
          \/ thr' = [thr EXCEPT ![c].pc = "sleep"] /\ Pending(call[c].lrq)
      BY <1>6 DEF WaitCheck, Goto
    <2>3. \A d \in Client \ {c} : thr'[d].pc = thr[d].pc
      BY <1>0, <2>2
    <2>4. thr'[c].pc = "sleep" => Pending(call[c].lrq)
      BY <1>0, <2>2 DEF ThrBlock
    <2>5. QED
      BY <2>1, <2>3, <2>4 DEF Sleepers, NoLostWakeup
  <1>7. CASE WakesBogus(c)
    <2>1. thr' = thr /\ call' = call /\ Pending(call[c].lrq)
      BY <1>7 DEF WakesBogus
    <2>2. \A d \in Client \ {c} : d \in poked => d \in poked'
      BY <1>7 DEF WakesBogus, Wakes
    <2>3. QED
      BY <2>1, <2>2 DEF Sleepers, NoLostWakeup
  <1>8. CASE WakesResolved(c) \/ GivesUp(c) \/ WakesPosted(c) \/ WakesToScan(c)
    <2>1. call' = call /\ \E pc \in {"exit", "blockage", "scan"} : thr' = [thr EXCEPT ![c].pc = pc]
      BY <1>8 DEF WakesResolved, GivesUp, WakesPosted, WakesToScan, Goto
    <2>2. \A d \in Client \ {c} : d \in poked => d \in poked'
      BY <1>8 DEF WakesResolved, GivesUp, WakesPosted, WakesToScan, Wakes
    <2>3. thr'[c].pc # "sleep" /\ \A d \in Client \ {c} : thr'[d].pc = thr[d].pc
      BY <1>0, <2>1 DEF ThrBlock
    <2>4. QED
      BY <1>0, <2>1, <2>2, <2>3, OthersSleep
  <1>9. CASE deadlock_scan(c)
    <2>1. call' = call /\ \E pc \in {"exit", "blockage", "wait"} : thr' = [thr EXCEPT ![c].pc = pc]
      BY <1>9 DEF deadlock_scan, Goto
    <2>2. poked' = poked \/ \E o : poked' = PokedBy(o)
      BY <1>9 DEF deadlock_scan
    <2>3. thr'[c].pc # "sleep" /\ \A d \in Client \ {c} : thr'[d].pc = thr[d].pc
      BY <1>0, <2>1 DEF ThrBlock
    <2>4. \A d \in Client \ {c} : d \in poked => d \in poked'
      BY <2>2, PokesStay
    <2>5. QED
      BY <1>0, <2>1, <2>3, <2>4, OthersSleep
  <1>10. CASE WaitEnds(c)
    <2>1. Returns(c) /\ poked' = poked \ {c}
      BY <1>10 DEF WaitEnds
    <2>2. thr'[c].pc = "idle" /\ \A d \in Client \ {c} : thr'[d].pc = thr[d].pc /\ call'[d] = call[d]
      BY <1>0, <2>1, ReturnsEffect
    <2>3. QED
      BY <1>0, <2>1, <2>2, OthersSleep
  <1>11. CASE cancelWait(c)
    <2>1. call' = call /\ thr' = thr /\ poked' = PokedBy(Home[c])
      BY <1>11 DEF cancelWait
    <2>2. QED
      BY <2>1, PokesStay, AllSleep
  <1>12. QED
    BY <1>1, <1>2, <1>3, <1>4, <1>5, <1>6, <1>7, <1>8, <1>9, <1>10, <1>11 DEF Calling, Waiting

\* Steps of any thread, and the death of a process.
LEMMA ThreadStepSleepers ==
    ASSUME IInv, NoLostWakeup,
           \/ \E t \in Thread : AnyCalling(t) \/ Working(t)
           \/ \E p \in Process : BlockingThreadWakes(p) \/ blocking_action_thread(p) \/ ProcessDies(p)
    PROVE  Sleepers
  <1>0. /\ thr \in [Thread -> ThrBlock] /\ call \in [Client -> CallBlock]
        /\ \A d \in Client : d \in Thread
    BY ConstantTypes DEF IInv, ControlTypes
  <1>1. ASSUME NEW t \in Thread, convert(t) \/ downgrade(t)
        PROVE  Sleepers
    <2>1. \A o : poked \subseteq PokedBy(o)
      BY PokesStay
    <2>2. \/ thr' = thr /\ call' = call /\ poked \subseteq poked'
          \/ /\ thr' = [thr EXCEPT ![t].pc = "blockage"]
             /\ \E x : call' = [call EXCEPT ![t] = x]
             /\ poked' = poked \ {t}
      <3>0. ASSUME NEW r, NEW l, NEW m, NEW a, NEW x, internal_convert(t, r, l, m, a, x)
            PROVE  \/ thr' = thr /\ call' = call /\ poked \subseteq poked'
                   \/ /\ thr' = [thr EXCEPT ![t].pc = "blockage"]
                      /\ \E y : call' = [call EXCEPT ![t] = y]
                      /\ poked' = poked \ {t}
        <4>1. CASE Compatible(l, StateWithout(r))
          BY <2>1, <3>0, <4>1 DEF internal_convert, grant
        <4>2. CASE ~Compatible(l, StateWithout(r)) /\ m = "no_wait"
          BY <3>0, <4>2 DEF internal_convert
        <4>3. CASE ~Compatible(l, StateWithout(r)) /\ m # "no_wait"
          BY <3>0, <4>3 DEF internal_convert, Goto
        <4>4. QED
          BY <4>1, <4>2, <4>3
      <3>1. CASE convert(t)
        <4>1. \E r, l, m, a, x : internal_convert(t, r, l, m, a, x)
          BY <3>1 DEF convert
        <4>2. QED
          BY <3>0, <4>1
      <3>2. CASE downgrade(t)
        <4>1. \/ UNCHANGED <<thr, call, poked>>
              \/ \E r, l, m, a, x : internal_convert(t, r, l, m, a, x)
          BY <3>2 DEF downgrade
        <4>2. QED
          BY <3>0, <4>1
      <3>3. QED
        BY <1>1, <3>1, <3>2
    <2>3. CASE thr' = thr /\ call' = call /\ poked \subseteq poked'
      BY <2>3, AllSleep
    <2>4. CASE /\ thr' = [thr EXCEPT ![t].pc = "blockage"]
               /\ \E x : call' = [call EXCEPT ![t] = x]
               /\ poked' = poked \ {t}
      <3>1. thr'[t].pc # "sleep" /\ \A d \in Client \ {t} : thr'[d].pc = thr[d].pc
        BY <1>0, <2>4 DEF ThrBlock
      <3>2. \A d \in Client \ {t} : call'[d] = call[d]
        BY <1>0, <2>4
      <3>3. QED
        BY <2>4, <3>1, <3>2, OthersSleep
    <2>5. QED
      BY <2>2, <2>3, <2>4
  <1>2. ASSUME NEW t \in Thread, dequeue(t) \/ release_shmem(t) \/ purge_owner(t) \/ purge_process(t) \/ probe_processes(t)
        PROVE  Sleepers
    BY <1>2, AllSleep DEF dequeue, release_shmem, purge_owner, purge_process, probe_processes
  <1>3. ASSUME NEW t \in Thread, repost(t) \/ signal_owner(t) \/ PurgeUndelivered(t) \/ blocking_action(t) \/ AstReturns(t)
        PROVE  Sleepers
    <2>1. call' = call /\ poked' = poked
      BY <1>3 DEF repost, signal_owner, PurgeUndelivered, blocking_action, AstReturns
    <2>2. \A d \in Thread : thr'[d].pc = thr[d].pc
      <3>1. CASE repost(t)
        BY <1>0, <3>1 DEF repost, ThrBlock
      <3>2. CASE signal_owner(t)
        <4>1. \E o \in Owner : \/ thr' = [thr EXCEPT ![t].todo = @ \ {o}]
                               \/ thr' = [[thr EXCEPT ![t].todo = @ \ {o}] EXCEPT ![t].block = o]
                               \/ thr' = [[thr EXCEPT ![t].todo = @ \ {o}] EXCEPT ![t].dead = @ \cup {ProcOf[o]}]
          BY <1>0, <3>2 DEF signal_owner, ThrBlock
        <4>2. QED
          BY <1>0, <4>1 DEF ThrBlock
      <3>3. CASE PurgeUndelivered(t) \/ blocking_action(t) \/ AstReturns(t)
        <4>1. \/ \E x : thr' = [thr EXCEPT ![t].dead = x]
              \/ \E x : thr' = [thr EXCEPT ![t].ast = x]
              \/ \E x : thr' = [thr EXCEPT ![t].block = x]
          <5>1. CASE PurgeUndelivered(t)
            BY <5>1 DEF PurgeUndelivered
          <5>2. CASE blocking_action(t)
            BY <5>2 DEF blocking_action
          <5>3. CASE AstReturns(t)
            BY <5>3 DEF AstReturns
          <5>4. QED
            BY <3>3, <5>1, <5>2, <5>3
        <4>2. QED
          BY <1>0, <4>1 DEF ThrBlock
      <3>4. QED
        BY <1>3, <3>1, <3>2, <3>3
    <2>3. QED
      BY <1>0, <2>1, <2>2, AllSleep
  <1>4. ASSUME NEW t \in Thread, post_pending(t)
        PROVE  Sleepers
    <2>1. call' = call /\ thr' = thr
      BY <1>4 DEF post_pending
    <2>2. poked' = poked \/ \E o : poked' = PokedBy(o)
      BY <1>4 DEF post_pending, grant
    <2>3. QED
      BY <2>1, <2>2, PokesStay, AllSleep
  <1>5. ASSUME NEW p \in Process, BlockingThreadWakes(p) \/ blocking_action_thread(p)
        PROVE  Sleepers
    <2>1. call' = call /\ poked' = poked /\ p \in Thread /\ p \notin Client
      BY <1>5, Constants DEF BlockingThreadWakes, blocking_action_thread, Thread
    <2>2. \A d \in Client : thr'[d] = thr[d]
      BY <1>0, <1>5, <2>1 DEF BlockingThreadWakes, blocking_action_thread, Goto
    <2>3. QED
      BY <2>1, <2>2, AllSleep
  <1>6. ASSUME NEW p \in Process, ProcessDies(p)
        PROVE  Sleepers
    <2>1. ASSUME NEW c \in Client, thr'[c].pc = "sleep"
          PROVE  call'[c].lrq = call[c].lrq /\ (Pending(call[c].lrq) \/ c \in poked')
      <3>1. c \in Thread /\ AtRest.pc = "idle"
        BY <1>0 DEF AtRest
      <3>2. c \notin Threads(p)
        BY <1>6, <2>1, <3>1 DEF ProcessDies
      <3>3. thr'[c] = thr[c] /\ call'[c] = call[c] /\ (c \in poked => c \in poked')
        BY <1>6, <3>1, <3>2 DEF ProcessDies
      <3>4. QED
        BY <2>1, <3>3 DEF NoLostWakeup
    <2>2. QED
      BY <2>1 DEF Sleepers
  <1>7. QED
    BY <1>1, <1>2, <1>3, <1>4, <1>5, <1>6 DEF AnyCalling, Working

\* A request that is waited for stays pending, is granted or is rejected; in
\* the last two cases the waiter's event is posted.
LEMMA PendingStays ==
    ASSUME IInv, Shaped, NEW c \in Client, NEW r \in Request, call[c].lrq = r, call'[c].lrq = r,
           Pending(r), thr'[c].pc = "sleep"
    PROVE  Pending(r)' \/ c \in poked'
  <1>0. lrq[r].lock \in Key /\ lrq[r].lock # Nobody /\ r # Nobody
    BY ConstantTypes DEF IInv, WaitersSound, Waiter
  <1>a. Kept(r) => Pending(r)'
    BY <1>0 DEF Kept
  <1>1. CASE Unmoved \/ PostingEnds
    BY <1>1, <1>a DEF Unmoved, PostingEnds
  <1>2. ASSUME NEW t \in Thread, NEW x \in Request, Leaves(t, x)
        PROVE  Pending(r)'
    <2>1. r # x
      BY <1>0, <1>2 DEF Leaves
    <2>2. lrq[r] \in LrqBlock
      BY DEF IInv, Table
    <2>3. lrq'[r] = lrq[r] \/ lrq'[r] = [lrq[r] EXCEPT !.pos = lrq[r].pos - 1]
      BY <1>2, <2>1 DEF Leaves
    <2>4. QED
      BY <2>2, <2>3 DEF LrqBlock, Pending
  <1>3. ASSUME NEW t \in Thread, NEW x \in Request, Converted(t, x) \/ ConversionWaits(t, x) \/ WaitIsOver(t, x)
        PROVE  Pending(r)'
    BY <1>a, <1>0, <1>3 DEF Converted, ConversionWaits, BeginsToWait, WaitIsOver, NoneWaitsFor, OthersAreKept
  <1>4. ASSUME NEW t \in Thread, NEW x \in Request, NEW k \in Key, NewGranted(x, k) \/ NewWaits(t, x, k)
        PROVE  Pending(r)'
    BY <1>a, <1>0, <1>4 DEF NewGranted, NewWaits, BeginsToWait, OthersAreKept
  <1>5. ASSUME NEW x \in Request, Refused(x) \/ Served(x) \/ IsRejected(x)
        PROVE  Pending(r)' \/ c \in poked'
    BY <1>a, <1>5 DEF Refused, Served, IsRejected, NoneWaitsFor, OthersAreKept, WaiterWoken
  <1>6. CASE Death
    BY <1>6 DEF Death, Pending
  <1>7. QED
    BY <1>1, <1>2, <1>3, <1>4, <1>5, <1>6 DEF Shaped

\* Every step keeps wakeups.
LEMMA WakeupStep ==
    ASSUME IInv, PurgesAtHome, NoLostWakeup, IInv', [Next]_vars
    PROVE  NoLostWakeup'
  <1>1. CASE vars' = vars
    BY <1>1 DEF vars, NoLostWakeup, Pending
  <1>2. CASE Next
    <2>1. Sleepers
      BY <1>2, ClientStepSleepers, ThreadStepSleepers DEF Next
    <2>2. Shaped
      BY NextShaped
    <2>3. ASSUME NEW c \in Client, thr'[c].pc = "sleep"
          PROVE  "pending" \in lrq'[call'[c].lrq].flags \/ c \in poked'
      <3>1. call'[c].lrq = call[c].lrq /\ (Pending(call[c].lrq) \/ c \in poked')
        BY <2>1, <2>3 DEF Sleepers
      <3>2. call'[c].lrq \in Request
        BY <2>3 DEF IInv, WaitersSound, Waiter, WaitPC, ControlTypes, CallBlock
      <3>3. PICK r \in Request : r = call[c].lrq
        BY <3>1, <3>2
      <3>4. Pending(r) => Pending(r)' \/ c \in poked'
        BY <2>2, <2>3, <3>1, <3>3, PendingStays
      <3>5. QED
        BY <3>1, <3>3, <3>4 DEF Pending
    <2>4. QED
      BY <2>3 DEF NoLostWakeup, Pending
  <1>3. QED
    BY <1>1, <1>2

\* lock.cpp posts the event of every owner whose request it grants or
\* rejects (post_wakeup), and a waiter clears an event only to look at its
\* request again: no waiter sleeps on a request that is settled without an
\* event that is still to be seen.
THEOREM WakeupsKept == Spec => []NoLostWakeup
  <1>1. Init => PurgesAtHome /\ NoLostWakeup
    BY ConstantTypes DEF Init, PurgesAtHome, NoWork, NoLostWakeup, AtRest
  <1>2. IInv /\ PurgesAtHome /\ [Next]_vars => PurgesAtHome'
    BY PurgesAtHomeStep
  <1>3. IInv /\ PurgesAtHome /\ NoLostWakeup /\ IInv' /\ [Next]_vars => NoLostWakeup'
    BY WakeupStep
  <1>4. QED
    BY <1>1, <1>2, <1>3, Invariant, PTL DEF Spec

-----------------------------------------------------------------------------
(* The queue of a lock. *)

\* The places of the requests of a lock are 1, 2, ... without gaps.
OrderedAt(k) ==
    /\ \A q \in Requests(k) : 1 <= lrq[q].pos /\ lrq[q].pos <= Cardinality(Requests(k))
    /\ \A q, x \in Requests(k) : lrq[q].pos = lrq[x].pos => q = x

Ordered == \A k \in Key : OrderedAt(k)

\* The requests of a lock are finitely many.
LEMMA QueueFinite ==
    ASSUME NEW k
    PROVE  IsFiniteSet(Requests(k)) /\ Cardinality(Requests(k)) \in Nat
  <1>1. IsFiniteSet(Request) /\ Requests(k) \in SUBSET Request
    BY Constants DEF Requests
  <1>2. QED
    BY <1>1, FS_Subset, FS_CardinalityType

\* The places in a queue that no step touches.
LEMMA OrderKept ==
    ASSUME NEW k \in Key, OrderedAt(k),
           \A q \in Request : lrq[q].lock = k \/ lrq'[q].lock = k =>
               lrq'[q].lock = lrq[q].lock /\ lrq'[q].pos = lrq[q].pos
    PROVE  OrderedAt(k)'
  <1>1. Requests(k)' = Requests(k)
    BY DEF Requests
  <1>2. \A q \in Requests(k) : lrq'[q].pos = lrq[q].pos
    BY DEF Requests
  <1>3. QED
    BY <1>1, <1>2 DEF OrderedAt

\* A request joins a queue at its tail.
LEMMA OrderJoined ==
    ASSUME IInv, NEW k \in Key, OrderedAt(k), NEW r \in Request, lrq[r].lock = Nobody, lrq'[r].lock = k,
           lrq'[r].pos = Cardinality(Requests(k)) + 1,
           \A q \in Request \ {r} : lrq[q].lock = k \/ lrq'[q].lock = k =>
               lrq'[q].lock = lrq[q].lock /\ lrq'[q].pos = lrq[q].pos
    PROVE  OrderedAt(k)'
  <1>1. Requests(k)' = Requests(k) \cup {r} /\ r \notin Requests(k)
    BY ConstantTypes DEF Requests
  <1>2. IsFiniteSet(Requests(k)) /\ Cardinality(Requests(k)) \in Nat
    BY QueueFinite
  <1>3. Cardinality(Requests(k) \cup {r}) = Cardinality(Requests(k)) + 1
    BY <1>1, <1>2, FS_AddElement
  <1>4. \A q \in Requests(k) : lrq'[q].pos = lrq[q].pos /\ lrq[q].pos \in Nat
    BY <1>1, BlockTypes DEF Requests, IInv
  <1> DEFINE n == Cardinality(Requests(k))
             S == Requests(k)
  <1>5. Requests(k)' = S \cup {r} /\ Cardinality(Requests(k))' = n + 1 /\ n \in Nat /\ lrq'[r].pos = n + 1
    BY <1>1, <1>2, <1>3
  <1>6. \A q \in S : 1 <= lrq[q].pos /\ lrq[q].pos <= n /\ lrq[q].pos \in Nat /\ lrq'[q].pos = lrq[q].pos
    BY <1>4 DEF OrderedAt
  <1>7. \A q, x \in S : lrq[q].pos = lrq[x].pos => q = x
    BY DEF OrderedAt
  <1> HIDE DEF n, S
  <1>8. QED
    BY <1>5, <1>6, <1>7 DEF OrderedAt

\* A request leaves its queue, and those behind it move up.
LEMMA OrderLeft ==
    ASSUME IInv, NEW t \in Thread, NEW r \in Request, Leaves(t, r),
           NEW k \in Key, k = lrq[r].lock, OrderedAt(k)
    PROVE  OrderedAt(k)'
  <1> DEFINE n == Cardinality(Requests(k))
             S == Requests(k)
             p == lrq[r].pos
  <1>1. k # Nobody /\ lrq'[r].lock = Nobody
    BY ConstantTypes DEF Leaves, FreeLrq
  <1>2. ASSUME NEW q \in Request \ {r}
        PROVE  /\ lrq'[q].lock = lrq[q].lock
               /\ lrq'[q].pos = IF lrq[q].lock = k /\ lrq[q].pos > p THEN lrq[q].pos - 1 ELSE lrq[q].pos
    <2>1. lrq[q] \in LrqBlock /\ lrq[q].pos \in Nat /\ p \in Nat
      BY BlockTypes DEF IInv
    <2>2. lrq'[q] = IF lrq[q].lock = lrq[r].lock /\ lrq[q].pos > lrq[r].pos
                    THEN [lrq[q] EXCEPT !.pos = lrq[q].pos - 1] ELSE lrq[q]
      BY DEF Leaves
    <2>3. CASE lrq[q].lock = k /\ lrq[q].pos > p
      <3>1. lrq'[q] = [lrq[q] EXCEPT !.pos = lrq[q].pos - 1]
        BY <2>2, <2>3
      <3>2. QED
        BY <2>1, <2>3, <3>1 DEF LrqBlock
    <2>4. QED
      BY <2>2, <2>3
  <1>3. Requests(k)' = S \ {r} /\ r \in S
    BY <1>1, <1>2 DEF Requests
  <1>4. IsFiniteSet(S) /\ n \in Nat
    BY QueueFinite
  <1>5. Cardinality(Requests(k))' = n - 1
    <2>1. Cardinality(S \ {r}) = Cardinality(S) - 1
      <3> HIDE DEF S
      <3>1. QED
        BY <1>3, <1>4, FS_RemoveElement
    <2>2. QED
      BY <1>3, <2>1
  <1>6. \A q \in S : 1 <= lrq[q].pos /\ lrq[q].pos <= n /\ lrq[q].pos \in Nat
    BY BlockTypes DEF OrderedAt, Requests, IInv
  <1>7. \A q, x \in S : lrq[q].pos = lrq[x].pos => q = x
    BY DEF OrderedAt
  <1>8. \A q \in S \ {r} : lrq'[q].pos = IF lrq[q].pos > p THEN lrq[q].pos - 1 ELSE lrq[q].pos
    BY <1>2 DEF Requests
  <1>9. p \in Nat /\ 1 <= p /\ p <= n /\ \A q \in S \ {r} : lrq[q].pos # p
    BY <1>3, <1>6, <1>7
  <1> HIDE DEF n, S, p
  <1>10. \A q \in S \ {r} : 1 <= lrq'[q].pos /\ lrq'[q].pos <= n - 1
    BY <1>4, <1>6, <1>8, <1>9
  <1>11. \A q, x \in S \ {r} : lrq'[q].pos = lrq'[x].pos => q = x
    BY <1>6, <1>7, <1>8, <1>9
  <1>12. QED
    BY <1>3, <1>5, <1>10, <1>11 DEF OrderedAt

\* Every step keeps the queues in order.
LEMMA OrderedStep ==
    ASSUME IInv, Shaped, Ordered, NEW k \in Key
    PROVE  OrderedAt(k)'
  <1>0. OrderedAt(k) /\ k # Nobody
    BY ConstantTypes DEF Ordered
  <1>a. \A q \in Request : Kept(q) => (lrq[q].lock = k \/ lrq'[q].lock = k =>
               lrq'[q].lock = lrq[q].lock /\ lrq'[q].pos = lrq[q].pos)
    BY <1>0 DEF Kept
  <1>b. \A q \in Request : SamePlace(q) => lrq'[q].lock = lrq[q].lock /\ lrq'[q].pos = lrq[q].pos
    BY DEF SamePlace
  <1>1. CASE Unmoved \/ PostingEnds
    BY <1>0, <1>1, <1>a, OrderKept DEF Unmoved, PostingEnds
  <1>2. ASSUME NEW x \in Request, SamePlace(x), OthersAreKept(x)
        PROVE  OrderedAt(k)'
    BY <1>0, <1>2, <1>a, <1>b, OrderKept DEF OthersAreKept
  <1>3. ASSUME NEW x \in Request, NEW j \in Key, lrq[x].lock = Nobody, lrq'[x].lock = j,
               lrq'[x].pos = Cardinality(Requests(j)) + 1, OthersAreKept(x)
        PROVE  OrderedAt(k)'
    <2>1. \A q \in Request \ {x} : lrq[q].lock = k \/ lrq'[q].lock = k =>
               lrq'[q].lock = lrq[q].lock /\ lrq'[q].pos = lrq[q].pos
      BY <1>3, <1>a DEF OthersAreKept
    <2>2. CASE j = k
      BY <1>0, <1>3, <2>1, <2>2, OrderJoined
    <2>3. CASE j # k
      BY <1>0, <1>3, <2>1, <2>3, OrderKept
    <2>4. QED
      BY <2>2, <2>3
  <1>4. ASSUME NEW t \in Thread, NEW x \in Request, Leaves(t, x)
        PROVE  OrderedAt(k)'
    <2>1. CASE lrq[x].lock = k
      BY <1>0, <1>4, <2>1, OrderLeft
    <2>2. CASE lrq[x].lock # k
      <3>1. lrq'[x].lock # k
        BY <1>0, <1>4 DEF Leaves, FreeLrq
      <3>2. ASSUME NEW q \in Request \ {x}
            PROVE  lrq[q].lock = k \/ lrq'[q].lock = k =>
                     lrq'[q].lock = lrq[q].lock /\ lrq'[q].pos = lrq[q].pos
        <4>1. lrq[q] \in LrqBlock
          BY DEF IInv, Table
        <4>2. \/ lrq'[q] = lrq[q]
              \/ lrq[q].lock # k /\ lrq'[q] = [lrq[q] EXCEPT !.pos = lrq[q].pos - 1]
          BY <1>4, <2>2 DEF Leaves
        <4>3. QED
          BY <4>1, <4>2 DEF LrqBlock
      <3>3. QED
        BY <1>0, <2>2, <3>1, <3>2, OrderKept
    <2>3. QED
      BY <2>1, <2>2
  <1>5. CASE Death
    BY <1>0, <1>5, OrderKept DEF Death
  <1>6. ASSUME NEW t \in Thread, NEW x \in Request,
               Converted(t, x) \/ ConversionWaits(t, x) \/ WaitIsOver(t, x)
        PROVE  OrderedAt(k)'
    BY <1>2, <1>6 DEF Converted, ConversionWaits, BeginsToWait, WaitIsOver
  <1>7. ASSUME NEW x \in Request, Refused(x) \/ Served(x) \/ IsRejected(x)
        PROVE  OrderedAt(k)'
    BY <1>2, <1>7 DEF Refused, Served, IsRejected
  <1>8. ASSUME NEW t \in Thread, NEW x \in Request, NEW j \in Key, NewGranted(x, j) \/ NewWaits(t, x, j)
        PROVE  OrderedAt(k)'
    BY <1>3, <1>8 DEF NewGranted, NewWaits, BeginsToWait
  <1>9. QED
    BY <1>1, <1>4, <1>5, <1>6, <1>7, <1>8 DEF Shaped

\* The queues are in order at first.
LEMMA InitOrdered ==
    ASSUME Init
    PROVE  PurgesAtHome /\ Ordered
  <1>1. PurgesAtHome
    BY DEF Init, PurgesAtHome, NoWork
  <1>2. \A k \in Key : Requests(k) = {}
    BY ConstantTypes DEF Init, Requests, FreeLrq
  <1>3. QED
    BY <1>1, <1>2 DEF Ordered, OrderedAt

-----------------------------------------------------------------------------
(* Grants, while no process has died.  A process that dies between the change *)
(* of a lock and the post_pending that goes with it leaves a grant missed.     *)

\* No process has died so far: a process that is dead stays so.
Deathless == \A p \in Process : prc[p].alive

\* Only ProcessDies changes which processes are alive.
LEMMA AliveKept ==
    ASSUME IInv, [Next]_vars, ~\E p \in Process : ProcessDies(p)
    PROVE  \A p \in Process : prc'[p].alive = prc[p].alive
  <1> DEFINE Same == \A p \in Process : prc'[p].alive = prc[p].alive
  <1>0. prc \in [Process -> PrcBlock]
    BY DEF IInv, ControlTypes
  <1>1. CASE prc' = prc
    BY <1>1
  <1>2. CASE \E p \in Process : \E x : \/ prc' = [prc EXCEPT ![p].listed = x]
                                        \/ prc' = [prc EXCEPT ![p].blocking = x]
    BY <1>0, <1>2 DEF PrcBlock
  <1>3. ASSUME NEW c \in Client, Calling(c) \/ Waiting(c) \/ cancelWait(c)
        PROVE  Same
    <2>1. CASE initializeOwner(c)
      <3>1. Home[c] \in Owner /\ ProcOf[Home[c]] \in Process
        BY ConstantTypes
      <3>2. QED
        BY <1>1, <1>2, <2>1, <3>1 DEF initializeOwner
    <2>2. CASE shutdownOwner(c) \/ AstsDone(c) \/ enqueue(c) \/ EnqueueRequest(c) \/ post_blockage(c)
      BY <1>1, <2>2 DEF shutdownOwner, AstsDone, enqueue, EnqueueRequest, post_blockage
    <2>3. CASE WaitCheck(c) \/ WakesResolved(c) \/ WakesBogus(c) \/ GivesUp(c) \/ WakesPosted(c) \/ WakesToScan(c)
      BY <1>1, <2>3 DEF WaitCheck, WakesResolved, WakesBogus, GivesUp, WakesPosted, WakesToScan
    <2>4. CASE deadlock_scan(c) \/ WaitEnds(c) \/ cancelWait(c)
      BY <1>1, <2>4 DEF deadlock_scan, WaitEnds, cancelWait
    <2>5. QED
      BY <1>3, <2>1, <2>2, <2>3, <2>4 DEF Calling, Waiting
  <1>4. ASSUME NEW t \in Thread, AnyCalling(t) \/ Working(t)
        PROVE  Same
    <2>1. CASE convert(t) \/ downgrade(t) \/ dequeue(t) \/ repost(t)
      BY <1>1, <2>1 DEF convert, downgrade, dequeue, repost
    <2>2. CASE release_shmem(t) \/ post_pending(t) \/ purge_owner(t) \/ probe_processes(t)
      BY <1>1, <2>2 DEF release_shmem, post_pending, purge_owner, probe_processes
    <2>3. CASE purge_process(t)
      <3>1. work.prc \in Process
        BY <2>3 DEF purge_process, IInv, ControlTypes, WorkBlock
      <3>2. QED
        BY <1>1, <1>2, <2>3, <3>1 DEF purge_process
    <2>4. CASE signal_owner(t)
      <3>1. PICK o \in Owner : \/ prc' = prc
                               \/ prc' = [prc EXCEPT ![ProcOf[o]].blocking = @ \/ own[o].inuse]
        BY <2>4 DEF signal_owner, IInv, ControlTypes, ThrBlock
      <3>2. ProcOf[o] \in Process
        BY ConstantTypes
      <3>3. QED
        BY <1>1, <1>2, <3>1, <3>2
    <2>5. CASE PurgeUndelivered(t) \/ blocking_action(t) \/ AstReturns(t)
      BY <1>1, <2>5 DEF PurgeUndelivered, blocking_action, AstReturns
    <2>6. QED
      BY <1>4, <2>1, <2>2, <2>3, <2>4, <2>5 DEF AnyCalling, Working
  <1>5. ASSUME NEW p \in Process, BlockingThreadWakes(p) \/ blocking_action_thread(p)
        PROVE  Same
    BY <1>1, <1>2, <1>5 DEF BlockingThreadWakes, blocking_action_thread
  <1>6. QED
    BY <1>1, <1>3, <1>4, <1>5 DEF Next, vars

\* Deaths are not undone, and none happens in a step to a state without.
LEMMA DeathlessBefore ==
    ASSUME IInv, [Next]_vars, Deathless'
    PROVE  Deathless /\ ~\E p \in Process : ProcessDies(p)
  <1>1. ASSUME NEW p \in Process, ProcessDies(p)
        PROVE  FALSE
    <2>1. ~prc'[p].alive
      BY <1>1 DEF ProcessDies, IInv, ControlTypes, PrcBlock
    <2>2. QED
      BY <2>1 DEF Deathless
  <1>2. QED
    BY <1>1, AliveKept DEF Deathless

\* Lock k has a waiter that has been rejected and is still to post the rest.
StillToPost(k) ==
    \E c \in Client : call[c].lrq \in Requests(k) /\ Rejected(call[c].lrq)

\* The first waiter of lock k has to wait, unless somebody is to look at it.
NotMissedAt(k) ==
    \A r \in FirstPending(k) : Grantable(r) => work.pend = k \/ StillToPost(k)

NotMissed == \A k \in Key : NotMissedAt(k)

\* Request q is as before as far as its queue is concerned.
Settled(q) ==
    /\ lrq'[q].lock = lrq[q].lock
    /\ Pending(q)' <=> Pending(q)
    /\ Pending(q) => /\ lrq'[q].state = lrq[q].state /\ lrq'[q].requested = lrq[q].requested
                     /\ lrq'[q].pos = lrq[q].pos
    /\ Rejected(q) => Rejected(q)' \/ NoneWaitsFor(q)

\* What is as before is settled.
LEMMA KeptIsSettled ==
    ASSUME NEW q \in Request, Kept(q), NEW k \in Key, lrq[q].lock = k \/ lrq'[q].lock = k
    PROVE  Settled(q)
  BY ConstantTypes DEF Kept, Settled

\* A request of a lock with the same counters can be granted as before.
LEMMA GrantableKept ==
    ASSUME NEW q \in Request, NEW k \in Key, lrq[q].lock = k, lrq'[q].lock = k,
           lrq'[q].state = lrq[q].state, lrq'[q].requested = lrq[q].requested,
           lbl'[k].counts = lbl[k].counts, lbl'[k].state = lbl[k].state
    PROVE  Grantable(q)' <=> Grantable(q)
  BY DEF Grantable, StateWithout

\* Whoever is still to post goes on to.
LEMMA PostKept ==
    ASSUME NEW k \in Key, StillToPost(k),
           \A q \in Request : lrq[q].lock = k => lrq'[q].lock = k /\ (Rejected(q) => Rejected(q)' \/ NoneWaitsFor(q)),
           \A c \in Client : call[c].lrq \in Requests(k) /\ Rejected(call[c].lrq) => call'[c].lrq = call[c].lrq
    PROVE  StillToPost(k)'
  <1>1. PICK c \in Client : call[c].lrq \in Requests(k) /\ Rejected(call[c].lrq)
    BY DEF StillToPost
  <1>2. PICK r \in Request : r = call[c].lrq /\ lrq[r].lock = k /\ Rejected(r)
    BY <1>1 DEF Requests
  <1>3. call'[c].lrq = r
    BY <1>1, <1>2
  <1>4. lrq'[r].lock = k /\ Rejected(r)'
    BY <1>2 DEF NoneWaitsFor
  <1>5. QED
    BY <1>3, <1>4 DEF StillToPost, Requests, Rejected

\* A queue whose waiting requests stay as they are.
LEMMA QueueKept ==
    ASSUME NEW k \in Key, NotMissedAt(k),
           \A q \in Request : lrq[q].lock = k \/ lrq'[q].lock = k => Settled(q),
           lbl'[k].counts = lbl[k].counts, lbl'[k].state = lbl[k].state,
           \A c \in Client : call[c].lrq \in Requests(k) /\ Rejected(call[c].lrq) => call'[c].lrq = call[c].lrq,
           work.pend = k => work'.pend = k
    PROVE  NotMissedAt(k)'
  <1>1. Requests(k)' = Requests(k)
    BY DEF Requests, Settled
  <1>2. \A q \in Requests(k) : Settled(q) /\ q \in Request /\ lrq[q].lock = k
    BY DEF Requests
  <1>3. \A r \in FirstPending(k)' : r \in FirstPending(k)
    BY <1>1, <1>2 DEF FirstPending, Settled
  <1>4. ASSUME NEW r \in FirstPending(k)', Grantable(r)'
        PROVE  work'.pend = k \/ StillToPost(k)'
    <2>1. r \in FirstPending(k) /\ r \in Request /\ lrq[r].lock = k /\ Settled(r) /\ Pending(r)
      BY <1>2, <1>3 DEF FirstPending
    <2>2. Grantable(r)
      BY <1>4, <2>1, GrantableKept DEF Settled
    <2>3. work.pend = k \/ StillToPost(k)
      BY <2>1, <2>2 DEF NotMissedAt
    <2>4. StillToPost(k) => StillToPost(k)'
      BY <1>2, PostKept DEF Settled, Requests
    <2>5. QED
      BY <2>3, <2>4
  <1>5. QED
    BY <1>4 DEF NotMissedAt

\* A step that changes one request, and nothing of lock k that counts.
LEMMA OtherQueueKept ==
    ASSUME NEW k \in Key, NotMissedAt(k), NEW x, OthersAreKept(x),
           x \in Request /\ (lrq[x].lock = k \/ lrq'[x].lock = k) => Settled(x),
           lbl'[k].counts = lbl[k].counts, lbl'[k].state = lbl[k].state,
           \A c \in Client : call[c].lrq \in Requests(k) /\ Rejected(call[c].lrq) => call'[c].lrq = call[c].lrq,
           work.pend = k => work'.pend = k
    PROVE  NotMissedAt(k)'
  <1>1. \A q \in Request : lrq[q].lock = k \/ lrq'[q].lock = k => Settled(q)
    BY KeptIsSettled DEF OthersAreKept
  <1>2. QED
    BY <1>1, QueueKept

\* A lock with no waiter.
LEMMA NobodyPending ==
    ASSUME Table(lrq, lbl), NEW k \in Key
    PROVE  lbl[k].pending = 0 <=> \A q \in Requests(k) : ~Pending(q)
  <1>1. lbl[k].pending = Cardinality(PendingOf(lrq, k))
    BY DEF Table, Exact
  <1>2. IsFiniteSet(PendingOf(lrq, k))
    BY PendingFinite
  <1>3. lbl[k].pending = 0 <=> PendingOf(lrq, k) = {}
    BY <1>1, <1>2, FS_EmptySet
  <1>4. QED
    BY <1>3 DEF PendingOf, Requests, Waits, Pending

\* Lock k is to be looked at, or has no waiter.
LEMMA LookedAt ==
    ASSUME NEW k \in Key, work'.pend = k \/ Requests(k)' = {} \/ \A q \in Requests(k)' : ~Pending(q)'
    PROVE  NotMissedAt(k)'
  BY DEF NotMissedAt, FirstPending

\* A request leaves its lock.
LEMMA LeavesNotMissed ==
    ASSUME IInv, NEW t \in Thread, NEW x \in Request, Leaves(t, x), NEW k \in Key, NotMissedAt(k)
    PROVE  NotMissedAt(k)'
  <1>0. k # Nobody /\ lrq'[x].lock = Nobody /\ lrq[x].lock \in Key
    BY ConstantTypes DEF Leaves, FreeLrq
  <1>1. ASSUME NEW q \in Request \ {x}
        PROVE  lrq'[q].lock = lrq[q].lock /\ (lrq[q].lock # lrq[x].lock => lrq'[q] = lrq[q])
    <2>1. lrq[q] \in LrqBlock
      BY DEF IInv, Table
    <2>2. \/ lrq'[q] = lrq[q]
          \/ lrq[q].lock = lrq[x].lock /\ lrq'[q] = [lrq[q] EXCEPT !.pos = lrq[q].pos - 1]
      BY DEF Leaves
    <2>3. QED
      BY <2>1, <2>2 DEF LrqBlock
  <1>2. CASE lrq[x].lock = k
    <2>1. work'.pend = k \/ Requests(k) = {x}
      BY <1>2 DEF Leaves, HeldUpBy
    <2>2. Requests(k) = {x} => Requests(k)' = {}
      BY <1>0, <1>1 DEF Requests
    <2>3. QED
      BY <2>1, <2>2, LookedAt
  <1>3. CASE lrq[x].lock # k
    <2>1. \A q \in Request : lrq[q].lock = k \/ lrq'[q].lock = k => Settled(q)
      <3>1. \A q \in Request \ {x} : lrq[q].lock = k \/ lrq'[q].lock = k => lrq'[q] = lrq[q]
        BY <1>1, <1>3
      <3>2. QED
        BY <1>0, <1>3, <3>1 DEF Settled, Pending, Rejected
    <2>2. lbl'[k] = lbl[k] /\ work.pend # k
      BY <1>0, <1>3 DEF Leaves, LocksKept
    <2>3. \A c \in Client : call[c].lrq \in Requests(k) => call'[c].lrq = call[c].lrq
      BY <1>3 DEF Leaves, CallKept, Requests
    <2>4. QED
      BY <2>1, <2>2, <2>3, QueueKept
  <1>4. QED
    BY <1>2, <1>3

\* A new request waits: it is behind the others, and it was right to wait.
LEMMA NewWaitsNotMissed ==
    ASSUME IInv, NEW t \in Thread, NEW x \in Request, NEW j \in Key, NewWaits(t, x, j),
           NEW k \in Key, NotMissedAt(k), OrderedAt(k)
    PROVE  NotMissedAt(k)'
  <1>0. /\ k # Nobody /\ lrq[x].lock = Nobody /\ lrq'[x].lock = j /\ OthersAreKept(x) /\ PendKept
        /\ \A c \in Client \ {t} : CallKept(c)
        /\ t \in Client /\ call[t].lrq = Nobody /\ x # Nobody
    BY ConstantTypes DEF NewWaits, BeginsToWait
  <1>1. \A c \in Client : call[c].lrq \in Requests(k) => call'[c].lrq = call[c].lrq
    BY <1>0, ConstantTypes DEF CallKept, Requests
  <1>2. CASE j # k
    <2>1. lbl'[k] = lbl[k]
      BY <1>2 DEF NewWaits, LocksKept
    <2>2. QED
      BY <1>0, <1>1, <1>2, <2>1, OtherQueueKept DEF PendKept
  <1>3. CASE j = k
    <2>1. Requests(k)' = Requests(k) \cup {x} /\ x \notin Requests(k)
      BY <1>0, <1>3 DEF Requests, OthersAreKept, Kept
    <2>2. \A q \in Requests(k) : /\ Kept(q) /\ lrq[q].lock = k /\ q \in Request
                                 /\ lrq'[q].pos = lrq[q].pos /\ (Pending(q)' <=> Pending(q))
                                 /\ lrq'[q].state = lrq[q].state /\ lrq'[q].requested = lrq[q].requested
      BY <1>0, <2>1 DEF Requests, OthersAreKept, Kept
    <2>3. ASSUME NEW r \in FirstPending(k)', Grantable(r)'
          PROVE  work'.pend = k \/ StillToPost(k)'
      <3>1. r \in Requests(k)' /\ Pending(r)' /\ \A q \in Requests(k)' : Pending(q)' => lrq'[r].pos <= lrq'[q].pos
        BY DEF FirstPending
      <3>2. CASE r = x
        <4>1. \A q \in Requests(k) : lrq'[q].pos < lrq'[x].pos
          <5>1. Cardinality(Requests(k)) \in Nat /\ lrq'[x].pos = Cardinality(Requests(k)) + 1
            BY <1>3, QueueFinite DEF NewWaits
          <5>2. \A q \in Requests(k) : lrq[q].pos \in Nat /\ lrq[q].pos <= Cardinality(Requests(k))
            BY <2>2, BlockTypes DEF OrderedAt, IInv
          <5>3. QED
            BY <2>2, <5>1, <5>2
        <4>2. \A q \in Requests(k) : lrq'[q].pos \in Nat /\ lrq'[x].pos \in Nat
          <5>1. Cardinality(Requests(k)) \in Nat /\ lrq'[x].pos = Cardinality(Requests(k)) + 1
            BY <1>3, QueueFinite DEF NewWaits
          <5>2. \A q \in Requests(k) : lrq[q].pos \in Nat
            BY <2>2, BlockTypes DEF IInv
          <5>3. QED
            BY <2>2, <5>1, <5>2
        <4>3. \A q \in Requests(k) : ~Pending(q)
          BY <2>1, <2>2, <3>1, <3>2, <4>1, <4>2
        <4>4. lbl[k].pending = 0
          BY <4>3, NobodyPending DEF IInv
        <4>5. ~Compatible(lrq'[x].requested, lbl[k].state) /\ lrq'[x].state = LCK_none /\ lbl'[k].state = lbl[k].state
          BY <1>3, <4>4 DEF NewWaits
        <4>6. ~Grantable(x)'
          BY <1>0, <1>3, <4>5 DEF Grantable
        <4>7. QED
          BY <2>3, <3>2, <4>6
      <3>3. CASE r # x
        <4>1. r \in Requests(k) /\ Pending(r) /\ \A q \in Requests(k) : Pending(q) => lrq[r].pos <= lrq[q].pos
          BY <2>1, <2>2, <3>1, <3>3
        <4>2. r \in FirstPending(k)
          BY <4>1 DEF FirstPending
        <4>3. lbl'[k].counts = lbl[k].counts /\ lbl'[k].state = lbl[k].state
          BY <1>3 DEF NewWaits
        <4>4. Grantable(r)
          BY <2>2, <2>3, <4>1, <4>3, GrantableKept DEF Kept
        <4>5. work.pend = k \/ StillToPost(k)
          BY <4>2, <4>4 DEF NotMissedAt
        <4>6. \A q \in Request : lrq[q].lock = k => lrq'[q].lock = k /\ (Rejected(q) => Rejected(q)' \/ NoneWaitsFor(q))
          BY <1>0, <2>2 DEF Kept, Requests
        <4>7. StillToPost(k) => StillToPost(k)'
          BY <1>1, <4>6, PostKept
        <4>8. QED
          BY <1>0, <4>5, <4>7 DEF PendKept
      <3>4. QED
        BY <3>2, <3>3
    <2>4. QED
      BY <2>3 DEF NotMissedAt
  <1>4. QED
    BY <1>2, <1>3

\* A conversion waits, rightly; who was the first waiter may change.
LEMMA ConversionWaitsNotMissed ==
    ASSUME IInv, NEW t \in Thread, NEW x \in Request, ConversionWaits(t, x), NEW k \in Key, NotMissedAt(k)
    PROVE  NotMissedAt(k)'
  <1>0. /\ k # Nobody /\ lrq'[x].lock = lrq[x].lock /\ OthersAreKept(x) /\ PendKept
        /\ \A c \in Client \ {t} : CallKept(c)
        /\ t \in Client /\ call[t].lrq = Nobody /\ x # Nobody /\ NoneWaitsFor(x)
        /\ ~Pending(x) /\ Pending(x)'
    BY ConstantTypes DEF ConversionWaits, BeginsToWait, SamePlace
  <1>1. \A c \in Client : call[c].lrq \in Requests(k) => call'[c].lrq = call[c].lrq
    BY <1>0, ConstantTypes DEF CallKept, Requests
  <1>2. CASE lrq[x].lock # k
    <2>1. lbl'[k] = lbl[k]
      BY <1>2 DEF ConversionWaits, LocksKept
    <2>2. QED
      BY <1>0, <1>1, <1>2, <2>1, OtherQueueKept DEF PendKept
  <1>3. CASE lrq[x].lock = k
    <2>1. Requests(k)' = Requests(k) /\ x \in Requests(k)
      BY <1>0, <1>3 DEF Requests, OthersAreKept, Kept
    <2>2. \A q \in Requests(k) \ {x} : /\ Kept(q) /\ lrq[q].lock = k /\ q \in Request /\ lrq'[q].lock = k
                                 /\ lrq'[q].pos = lrq[q].pos /\ (Pending(q)' <=> Pending(q))
                                 /\ lrq'[q].state = lrq[q].state /\ lrq'[q].requested = lrq[q].requested
      BY <1>0, <2>1 DEF Requests, OthersAreKept, Kept
    <2>3. lbl'[k].counts = lbl[k].counts /\ lbl'[k].state = lbl[k].state
      BY <1>3 DEF ConversionWaits
    <2>4. ASSUME NEW r \in FirstPending(k)', Grantable(r)'
          PROVE  work'.pend = k \/ StillToPost(k)'
      <3>1. r \in Requests(k)' /\ Pending(r)' /\ \A q \in Requests(k)' : Pending(q)' => lrq'[r].pos <= lrq'[q].pos
        BY DEF FirstPending
      <3>2. CASE r = x
        <4>1. ~Compatible(lrq'[x].requested, StateWithout(x)) /\ lrq'[x].state = lrq[x].state
          BY DEF ConversionWaits
        <4>2. StateWithout(x)' = StateWithout(x)
          BY <1>0, <1>3, <2>3, <4>1 DEF StateWithout
        <4>3. lrq[x].state = LCK_none => StateWithout(x) = lbl[k].state
          BY <1>3 DEF StateWithout, Without, IInv, Table, Exact
        <4>4. ~Grantable(x)'
          BY <1>0, <1>3, <2>3, <4>1, <4>2, <4>3 DEF Grantable
        <4>5. QED
          BY <2>4, <3>2, <4>4
      <3>3. CASE r # x
        <4>1. r \in Requests(k) /\ Pending(r) /\ \A q \in Requests(k) : Pending(q) => lrq[r].pos <= lrq[q].pos
          BY <1>0, <2>1, <2>2, <3>1, <3>3
        <4>2. r \in FirstPending(k)
          BY <4>1 DEF FirstPending
        <4>3. Grantable(r)
          BY <2>2, <2>3, <2>4, <3>3, <4>1, GrantableKept
        <4>4. work.pend = k \/ StillToPost(k)
          BY <4>2, <4>3 DEF NotMissedAt
        <4>5. \A q \in Request : lrq[q].lock = k => lrq'[q].lock = k /\ (Rejected(q) => Rejected(q)' \/ NoneWaitsFor(q))
          BY <1>0, <1>3, <2>2 DEF Kept, Requests
        <4>6. StillToPost(k) => StillToPost(k)'
          BY <1>1, <4>5, PostKept
        <4>7. QED
          BY <1>0, <4>4, <4>6 DEF PendKept
      <3>4. QED
        BY <3>2, <3>3
    <2>5. QED
      BY <2>4 DEF NotMissedAt
  <1>4. QED
    BY <1>2, <1>3

\* One request changes, all the rest is as before.
LEMMA OneSettledNotMissed ==
    ASSUME NEW k \in Key, NotMissedAt(k), NEW x \in Request, OthersAreKept(x), Settled(x),
           lbl'[k].counts = lbl[k].counts, lbl'[k].state = lbl[k].state, PendKept,
           \A c \in Client : call[c].lrq \in Requests(k) /\ Rejected(call[c].lrq) => call'[c].lrq = call[c].lrq
    PROVE  NotMissedAt(k)'
  BY OtherQueueKept DEF PendKept

\* No request changes, or one whose conversion is refused.
LEMMA StillNotMissed ==
    ASSUME NEW k \in Key, NotMissedAt(k), Unmoved \/ \E x \in Request : Refused(x)
    PROVE  NotMissedAt(k)'
  <1>0. k # Nobody
    BY ConstantTypes
  <1>1. CASE Unmoved
    <2>1. \A q \in Request : lrq[q].lock = k \/ lrq'[q].lock = k => Settled(q)
      BY <1>1, KeptIsSettled DEF Unmoved
    <2>2. \A c \in Client : call'[c].lrq = call[c].lrq
      BY <1>1 DEF Unmoved, CallsKept, CallKept
    <2>3. lbl' = lbl /\ (work.pend = k => work'.pend = k)
      BY <1>0, <1>1 DEF Unmoved, PendKept
    <2>4. QED
      BY <2>1, <2>2, <2>3, QueueKept
  <1>2. ASSUME NEW x \in Request, Refused(x)
        PROVE  NotMissedAt(k)'
    <2>1. Settled(x) /\ OthersAreKept(x) /\ lbl' = lbl /\ PendKept
      BY <1>2 DEF Refused, Settled, SamePlace
    <2>2. \A c \in Client : call'[c].lrq = call[c].lrq
      BY <1>2 DEF Refused, CallsKept, CallKept
    <2>3. QED
      BY <2>1, <2>2, OneSettledNotMissed
  <1>3. QED
    BY <1>1, <1>2

\* A request is granted at once: post_pending is to look at its lock, unless
\* it is alone there.
LEMMA GrantedNotMissed ==
    ASSUME NEW k \in Key, NotMissedAt(k), NEW x \in Request,
           \/ \E t \in Thread : Converted(t, x)
           \/ \E j \in Key : NewGranted(x, j)
    PROVE  NotMissedAt(k)'
  <1>0. k # Nobody /\ OthersAreKept(x) /\ work.pend = Nobody
    BY ConstantTypes DEF Converted, NewGranted
  <1>1. \A c \in Client : call'[c].lrq = call[c].lrq
    BY DEF Converted, NewGranted, CallsKept, CallKept
  <1>2. ASSUME NEW t \in Thread, Converted(t, x)
        PROVE  NotMissedAt(k)'
    <2>1. CASE lrq[x].lock = k
      BY <1>2, <2>1, LookedAt DEF Converted
    <2>2. CASE lrq[x].lock # k
      <3>1. lbl'[k] = lbl[k] /\ lrq'[x].lock # k
        BY <1>2, <2>2 DEF Converted, LocksKept, SamePlace
      <3>2. QED
        BY <1>0, <1>1, <2>2, <3>1, OtherQueueKept
    <2>3. QED
      BY <2>1, <2>2
  <1>3. ASSUME NEW j \in Key, NewGranted(x, j)
        PROVE  NotMissedAt(k)'
    <2>1. CASE j = k
      <3>1. work'.pend = k \/ Requests(k) = {}
        BY <1>3, <2>1 DEF NewGranted
      <3>2. Requests(k) = {} => Requests(k)' \subseteq {x}
        BY <1>0 DEF Requests, OthersAreKept, Kept
      <3>3. ~Pending(x)'
        BY <1>3 DEF NewGranted
      <3>4. Requests(k) = {} => \A q \in Requests(k)' : ~Pending(q)'
        BY <3>2, <3>3 DEF Pending
      <3>5. QED
        BY <3>1, <3>4, LookedAt
    <2>2. CASE j # k
      <3>1. lbl'[k] = lbl[k] /\ lrq[x].lock # k /\ lrq'[x].lock # k
        BY <1>0, <1>3, <2>2 DEF NewGranted, LocksKept
      <3>2. QED
        BY <1>0, <1>1, <3>1, OtherQueueKept
    <2>3. QED
      BY <2>1, <2>2
  <1>4. QED
    BY <1>2, <1>3

\* post_pending grants a request, and goes on with the lock.
LEMMA ServedNotMissed ==
    ASSUME NEW k \in Key, NotMissedAt(k), NEW x \in Request, Served(x)
    PROVE  NotMissedAt(k)'
  <1>1. CASE work.pend = k
    BY <1>1, LookedAt DEF Served, PendKept
  <1>2. CASE work.pend # k
    <2>1. lbl'[k] = lbl[k] /\ lrq[x].lock # k /\ lrq'[x].lock # k /\ OthersAreKept(x)
      BY <1>2 DEF Served, LocksKept, SamePlace, FirstPending, Requests
    <2>2. \A c \in Client : call'[c].lrq = call[c].lrq
      BY DEF Served, CallsKept, CallKept
    <2>3. QED
      BY <1>2, <2>1, <2>2, OtherQueueKept
  <1>3. QED
    BY <1>1, <1>2

\* post_pending ends with a lock: the first waiter has to wait.
LEMMA PostedNotMissed ==
    ASSUME IInv, Ordered, NEW k \in Key, NotMissedAt(k), PostingEnds
    PROVE  NotMissedAt(k)'
  <1>0. lbl' = lbl /\ \A q \in Request : Kept(q)
    BY DEF PostingEnds
  <1>1. \A q \in Request : lrq[q].lock = k \/ lrq'[q].lock = k => Settled(q)
    BY <1>0, KeptIsSettled
  <1>2. CASE work.pend # k
    <2>1. \A c \in Client : call'[c].lrq = call[c].lrq
      BY DEF PostingEnds, CallsKept, CallKept
    <2>2. QED
      BY <1>0, <1>1, <1>2, <2>1, QueueKept
  <1>3. CASE work.pend = k
    <2>1. Requests(k)' = Requests(k)
      BY <1>1 DEF Requests, Settled
    <2>2. \A q \in Requests(k) : Settled(q) /\ q \in Request /\ lrq[q].lock = k
      BY <1>1 DEF Requests
    <2>3. CASE lbl[k].pending = 0
      <3>1. \A q \in Requests(k) : ~Pending(q)
        BY <2>3, NobodyPending DEF IInv
      <3>2. \A q \in Requests(k)' : ~Pending(q)'
        BY <2>1, <2>2, <3>1 DEF Settled
      <3>3. QED
        BY <3>2, LookedAt
    <2>4. ASSUME NEW x \in FirstPending(k), ~Grantable(x)
          PROVE  NotMissedAt(k)'
      <3>1. ASSUME NEW r \in FirstPending(k)'
            PROVE  ~Grantable(r)'
        <4>1. r \in FirstPending(k)
          BY <2>1, <2>2 DEF FirstPending, Settled
        <4>2. /\ r \in Requests(k) /\ x \in Requests(k) /\ Pending(x)
              /\ lrq[r].pos <= lrq[x].pos /\ lrq[x].pos <= lrq[r].pos
          BY <4>1 DEF FirstPending
        <4>3. lrq[r].pos \in Nat /\ lrq[x].pos \in Nat
          BY <2>2, <4>2, BlockTypes DEF IInv
        <4>4. r = x
          BY <4>2, <4>3 DEF Ordered, OrderedAt
        <4>5. Settled(x) /\ x \in Request /\ lrq[x].lock = k
          BY <2>2, <4>2
        <4>6. Grantable(x)' <=> Grantable(x)
          BY <1>0, <4>2, <4>5, GrantableKept DEF Settled
        <4>7. QED
          BY <2>4, <4>4, <4>6
      <3>2. QED
        BY <3>1 DEF NotMissedAt
    <2>5. QED
      BY <1>3, <2>3, <2>4 DEF PostingEnds
  <1>4. QED
    BY <1>2, <1>3

\* A waiter is rejected: it is still to post the rest of its lock.
LEMMA RejectedNotMissed ==
    ASSUME IInv, Deathless, NEW k \in Key, NotMissedAt(k), NEW x \in Request, IsRejected(x)
    PROVE  NotMissedAt(k)'
  <1>0. /\ OthersAreKept(x) /\ PendKept /\ lrq'[x].lock = lrq[x].lock /\ Rejected(x)' /\ Pending(x)
        /\ LocksKept(lrq[x].lock)
    BY DEF IsRejected, SamePlace
  <1>1. \A c \in Client : call'[c].lrq = call[c].lrq
    BY DEF IsRejected, CallsKept, CallKept
  <1>2. CASE lrq[x].lock = k
    <2>1. lrq[x] \in LrqBlock /\ lrq[x].owner \in Owner
      BY <1>2, BlockTypes, ConstantTypes DEF IInv, Table
    <2>2. Alive(lrq[x].owner)
      BY <2>1, ConstantTypes DEF Deathless, Alive
    <2>3. PICK c \in Client : call[c].lrq = x
      BY <1>0, <2>2 DEF IInv, PendingOwned
    <2>4. call'[c].lrq = x /\ lrq'[x].lock = k
      BY <1>0, <1>1, <1>2, <2>3
    <2>5. StillToPost(k)'
      BY <1>0, <2>4 DEF StillToPost, Requests, Rejected
    <2>6. QED
      BY <2>5 DEF NotMissedAt
  <1>3. CASE lrq[x].lock # k
    <2>1. lbl'[k] = lbl[k]
      BY <1>0, <1>3 DEF LocksKept
    <2>2. QED
      BY <1>0, <1>1, <1>3, <2>1, OtherQueueKept DEF PendKept
  <1>4. QED
    BY <1>2, <1>3

\* A wait ends; whoever was rejected posts the rest of its lock.
LEMMA WaitOverNotMissed ==
    ASSUME NEW k \in Key, NotMissedAt(k), NEW t \in Thread, NEW x \in Request, WaitIsOver(t, x)
    PROVE  NotMissedAt(k)'
  <1>0. /\ k # Nobody /\ OthersAreKept(x) /\ lbl' = lbl /\ work.pend = Nobody
        /\ lrq'[x].lock = lrq[x].lock /\ call[t].lrq = x
        /\ \A c \in Client \ {t} : call'[c].lrq = call[c].lrq
    BY ConstantTypes DEF WaitIsOver, SamePlace, CallKept
  <1>1. CASE Rejected(x) /\ lrq[x].lock = k
    BY <1>1, LookedAt DEF WaitIsOver
  <1>2. CASE Rejected(x) /\ lrq[x].lock # k
    <2>1. \A c \in Client : call[c].lrq \in Requests(k) => call'[c].lrq = call[c].lrq
      BY <1>0, <1>2 DEF Requests
    <2>2. QED
      BY <1>0, <1>2, <2>1, OtherQueueKept
  <1>3. CASE ~Rejected(x)
    <2>1. Settled(x)
      BY <1>3 DEF WaitIsOver, Settled, SamePlace
    <2>2. \A c \in Client : Rejected(call[c].lrq) => call'[c].lrq = call[c].lrq
      BY <1>0, <1>3
    <2>3. QED
      BY <1>0, <2>1, <2>2, OtherQueueKept
  <1>4. QED
    BY <1>1, <1>2, <1>3

\* No step misses a grant.
LEMMA NotMissedStep ==
    ASSUME IInv, Deathless, Deathless', Shaped, Ordered, NotMissed, NEW k \in Key
    PROVE  NotMissedAt(k)'
  <1>0. NotMissedAt(k) /\ OrderedAt(k)
    BY DEF NotMissed, Ordered
  <1>1. CASE Unmoved \/ \E x \in Request : Refused(x)
    BY <1>0, <1>1, StillNotMissed
  <1>2. ASSUME NEW t \in Thread, NEW x \in Request,
               Leaves(t, x) \/ Converted(t, x) \/ ConversionWaits(t, x) \/ WaitIsOver(t, x)
        PROVE  NotMissedAt(k)'
    BY <1>0, <1>2, LeavesNotMissed, GrantedNotMissed, ConversionWaitsNotMissed, WaitOverNotMissed
  <1>3. ASSUME NEW t \in Thread, NEW x \in Request, NEW j \in Key, NewGranted(x, j) \/ NewWaits(t, x, j)
        PROVE  NotMissedAt(k)'
    BY <1>0, <1>3, GrantedNotMissed, NewWaitsNotMissed
  <1>4. ASSUME NEW x \in Request, Served(x) \/ IsRejected(x)
        PROVE  NotMissedAt(k)'
    BY <1>0, <1>4, ServedNotMissed, RejectedNotMissed
  <1>5. CASE PostingEnds
    BY <1>0, <1>5, PostedNotMissed
  <1>6. CASE Death
    BY <1>6 DEF Death, Deathless
  <1>7. QED
    BY <1>1, <1>2, <1>3, <1>4, <1>5, <1>6 DEF Shaped

\* When the table is free, there is no work on the lock table.
LEMMA FreeIsIdle ==
    ASSUME IInv, NotMissed
    PROVE  NoMissedGrant
  <1>1. ASSUME mutex = Nobody
        PROVE  work.pend = Nobody
    BY <1>1 DEF IInv, WorkSound, NoWork
  <1>2. QED
    BY <1>1, ConstantTypes DEF NotMissed, NotMissedAt, NoMissedGrant, StillToPost, Rejected

\* lock.cpp calls post_pending after every change that may let a waiter go on
\* (release_request, internal_convert, internal_downgrade, grant_or_que and a
\* rejected waiter in wait_for_request do): until a process dies, whoever is first
\* in the queue of a lock that nobody is working on has a reason to wait.  A
\* process that dies with the mutex skips the call.
THEOREM GrantsNotMissed == Spec => [](Deathless => NoMissedGrant)
  <1>1. Init => PurgesAtHome /\ Ordered /\ (Deathless => NotMissed)
    <2> SUFFICES ASSUME Init
                 PROVE  PurgesAtHome /\ Ordered /\ NotMissed
      OBVIOUS
    <2>2. \A k \in Key : FirstPending(k) = {}
      BY ConstantTypes DEF Init, FirstPending, Requests, FreeLrq
    <2>3. QED
      BY <2>2, InitOrdered DEF NotMissed, NotMissedAt
  <1>2. /\ IInv /\ PurgesAtHome /\ Ordered /\ (Deathless => NotMissed) /\ [Next]_vars
        => PurgesAtHome' /\ Ordered' /\ (Deathless' => NotMissed')
    <2> SUFFICES ASSUME IInv, PurgesAtHome, Ordered, Deathless => NotMissed, [Next]_vars
                 PROVE  PurgesAtHome' /\ Ordered' /\ (Deathless' => NotMissed')
      OBVIOUS
    <2>1. Shaped
      BY NextShaped
    <2>2. PurgesAtHome'
      BY PurgesAtHomeStep
    <2>3. Ordered'
      BY <2>1, OrderedStep DEF Ordered
    <2>4. ASSUME Deathless'
          PROVE  NotMissed'
      BY <2>1, <2>4, DeathlessBefore, NotMissedStep DEF NotMissed
    <2>5. QED
      BY <2>2, <2>3, <2>4
  <1>3. IInv /\ (Deathless => NotMissed) => (Deathless => NoMissedGrant)
    BY FreeIsIdle
  <1>4. QED
    BY <1>1, <1>2, <1>3, Invariant, PTL DEF Spec

-----------------------------------------------------------------------------
(* What callers know, when no process has died and no lock is downgraded.     *)

\* lck_physical of request r is the level the table has for it; it is behind
\* only between a grant by somebody else and the return from the wait, which
\* makes up for it with the level the call asked for.
KnownAt(r) ==
    lrq[r].lock # Nobody =>
        /\ Pending(r) => ~Rejected(r)
        /\ NoneWaitsFor(r) => lrq[r].physical = lrq[r].state
        /\ \A c \in Client : call[c].lrq = r =>
             /\ Pending(r) => lrq[r].requested = call[c].level
             /\ Pending(r) \/ Rejected(r) => lrq[r].physical = lrq[r].state
             /\ ~Pending(r) /\ ~Rejected(r) => lrq[r].state = call[c].level

Known == \A r \in Request : KnownAt(r)

\* The level of a request that a step keeps, with those who wait for it.
LEMMA KnownKept ==
    ASSUME NEW r \in Request, KnownAt(r), Kept(r),
           \A c \in Client : call[c].lrq = r \/ call'[c].lrq = r => CallKept(c)
    PROVE  KnownAt(r)'
  <1>1. CASE lrq[r].lock = Nobody
    BY <1>1 DEF KnownAt, Kept
  <1>2. CASE lrq[r].lock # Nobody
    <2>1. /\ lrq'[r].state = lrq[r].state /\ lrq'[r].requested = lrq[r].requested
          /\ lrq'[r].physical = lrq[r].physical
          /\ Pending(r)' <=> Pending(r)
          /\ Rejected(r)' <=> Rejected(r)
      BY <1>2 DEF Kept
    <2>2. \A c \in Client : call'[c].lrq = r => call[c].lrq = r /\ call'[c].level = call[c].level
      BY ConstantTypes DEF CallKept
    <2>3. \A c \in Client : call[c].lrq = r => call'[c].lrq = r
      BY DEF CallKept
    <2>4. NoneWaitsFor(r)' <=> NoneWaitsFor(r)
      BY <2>2, <2>3 DEF NoneWaitsFor
    <2>5. QED
      BY <1>2, <2>1, <2>2, <2>4 DEF KnownAt
  <1>3. QED
    BY <1>1, <1>2

\* A level that the caller is told at once.
LEMMA KnownAtOnce ==
    ASSUME NEW r \in Request, lrq'[r].physical = lrq'[r].state, ~Pending(r)', NoneWaitsFor(r)'
    PROVE  KnownAt(r)'
  BY DEF KnownAt, NoneWaitsFor

\* The levels of requests other than the one that changes.
LEMMA OthersKnown ==
    ASSUME IInv, Known, Shaped, NEW r \in Request,
           \/ Unmoved \/ PostingEnds
           \/ \E t \in Thread, x \in Request \ {r} :
                \/ Leaves(t, x) \/ Converted(t, x) \/ ConversionWaits(t, x) \/ WaitIsOver(t, x)
                \/ \E k \in Key : NewGranted(x, k) \/ NewWaits(t, x, k)
           \/ \E x \in Request \ {r} : Refused(x) \/ Served(x) \/ IsRejected(x)
    PROVE  KnownAt(r)'
  <1>0. KnownAt(r) /\ r # Nobody
    BY ConstantTypes DEF Known
  <1>1. ASSUME Kept(r), CallsKept
        PROVE  KnownAt(r)'
    BY <1>0, <1>1, KnownKept DEF CallsKept
  <1>2. CASE Unmoved \/ PostingEnds
    BY <1>1, <1>2 DEF Unmoved, PostingEnds
  <1>3. ASSUME NEW t \in Thread, NEW x \in Request \ {r}, Leaves(t, x)
        PROVE  KnownAt(r)'
    <2>1. lrq[r] \in LrqBlock
      BY DEF IInv, Table
    <2>2. lrq'[r] = lrq[r] \/ lrq'[r] = [lrq[r] EXCEPT !.pos = lrq[r].pos - 1]
      BY <1>3 DEF Leaves
    <2>3. /\ lrq'[r].state = lrq[r].state /\ lrq'[r].requested = lrq[r].requested
          /\ lrq'[r].physical = lrq[r].physical /\ lrq'[r].flags = lrq[r].flags
          /\ lrq'[r].lock = lrq[r].lock
      BY <2>1, <2>2 DEF LrqBlock
    <2>4. \A c \in Client : call'[c].lrq = r => call[c].lrq = r /\ call'[c].level = call[c].level
      BY <1>0, <1>3 DEF Leaves, CallKept
    <2>5. \A c \in Client : call[c].lrq = r => call'[c].lrq = r
      BY <1>3 DEF Leaves, CallKept
    <2>6. NoneWaitsFor(r)' <=> NoneWaitsFor(r)
      BY <2>4, <2>5 DEF NoneWaitsFor
    <2>7. (Pending(r)' <=> Pending(r)) /\ (Rejected(r)' <=> Rejected(r))
      BY <2>3 DEF Pending, Rejected
    <2>8. QED
      BY <1>0, <2>3, <2>4, <2>6, <2>7 DEF KnownAt
  <1>4. ASSUME NEW t \in Thread, NEW x \in Request \ {r}, WaitIsOver(t, x)
        PROVE  KnownAt(r)'
    <2>1. Kept(r) /\ \A c \in Client : call[c].lrq = r \/ call'[c].lrq = r => CallKept(c)
      BY <1>0, <1>4 DEF WaitIsOver, OthersAreKept
    <2>2. QED
      BY <1>0, <2>1, KnownKept
  <1>5. ASSUME NEW t \in Thread, NEW x \in Request \ {r}, BeginsToWait(t, x)
        PROVE  KnownAt(r)'
    <2>1. Kept(r) /\ \A c \in Client : call[c].lrq = r \/ call'[c].lrq = r => CallKept(c)
      BY <1>0, <1>5 DEF BeginsToWait, OthersAreKept
    <2>2. QED
      BY <1>0, <2>1, KnownKept
  <1>6. ASSUME NEW t \in Thread, NEW x \in Request \ {r}, Converted(t, x)
        PROVE  KnownAt(r)'
    BY <1>1, <1>6 DEF Converted, OthersAreKept
  <1>7. ASSUME NEW x \in Request \ {r}, NEW k \in Key, NewGranted(x, k)
        PROVE  KnownAt(r)'
    BY <1>1, <1>7 DEF NewGranted, OthersAreKept
  <1>8. ASSUME NEW x \in Request \ {r}, Refused(x) \/ Served(x) \/ IsRejected(x)
        PROVE  KnownAt(r)'
    BY <1>1, <1>8 DEF Refused, Served, IsRejected, OthersAreKept
  <1>9. QED
    BY <1>2, <1>3, <1>4, <1>5, <1>6, <1>7, <1>8 DEF NewWaits, ConversionWaits

\* The level of the request that changes, with nobody waiting for it.
LEMMA QuietKnown ==
    ASSUME IInv, Known, "downgrade" \notin Calls, NEW t, NEW r \in Request,
           Converted(t, r) \/ Refused(r) \/ \E k \in Key : NewGranted(r, k)
    PROVE  KnownAt(r)'
  <1>0. KnownAt(r) /\ r # Nobody /\ \A c \in Client : call'[c].lrq = call[c].lrq
    BY ConstantTypes DEF Known, Converted, Refused, NewGranted, CallsKept, CallKept
  <1>1. NoneWaitsFor(r)'
    <2>1. ASSUME NEW k \in Key, NewGranted(r, k)
          PROVE  NoneWaitsFor(r)
      BY <1>0, <2>1, ConstantTypes DEF NewGranted, NoneWaitsFor, IInv, WaitersSound, Waiter
    <2>2. NoneWaitsFor(r)
      BY <2>1 DEF Converted, Refused
    <2>3. QED
      BY <1>0, <2>2 DEF NoneWaitsFor
  <1>2. CASE Refused(r)
    <2>1. lrq[r].lock # Nobody /\ NoneWaitsFor(r)
      BY <1>2, ConstantTypes DEF Refused
    <2>2. lrq[r].physical = lrq[r].state
      BY <1>0, <2>1 DEF KnownAt
    <2>3. lrq'[r].physical = lrq'[r].state /\ ~Pending(r)'
      BY <1>2, <2>2 DEF Refused
    <2>4. QED
      BY <1>1, <2>3, KnownAtOnce
  <1>3. CASE ~Refused(r)
    BY <1>1, <1>3, KnownAtOnce DEF Converted, NewGranted
  <1>4. QED
    BY <1>2, <1>3

\* The level of the request that changes, with somebody waiting for it.
LEMMA WaitedForKnown ==
    ASSUME IInv, Known, Deathless, NEW t, NEW r \in Request,
           \/ ConversionWaits(t, r) \/ WaitIsOver(t, r) \/ Served(r) \/ IsRejected(r)
           \/ \E k \in Key : NewWaits(t, r, k)
    PROVE  KnownAt(r)'
  <1>0. KnownAt(r) /\ r # Nobody
    BY ConstantTypes DEF Known
  <1>1. CASE BeginsToWait(t, r) /\ lrq'[r].physical = lrq'[r].state
    <2>1. \A c \in Client : call'[c].lrq = r => c = t
      BY <1>0, <1>1 DEF BeginsToWait, CallKept, NoneWaitsFor
    <2>2. call'[t].lrq = r /\ call'[t].level = lrq'[r].requested /\ Pending(r)' /\ ~Rejected(r)' /\ t \in Client
      BY <1>1 DEF BeginsToWait
    <2>3. QED
      BY <1>1, <2>1, <2>2 DEF KnownAt, NoneWaitsFor
  <1>2. CASE ConversionWaits(t, r)
    <2>1. lrq[r].lock # Nobody /\ NoneWaitsFor(r)
      BY <1>2, ConstantTypes DEF ConversionWaits, BeginsToWait
    <2>2. lrq[r].physical = lrq[r].state
      BY <1>0, <2>1 DEF KnownAt
    <2>3. QED
      BY <1>1, <1>2, <2>2 DEF ConversionWaits
  <1>3. ASSUME NEW k \in Key, NewWaits(t, r, k)
        PROVE  KnownAt(r)'
    BY <1>1, <1>3 DEF NewWaits
  <1>4. CASE WaitIsOver(t, r)
    <2>1. t \in Client /\ call[t].lrq = r /\ call'[t].lrq = Nobody /\ \A c \in Client \ {t} : CallKept(c)
      BY <1>4 DEF WaitIsOver
    <2>2. \A c \in Client \ {t} : call[c].lrq # r
      BY <1>0, <2>1 DEF IInv, WaitersSound
    <2>3. NoneWaitsFor(r)'
      BY <1>0, <2>1, <2>2 DEF NoneWaitsFor, CallKept
    <2>4. lrq[r].lock # Nobody
      BY <1>0, <2>1, ConstantTypes DEF IInv, WaitersSound, Waiter
    <2>5. lrq'[r].physical = lrq'[r].state /\ ~Pending(r)'
      BY <1>0, <1>4, <2>1, <2>4 DEF KnownAt, WaitIsOver
    <2>6. QED
      BY <2>3, <2>5, KnownAtOnce
  <1>5. CASE Served(r) \/ IsRejected(r)
    <2>1. Pending(r) /\ ~Pending(r)' /\ lrq'[r].lock = lrq[r].lock /\ lrq'[r].physical = lrq[r].physical
      BY <1>5 DEF Served, IsRejected, FirstPending, SamePlace
    <2>2. lrq[r].lock \in Key /\ lrq[r].owner \in Owner
      <3>1. lrq[r].lock # Nobody
        BY <2>1 DEF IInv, Table, OffQueue, Waits, Pending
      <3>2. QED
        BY <3>1, BlockTypes DEF IInv
    <2>3. PICK d \in Client : call[d].lrq = r
      BY <2>1, <2>2, ConstantTypes DEF IInv, PendingOwned, Deathless, Alive
    <2>4. \A c \in Client : CallKept(c)
      BY <1>5 DEF Served, IsRejected, CallsKept
    <2>5. call'[d].lrq = r /\ \A c \in Client : call'[c].lrq = r => call[c].lrq = r /\ call'[c].level = call[c].level
      BY <1>0, <2>3, <2>4 DEF CallKept
    <2>6. ~NoneWaitsFor(r)'
      BY <2>5 DEF NoneWaitsFor
    <2>7. /\ ~Rejected(r) /\ lrq[r].physical = lrq[r].state
          /\ \A c \in Client : call[c].lrq = r => lrq[r].requested = call[c].level
      BY <1>0, <2>1, <2>2, <2>3, ConstantTypes DEF KnownAt
    <2>8. CASE Served(r)
      <3>1. lrq'[r].state = lrq[r].requested /\ ~Rejected(r)'
        BY <2>7, <2>8 DEF Served
      <3>2. QED
        BY <2>1, <2>5, <2>6, <2>7, <3>1 DEF KnownAt
    <2>9. CASE IsRejected(r)
      <3>1. lrq'[r].state = lrq[r].state /\ Rejected(r)'
        BY <2>9 DEF IsRejected
      <3>2. QED
        BY <2>1, <2>5, <2>6, <2>7, <3>1 DEF KnownAt
    <2>10. QED
      BY <1>5, <2>8, <2>9
  <1>6. QED
    BY <1>2, <1>3, <1>4, <1>5

\* Every step keeps callers informed.
LEMMA KnownStep ==
    ASSUME IInv, Known, Deathless, Deathless', Shaped, "downgrade" \notin Calls, NEW r \in Request
    PROVE  KnownAt(r)'
  <1>1. CASE Unmoved \/ PostingEnds
    BY <1>1, OthersKnown
  <1>2. ASSUME NEW t \in Thread, NEW x \in Request,
               \/ Leaves(t, x) \/ Converted(t, x) \/ ConversionWaits(t, x) \/ WaitIsOver(t, x)
               \/ \E k \in Key : NewGranted(x, k) \/ NewWaits(t, x, k)
        PROVE  KnownAt(r)'
    <2>1. CASE x # r
      BY <1>2, <2>1, OthersKnown
    <2>2. CASE x = r /\ Leaves(t, x)
      BY <2>2 DEF Leaves, FreeLrq, KnownAt
    <2>3. CASE x = r /\ ~Leaves(t, x)
      BY <1>2, <2>3, QuietKnown, WaitedForKnown
    <2>4. QED
      BY <2>1, <2>2, <2>3
  <1>3. ASSUME NEW x \in Request, Refused(x) \/ Served(x) \/ IsRejected(x)
        PROVE  KnownAt(r)'
    <2>1. CASE x # r
      BY <1>3, <2>1, OthersKnown
    <2>2. CASE x = r
      <3>1. CASE Refused(r)
        BY <3>1, QuietKnown
      <3>2. CASE Served(r) \/ IsRejected(r)
        BY <3>2, WaitedForKnown
      <3>3. QED
        BY <1>3, <2>2, <3>1, <3>2
    <2>3. QED
      BY <2>1, <2>2
  <1>4. CASE Death
    BY <1>4 DEF Death, Deathless
  <1>5. QED
    BY <1>1, <1>2, <1>3, <1>4 DEF Shaped

\* A caller of lock.cpp keeps in lck_physical the level it was told, and the
\* calls that change a level set it on every way out: for a request that is in
\* no call it is the level in the lock table.  Excluded are deaths, after which
\* nobody keeps lck_physical, and downgrade, which returns the level it asked for
\* also when the conversion to it was refused.
THEOREM LevelsKnown ==
    ASSUME "downgrade" \notin Calls
    PROVE  Spec => [](Deathless => PhysicalIsGranted)
  <1>1. Init => PurgesAtHome /\ (Deathless => Known)
    BY InitOrdered DEF Init, Known, KnownAt, FreeLrq
  <1>2. /\ IInv /\ PurgesAtHome /\ (Deathless => Known) /\ [Next]_vars
        => PurgesAtHome' /\ (Deathless' => Known')
    <2> SUFFICES ASSUME IInv, PurgesAtHome, Deathless => Known, [Next]_vars
                 PROVE  PurgesAtHome' /\ (Deathless' => Known')
      OBVIOUS
    <2>1. Shaped
      BY NextShaped
    <2>2. PurgesAtHome'
      BY PurgesAtHomeStep
    <2>3. ASSUME Deathless'
          PROVE  Known'
      BY <2>1, <2>3, DeathlessBefore, KnownStep DEF Known
    <2>4. QED
      BY <2>2, <2>3
  <1>3. (Deathless => Known) => (Deathless => PhysicalIsGranted)
    BY DEF Known, KnownAt, NoneWaitsFor, PhysicalIsGranted
  <1>4. QED
    BY <1>1, <1>2, <1>3, Invariant, PTL DEF Spec

-----------------------------------------------------------------------------
(* Blocking notices, while no process has died.                               *)

\* Request r is on the list own_blocks of its owner.
Noted(r) == lrq[r].flags \cap {"blocking", "repost"} # {}

Signaled(o) == "signaled" \in own[o].flags

UnderWay(o) == \E t \in Thread : thr[t].block = o \/ o \in thr[t].todo

\* Somebody delivers the notices of o, or its process is to look for them.
AtWork(o) ==
    \/ \E t \in Thread : thr[t].block = o
    \/ prc[ProcOf[o]].blocking \/ thr[ProcOf[o]].pc = "loop"

\* An owner with notices is signaled or about to be; OWN_signaled stays on only
\* as long as somebody is to take it off.
ToldAt(o) ==
    own[o].count > 0 => /\ Blocks(o) # {} => UnderWay(o) \/ Signaled(o)
                        /\ Signaled(o) => AtWork(o)

Told == \A o \in Owner : ToldAt(o)

\* What a step that has nothing to do with notices leaves alone.
NoNewNotice == \A r \in Request : Noted(r)' => Noted(r) /\ lrq'[r].owner = lrq[r].owner

SignalsKept ==
    \A o \in Owner : own'[o].count > 0 => own[o].count > 0 /\ (Signaled(o)' <=> Signaled(o))

DeliveryKept ==
    \A t \in Thread :
        /\ thr[t].block # Nobody => thr'[t].block = thr[t].block
        /\ thr[t].todo \subseteq thr'[t].todo
        /\ t \in Process /\ thr[t].pc = "loop" => thr'[t].pc = "loop"

PostsKept == \A p \in Process : prc[p].blocking => prc'[p].blocking

\* The signal and the delivery of an owner's notices stay on the way.
LEMMA WorkKept ==
    ASSUME NEW o \in Owner, DeliveryKept, PostsKept
    PROVE  (UnderWay(o) => UnderWay(o)') /\ (AtWork(o) => AtWork(o)')
  <1>1. ProcOf[o] \in Process /\ ProcOf[o] \in Thread /\ o # Nobody
    BY ConstantTypes, Constants
  <1>2. UnderWay(o) => UnderWay(o)'
    BY <1>1 DEF UnderWay, DeliveryKept
  <1>3. AtWork(o) => AtWork(o)'
    BY <1>1 DEF AtWork, DeliveryKept, PostsKept
  <1>4. QED
    BY <1>2, <1>3

\* Nothing happens to the notices of an owner.
LEMMA ToldKept ==
    ASSUME NEW o \in Owner, ToldAt(o), NoNewNotice, SignalsKept, DeliveryKept, PostsKept
    PROVE  ToldAt(o)'
  <1>1. Blocks(o)' # {} => Blocks(o) # {}
    BY DEF Blocks, NoNewNotice, Noted
  <1>2. (UnderWay(o) => UnderWay(o)') /\ (AtWork(o) => AtWork(o)')
    BY WorkKept
  <1>3. QED
    BY <1>1, <1>2 DEF ToldAt, SignalsKept

\* Changes of an owner block that leave OWN_signaled alone.
LEMMA FlagsKept ==
    ASSUME IInv, NEW x \in Owner, NEW f, "signaled" \in f <=> Signaled(x),
           own' = [own EXCEPT ![x].flags = f]
    PROVE  SignalsKept
  <1>1. own \in [Owner -> OwnBlock]
    BY DEF IInv, ControlTypes
  <1>2. /\ own'[x] = [own[x] EXCEPT !.flags = f] /\ own[x] \in OwnBlock
        /\ \A o \in Owner \ {x} : own'[o] = own[o]
    BY <1>1
  <1>3. own'[x].count = own[x].count /\ own'[x].flags = f
    BY <1>2 DEF OwnBlock
  <1>4. QED
    BY <1>2, <1>3 DEF SignalsKept, Signaled

\* post_wakeup leaves it alone.
LEMMA WakeupKept ==
    ASSUME IInv, NEW x \in Owner, own' = post_wakeup(own, x)
    PROVE  SignalsKept
  <1>1. CASE own' = own
    BY <1>1 DEF SignalsKept, Signaled
  <1>2. CASE own' = [own EXCEPT ![x].flags = own[x].flags \cup {"wakeup"}]
    BY <1>2, FlagsKept DEF Signaled
  <1>3. QED
    BY <1>1, <1>2 DEF post_wakeup

\* So do the counters of waits and of ASTs.
LEMMA CountersKept ==
    ASSUME IInv, NEW x \in Owner, NEW n,
           own' = [own EXCEPT ![x].waits = n] \/ own' = [own EXCEPT ![x].asts = n]
    PROVE  SignalsKept
  <1>1. own \in [Owner -> OwnBlock]
    BY DEF IInv, ControlTypes
  <1>2. /\ own'[x] = [own[x] EXCEPT !.waits = n] \/ own'[x] = [own[x] EXCEPT !.asts = n]
        /\ own[x] \in OwnBlock
        /\ \A o \in Owner \ {x} : own'[o] = own[o]
    BY <1>1
  <1>3. own'[x].count = own[x].count /\ own'[x].flags = own[x].flags
    BY <1>2 DEF OwnBlock
  <1>4. QED
    BY <1>2, <1>3 DEF SignalsKept, Signaled

\* A client goes on.
LEMMA GotoKept ==
    ASSUME IInv, NEW t \in Client, NEW pc, thr' = [thr EXCEPT ![t].pc = pc]
    PROVE  DeliveryKept
  <1>1. thr \in [Thread -> ThrBlock] /\ t \in Thread /\ t \notin Process
    BY ConstantTypes, Constants DEF IInv, ControlTypes
  <1>2. /\ thr'[t] = [thr[t] EXCEPT !.pc = pc] /\ thr[t] \in ThrBlock
        /\ \A u \in Thread \ {t} : thr'[u] = thr[u]
    BY <1>1
  <1>3. thr'[t].block = thr[t].block /\ thr'[t].todo = thr[t].todo
    BY <1>2 DEF ThrBlock
  <1>4. QED
    BY <1>1, <1>2, <1>3 DEF DeliveryKept

\* What does not change is kept.
LEMMA SameNotices ==
    /\ lrq' = lrq => NoNewNotice
    /\ own' = own => SignalsKept
    /\ thr' = thr => DeliveryKept
    /\ prc' = prc => PostsKept
  BY DEF NoNewNotice, Noted, SignalsKept, Signaled, DeliveryKept, PostsKept

\* release_request takes notices away.
LEMMA ReleaseQuiet ==
    ASSUME IInv, NEW r \in Request, release_request(r)
    PROVE  NoNewNotice
  <1>1. lrq \in [Request -> LrqBlock] /\ lrq' = [MovedUp(lrq, r) EXCEPT ![r] = FreeLrq]
    BY DEF IInv, Table, release_request
  <1>2. ASSUME NEW q \in Request, Noted(q)'
        PROVE  Noted(q) /\ lrq'[q].owner = lrq[q].owner
    <2>1. lrq[q] \in LrqBlock
      BY <1>1
    <2>2. CASE q = r
      <3>1. lrq'[q] = FreeLrq
        BY <1>1, <2>2 DEF MovedUp
      <3>2. QED
        BY <1>2, <3>1 DEF Noted, FreeLrq
    <2>3. CASE q # r
      <3>1. lrq'[q] = lrq[q] \/ lrq'[q] = [lrq[q] EXCEPT !.pos = lrq[q].pos - 1]
        BY <1>1, <2>3 DEF MovedUp
      <3>2. lrq'[q].flags = lrq[q].flags /\ lrq'[q].owner = lrq[q].owner
        BY <2>1, <3>1 DEF LrqBlock
      <3>3. QED
        BY <1>2, <3>2 DEF Noted
    <2>4. QED
      BY <2>2, <2>3
  <1>3. QED
    BY <1>2 DEF NoNewNotice

\* One request changes, without becoming a notice.
LEMMA OneQuiet ==
    ASSUME NEW r \in Request, \A q \in Request \ {r} : lrq'[q] = lrq[q],
           Noted(r)' => Noted(r) /\ lrq'[r].owner = lrq[r].owner
    PROVE  NoNewNotice
  BY DEF NoNewNotice, Noted

\* A grant is no notice.
LEMMA GrantQuiet ==
    ASSUME IInv, NEW rq \in [Request -> LrqBlock], NEW r \in Request, NEW k,
           \A q \in Request \ {r} : rq[q] = lrq[q], NEW counts, grant(rq, r, k, counts),
           rq[r].owner \in Owner, rq[r].flags \subseteq lrq[r].flags,
           rq[r].flags # {} => rq[r].owner = lrq[r].owner
    PROVE  NoNewNotice /\ SignalsKept
  <1>1. lrq' = GrantedLrq(rq, r) /\ own' = post_wakeup(own, rq[r].owner)
    BY DEF grant
  <1>2. rq[r] \in LrqBlock /\ lrq'[r] = [rq[r] EXCEPT !.state = rq[r].requested, !.flags = rq[r].flags \ {"pending"}]
    BY <1>1 DEF GrantedLrq
  <1>3. \A q \in Request \ {r} : lrq'[q] = lrq[q]
    BY <1>1 DEF GrantedLrq
  <1>4. lrq'[r].flags = rq[r].flags \ {"pending"} /\ lrq'[r].owner = rq[r].owner
    BY <1>2 DEF LrqBlock
  <1>5. Noted(r)' => Noted(r) /\ lrq'[r].owner = lrq[r].owner
    BY <1>4 DEF Noted
  <1>6. QED
    BY <1>1, <1>3, <1>5, OneQuiet, WakeupKept

\* Nor is the begin of a wait.
LEMMA WaitQuiet ==
    ASSUME IInv, NEW rq \in [Request -> LrqBlock], NEW r \in Request, NEW k,
           \A q \in Request \ {r} : rq[q] = lrq[q], NEW mode, wait_for_request(rq, r, k, mode),
           rq[r].owner \in Owner, rq[r].flags \subseteq lrq[r].flags,
           rq[r].flags # {} => rq[r].owner = lrq[r].owner
    PROVE  NoNewNotice /\ SignalsKept
  <1> DEFINE f == (rq[r].flags \ {"rejected"}) \cup {"pending"}
                    \cup (IF mode = "wait" THEN {} ELSE {"timeout"})
             x == rq[r].owner
             g == own[x].flags \ {"scanned", "wakeup"}
  <1>1. lrq' = [rq EXCEPT ![r].flags = f]
    BY DEF wait_for_request
  <1>2. /\ "blocking" \in f => "blocking" \in rq[r].flags
        /\ "repost" \in f => "repost" \in rq[r].flags
    OBVIOUS
  <1>3. own' = [own EXCEPT ![x].waits = own[x].waits + 1, ![x].flags = g] /\ own \in [Owner -> OwnBlock]
    BY DEF wait_for_request, IInv, ControlTypes
  <1>4. "signaled" \in g <=> "signaled" \in own[x].flags
    OBVIOUS
  <1>5. x \in Owner /\ x = rq[r].owner
    OBVIOUS
  <1> HIDE DEF f, g, x
  <1>6. /\ lrq'[r] = [rq[r] EXCEPT !.flags = f] /\ rq[r] \in LrqBlock
        /\ \A q \in Request \ {r} : lrq'[q] = lrq[q]
    BY <1>1
  <1>7. lrq'[r].flags = f /\ lrq'[r].owner = rq[r].owner
    BY <1>6 DEF LrqBlock
  <1>8. Noted(r)' => Noted(r) /\ lrq'[r].owner = lrq[r].owner
    BY <1>2, <1>7 DEF Noted
  <1>9. /\ own'[x] = [own[x] EXCEPT !.waits = own[x].waits + 1, !.flags = g] /\ own[x] \in OwnBlock
        /\ \A o \in Owner \ {x} : own'[o] = own[o]
    BY <1>3, <1>5
  <1>10. own'[x].count = own[x].count /\ own'[x].flags = g
    BY <1>9 DEF OwnBlock
  <1>11. SignalsKept
    BY <1>4, <1>9, <1>10 DEF SignalsKept, Signaled
  <1>12. QED
    BY <1>6, <1>8, <1>11, OneQuiet

NoticesKept == NoNewNotice /\ SignalsKept /\ DeliveryKept /\ PostsKept

\* internal_convert sends no notice of itself.
LEMMA ConvertQuiet ==
    ASSUME IInv, NEW t \in Thread, NEW o \in Owner, MayCall(t, o), NEW r \in HeldBy(o),
           NEW l \in AnyLevel, NEW mode, NEW ast \in BOOLEAN, NEW refused \in AnyLevel,
           mode # "no_wait" => ~thr[t].ast, prc' = prc,
           internal_convert(t, r, l, mode, ast, refused)
    PROVE  NoticesKept
  <1> DEFINE k == lrq[r].lock
             asked == [lrq EXCEPT ![r].requested = l, ![r].flags = @ \ {"seen"}]
  <1>1. r \in Request /\ lrq[r].owner = o /\ PostsKept
    BY HeldRequest, SameNotices
  <1>2. lrq \in [Request -> LrqBlock] /\ lrq[r] \in LrqBlock /\ lrq[r].flags \in SUBSET LrqFlag
    BY <1>1 DEF IInv, Table, LrqBlock
  <1>3. /\ asked \in [Request -> LrqBlock]
        /\ \A q \in Request \ {r} : asked[q] = lrq[q]
        /\ asked[r] = [lrq[r] EXCEPT !.requested = l, !.flags = lrq[r].flags \ {"seen"}]
        /\ asked[r].owner = o /\ asked[r].flags = lrq[r].flags \ {"seen"}
    BY <1>1, <1>2 DEF LrqBlock
  <1>4. CASE Compatible(l, StateWithout(r))
    <2> DEFINE rq == [asked EXCEPT ![r].ast = ast, ![r].physical = l]
               counts == Without(lbl[k].counts, lrq[r].state)
    <2>1. grant(rq, r, k, counts) /\ thr' = thr
      BY <1>4 DEF internal_convert
    <2>2. rq = [asked EXCEPT ![r].ast = ast, ![r].physical = l]
      OBVIOUS
    <2> HIDE DEF asked, rq, counts, k
    <2>0. asked[r] \in LrqBlock
      BY <1>1, <1>3
    <2>3. /\ rq[r] = [asked[r] EXCEPT !.ast = ast, !.physical = l]
          /\ \A q \in Request \ {r} : rq[q] = asked[q]
      BY <1>1, <1>3, <2>2
    <2>4. rq[r] \in LrqBlock /\ rq[r].owner = asked[r].owner /\ rq[r].flags = asked[r].flags
      BY <2>0, <2>3 DEF LrqBlock
    <2>5. rq \in [Request -> LrqBlock]
      <3>1. \A q \in Request : rq[q] \in LrqBlock
        BY <1>3, <2>3, <2>4
      <3>2. QED
        BY <1>3, <2>2, <3>1
    <2>6. /\ \A q \in Request \ {r} : rq[q] = lrq[q]
          /\ rq[r].owner \in Owner /\ rq[r].flags \subseteq lrq[r].flags
          /\ rq[r].flags # {} => rq[r].owner = lrq[r].owner
      BY <1>1, <1>3, <2>3, <2>4
    <2>7. NoNewNotice /\ SignalsKept
      BY <1>1, <2>1, <2>5, <2>6, GrantQuiet
    <2>8. QED
      BY <1>1, <2>1, <2>7, SameNotices DEF NoticesKept
  <1>5. CASE ~Compatible(l, StateWithout(r)) /\ mode = "no_wait"
    <2>1. /\ lrq' = [asked EXCEPT ![r].requested = lrq[r].state, ![r].physical = refused]
          /\ UNCHANGED <<own, thr>>
      BY <1>5 DEF internal_convert
    <2>2. lrq[r].state \in AnyLevel
      BY <1>2 DEF LrqBlock
    <2> HIDE DEF asked
    <2>3. asked \in [Request -> LrqBlock] /\ asked[r] \in LrqBlock
      BY <1>1, <1>3
    <2>4. /\ lrq'[r] = [asked[r] EXCEPT !.requested = lrq[r].state, !.physical = refused]
          /\ \A q \in Request \ {r} : lrq'[q] = asked[q]
      BY <1>1, <2>1, <2>3
    <2>5. lrq'[r].owner = asked[r].owner /\ lrq'[r].flags = asked[r].flags
      BY <2>2, <2>3, <2>4 DEF LrqBlock
    <2>6. Noted(r)' => Noted(r) /\ lrq'[r].owner = lrq[r].owner
      BY <1>1, <1>3, <2>5 DEF Noted
    <2>7. NoNewNotice
      BY <1>1, <1>3, <2>4, <2>6, OneQuiet
    <2>8. QED
      BY <1>1, <2>1, <2>7, SameNotices DEF NoticesKept
  <1>6. CASE ~Compatible(l, StateWithout(r)) /\ mode # "no_wait"
    <2>1. wait_for_request(asked, r, k, mode) /\ thr' = [thr EXCEPT ![t].pc = "blockage"]
      BY <1>6 DEF internal_convert, Goto
    <2>2. t \in Client
      BY <1>6 DEF MayCall
    <2> HIDE DEF asked, k
    <2>3. /\ asked[r].owner \in Owner /\ asked[r].flags \subseteq lrq[r].flags
          /\ asked[r].flags # {} => asked[r].owner = lrq[r].owner
      BY <1>1, <1>3
    <2>4. NoNewNotice /\ SignalsKept
      BY <1>1, <1>3, <2>1, <2>3, WaitQuiet
    <2>5. QED
      BY <1>1, <2>1, <2>2, <2>4, GotoKept DEF NoticesKept
  <1>7. QED
    BY <1>4, <1>5, <1>6

\* The second part of enqueue sends no notice of itself.
LEMMA EnqueueQuiet ==
    ASSUME IInv, NEW t \in Client, EnqueueRequest(t)
    PROVE  NoticesKept
  <1> DEFINE k == call[t].key
             l == call[t].level
  <1>1. k \in Key /\ l \in AnyLevel /\ Home[t] \in Owner
    <2>1. thr[t].pc = "enqueue"
      BY DEF EnqueueRequest
    <2>2. k \in Key
      BY <2>1 DEF IInv, WaitersSound, Waiter
    <2>3. l \in AnyLevel
      BY DEF IInv, ControlTypes, CallBlock
    <2>4. QED
      BY <2>2, <2>3, ConstantTypes
  <1>2. PostsKept
    BY SameNotices DEF EnqueueRequest
  <1>3. ASSUME Returns(t)
        PROVE  DeliveryKept
    BY <1>3, GotoKept DEF Returns, Goto
  <1>4. ASSUME NEW r \in FreeRequests, NEW counts,
               grant([lrq EXCEPT ![r] = NewLrq(t, l)], r, k, counts), Returns(t)
        PROVE  NoticesKept
    <2> DEFINE rq == [lrq EXCEPT ![r] = NewLrq(t, l)]
    <2>1. /\ r \in Request /\ rq \in [Request -> LrqBlock]
          /\ \A q \in Request \ {r} : rq[q] = lrq[q]
          /\ rq[r].lock = k /\ rq[r].owner = Home[t]
          /\ rq[r].requested = l /\ rq[r].state = 0 /\ rq[r].flags = {}
          /\ lrq[r].lock = Nobody /\ lrq[r].state = 0 /\ ~Waits(lrq[r])
          /\ \A c \in Client : call[c].lrq # r
      BY <1>1, NewRequest
    <2>2. grant(rq, r, k, counts)
      BY <1>4
    <2> HIDE DEF rq, k, l
    <2>3. NoNewNotice /\ SignalsKept
      BY <1>1, <2>1, <2>2, GrantQuiet
    <2>4. QED
      BY <1>2, <1>3, <1>4, <2>3 DEF NoticesKept
  <1>5. ASSUME NEW r \in FreeRequests,
               wait_for_request([lrq EXCEPT ![r] = NewLrq(t, LCK_none)], r, k, call[t].mode),
               Goto(t, "blockage")
        PROVE  NoticesKept
    <2> DEFINE rq == [lrq EXCEPT ![r] = NewLrq(t, LCK_none)]
    <2>0. LCK_none \in AnyLevel
      BY DEF LCK_none, AnyLevel
    <2>1. /\ r \in Request /\ rq \in [Request -> LrqBlock]
          /\ \A q \in Request \ {r} : rq[q] = lrq[q]
          /\ rq[r].lock = k /\ rq[r].owner = Home[t]
          /\ rq[r].requested = l /\ rq[r].state = 0 /\ rq[r].flags = {}
          /\ lrq[r].lock = Nobody /\ lrq[r].state = 0 /\ ~Waits(lrq[r])
          /\ \A c \in Client : call[c].lrq # r
      BY <1>1, <2>0, NewRequest
    <2>2. wait_for_request(rq, r, k, call[t].mode)
      BY <1>5
    <2> HIDE DEF rq, k, l
    <2>3. NoNewNotice /\ SignalsKept
      BY <1>1, <2>1, <2>2, WaitQuiet
    <2>4. DeliveryKept
      BY <1>5, GotoKept DEF Goto
    <2>5. QED
      BY <1>2, <2>3, <2>4 DEF NoticesKept
  <1>6. CASE UNCHANGED <<lrq, own>> /\ Returns(t)
    BY <1>2, <1>3, <1>6, SameNotices DEF NoticesKept
  <1>7. CASE \E r \in FreeRequests :
               /\ grant([lrq EXCEPT ![r] = NewLrq(t, l)], r, k, FreeLbl.counts)
               /\ Returns(t)
    <2> HIDE DEF k, l
    <2>1. QED
      BY <1>4, <1>7
  <1>8. ASSUME NEW r \in FreeRequests, grant_or_que(t, r, k, l)
        PROVE  NoticesKept
    <2>1. \/ grant([lrq EXCEPT ![r] = NewLrq(t, l)], r, k, lbl[k].counts) /\ Returns(t)
          \/ Returns(t) /\ UNCHANGED <<lrq, own>>
          \/ /\ wait_for_request([lrq EXCEPT ![r] = NewLrq(t, LCK_none)], r, k, call[t].mode)
             /\ Goto(t, "blockage")
      BY <1>8 DEF grant_or_que
    <2> HIDE DEF k, l
    <2>2. QED
      BY <1>4, <1>5, <1>6, <2>1
  <1>9. QED
    BY <1>6, <1>7, <1>8 DEF EnqueueRequest

\* A request is rejected.
LEMMA RejectQuiet ==
    ASSUME IInv, NEW v \in Request, lrq' = RejectedLrq(lrq, v)
    PROVE  NoNewNotice
  <1> DEFINE f == (lrq[v].flags \cup {"rejected"}) \ {"pending"}
  <1>1. lrq' = [lrq EXCEPT ![v].flags = f] /\ lrq \in [Request -> LrqBlock] /\ lrq[v] \in LrqBlock
    BY DEF RejectedLrq, IInv, Table
  <1>2. /\ "blocking" \in f => "blocking" \in lrq[v].flags
        /\ "repost" \in f => "repost" \in lrq[v].flags
    OBVIOUS
  <1> HIDE DEF f
  <1>3. lrq'[v] = [lrq[v] EXCEPT !.flags = f] /\ \A q \in Request \ {v} : lrq'[q] = lrq[q]
    BY <1>1
  <1>4. lrq'[v].flags = f /\ lrq'[v].owner = lrq[v].owner
    BY <1>1, <1>3 DEF LrqBlock
  <1>5. Noted(v)' => Noted(v)
    BY <1>2, <1>4 DEF Noted
  <1>6. QED
    BY <1>3, <1>4, <1>5, OneQuiet

\* The return from wait_for_request.
LEMMA WaitEndsQuiet ==
    ASSUME IInv, NEW t \in Client, WaitEnds(t)
    PROVE  NoticesKept
  <1>1. thr[t].pc \in WaitPC /\ Home[t] \in Owner
    BY ConstantTypes DEF WaitEnds, WaitPC
  <1>2. PICK r \in Request : r = call[t].lrq
    BY <1>1 DEF IInv, WaitersSound, Waiter, ControlTypes, CallBlock
  <1>3. /\ own' = [own EXCEPT ![Home[t]].waits = own[Home[t]].waits - 1] /\ prc' = prc
        /\ thr' = [thr EXCEPT ![t].pc = "idle"]
    BY DEF WaitEnds, Returns, Goto
  <1>4. SignalsKept /\ DeliveryKept /\ PostsKept
    BY <1>1, <1>3, CountersKept, GotoKept, SameNotices
  <1> DEFINE done == [lrq[r] EXCEPT !.flags = @ \ {"timeout"}]
  <1>5. lrq \in [Request -> LrqBlock] /\ lrq[r] \in LrqBlock /\ lrq[r].flags \in SUBSET LrqFlag
    BY DEF IInv, Table, LrqBlock
  <1>6. done \in LrqBlock /\ done.owner = lrq[r].owner /\ done.flags = lrq[r].flags \ {"timeout"}
    BY <1>5 DEF LrqBlock
  <1>7. \/ release_request(r)
        \/ lrq' = [lrq EXCEPT ![r] = [done EXCEPT !.requested = lrq[r].state]]
        \/ lrq' = [lrq EXCEPT ![r] = [done EXCEPT !.physical = call[t].level, !.ast = call[t].ast]]
    BY <1>2 DEF WaitEnds
  <1> HIDE DEF done
  <1>8. CASE release_request(r)
    BY <1>4, <1>8, ReleaseQuiet DEF NoticesKept
  <1>9. CASE ~release_request(r)
    <2>1. /\ \/ lrq'[r] = [done EXCEPT !.requested = lrq[r].state]
             \/ lrq'[r] = [done EXCEPT !.physical = call[t].level, !.ast = call[t].ast]
          /\ \A q \in Request \ {r} : lrq'[q] = lrq[q]
      BY <1>5, <1>7, <1>9
    <2>2. lrq'[r].flags = done.flags /\ lrq'[r].owner = done.owner
      BY <1>6, <2>1 DEF LrqBlock
    <2>3. Noted(r)' => Noted(r) /\ lrq'[r].owner = lrq[r].owner
      BY <1>6, <2>2 DEF Noted
    <2>4. QED
      BY <1>4, <2>1, <2>3, OneQuiet DEF NoticesKept
  <1>10. QED
    BY <1>8, <1>9

\* The deadlock scan.
LEMMA ScanQuiet ==
    ASSUME IInv, NEW t \in Client, deadlock_scan(t)
    PROVE  NoticesKept
  <1>1. /\ prc' = prc /\ thr[t].pc = "scan" /\ \E pc : thr' = [thr EXCEPT ![t].pc = pc]
    BY DEF deadlock_scan, Goto
  <1>2. DeliveryKept /\ PostsKept /\ Home[t] \in Owner
    BY <1>1, GotoKept, SameNotices, ConstantTypes
  <1>3. PICK r \in Request : r = call[t].lrq
    BY <1>1 DEF IInv, WaitersSound, Waiter, ControlTypes, CallBlock, WaitPC
  <1>4. CASE lrq' = lrq /\ own' = own
    BY <1>2, <1>4, SameNotices DEF NoticesKept
  <1>5. CASE lrq' = lrq /\ own' = [own EXCEPT ![Home[t]].flags = own[Home[t]].flags \cup {"scanned"}]
    <2>1. SignalsKept
      BY <1>2, <1>5, FlagsKept DEF Signaled
    <2>2. QED
      BY <1>2, <1>5, <2>1, SameNotices DEF NoticesKept
  <1>6. ASSUME NEW v \in deadlock_walk(r), lrq' = RejectedLrq(lrq, v), Pending(r),
               LET rescan == [own EXCEPT ![lrq[v].owner].flags = own[lrq[v].owner].flags \ {"scanned"}]
               IN  own' = rescan \/ own' = post_wakeup(rescan, lrq[v].owner)
        PROVE  NoticesKept
    <2>1. v \in Request /\ Pending(v)
      BY <1>6, WalkPending
    <2>2. lrq[v].owner \in Owner
      BY <2>1, PendingOnLock DEF IInv
    <2>3. PICK x \in Owner : x = lrq[v].owner
      BY <2>2
    <2> DEFINE rescan == [own EXCEPT ![x].flags = own[x].flags \ {"scanned"}]
    <2>4. own \in [Owner -> OwnBlock]
      BY DEF IInv, ControlTypes
    <2>5. \/ own' = rescan
          \/ own' = [rescan EXCEPT ![x].flags = rescan[x].flags \cup {"wakeup"}]
      BY <1>6, <2>3 DEF post_wakeup
    <2>6. rescan[x].flags = own[x].flags \ {"scanned"}
      BY <2>4 DEF OwnBlock
    <2>7. \/ own' = [own EXCEPT ![x].flags = own[x].flags \ {"scanned"}]
          \/ own' = [own EXCEPT ![x].flags = (own[x].flags \ {"scanned"}) \cup {"wakeup"}]
      BY <2>4, <2>5, <2>6
    <2>8. SignalsKept
      BY <2>7, FlagsKept DEF Signaled
    <2>9. QED
      BY <1>2, <1>6, <2>1, <2>8, RejectQuiet DEF NoticesKept
  <1>7. QED
    BY <1>3, <1>4, <1>5, <1>6 DEF deadlock_scan

\* Steps of clients that send no notice.
LEMMA ClientQuiet ==
    ASSUME IInv, NEW c \in Client,
           \/ shutdownOwner(c) \/ enqueue(c) \/ cancelWait(c) \/ AstsDone(c)
           \/ EnqueueRequest(c) \/ WaitCheck(c) \/ WakesResolved(c) \/ WakesBogus(c) \/ GivesUp(c)
           \/ WakesPosted(c) \/ WakesToScan(c) \/ deadlock_scan(c) \/ WaitEnds(c)
    PROVE  NoticesKept
  <1>0. Home[c] \in Owner /\ own \in [Owner -> OwnBlock]
    BY ConstantTypes DEF IInv, ControlTypes
  <1>1. CASE shutdownOwner(c)
    <2>1. /\ own' = [own EXCEPT ![Home[c]].count = own[Home[c]].count - 1] /\ own[Home[c]].count > 0
          /\ \E pc : thr' = [thr EXCEPT ![c].pc = pc]
          /\ UNCHANGED <<lrq, prc>>
      BY <1>1 DEF shutdownOwner, Usable, Goto
    <2>2. /\ own'[Home[c]] = [own[Home[c]] EXCEPT !.count = own[Home[c]].count - 1]
          /\ own[Home[c]] \in OwnBlock
          /\ \A o \in Owner \ {Home[c]} : own'[o] = own[o]
      BY <1>0, <2>1
    <2>3. own'[Home[c]].flags = own[Home[c]].flags
      BY <2>2 DEF OwnBlock
    <2>4. SignalsKept
      BY <2>1, <2>2, <2>3 DEF SignalsKept, Signaled
    <2>5. QED
      BY <2>1, <2>4, GotoKept, SameNotices DEF NoticesKept
  <1>2. CASE enqueue(c)
    <2>1. own' = own /\ prc' = prc /\ thr' = [thr EXCEPT ![c].pc = "enqueue"]
      BY <1>2 DEF enqueue, Goto
    <2>2. lrq' = lrq \/ \E r \in Request : release_request(r)
      BY <1>2 DEF enqueue, HeldBy, Holds
    <2>3. NoNewNotice
      BY <2>2, ReleaseQuiet, SameNotices
    <2>4. QED
      BY <2>1, <2>3, GotoKept, SameNotices DEF NoticesKept
  <1>3. CASE cancelWait(c)
    <2>1. own' = post_wakeup(own, Home[c]) /\ UNCHANGED <<lrq, prc, thr>>
      BY <1>3 DEF cancelWait
    <2>2. QED
      BY <1>0, <2>1, WakeupKept, SameNotices DEF NoticesKept
  <1>4. CASE AstsDone(c) \/ WaitCheck(c) \/ WakesResolved(c) \/ WakesToScan(c)
    <2>1. UNCHANGED <<lrq, own, prc>> /\ \E pc : thr' = [thr EXCEPT ![c].pc = pc]
      BY <1>4 DEF AstsDone, WaitCheck, WakesResolved, WakesToScan, Goto
    <2>2. QED
      BY <2>1, GotoKept, SameNotices DEF NoticesKept
  <1>5. CASE WakesBogus(c)
    BY <1>5, SameNotices DEF WakesBogus, NoticesKept
  <1>6. CASE GivesUp(c) \/ WakesPosted(c)
    <2>1. /\ own' = [own EXCEPT ![Home[c]].flags = own[Home[c]].flags \ {"wakeup"}] /\ prc' = prc
          /\ \E pc : thr' = [thr EXCEPT ![c].pc = pc]
      BY <1>6 DEF GivesUp, WakesPosted, Awoken, Goto
    <2>2. SignalsKept
      BY <1>0, <2>1, FlagsKept DEF Signaled
    <2>3. thr[c].pc \in WaitPC
      BY <1>6 DEF GivesUp, WakesPosted, WaitPC
    <2>4. PICK r \in Request : r = call[c].lrq
      BY <2>3 DEF IInv, WaitersSound, Waiter, ControlTypes, CallBlock
    <2>5. lrq' = lrq \/ lrq' = RejectedLrq(lrq, r)
      BY <1>6, <2>4 DEF GivesUp, WakesPosted
    <2>6. NoNewNotice
      BY <2>5, RejectQuiet, SameNotices
    <2>7. QED
      BY <2>1, <2>2, <2>6, GotoKept, SameNotices DEF NoticesKept
  <1>7. QED
    BY <1>1, <1>2, <1>3, <1>4, <1>5, <1>6, EnqueueQuiet, ScanQuiet, WaitEndsQuiet

\* Steps of threads that send no notice.
LEMMA ThreadQuiet ==
    ASSUME IInv, Deathless, NEW t \in Thread,
           \/ convert(t) \/ downgrade(t) \/ dequeue(t) \/ release_shmem(t) \/ post_pending(t)
           \/ purge_owner(t) \/ purge_process(t) \/ probe_processes(t)
           \/ PurgeUndelivered(t) \/ AstReturns(t)
    PROVE  NoticesKept
  <1>0. own \in [Owner -> OwnBlock] /\ lrq \in [Request -> LrqBlock] /\ thr \in [Thread -> ThrBlock]
    BY DEF IInv, ControlTypes, Table
  <1>1. CASE convert(t)
    <2>1. PICK o \in Owner, l \in Level, m \in Mode, a \in HasAst :
             /\ MayCall(t, o)
             /\ thr[t].ast => m = "no_wait"
             /\ \E r \in HeldBy(o) : internal_convert(t, r, l, m, a, lrq[r].physical)
             /\ prc' = prc
      BY <1>1 DEF convert, Usable
    <2>2. PICK r \in HeldBy(o) : internal_convert(t, r, l, m, a, lrq[r].physical)
      BY <2>1
    <2>3. l \in AnyLevel /\ a \in BOOLEAN /\ r \in Request
      BY Constants DEF AnyLevel, HeldBy, Holds
    <2>4. lrq[r].physical \in AnyLevel
      BY <1>0, <2>3 DEF LrqBlock
    <2>5. QED
      BY <2>1, <2>2, <2>3, <2>4, ConvertQuiet
  <1>2. CASE downgrade(t)
    <2>1. PICK o \in Owner :
             /\ MayCall(t, o) /\ prc' = prc
             /\ \E r \in HeldBy(o) :
                  \/ release_request(r) /\ UNCHANGED <<own, thr>>
                  \/ internal_convert(t, r, DowngradeLevel(r), "no_wait", lrq[r].ast, DowngradeLevel(r))
      BY <1>2 DEF downgrade, Usable
    <2>2. PICK r \in HeldBy(o) :
            \/ release_request(r) /\ UNCHANGED <<own, thr>>
            \/ internal_convert(t, r, DowngradeLevel(r), "no_wait", lrq[r].ast, DowngradeLevel(r))
      BY <2>1
    <2>3. r \in Request
      BY DEF HeldBy, Holds
    <2>4. DowngradeLevel(r) \in AnyLevel /\ lrq[r].ast \in BOOLEAN
      BY <2>3, DowngradeFinds DEF IInv, Table, LrqBlock
    <2>5. CASE release_request(r) /\ UNCHANGED <<own, thr>>
      BY <2>1, <2>3, <2>5, ReleaseQuiet, SameNotices DEF NoticesKept
    <2>6. CASE internal_convert(t, r, DowngradeLevel(r), "no_wait", lrq[r].ast, DowngradeLevel(r))
      BY <2>1, <2>4, <2>6, ConvertQuiet
    <2>7. QED
      BY <2>2, <2>5, <2>6
  <1>3. CASE dequeue(t)
    <2>1. UNCHANGED <<own, prc, thr>> /\ \E r \in Request : release_request(r)
      BY <1>3 DEF dequeue, HeldBy, Holds
    <2>2. QED
      BY <2>1, ReleaseQuiet, SameNotices DEF NoticesKept
  <1>4. CASE release_shmem(t) \/ probe_processes(t)
    BY <1>4, SameNotices DEF release_shmem, probe_processes, NoticesKept
  <1>5. CASE post_pending(t)
    <2>1. UNCHANGED <<prc, thr>>
      BY <1>5 DEF post_pending
    <2>2. CASE lrq' = lrq /\ own' = own
      BY <2>1, <2>2, SameNotices DEF NoticesKept
    <2>3. ASSUME NEW r \in FirstPending(work.pend)
          PROVE  r \in Request /\ lrq[r].owner \in Owner
      <3>1. r \in Request /\ Pending(r)
        BY DEF FirstPending, Requests
      <3>2. QED
        BY <3>1, PendingOnLock DEF IInv
    <2>4. ASSUME NEW r \in FirstPending(work.pend), NEW counts, grant(lrq, r, work.pend, counts)
          PROVE  NoticesKept
      <3>1. NoNewNotice /\ SignalsKept
        BY <1>0, <2>3, <2>4, GrantQuiet
      <3>2. QED
        BY <2>1, <3>1, SameNotices DEF NoticesKept
    <2>5. ASSUME NEW r \in FirstPending(work.pend), lrq' = JustGranted(r), own' = post_wakeup(own, lrq[r].owner)
          PROVE  NoticesKept
      <3>1. SignalsKept
        BY <2>3, <2>5, WakeupKept
      <3>2. ASSUME NEW q \in Request
            PROVE  Noted(q)' => Noted(q) /\ lrq'[q].owner = lrq[q].owner
        <4>1. lrq'[q] = lrq[q] \/ lrq'[q] = [lrq[q] EXCEPT !.flags = lrq[q].flags \cup {"granted"}]
          BY <2>5 DEF JustGranted
        <4>2. CASE lrq'[q] = lrq[q]
          BY <4>2 DEF Noted
        <4>3. CASE lrq'[q] = [lrq[q] EXCEPT !.flags = lrq[q].flags \cup {"granted"}]
          <5>1. lrq[q] \in LrqBlock
            BY <1>0
          <5>2. lrq'[q].flags = lrq[q].flags \cup {"granted"} /\ lrq'[q].owner = lrq[q].owner
            BY <4>3, <5>1 DEF LrqBlock
          <5>3. QED
            BY <5>2 DEF Noted
        <4>4. QED
          BY <4>1, <4>2, <4>3
      <3>3. QED
        BY <2>1, <3>1, <3>2, SameNotices DEF NoNewNotice, NoticesKept
    <2>6. QED
      BY <1>5, <2>2, <2>4, <2>5 DEF post_pending
  <1>6. CASE purge_owner(t)
    <2>1. /\ UNCHANGED <<prc, thr>> /\ work.own \in Owner /\ work.own # Nobody
          /\ \/ \E r \in Request : release_request(r) /\ own' = own
             \/ \E r \in Request : lrq' = [lrq EXCEPT ![r] = FreeLrq] /\ own' = own
             \/ /\ own' = [own EXCEPT ![work.own].inuse = FALSE, ![work.own].flags = {}]
                /\ lrq' = lrq
      BY <1>6 DEF purge_owner, Holds, Blocks, IInv, ControlTypes, WorkBlock
    <2>2. own[work.own].count = 0
      BY <2>1, ConstantTypes DEF IInv, WorkSound, Deathless, Alive
    <2>3. CASE \E r \in Request : release_request(r) /\ own' = own
      BY <2>1, <2>3, ReleaseQuiet, SameNotices DEF NoticesKept
    <2>4. ASSUME NEW r \in Request, lrq' = [lrq EXCEPT ![r] = FreeLrq], own' = own
          PROVE  NoticesKept
      <3>1. lrq'[r] = FreeLrq /\ \A q \in Request \ {r} : lrq'[q] = lrq[q]
        BY <1>0, <2>4
      <3>2. ~Noted(r)'
        BY <3>1 DEF Noted, FreeLrq
      <3>3. QED
        BY <2>1, <2>4, <3>1, <3>2, OneQuiet, SameNotices DEF NoticesKept
    <2>5. CASE /\ own' = [own EXCEPT ![work.own].inuse = FALSE, ![work.own].flags = {}]
               /\ lrq' = lrq
      <3>1. PICK x \in Owner : x = work.own
        BY <2>1
      <3>2. /\ own'[x] = [own[x] EXCEPT !.inuse = FALSE, !.flags = {}] /\ own[x] \in OwnBlock
            /\ \A o \in Owner \ {x} : own'[o] = own[o]
        BY <1>0, <2>5, <3>1
      <3>3. own'[x].count = own[x].count
        BY <3>2 DEF OwnBlock
      <3>4. own'[x].count = 0
        BY <2>2, <3>1, <3>3
      <3>5. ASSUME NEW o \in Owner, own'[o].count > 0
            PROVE  own[o].count > 0 /\ (Signaled(o)' <=> Signaled(o))
        <4>1. o # x
          BY <3>4, <3>5
        <4>2. own'[o] = own[o]
          BY <3>2, <4>1
        <4>3. QED
          BY <3>5, <4>2 DEF Signaled
      <3>6. QED
        BY <2>1, <2>5, <3>5, SameNotices DEF NoticesKept, SignalsKept
    <2>6. QED
      BY <2>1, <2>3, <2>4, <2>5
  <1>7. CASE purge_process(t)
    <2>1. UNCHANGED <<lrq, own, thr>> /\ work.prc \in Process
      BY <1>7 DEF purge_process, IInv, ControlTypes, WorkBlock
    <2>2. prc' = prc \/ prc' = [prc EXCEPT ![work.prc].listed = FALSE]
      BY <1>7 DEF purge_process
    <2>3. PostsKept
      BY <2>1, <2>2 DEF PostsKept, IInv, ControlTypes, PrcBlock
    <2>4. QED
      BY <2>1, <2>3, SameNotices DEF NoticesKept
  <1>8. CASE PurgeUndelivered(t)
    <2>1. UNCHANGED <<lrq, own, prc>> /\ \E d : thr' = [thr EXCEPT ![t].dead = d]
      BY <1>8 DEF PurgeUndelivered
    <2>2. PICK d : thr' = [thr EXCEPT ![t].dead = d]
      BY <2>1
    <2>3. /\ thr'[t] = [thr[t] EXCEPT !.dead = d] /\ thr[t] \in ThrBlock
          /\ \A u \in Thread \ {t} : thr'[u] = thr[u]
      BY <1>0, <2>2
    <2>4. thr'[t].block = thr[t].block /\ thr'[t].todo = thr[t].todo /\ thr'[t].pc = thr[t].pc
      BY <2>3 DEF ThrBlock
    <2>5. DeliveryKept
      BY <2>3, <2>4 DEF DeliveryKept
    <2>6. QED
      BY <2>1, <2>5, SameNotices DEF NoticesKept
  <1>9. CASE AstReturns(t)
    <2>1. thr[t].block \in Owner
      BY <1>0, <1>9 DEF AstReturns, IInv, DeliversAtHome, ThrBlock
    <2>2. /\ UNCHANGED <<lrq, prc>> /\ thr' = [thr EXCEPT ![t].ast = FALSE]
          /\ own' = [own EXCEPT ![thr[t].block].asts = own[thr[t].block].asts - 1]
      BY <1>9 DEF AstReturns
    <2>3. /\ thr'[t] = [thr[t] EXCEPT !.ast = FALSE] /\ thr[t] \in ThrBlock
          /\ \A u \in Thread \ {t} : thr'[u] = thr[u]
      BY <1>0, <2>2
    <2>4. thr'[t].block = thr[t].block /\ thr'[t].todo = thr[t].todo /\ thr'[t].pc = thr[t].pc
      BY <2>3 DEF ThrBlock
    <2>5. DeliveryKept
      BY <2>3, <2>4 DEF DeliveryKept
    <2>6. QED
      BY <2>1, <2>2, <2>5, CountersKept, SameNotices DEF NoticesKept
  <1>10. QED
    BY <1>1, <1>2, <1>3, <1>4, <1>5, <1>6, <1>7, <1>8, <1>9

\* An owner is created: it has no notices.
LEMMA initializeTold ==
    ASSUME IInv, Deathless, Told, NEW c \in Client, initializeOwner(c), NEW o \in Owner
    PROVE  ToldAt(o)'
  <1> DEFINE x == Home[c]
  <1>0. /\ x \in Owner /\ own \in [Owner -> OwnBlock] /\ prc \in [Process -> PrcBlock]
        /\ ToldAt(o) /\ ProcOf[x] \in Process
    BY ConstantTypes, Constants DEF IInv, ControlTypes, Told
  <1>1. UNCHANGED <<lrq, thr>>
    BY DEF initializeOwner
  <1>2. prc' = prc \/ prc' = [prc EXCEPT ![ProcOf[x]].listed = TRUE]
    BY DEF initializeOwner
  <1>3. PostsKept
    BY <1>0, <1>2 DEF PostsKept, PrcBlock
  <1> HIDE DEF x
  <1>4. CASE own[x].count > 0 /\ own' = [own EXCEPT ![x].count = own[x].count + 1]
    <2>1. /\ own'[x] = [own[x] EXCEPT !.count = own[x].count + 1] /\ own[x] \in OwnBlock
          /\ \A y \in Owner \ {x} : own'[y] = own[y]
      BY <1>0, <1>4
    <2>2. own'[x].flags = own[x].flags
      BY <2>1 DEF OwnBlock
    <2>3. SignalsKept
      BY <1>4, <2>1, <2>2 DEF SignalsKept, Signaled
    <2>4. QED
      BY <1>0, <1>1, <1>3, <2>3, SameNotices, ToldKept
  <1>5. CASE ~own[x].inuse /\ own' = [own EXCEPT ![x] = NewOwn]
    <2>1. own'[x] = NewOwn /\ \A y \in Owner \ {x} : own'[y] = own[y]
      BY <1>0, <1>5
    <2>2. CASE o = x
      <3>1. Blocks(o) = {}
        BY <1>0, <1>5, <2>2, ConstantTypes DEF Blocks, IInv, BlocksSound
      <3>2. Blocks(o)' = {} /\ ~Signaled(o)'
        BY <1>1, <2>1, <2>2, <3>1 DEF Blocks, Signaled, NewOwn
      <3>3. QED
        BY <3>2 DEF ToldAt
    <2>3. CASE o # x
      <3>1. own'[o] = own[o] /\ Blocks(o)' = Blocks(o) /\ (Signaled(o)' <=> Signaled(o))
        BY <1>1, <2>1, <2>3 DEF Blocks, Signaled
      <3>2. (UnderWay(o) => UnderWay(o)') /\ (AtWork(o) => AtWork(o)')
        BY <1>1, <1>3, SameNotices, WorkKept
      <3>3. QED
        BY <1>0, <3>1, <3>2 DEF ToldAt
    <2>4. QED
      BY <2>2, <2>3
  <1>6. QED
    <2>1. \/ own[x].count > 0 /\ own' = [own EXCEPT ![x].count = own[x].count + 1]
          \/ ~own[x].inuse /\ own' = [own EXCEPT ![x] = NewOwn]
      <3>1. own[x].count \in Nat
        BY <1>0 DEF OwnBlock
      <3>2. \/ own[x].count \in 1..(MaxCount - 1) /\ own' = [own EXCEPT ![x].count = own[x].count + 1]
            \/ ~own[x].inuse /\ own' = [own EXCEPT ![x] = NewOwn]
        BY DEF initializeOwner, x
      <3>3. QED
        BY <3>1, <3>2, Constants
    <2>2. QED
      BY <1>4, <1>5, <2>1

\* post_blockage collects the owners of the requests it marks.
LEMMA post_blockageTold ==
    ASSUME IInv, Told, NEW c \in Client, post_blockage(c), NEW o \in Owner
    PROVE  ToldAt(o)'
  <1> DEFINE B == Notified(call[c].lrq)
             D == {lrq[b].owner : b \in B}
  <1>1. /\ thr \in [Thread -> ThrBlock] /\ lrq \in [Request -> LrqBlock] /\ ToldAt(o)
        /\ c \in Thread /\ c \notin Process /\ B \subseteq Request
    BY ConstantTypes, Constants DEF IInv, ControlTypes, Table, Told, Notified, Requests
  <1>2. /\ thr[c].todo = {} /\ UNCHANGED <<own, prc>>
        /\ thr' = [thr EXCEPT ![c].todo = D, ![c].pc = "wait"]
        /\ lrq' = [b \in Request |->
                     IF b \in B /\ "blocking" \notin lrq[b].flags
                     THEN [lrq[b] EXCEPT !.flags = (lrq[b].flags \ {"granted"}) \cup {"blocking"}]
                     ELSE lrq[b]]
    BY DEF post_blockage, Proceeds
  <1>3. \A b \in B : lrq[b].owner \in D
    OBVIOUS
  <1> HIDE DEF B, D
  <1>4. /\ thr'[c] = [thr[c] EXCEPT !.todo = D, !.pc = "wait"] /\ thr[c] \in ThrBlock
        /\ \A u \in Thread \ {c} : thr'[u] = thr[u]
    BY <1>1, <1>2
  <1>5. thr'[c].todo = D /\ thr'[c].block = thr[c].block
    BY <1>4 DEF ThrBlock
  <1>6. DeliveryKept
    BY <1>1, <1>2, <1>4, <1>5 DEF DeliveryKept
  <1>7. (UnderWay(o) => UnderWay(o)') /\ (AtWork(o) => AtWork(o)') /\ (Signaled(o)' <=> Signaled(o))
    BY <1>2, <1>6, SameNotices, WorkKept DEF Signaled
  <1>8. ASSUME NEW r \in Blocks(o)', o \notin D
        PROVE  r \in Blocks(o)
    <2>1. r \in Request /\ lrq'[r].owner = o /\ lrq'[r].flags \cap {"blocking", "repost"} # {}
      BY DEF Blocks
    <2>2. lrq[r] \in LrqBlock
      BY <1>1, <2>1
    <2>3. lrq'[r] = lrq[r] \/ lrq'[r] = [lrq[r] EXCEPT !.flags = (lrq[r].flags \ {"granted"}) \cup {"blocking"}]
      BY <1>2, <2>1
    <2>4. lrq'[r].owner = lrq[r].owner
      BY <2>2, <2>3 DEF LrqBlock
    <2>5. r \notin B
      BY <1>3, <1>8, <2>1, <2>4
    <2>6. lrq'[r] = lrq[r]
      BY <1>2, <2>1, <2>5
    <2>7. QED
      BY <2>1, <2>6 DEF Blocks
  <1>9. CASE o \in D
    <2>1. UnderWay(o)'
      BY <1>1, <1>5, <1>9 DEF UnderWay
    <2>2. QED
      BY <1>1, <1>2, <1>7, <2>1 DEF ToldAt
  <1>10. CASE o \notin D
    <2>1. Blocks(o)' # {} => Blocks(o) # {}
      BY <1>8, <1>10
    <2>2. QED
      BY <1>1, <1>2, <1>7, <2>1 DEF ToldAt
  <1>11. QED
    BY <1>9, <1>10

\* repost signals its owner, unless that is on the way.
LEMMA repostTold ==
    ASSUME IInv, Told, NEW t \in Thread, repost(t), NEW o \in Owner
    PROVE  ToldAt(o)'
  <1>1. PICK x \in Owner :
          /\ MayCall(t, x)
          /\ thr[t].ast => "signaled" \in own[x].flags
          /\ \E r \in FreeRequests :
               lrq' = [lrq EXCEPT ![r] = [FreeLrq EXCEPT !.owner = x, !.ast = TRUE, !.flags = {"repost"}]]
          /\ thr' = IF "signaled" \in own[x].flags THEN thr ELSE [thr EXCEPT ![t].todo = {x}]
    BY DEF repost
  <1>2. UNCHANGED <<own, prc>> /\ ToldAt(o)
    BY DEF repost, Told
  <1>3. thr \in [Thread -> ThrBlock] /\ lrq \in [Request -> LrqBlock]
    BY DEF IInv, ControlTypes, Table
  <1>4. PICK r \in FreeRequests :
          lrq' = [lrq EXCEPT ![r] = [FreeLrq EXCEPT !.owner = x, !.ast = TRUE, !.flags = {"repost"}]]
    BY <1>1
  <1>5. /\ r \in Request /\ lrq'[r] = [FreeLrq EXCEPT !.owner = x, !.ast = TRUE, !.flags = {"repost"}]
        /\ \A q \in Request \ {r} : lrq'[q] = lrq[q]
    BY <1>3, <1>4 DEF FreeRequests
  <1>6. lrq'[r].owner = x
    BY <1>5 DEF FreeLrq
  <1>7. /\ DeliveryKept /\ (Signaled(x) \/ x \in thr'[t].todo)
    <2>1. CASE Signaled(x)
      BY <1>1, <2>1, SameNotices DEF Signaled
    <2>2. CASE ~Signaled(x)
      <3>1. thr[t] = AtRest /\ thr' = [thr EXCEPT ![t].todo = {x}]
        BY <1>1, <2>2 DEF MayCall, Signaled
      <3>2. /\ thr'[t] = [thr[t] EXCEPT !.todo = {x}] /\ thr[t] \in ThrBlock
            /\ \A u \in Thread \ {t} : thr'[u] = thr[u]
        <4>1. thr' = [thr EXCEPT ![t].todo = {x}]
          BY <3>1
        <4>2. QED
          BY <1>3, <4>1
      <3>3. thr'[t].todo = {x} /\ thr'[t].block = thr[t].block /\ thr'[t].pc = thr[t].pc
        BY <3>2 DEF ThrBlock
      <3>4. thr[t].todo = {}
        BY <3>1 DEF AtRest
      <3>5. QED
        BY <3>2, <3>3, <3>4 DEF DeliveryKept
    <2>3. QED
      BY <2>1, <2>2
  <1>8. (UnderWay(o) => UnderWay(o)') /\ (AtWork(o) => AtWork(o)') /\ (Signaled(o)' <=> Signaled(o))
    BY <1>2, <1>7, SameNotices, WorkKept DEF Signaled
  <1>9. CASE o = x
    BY <1>2, <1>7, <1>8, <1>9 DEF ToldAt, UnderWay
  <1>10. CASE o # x
    <2>1. Blocks(o)' # {} => Blocks(o) # {}
      BY <1>5, <1>6, <1>10 DEF Blocks
    <2>2. QED
      BY <1>2, <1>8, <2>1 DEF ToldAt
  <1>11. QED
    BY <1>9, <1>10

\* signal_owner: the owner is served here and now, or its process is posted.
LEMMA signal_ownerTold ==
    ASSUME IInv, Deathless, Told, NEW t \in Thread, signal_owner(t), NEW o \in Owner
    PROVE  ToldAt(o)'
  <1>0. thr \in [Thread -> ThrBlock] /\ own \in [Owner -> OwnBlock] /\ prc \in [Process -> PrcBlock] /\ ToldAt(o)
    BY DEF IInv, ControlTypes, Told
  <1>1. PICK x \in thr[t].todo :
          /\ thr[t].block = Nobody
          /\ \/ /\ own[x].count = 0 \/ "signaled" \in own[x].flags
                /\ thr' = [thr EXCEPT ![t].todo = thr[t].todo \ {x}]
                /\ UNCHANGED <<own, prc>>
             \/ /\ own' = [own EXCEPT ![x].flags = own[x].flags \cup {"signaled"}]
                /\ thr' = [[thr EXCEPT ![t].todo = thr[t].todo \ {x}] EXCEPT ![t].block = x]
                /\ UNCHANGED prc
             \/ /\ own[x].count > 0
                /\ own' = [own EXCEPT ![x].flags = own[x].flags \cup {"signaled"}]
                /\ prc' = [prc EXCEPT ![ProcOf[x]].blocking = prc[ProcOf[x]].blocking \/ own[x].inuse]
                /\ thr' = [thr EXCEPT ![t].todo = thr[t].todo \ {x}]
             \/ ~prc[ProcOf[x]].alive
    BY DEF signal_owner, Signalling
  <1>2. x \in Owner /\ thr[t] \in ThrBlock /\ own[x] \in OwnBlock /\ ProcOf[x] \in Process /\ ProcOf[x] \in Thread
    <2>1. thr[t] \in ThrBlock
      BY <1>0
    <2>2. x \in Owner
      BY <2>1 DEF ThrBlock
    <2>3. QED
      BY <1>0, <2>1, <2>2, ConstantTypes, Constants
  <1>3. lrq' = lrq /\ Blocks(o)' = Blocks(o)
    BY DEF signal_owner, Blocks
  <1>4. prc[ProcOf[x]].alive
    BY <1>2 DEF Deathless
  <1> DEFINE T == thr[t].todo \ {x}
  <1>5. /\ \A u \in Thread \ {t} : thr'[u] = thr[u]
        /\ \/ thr'[t] = [thr[t] EXCEPT !.todo = T]
           \/ thr'[t] = [[thr[t] EXCEPT !.todo = T] EXCEPT !.block = x]
    BY <1>0, <1>1, <1>4
  <1>6. /\ thr'[t].todo = T /\ thr'[t].pc = thr[t].pc
        /\ thr'[t].block = Nobody \/ thr'[t].block = x
    <2>1. thr[t].block = Nobody
      BY <1>1
    <2> HIDE DEF T
    <2>2. QED
      BY <1>2, <1>5, <2>1 DEF ThrBlock
  <1>7. \A p \in Process : prc[p].blocking => prc'[p].blocking
    BY <1>0, <1>1, <1>2, <1>4 DEF PrcBlock
  <1>8. AtWork(o) => AtWork(o)'
    <2>1. ASSUME NEW u \in Thread, thr[u].block = o
          PROVE  thr'[u].block = o
      BY <1>1, <1>5, <2>1, ConstantTypes
    <2>2. \A u \in Thread : thr'[u].pc = thr[u].pc
      BY <1>5, <1>6
    <2>3. QED
      BY <1>7, <2>1, <2>2, ConstantTypes, Constants DEF AtWork
  <1>9. CASE o # x
    <2>1. own'[o] = own[o] /\ (Signaled(o)' <=> Signaled(o))
      BY <1>0, <1>1, <1>4, <1>9 DEF Signaled
    <2>2. UnderWay(o) => UnderWay(o)'
      BY <1>1, <1>5, <1>6, <1>9, ConstantTypes DEF UnderWay
    <2>3. QED
      BY <1>0, <1>3, <1>8, <2>1, <2>2 DEF ToldAt
  <1>10. CASE o = x
    <2>1. CASE (own[x].count = 0 \/ "signaled" \in own[x].flags) /\ UNCHANGED <<own, prc>>
      BY <1>0, <1>3, <1>8, <1>10, <2>1 DEF ToldAt, Signaled
    <2>2. CASE own' = [own EXCEPT ![x].flags = own[x].flags \cup {"signaled"}]
      <3>1. own'[x] = [own[x] EXCEPT !.flags = own[x].flags \cup {"signaled"}]
        BY <1>0, <1>2, <2>2
      <3>2. own'[x].count = own[x].count /\ Signaled(x)'
        BY <1>2, <3>1 DEF OwnBlock, Signaled
      <3>3. CASE thr' = [[thr EXCEPT ![t].todo = thr[t].todo \ {x}] EXCEPT ![t].block = x]
        <4>1. thr'[t] = [[thr[t] EXCEPT !.todo = T] EXCEPT !.block = x]
          BY <1>0, <3>3
        <4>2. thr'[t].block = x
          BY <1>2, <4>1 DEF ThrBlock
        <4>3. AtWork(x)'
          BY <4>2 DEF AtWork
        <4>4. QED
          BY <1>10, <3>2, <4>3 DEF ToldAt
      <3>4. CASE /\ own[x].count > 0
                 /\ prc' = [prc EXCEPT ![ProcOf[x]].blocking = prc[ProcOf[x]].blocking \/ own[x].inuse]
        <4>1. own[x].inuse
          BY <1>2, <1>4, <3>4 DEF IInv, GoneIsQuiet, Alive
        <4>2. prc'[ProcOf[x]].blocking
          BY <1>0, <1>2, <3>4, <4>1 DEF PrcBlock
        <4>3. AtWork(x)'
          BY <4>2 DEF AtWork
        <4>4. QED
          BY <1>10, <3>2, <4>3 DEF ToldAt
      <3>5. CASE (own[x].count = 0 \/ "signaled" \in own[x].flags) /\ UNCHANGED <<own, prc>>
        BY <2>1, <3>5
      <3>6. QED
        BY <1>1, <1>4, <3>3, <3>4, <3>5
    <2>3. QED
      BY <1>1, <1>4, <2>1, <2>2
  <1>11. QED
    BY <1>9, <1>10

\* blocking_action: a notice is delivered, or there are none left.
LEMMA blocking_actionTold ==
    ASSUME IInv, Told, NEW t \in Thread, blocking_action(t), NEW o \in Owner
    PROVE  ToldAt(o)'
  <1>0. /\ thr \in [Thread -> ThrBlock] /\ own \in [Owner -> OwnBlock] /\ lrq \in [Request -> LrqBlock]
        /\ ToldAt(o) /\ thr[t] \in ThrBlock
    BY DEF IInv, ControlTypes, Table, Told
  <1>1. prc' = prc /\ PostsKept
    BY SameNotices DEF blocking_action
  <1>2. PICK x \in Owner : x = thr[t].block
    BY <1>0 DEF blocking_action, ThrBlock
  <1>3. ASSUME NEW r \in Blocks(x),
               lrq' = [lrq EXCEPT ![r] =
                         IF "blocking" \in lrq[r].flags
                         THEN [lrq[r] EXCEPT !.flags = (lrq[r].flags \ {"blocking"}) \cup {"seen"}]
                         ELSE FreeLrq],
               own' = [own EXCEPT ![x].asts = IF lrq[r].ast THEN own[x].asts + 1 ELSE own[x].asts],
               thr' = [thr EXCEPT ![t].ast = lrq[r].ast]
        PROVE  ToldAt(o)'
    <2>1. r \in Request /\ Noted(r) /\ lrq[r] \in LrqBlock
      BY <1>0 DEF Blocks, Noted
    <2>2. SignalsKept
      BY <1>3, CountersKept
    <2>3. /\ thr'[t] = [thr[t] EXCEPT !.ast = lrq[r].ast]
          /\ \A u \in Thread \ {t} : thr'[u] = thr[u]
      BY <1>0, <1>3
    <2>4. thr'[t].block = thr[t].block /\ thr'[t].todo = thr[t].todo /\ thr'[t].pc = thr[t].pc
      BY <1>0, <2>3 DEF ThrBlock
    <2>5. DeliveryKept
      BY <2>3, <2>4 DEF DeliveryKept
    <2>6. /\ \A q \in Request \ {r} : lrq'[q] = lrq[q]
          /\ \/ lrq'[r] = [lrq[r] EXCEPT !.flags = (lrq[r].flags \ {"blocking"}) \cup {"seen"}]
             \/ lrq'[r] = FreeLrq
      BY <1>0, <1>3, <2>1
    <2>7. Noted(r)' => lrq'[r].owner = lrq[r].owner
      <3>1. CASE lrq'[r] = FreeLrq
        BY <3>1 DEF Noted, FreeLrq
      <3>2. CASE lrq'[r] = [lrq[r] EXCEPT !.flags = (lrq[r].flags \ {"blocking"}) \cup {"seen"}]
        BY <2>1, <3>2 DEF LrqBlock
      <3>3. QED
        BY <2>6, <3>1, <3>2
    <2>8. NoNewNotice
      BY <2>1, <2>6, <2>7, OneQuiet
    <2>9. QED
      BY <1>0, <1>1, <2>2, <2>5, <2>8, ToldKept
  <1>4. CASE /\ own[x].count = 0 \/ Blocks(x) = {}
             /\ own' = [own EXCEPT ![x].flags = own[x].flags \ {"signaled"}]
             /\ thr' = [thr EXCEPT ![t].block = Nobody]
             /\ UNCHANGED lrq
    <2>1. /\ own'[x] = [own[x] EXCEPT !.flags = own[x].flags \ {"signaled"}] /\ own[x] \in OwnBlock
          /\ \A y \in Owner \ {x} : own'[y] = own[y]
      BY <1>0, <1>4
    <2>2. own'[x].count = own[x].count /\ ~Signaled(x)'
      BY <2>1 DEF OwnBlock, Signaled
    <2>3. Blocks(o)' = Blocks(o)
      BY <1>4 DEF Blocks
    <2>4. CASE o = x
      <3>1. own'[o].count > 0 => Blocks(o) = {}
        BY <1>4, <2>2, <2>4
      <3>2. QED
        BY <2>2, <2>3, <2>4, <3>1 DEF ToldAt
    <2>5. CASE o # x
      <3>1. /\ thr'[t] = [thr[t] EXCEPT !.block = Nobody]
            /\ \A u \in Thread \ {t} : thr'[u] = thr[u]
        BY <1>0, <1>4
      <3>2. thr'[t].todo = thr[t].todo /\ thr'[t].pc = thr[t].pc
        BY <1>0, <3>1 DEF ThrBlock
      <3>3. \A u \in Thread : thr[u].block = o => thr'[u].block = o
        BY <1>2, <2>5, <3>1
      <3>4. UnderWay(o) => UnderWay(o)'
        BY <3>1, <3>2, <3>3 DEF UnderWay
      <3>5. \A u \in Thread : thr'[u].pc = thr[u].pc
        BY <3>1, <3>2
      <3>6. ProcOf[o] \in Thread
        BY ConstantTypes, Constants
      <3>7. AtWork(o) => AtWork(o)'
        BY <1>1, <3>3, <3>5, <3>6 DEF AtWork
      <3>8. own'[o] = own[o] /\ (Signaled(o)' <=> Signaled(o))
        BY <2>1, <2>5 DEF Signaled
      <3>9. QED
        BY <1>0, <2>3, <3>4, <3>7, <3>8 DEF ToldAt
    <2>6. QED
      BY <2>4, <2>5
  <1>5. QED
    BY <1>2, <1>3, <1>4 DEF blocking_action

\* The blocking action thread of a process.
LEMMA BlockingThreadTold ==
    ASSUME IInv, Deathless, Told, NEW p \in Process, BlockingThreadWakes(p) \/ blocking_action_thread(p),
           NEW o \in Owner
    PROVE  ToldAt(o)'
  <1>0. /\ thr \in [Thread -> ThrBlock] /\ own \in [Owner -> OwnBlock] /\ prc \in [Process -> PrcBlock]
        /\ ToldAt(o) /\ p \in Thread /\ thr[p] \in ThrBlock /\ ProcOf[o] \in Process /\ ProcOf[o] \in Thread
        /\ o # Nobody
    BY ConstantTypes, Constants DEF IInv, ControlTypes, Told
  <1>1. lrq' = lrq /\ own' = own
    BY DEF BlockingThreadWakes, blocking_action_thread
  <1>2. Blocks(o)' = Blocks(o) /\ (Signaled(o)' <=> Signaled(o)) /\ own'[o] = own[o]
    BY <1>1 DEF Blocks, Signaled
  <1>3. ASSUME NEW q, thr' = [thr EXCEPT ![p].pc = q]
        PROVE  /\ \A u \in Thread \ {p} : thr'[u] = thr[u]
               /\ thr'[p].block = thr[p].block /\ thr'[p].todo = thr[p].todo /\ thr'[p].pc = q
    <2>1. thr'[p] = [thr[p] EXCEPT !.pc = q] /\ \A u \in Thread \ {p} : thr'[u] = thr[u]
      BY <1>0, <1>3
    <2>2. QED
      BY <1>0, <2>1 DEF ThrBlock
  <1>4. CASE BlockingThreadWakes(p)
    <2>1. prc' = [prc EXCEPT ![p].blocking = FALSE] /\ thr' = [thr EXCEPT ![p].pc = "loop"]
      BY <1>4 DEF BlockingThreadWakes, Goto
    <2>2. /\ \A u \in Thread \ {p} : thr'[u] = thr[u]
          /\ thr'[p].block = thr[p].block /\ thr'[p].todo = thr[p].todo /\ thr'[p].pc = "loop"
      BY <1>3, <2>1
    <2>3. \A x \in Process \ {p} : prc'[x] = prc[x]
      BY <1>0, <2>1
    <2>4. UnderWay(o) => UnderWay(o)'
      BY <2>2 DEF UnderWay
    <2>5. AtWork(o) => AtWork(o)'
      BY <1>0, <2>2, <2>3 DEF AtWork
    <2>6. QED
      BY <1>0, <1>2, <2>4, <2>5 DEF ToldAt
  <1>5. CASE blocking_action_thread(p)
    <2> DEFINE S == {x \in Registered(p) : "signaled" \in own[x].flags}
    <2>1. /\ prc' = prc /\ thr[p].block = Nobody
          /\ \/ \E x \in S : thr' = [thr EXCEPT ![p].block = x]
             \/ S = {} /\ thr' = [thr EXCEPT ![p].pc = "idle"]
      BY <1>5 DEF blocking_action_thread, Proceeds, Goto
    <2>2. ASSUME NEW x \in S, thr' = [thr EXCEPT ![p].block = x]
          PROVE  ToldAt(o)'
      <3>1. thr'[p] = [thr[p] EXCEPT !.block = x] /\ \A u \in Thread \ {p} : thr'[u] = thr[u]
        BY <1>0, <2>2
      <3>2. thr'[p].todo = thr[p].todo /\ thr'[p].pc = thr[p].pc
        BY <1>0, <3>1 DEF ThrBlock
      <3>3. DeliveryKept /\ PostsKept
        BY <2>1, <3>1, <3>2, SameNotices DEF DeliveryKept
      <3>4. (UnderWay(o) => UnderWay(o)') /\ (AtWork(o) => AtWork(o)')
        BY <3>3, WorkKept
      <3>5. QED
        BY <1>0, <1>2, <3>4 DEF ToldAt
    <2>3. CASE S = {} /\ thr' = [thr EXCEPT ![p].pc = "idle"]
      <3>1. /\ \A u \in Thread \ {p} : thr'[u] = thr[u]
            /\ thr'[p].block = thr[p].block /\ thr'[p].todo = thr[p].todo /\ thr'[p].pc = "idle"
        BY <1>3, <2>3
      <3>2. UnderWay(o) => UnderWay(o)'
        BY <3>1 DEF UnderWay
      <3>3. CASE ProcOf[o] = p
        <4>1. own[o].count > 0 => own[o].inuse
          <5>1. Alive(o)
            BY <1>0 DEF Alive, Deathless
          <5>2. own[o].count = 0 \/ own[o].inuse
            BY <5>1 DEF IInv, GoneIsQuiet
          <5>3. QED
            BY <5>2
        <4>2. own[o].count > 0 => ~Signaled(o)
          BY <2>3, <3>3, <4>1 DEF Registered, Signaled
        <4>3. QED
          BY <1>0, <1>2, <3>2, <4>2 DEF ToldAt
      <3>4. CASE ProcOf[o] # p
        <4>1. AtWork(o) => AtWork(o)'
          BY <1>0, <2>1, <3>1, <3>4 DEF AtWork
        <4>2. QED
          BY <1>0, <1>2, <3>2, <4>1 DEF ToldAt
      <3>5. QED
        BY <3>3, <3>4
    <2>4. QED
      BY <2>1, <2>2, <2>3
  <1>6. QED
    BY <1>4, <1>5

\* Every step keeps notices on the way.
LEMMA ToldStep ==
    ASSUME IInv, Deathless, Deathless', Told, [Next]_vars
    PROVE  Told'
  <1>1. ASSUME NoticesKept
        PROVE  Told'
    BY <1>1, ToldKept DEF NoticesKept, Told
  <1>2. CASE vars' = vars
    BY <1>1, <1>2, SameNotices DEF vars, NoticesKept
  <1>3. ASSUME NEW c \in Client, Calling(c) \/ Waiting(c) \/ cancelWait(c)
        PROVE  Told'
    <2>1. CASE initializeOwner(c)
      BY <2>1, initializeTold DEF Told
    <2>2. CASE post_blockage(c)
      BY <2>2, post_blockageTold DEF Told
    <2>3. CASE ~initializeOwner(c) /\ ~post_blockage(c)
      BY <1>1, <1>3, <2>3, ClientQuiet DEF Calling, Waiting
    <2>4. QED
      BY <2>1, <2>2, <2>3
  <1>4. ASSUME NEW t \in Thread, AnyCalling(t) \/ Working(t)
        PROVE  Told'
    <2>1. CASE repost(t)
      BY <2>1, repostTold DEF Told
    <2>2. CASE signal_owner(t)
      BY <2>2, signal_ownerTold DEF Told
    <2>3. CASE blocking_action(t)
      BY <2>3, blocking_actionTold DEF Told
    <2>4. CASE ~repost(t) /\ ~signal_owner(t) /\ ~blocking_action(t)
      BY <1>1, <1>4, <2>4, ThreadQuiet DEF AnyCalling, Working
    <2>5. QED
      BY <2>1, <2>2, <2>3, <2>4
  <1>5. ASSUME NEW p \in Process, BlockingThreadWakes(p) \/ blocking_action_thread(p)
        PROVE  Told'
    BY <1>5, BlockingThreadTold DEF Told
  <1>6. ASSUME NEW p \in Process, ProcessDies(p)
        PROVE  FALSE
    BY <1>6, DeathlessBefore
  <1>7. QED
    BY <1>2, <1>3, <1>4, <1>5, <1>6 DEF Next

\* lock.cpp signals an owner when the first notice is put on its own_blocks
\* and OWN_signaled keeps others from doing so again: until a process dies, an
\* owner with notices is being served or signaled, or is signaled and its
\* process has yet to look at it.  A process that dies between the marking in
\* post_blockage and signal_owner leaves its blockers untold.
THEOREM NoticesKeptUnderWay == Spec => [](Deathless => NoticesUnderWay)
  <1>1. Init => (Deathless => Told)
    <2> SUFFICES ASSUME Init
                 PROVE  Told
      OBVIOUS
    <2>2. \A o \in Owner : Blocks(o) = {}
      BY ConstantTypes DEF Init, Blocks, FreeLrq
    <2>3. \A o \in Owner : ~Signaled(o)
      BY DEF Init, Signaled, NewOwn, FreeOwn
    <2>4. QED
      BY <2>2, <2>3 DEF Told, ToldAt
  <1>2. IInv /\ (Deathless => Told) /\ [Next]_vars => (Deathless' => Told')
    BY DeathlessBefore, ToldStep
  <1>3. (Deathless => Told) => (Deathless => NoticesUnderWay)
    BY DEF Told, ToldAt, UnderWay, AtWork, Signaled, NoticesUnderWay
  <1>4. QED
    BY <1>1, <1>2, <1>3, Invariant, PTL DEF Spec
=============================================================================
