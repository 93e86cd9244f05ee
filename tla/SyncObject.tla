------------------------------ MODULE SyncObject ------------------------------
(***************************************************************************)
(* SyncObject (src/src/common/classes/SyncObject.cpp): the latch of a page  *)
(* buffer and the mutual exclusion inside a process.  lockState and waiters *)
(* are atomic counters that threads read and change without the mutex; the  *)
(* queue of waiting threads is changed under the mutex.  One step is one    *)
(* access to a counter that other threads may see.                          *)
(***************************************************************************)
EXTENDS Integers, Sequences, FiniteSets, Queue

CONSTANTS
    Thread,      \* the threads
    Timeouts,    \* the timeouts that threads give: "none" (0), "some", "forever" (-1)
    MaxDepth,    \* bound on monitorCount
    NoThread     \* not a thread

WRITER_INCR == 65536

\* The low half of waiters can count the threads of a process.
ASSUME SOConstants ==
    /\ IsFiniteSet(Thread) /\ Cardinality(Thread) < WRITER_INCR
    /\ Timeouts \subseteq {"none", "some", "forever"}
    /\ MaxDepth \in Nat
    /\ NoThread \notin Thread

VARIABLES
    lockState,        \* -1: exclusive, 0: free, n: n threads share it
    waiters,          \* waiting readers + WRITER_INCR * waiting writers
    monitorCount,     \* how often the exclusive thread has locked it again
    exclusiveThread,
    waitingThreads,   \* the queue
    mutex,            \* the thread that has the mutex, or NoThread
    th                \* the threads

vars == <<lockState, waiters, monitorCount, exclusiveThread, waitingThreads, mutex, th>>

\* held: what the thread has of the lock; old: its copy of lockState;
\* granted, wakeup: lockGranted and the wakeup of its ThreadSync.
NewThread == [pc |-> "idle", held |-> "none", type |-> "none", timeOut |-> "none",
              old |-> 0, granted |-> FALSE, wakeup |-> FALSE]

Init ==
    /\ lockState = 0
    /\ waiters = 0
    /\ monitorCount = 0
    /\ exclusiveThread = NoThread
    /\ waitingThreads = <<>>
    /\ mutex = NoThread
    /\ th = [t \in Thread |-> NewThread]

Type == {"shared", "exclusive"}

Incr(type) == IF type = "shared" THEN 1 ELSE WRITER_INCR

Queued(type) == {i \in DOMAIN waitingThreads : th[waitingThreads[i]].type = type}

TypeOK ==
    /\ lockState \in -1..Cardinality(Thread)
    /\ waiters \in Nat
    /\ monitorCount \in 0..MaxDepth
    /\ exclusiveThread \in Thread \cup {NoThread}
    /\ waitingThreads \in Seq(Thread)
    /\ mutex \in Thread \cup {NoThread}
    /\ th \in [Thread ->
          [pc : {"idle", "waiters", "test", "cas", "own", "slow", "queue?", "qcas",
                 "qdone", "enqueue", "check", "asleep", "expired", "unlock", "ucas", "grant?",
                 "rgrant?", "gmutex", "gshared", "gwake", "gexcl", "gown"},
           held : Type \cup {"none"}, type : Type \cup {"none"},
           timeOut : {"none", "some", "forever", "cond"}, old : Int,
           granted : BOOLEAN, wakeup : BOOLEAN]]

-----------------------------------------------------------------------------

Goes(t, pc) == th' = [th EXCEPT ![t].pc = pc, ![t].old = 0]

\* The call ends.  Its variables are gone; so is lockGranted, which the code
\* resets when the thread waits again and nobody reads in between.
Ends(t, held) ==
    th' = [th EXCEPT ![t] = [NewThread EXCEPT !.held = held, !.wakeup = th[t].wakeup]]

\* lock has got it, or has not.
Has(t) == Ends(t, th[t].type)
Fails(t) == Ends(t, "none")

Free(type, state) == IF type = "shared" THEN state >= 0 ELSE state = 0
Taken(type, state) == IF type = "shared" THEN state + 1 ELSE -1

-----------------------------------------------------------------------------
(* lock and lockConditional. *)

\* The exclusive thread only counts.
LocksAgain(t, type) ==
    /\ type = "exclusive" /\ exclusiveThread = t
    /\ monitorCount < MaxDepth
    /\ monitorCount' = monitorCount + 1
    /\ UNCHANGED th

\* lock of a thread that has nothing, or has the lock exclusive already.
lock(t, type, timeOut) ==
    /\ th[t].pc = "idle"
    /\ \/ /\ th[t].held = "none"
          /\ th' = [th EXCEPT ![t].pc = "waiters", ![t].type = type, ![t].timeOut = timeOut]
          /\ UNCHANGED monitorCount
       \/ LocksAgain(t, type)
    /\ UNCHANGED <<lockState, waiters, exclusiveThread, waitingThreads, mutex>>

\* lockConditional goes on if nobody is queued; only for the exclusive lock
\* it looks at waiters.
lockConditional(t, type) ==
    /\ th[t].pc = "idle"
    /\ waitingThreads = <<>>
    /\ \/ /\ th[t].held = "none"
          /\ th' = [th EXCEPT ![t].pc = IF type = "shared" THEN "test" ELSE "waiters",
                              ![t].type = type, ![t].timeOut = "cond"]
          /\ UNCHANGED monitorCount
       \/ LocksAgain(t, type)
    /\ UNCHANGED <<lockState, waiters, exclusiveThread, waitingThreads, mutex>>

\* The loop without the mutex: waiters, lockState, compareExchange.
TestWaiters(t) ==
    /\ th[t].pc = "waiters"
    /\ Goes(t, IF waiters = 0 THEN "test" ELSE "slow")
    /\ UNCHANGED <<lockState, waiters, monitorCount, exclusiveThread, waitingThreads, mutex>>

TestState(t) ==
    /\ th[t].pc = "test"
    /\ IF Free(th[t].type, lockState)
       THEN th' = [th EXCEPT ![t].pc = "cas", ![t].old = lockState]
       ELSE Goes(t, "slow")
    /\ UNCHANGED <<lockState, waiters, monitorCount, exclusiveThread, waitingThreads, mutex>>

\* Variant with a fault: the state is changed without a comparison.
BlindExchange(t) ==
    /\ th[t].pc = "cas"
    /\ lockState' = Taken(th[t].type, th[t].old)
    /\ IF th[t].type = "shared" THEN Has(t) ELSE Goes(t, "own")
    /\ UNCHANGED <<waiters, monitorCount, exclusiveThread, waitingThreads, mutex>>

Exchange(t) ==
    /\ th[t].pc = "cas"
    /\ IF lockState = th[t].old
       THEN /\ lockState' = Taken(th[t].type, th[t].old)
            /\ IF th[t].type = "shared" THEN Has(t) ELSE Goes(t, "own")
       ELSE /\ Goes(t, IF th[t].timeOut = "cond" /\ th[t].type = "shared" THEN "test"
                       ELSE "waiters")
            /\ UNCHANGED lockState
    /\ UNCHANGED <<waiters, monitorCount, exclusiveThread, waitingThreads, mutex>>

Owns(t) ==
    /\ th[t].pc = "own"
    /\ exclusiveThread' = t
    /\ Has(t)
    /\ UNCHANGED <<lockState, waiters, monitorCount, waitingThreads, mutex>>

\* The lock is not free: a call that does not wait ends, the others enter the
\* mutex and are counted.
Slow(t) ==
    /\ th[t].pc = "slow"
    /\ \/ /\ th[t].timeOut \in {"none", "cond"}
          /\ Fails(t)
          /\ UNCHANGED <<mutex, waiters>>
       \/ /\ th[t].timeOut \in {"some", "forever"} /\ mutex = NoThread
          /\ mutex' = t
          /\ waiters' = waiters + Incr(th[t].type)
          /\ Goes(t, "queue?")
    /\ UNCHANGED <<lockState, monitorCount, exclusiveThread, waitingThreads>>

\* Variant with a fault: the state is not looked at again in the mutex.
QueuesAtOnce(t) ==
    /\ th[t].pc = "queue?"
    /\ Goes(t, "enqueue")
    /\ UNCHANGED <<lockState, waiters, monitorCount, exclusiveThread, waitingThreads, mutex>>

\* The loop under the mutex.
TestQueue(t) ==
    /\ th[t].pc = "queue?"
    /\ IF waitingThreads = <<>> /\ Free(th[t].type, lockState)
       THEN th' = [th EXCEPT ![t].pc = "qcas", ![t].old = lockState]
       ELSE Goes(t, "enqueue")
    /\ UNCHANGED <<lockState, waiters, monitorCount, exclusiveThread, waitingThreads, mutex>>

ExchangeInMutex(t) ==
    /\ th[t].pc = "qcas"
    /\ IF lockState = th[t].old
       THEN lockState' = Taken(th[t].type, th[t].old) /\ Goes(t, "qdone")
       ELSE Goes(t, "queue?") /\ UNCHANGED lockState
    /\ UNCHANGED <<waiters, monitorCount, exclusiveThread, waitingThreads, mutex>>

DoneInMutex(t) ==
    /\ th[t].pc = "qdone"
    /\ exclusiveThread' = IF th[t].type = "exclusive" THEN t ELSE exclusiveThread
    /\ waiters' = waiters - Incr(th[t].type)
    /\ mutex' = NoThread
    /\ Has(t)
    /\ UNCHANGED <<lockState, monitorCount, waitingThreads>>

-----------------------------------------------------------------------------
(* wait. *)

wait(t) ==
    /\ th[t].pc = "enqueue"
    /\ waitingThreads' = Append(waitingThreads, t)
    /\ th' = [th EXCEPT ![t].pc = "check", ![t].granted = FALSE]
    /\ mutex' = NoThread
    /\ UNCHANGED <<lockState, waiters, monitorCount, exclusiveThread>>

Check(t) ==
    /\ th[t].pc = "check"
    /\ IF th[t].granted THEN Has(t) ELSE Goes(t, "asleep")
    /\ UNCHANGED <<lockState, waiters, monitorCount, exclusiveThread, waitingThreads, mutex>>

\* sleep returns because of a wakeup, which may be left over from an earlier
\* grant, or because of the timeout.  Either uses up ten seconds of the
\* timeout, the last ones perhaps.
Wakes(t) ==
    /\ th[t].pc = "asleep"
    /\ th[t].wakeup \/ th[t].timeOut = "some"
    /\ \E pc \in {"check", "expired"} :
          /\ pc = "expired" => th[t].timeOut = "some" /\ ~th[t].granted
          /\ th' = [th EXCEPT ![t].wakeup = FALSE, ![t].pc = pc]
    /\ UNCHANGED <<lockState, waiters, monitorCount, exclusiveThread, waitingThreads, mutex>>

\* Variant with a fault: a grant that came after the timeout is not noticed.
ExpiresUnchecked(t) ==
    /\ th[t].pc = "expired" /\ mutex = NoThread
    /\ waitingThreads' = Without(waitingThreads, {t})
    /\ waiters' = waiters - Incr(th[t].type)
    /\ Fails(t)
    /\ UNCHANGED <<lockState, monitorCount, exclusiveThread, mutex>>

\* The timeout is over: lockGranted is looked at again under the mutex.
Expires(t) ==
    /\ th[t].pc = "expired" /\ mutex = NoThread
    /\ IF th[t].granted
       THEN Has(t) /\ UNCHANGED <<waiters, waitingThreads>>
       ELSE /\ waitingThreads' = Without(waitingThreads, {t})
            /\ waiters' = waiters - Incr(th[t].type)
            /\ Fails(t)
    /\ UNCHANGED <<lockState, monitorCount, exclusiveThread, mutex>>

-----------------------------------------------------------------------------
(* unlock and downgrade. *)

\* unlock: one level less, or the last one.
unlock(t) ==
    /\ th[t].pc = "idle" /\ th[t].held # "none"
    /\ \/ /\ monitorCount > 0
          /\ monitorCount' = monitorCount - 1
          /\ UNCHANGED <<exclusiveThread, th>>
       \/ /\ monitorCount = 0
          /\ exclusiveThread' = NoThread
          /\ th' = [th EXCEPT ![t].pc = "unlock", ![t].type = th[t].held, ![t].held = "none"]
          /\ UNCHANGED monitorCount
    /\ UNCHANGED <<lockState, waiters, waitingThreads, mutex>>

ReadState(t) ==
    /\ th[t].pc = "unlock"
    /\ th' = [th EXCEPT ![t].pc = "ucas", ![t].old = lockState]
    /\ UNCHANGED <<lockState, waiters, monitorCount, exclusiveThread, waitingThreads, mutex>>

UnlockExchange(t) ==
    LET new == IF th[t].type = "shared" THEN th[t].old - 1 ELSE 0
    IN  /\ th[t].pc = "ucas"
        /\ IF lockState = th[t].old
           THEN /\ lockState' = new
                /\ IF new = 0 THEN Goes(t, "grant?") ELSE Ends(t, "none")
           ELSE Goes(t, "unlock") /\ UNCHANGED lockState
        /\ UNCHANGED <<waiters, monitorCount, exclusiveThread, waitingThreads, mutex>>

\* The lock is free: somebody waits?
TestGrant(t) ==
    /\ th[t].pc = "grant?"
    /\ IF waiters # 0 THEN Goes(t, "gmutex") ELSE Ends(t, "none")
    /\ UNCHANGED <<lockState, waiters, monitorCount, exclusiveThread, waitingThreads, mutex>>

\* downgrade of a thread that has locked once; readers, if any wait, are let
\* in.  The test of waiters is the next step.
downgrade(t) ==
    /\ th[t].pc = "idle" /\ th[t].held = "exclusive" /\ monitorCount = 0
    /\ exclusiveThread' = NoThread
    /\ lockState' = 1
    /\ th' = [th EXCEPT ![t].held = "shared", ![t].pc = "rgrant?"]
    /\ UNCHANGED <<waiters, monitorCount, waitingThreads, mutex>>

TestReaders(t) ==
    /\ th[t].pc = "rgrant?"
    /\ IF waiters % WRITER_INCR # 0 THEN Goes(t, "gmutex") ELSE Ends(t, th[t].held)
    /\ UNCHANGED <<lockState, waiters, monitorCount, exclusiveThread, waitingThreads, mutex>>

-----------------------------------------------------------------------------
(* grantLocks. *)

grantLocks(t) ==
    /\ th[t].pc = "gmutex" /\ mutex = NoThread
    /\ IF waitingThreads = <<>>
       THEN Ends(t, th[t].held) /\ UNCHANGED mutex
       ELSE /\ mutex' = t
            /\ IF th[Head(waitingThreads)].type = "shared"
               THEN th' = [th EXCEPT ![t].old = lockState, ![t].pc = "gshared"]
               ELSE Goes(t, "gexcl")
    /\ UNCHANGED <<lockState, waiters, monitorCount, exclusiveThread, waitingThreads>>

Leaves(t) == mutex' = NoThread /\ Ends(t, th[t].held)

\* All readers of the queue are let in, whoever is between them.
GrantShared(t) ==
    /\ th[t].pc = "gshared"
    /\ \/ /\ th[t].old < 0
          /\ Leaves(t)
          /\ UNCHANGED lockState
       \/ /\ th[t].old >= 0 /\ lockState = th[t].old
          /\ lockState' = lockState + (waiters % WRITER_INCR)
          /\ Goes(t, "gwake")
          /\ UNCHANGED mutex
       \/ /\ th[t].old >= 0 /\ lockState # th[t].old
          /\ th' = [th EXCEPT ![t].old = lockState]
          /\ UNCHANGED <<lockState, mutex>>
    /\ UNCHANGED <<waiters, monitorCount, exclusiveThread, waitingThreads>>

\* ThreadSync::grantLock of the threads in who; t leaves the mutex.
Granted(t, who) ==
    /\ th' = [u \in Thread |->
                IF u \in who THEN [th[u] EXCEPT !.granted = TRUE, !.wakeup = TRUE]
                ELSE IF u = t THEN [NewThread EXCEPT !.held = th[t].held, !.wakeup = th[t].wakeup]
                ELSE th[u]]
    /\ waitingThreads' = Without(waitingThreads, who)
    /\ mutex' = NoThread

\* Variant with a fault: one reader is taken off the count for all.
CountsOneReader(t) ==
    /\ th[t].pc = "gwake"
    /\ waiters' = waiters - 1
    /\ Granted(t, {waitingThreads[i] : i \in Queued("shared")})
    /\ UNCHANGED <<lockState, monitorCount, exclusiveThread>>

WakeShared(t) ==
    /\ th[t].pc = "gwake"
    /\ waiters' = waiters - (waiters % WRITER_INCR)
    /\ Granted(t, {waitingThreads[i] : i \in Queued("shared")})
    /\ UNCHANGED <<lockState, monitorCount, exclusiveThread>>

\* Variant with a fault: the state is set without a comparison.
GrantsBlindly(t) ==
    /\ th[t].pc = "gexcl"
    /\ lockState' = -1
    /\ Goes(t, "gown")
    /\ UNCHANGED <<waiters, monitorCount, exclusiveThread, waitingThreads, mutex>>

\* The first writer of the queue is let in if the lock is still free.
GrantExclusive(t) ==
    /\ th[t].pc = "gexcl"
    /\ IF lockState = 0
       THEN lockState' = -1 /\ Goes(t, "gown") /\ UNCHANGED mutex
       ELSE Leaves(t) /\ UNCHANGED lockState
    /\ UNCHANGED <<waiters, monitorCount, exclusiveThread, waitingThreads>>

WakeExclusive(t) ==
    /\ th[t].pc = "gown"
    /\ exclusiveThread' = Head(waitingThreads)
    /\ waiters' = waiters - WRITER_INCR
    /\ Granted(t, {Head(waitingThreads)})
    /\ UNCHANGED <<lockState, monitorCount>>

-----------------------------------------------------------------------------

Calls(t) ==
    \/ \E type \in Type, timeOut \in Timeouts : lock(t, type, timeOut)
    \/ \E type \in Type : lockConditional(t, type)
    \/ downgrade(t)

\* What goes on once a call has begun.
Inside(t) ==
    \/ TestWaiters(t) \/ TestState(t) \/ Exchange(t) \/ Owns(t)
    \/ Slow(t) \/ TestQueue(t) \/ ExchangeInMutex(t) \/ DoneInMutex(t)
    \/ wait(t) \/ Check(t) \/ Wakes(t) \/ Expires(t)
    \/ ReadState(t) \/ UnlockExchange(t) \/ TestGrant(t) \/ TestReaders(t)
    \/ grantLocks(t) \/ GrantShared(t) \/ WakeShared(t)
    \/ GrantExclusive(t) \/ WakeExclusive(t)

Next == \E t \in Thread : Calls(t) \/ unlock(t) \/ Inside(t)

Spec == Init /\ [][Next]_vars

-----------------------------------------------------------------------------
(* Properties. *)

\* waiters counts the queue whenever nobody is inside the mutex (the assertion
\* of grantLocks and more): readers in its low half, writers above, so that
\* unlock neither misses a thread that waits nor grants to one that has left.
WaitersCount ==
    mutex = NoThread =>
        waiters = Cardinality(Queued("shared")) + WRITER_INCR * Cardinality(Queued("exclusive"))

\* lockState counts the threads that have the lock, or are about to know it,
\* or have not yet given it back: after a timeout that met a grant, too.
Shares(t) ==
    \/ th[t].held = "shared"
    \/ th[t].type = "shared" /\ (th[t].pc \in {"qdone", "unlock", "ucas"} \/ th[t].granted)
Excludes(t) ==
    \/ th[t].held = "exclusive"
    \/ th[t].type = "exclusive"
       /\ (th[t].pc \in {"own", "qdone", "unlock", "ucas"} \/ th[t].granted)
Granting == {i \in Thread : th[i].pc \in {"gwake", "gown"}}

StateCounts ==
    Granting = {} =>
        \/ lockState = -1 /\ Cardinality({t \in Thread : Excludes(t)}) = 1
           /\ \A t \in Thread : ~Shares(t)
        \/ lockState >= 0 /\ lockState = Cardinality({t \in Thread : Shares(t)})
           /\ \A t \in Thread : ~Excludes(t)

\* When the lock is free and a thread is queued, some thread is on its way to
\* grantLocks or inside the mutex: no wakeup is lost.
NoLostWakeup ==
    lockState = 0 /\ waitingThreads # <<>> =>
        \E t \in Thread : th[t].pc \in {"grant?", "gmutex", "gshared", "gexcl"}

-----------------------------------------------------------------------------
(* SyncObject implements a read-write lock. *)

mode ==
    [t \in Thread |->
        CASE th[t].held = "shared" -> "read"
          [] th[t].held = "exclusive" -> "write"
          [] OTHER -> "none"]

OneLock == INSTANCE RWLockSpec WITH Client <- Thread

\* All calls together are one read-write lock: readers are let in while nobody
\* writes, a writer alone, and a writer may become a reader.
IsOneLock == OneLock!Spec

=============================================================================
