---------------------------- MODULE GlobalRWLock ----------------------------
(***************************************************************************)
(* GlobalRWLock (src/src/jrd/GlobalRWLock.cpp): a read-write lock that is   *)
(* shared by server processes.  Each process has one object, which keeps    *)
(* one lock of the lock manager (cachedLock) for all threads of the         *)
(* process, as a rule also while no thread uses it; a blocking AST asks for *)
(* it.  The physical backup (nbak.cpp) protects its state and its page      *)
(* allocation table with such locks.                                        *)
(*                                                                          *)
(* Every scope of counterMutex is one step.  Outside of it are the call of  *)
(* LCK_lock, which may wait, the delivery of an AST and the waits for a     *)
(* condition.  The lock manager is what LockManager.tla specifies, reduced  *)
(* to one lock with the levels LCK_read and LCK_write.                      *)
(***************************************************************************)
EXTENDS Naturals, Sequences, FiniteSets, Queue

CONSTANTS
    Process,     \* the processes that share the lock
    Client,      \* their threads
    Home,        \* Home[c]: the process of thread c
    Caching,     \* lockCaching: keep the lock while nobody uses it
    Ops,         \* calls made: "read", "jump", "write", "release", "try", "shutdown"
    Wait,        \* how callers wait: "wait", "no_wait", "timeout"
    Guarded,     \* callers take a read-write lock of the process first (nbak.h)
    Spurious     \* condition waits may return without a notification

LCK_none == 0
LCK_read == 3      \* LCK_PR
LCK_write == 6     \* LCK_EX
RWLevel == {LCK_none, LCK_read, LCK_write}

ASSUME RWConstants ==
    /\ Home \in [Client -> Process]
    /\ IsFiniteSet(Client)
    /\ Caching \in BOOLEAN
    /\ Guarded \in BOOLEAN
    /\ Spurious \in BOOLEAN
    /\ Wait \subseteq {"wait", "no_wait", "timeout"}

VARIABLES
    rw,         \* the GlobalRWLock object of every process
    th,         \* control state of every thread
    notified,   \* threads whose condition has been notified
    lm,         \* what the lock manager knows of every process
    queue       \* processes that wait in the lock manager, first come first

vars == <<rw, th, notified, lm, queue>>

RW == [readers : Nat, pendingWriters : Nat, pendingLock : Nat,
       currentWriter : BOOLEAN, blocking : BOOLEAN, physical : RWLevel]

NewRW == [readers |-> 0, pendingWriters |-> 0, pendingLock |-> 0,
          currentWriter |-> FALSE, blocking |-> FALSE, physical |-> LCK_none]

\* held: the level granted; asked: the level waited for; notice: whether the
\* holder has been told that it blocks somebody; ast: an AST routine has been
\* called and has not got counterMutex yet.
NewLm == [held |-> LCK_none, asked |-> LCK_none, notice |-> "none", ast |-> FALSE]

Idle == [pc |-> "idle", op |-> "none", wait |-> "no_wait"]

Init ==
    /\ rw = [p \in Process |-> NewRW]
    /\ th = [c \in Client |-> Idle]
    /\ notified = {}
    /\ lm = [p \in Process |-> NewLm]
    /\ queue = <<>>

PC == {"idle", "noReaders", "writerFinished", "readerWaits", "yield", "enqueue",
       "queued", "granted", "denied", "locked", "reader", "writer", "closed"}

TypeOK ==
    /\ rw \in [Process -> RW]
    /\ th \in [Client -> [pc : PC, op : {"none", "read", "jump", "write"},
                          wait : {"wait", "no_wait", "timeout"}]]
    /\ notified \subseteq Client
    /\ lm \in [Process -> [held : RWLevel, asked : RWLevel,
                           notice : {"none", "posted", "seen"}, ast : BOOLEAN]]
    /\ queue \in Seq(Process)

-----------------------------------------------------------------------------
(* The lock manager. *)

WantedLevel(c) == IF th[c].op = "write" THEN LCK_write ELSE LCK_read

Agree(a, b) == a = LCK_none \/ b = LCK_none \/ (a = LCK_read /\ b = LCK_read)

Free(p, level) == \A q \in Process \ {p} : Agree(level, lm[q].held)

Granted(p, level) == [lm EXCEPT ![p].held = level, ![p].asked = LCK_none, ![p].notice = "none"]

\* LCK_release and LCK_downgrade: the lock table and the level they leave.
Released(p) == [lm EXCEPT ![p].held = LCK_none, ![p].notice = "none"]

\* The highest level compatible with all those that are waited for.
LeftLevel(p) ==
    IF rw[p].physical = LCK_none \/ \E q \in Process \ {p} : lm[q].asked = LCK_write
    THEN LCK_none
    ELSE IF \E q \in Process \ {p} : lm[q].asked = LCK_read THEN LCK_read
    ELSE lm[p].held

Downgraded(p) ==
    IF rw[p].physical = LCK_none THEN lm
    ELSE [lm EXCEPT ![p].held = LeftLevel(p), ![p].notice = "none"]

\* LCK_lock calls the lock manager: granted, denied or queued.
LmEnqueue(c) ==
    LET p == Home[c]
        l == WantedLevel(c)
        free == queue = <<>> /\ Free(p, l)
    IN  /\ th[c].pc = "enqueue"
        /\ \/ /\ free
              /\ lm' = Granted(p, l)
              /\ th' = [th EXCEPT ![c].pc = "granted"]
              /\ UNCHANGED queue
           \/ /\ ~free /\ th[c].wait = "no_wait"
              /\ th' = [th EXCEPT ![c].pc = "denied"]
              /\ UNCHANGED <<lm, queue>>
           \/ /\ ~free /\ th[c].wait # "no_wait"
              /\ lm' = [lm EXCEPT ![p].asked = l]
              /\ queue' = Append(queue, p)
              /\ th' = [th EXCEPT ![c].pc = "queued"]
        /\ UNCHANGED <<rw, notified>>

LmGrant(c) ==
    LET p == Home[c]
    IN  /\ th[c].pc = "queued"
        /\ queue # <<>> /\ Head(queue) = p
        /\ Free(p, lm[p].asked)
        /\ lm' = Granted(p, lm[p].asked)
        /\ queue' = Tail(queue)
        /\ th' = [th EXCEPT ![c].pc = "granted"]
        /\ UNCHANGED <<rw, notified>>

\* A timeout.
LmDeny(c) ==
    LET p == Home[c]
    IN  /\ th[c].pc = "queued" /\ th[c].wait = "timeout"
        /\ lm' = [lm EXCEPT ![p].asked = LCK_none]
        /\ queue' = Without(queue, {p})
        /\ th' = [th EXCEPT ![c].pc = "denied"]
        /\ UNCHANGED <<rw, notified>>

\* A waiter posts blockage to a holder that has not been told yet.
LmPost(p) ==
    /\ Caching
    /\ lm[p].notice = "none"
    /\ \E q \in Process \ {p} : ~Agree(lm[q].asked, lm[p].held)
    /\ lm' = [lm EXCEPT ![p].notice = "posted"]
    /\ UNCHANGED <<rw, th, notified, queue>>

\* The AST routine is called: it then waits for counterMutex.
LmDeliver(p) ==
    /\ lm[p].notice = "posted" /\ ~lm[p].ast
    /\ lm' = [lm EXCEPT ![p].notice = "seen", ![p].ast = TRUE]
    /\ UNCHANGED <<rw, th, notified, queue>>

\* LCK_lock returns to its caller, who has not got counterMutex yet.
LCK_lock(c) ==
    /\ th[c].pc = "granted"
    /\ th' = [th EXCEPT ![c].pc = "locked"]
    /\ rw' = [rw EXCEPT ![Home[c]].physical = WantedLevel(c)]
    /\ UNCHANGED <<notified, lm, queue>>

-----------------------------------------------------------------------------
(* Conditions and the caller's own lock. *)

At(p, pcs) == {c \in Client : Home[c] = p /\ th[c].pc \in pcs}

NotifyReadersGone(p) == notified \cup At(p, {"noReaders"})

NotifyWriterFinished(p) == notified \cup At(p, {"writerFinished", "readerWaits"})

WokenUp(c) == c \in notified \/ Spurious

\* nbak.h: localStateLock and localAllocLock "must be acquired before" the
\* global lock, for reading or for writing as the global lock is.
MayRead(c) ==
    Guarded => \A d \in Client : (Home[d] = Home[c] /\ th[d].pc # "idle") => th[d].op # "write"

Alone(c) == \A d \in Client \ {c} : Home[d] = Home[c] => th[d].pc = "idle"

MayWrite(c) == Guarded => Alone(c)

-----------------------------------------------------------------------------
(* Writers. *)

\* The rest of lockWrite's scope 1 from its second loop on: g is the object
\* and t the thread so far.
Relock(c, g, t) ==
    LET p == Home[c]
        asks == [g EXCEPT !.pendingLock = @ + 1]
    IN  \/ /\ g.currentWriter \/ g.pendingLock > 0
           /\ rw' = [rw EXCEPT ![p] = g]
           /\ th' = [th EXCEPT ![c] = [t EXCEPT !.pc = "writerFinished"]]
           /\ UNCHANGED lm
        \/ /\ ~g.currentWriter /\ g.pendingLock = 0
           /\ g.physical = LCK_write
           /\ rw' = [rw EXCEPT ![p] = [g EXCEPT !.pendingWriters = @ - 1,
                                                !.currentWriter = TRUE]]
           /\ th' = [th EXCEPT ![c] = [t EXCEPT !.pc = "writer"]]
           /\ UNCHANGED lm
        \/ /\ ~g.currentWriter /\ g.pendingLock = 0
           /\ g.physical = LCK_read                    \* release, invalidate
           /\ lm' = Released(p)
           /\ rw' = [rw EXCEPT ![p] = [asks EXCEPT !.physical = LCK_none,
                                                   !.blocking = FALSE]]
           /\ th' = [th EXCEPT ![c] = [t EXCEPT !.pc = "enqueue"]]
        \/ /\ ~g.currentWriter /\ g.pendingLock = 0
           /\ g.physical = LCK_none
           /\ rw' = [rw EXCEPT ![p] = asks]
           /\ th' = [th EXCEPT ![c] = [t EXCEPT !.pc = "enqueue"]]
           /\ UNCHANGED lm

\* Variant with a fault: a writer does not wait for the readers.
IgnoresReaders(c, g, t) == Relock(c, g, t)

\* Scope 1 from its first loop on.
AwaitReaders(c, g, t) ==
    \/ /\ g.readers > 0
       /\ rw' = [rw EXCEPT ![Home[c]] = g]
       /\ th' = [th EXCEPT ![c] = [t EXCEPT !.pc = "noReaders"]]
       /\ UNCHANGED lm
    \/ g.readers = 0 /\ Relock(c, g, t)

lockWrite(c) ==
    /\ "write" \in Ops
    /\ th[c].pc = "idle"
    /\ MayWrite(c)
    /\ \E w \in Wait :
         AwaitReaders(c, [rw[Home[c]] EXCEPT !.pendingWriters = @ + 1],
                      [pc |-> "idle", op |-> "write", wait |-> w])
    /\ UNCHANGED <<notified, queue>>

ReadersGone(c) ==
    /\ th[c].pc = "noReaders"
    /\ WokenUp(c)
    /\ AwaitReaders(c, rw[Home[c]], th[c])
    /\ notified' = notified \ {c}
    /\ UNCHANGED queue

WriterFinished(c) ==
    /\ th[c].pc = "writerFinished"
    /\ WokenUp(c)
    /\ Relock(c, rw[Home[c]], th[c])
    /\ notified' = notified \ {c}
    /\ UNCHANGED queue

lockWriteDenied(c) ==
    LET p == Home[c]
    IN  /\ th[c].pc = "denied" /\ th[c].op = "write"
        /\ rw' = [rw EXCEPT ![p].pendingLock = @ - 1, ![p].pendingWriters = @ - 1]
        /\ notified' = IF rw[p].pendingWriters > 1 /\ ~rw[p].currentWriter
                       THEN NotifyWriterFinished(p) ELSE notified
        /\ th' = [th EXCEPT ![c] = Idle]
        /\ UNCHANGED <<lm, queue>>

lockWriteDone(c) ==
    LET p == Home[c]
    IN  /\ th[c].pc = "locked" /\ th[c].op = "write"
        /\ rw' = [rw EXCEPT ![p].pendingLock = @ - 1, ![p].pendingWriters = @ - 1,
                            ![p].currentWriter = TRUE]
        /\ th' = [th EXCEPT ![c].pc = "writer"]
        /\ UNCHANGED <<notified, lm, queue>>

\* Variant with a fault: the flag blocking is forgotten, not acted upon.
UnlocksUnaware(c) ==
    LET p == Home[c]
    IN  /\ th[c].pc = "writer"
        /\ rw' = [rw EXCEPT ![p].currentWriter = FALSE, ![p].blocking = FALSE]
        /\ notified' = NotifyWriterFinished(p)
        /\ th' = [th EXCEPT ![c] = Idle]
        /\ UNCHANGED <<lm, queue>>

unlockWrite(c) ==
    LET p == Home[c]
    IN  /\ th[c].pc = "writer"
        /\ \/ /\ ~Caching \/ "release" \in Ops
              /\ lm' = Released(p)
              /\ rw' = [rw EXCEPT ![p].currentWriter = FALSE, ![p].blocking = FALSE,
                                  ![p].physical = LCK_none]
           \/ /\ Caching
              /\ lm' = IF rw[p].blocking THEN Downgraded(p) ELSE lm
              /\ rw' = [rw EXCEPT ![p].currentWriter = FALSE, ![p].blocking = FALSE,
                                  ![p].physical = IF rw[p].blocking THEN LeftLevel(p) ELSE @]
        /\ notified' = NotifyWriterFinished(p)
        /\ th' = [th EXCEPT ![c] = Idle]
        /\ UNCHANGED queue

-----------------------------------------------------------------------------
(* Readers. *)

\* lockRead's scope 1 from its inner loop on.
EnterRead(c, t) ==
    LET p == Home[c]
        g == rw[p]
    IN  \/ /\ g.pendingWriters > 0 \/ g.currentWriter
           /\ th' = [th EXCEPT ![c] = [t EXCEPT !.pc = "readerWaits"]]
           /\ UNCHANGED rw
        \/ /\ g.pendingWriters = 0 /\ ~g.currentWriter
           /\ g.pendingLock > 0
           /\ th' = [th EXCEPT ![c] = [t EXCEPT !.pc = "yield"]]
           /\ UNCHANGED rw
        \/ /\ g.pendingWriters = 0 /\ ~g.currentWriter /\ g.pendingLock = 0
           /\ g.physical >= LCK_read
           /\ rw' = [rw EXCEPT ![p].readers = @ + 1]
           /\ th' = [th EXCEPT ![c] = [t EXCEPT !.pc = "reader"]]
        \/ /\ g.pendingWriters = 0 /\ ~g.currentWriter /\ g.pendingLock = 0
           /\ g.physical < LCK_read
           /\ rw' = [rw EXCEPT ![p].pendingLock = @ + 1]
           /\ th' = [th EXCEPT ![c] = [t EXCEPT !.pc = "enqueue"]]

\* Variant with a fault: the reader that jumps the queue is not counted.
JumpsUncounted(c, t) ==
    LET jumps == rw[Home[c]].readers > 0 /\ t.op = "jump"
    IN  \/ /\ jumps
           /\ th' = [th EXCEPT ![c] = [t EXCEPT !.pc = "reader"]]
           /\ UNCHANGED rw
        \/ ~jumps /\ EnterRead(c, t)

\* The body of its outer loop.
TryRead(c, t) ==
    LET jumps == rw[Home[c]].readers > 0 /\ t.op = "jump"
    IN  \/ /\ jumps
           /\ rw' = [rw EXCEPT ![Home[c]].readers = @ + 1]
           /\ th' = [th EXCEPT ![c] = [t EXCEPT !.pc = "reader"]]
        \/ ~jumps /\ EnterRead(c, t)

lockRead(c) ==
    /\ th[c].pc = "idle"
    /\ MayRead(c)
    /\ \E op \in Ops \cap {"read", "jump"}, w \in Wait :
         TryRead(c, [pc |-> "idle", op |-> op, wait |-> w])
    /\ UNCHANGED <<notified, lm, queue>>

lockReadYields(c) ==
    /\ th[c].pc = "yield"
    /\ TryRead(c, th[c])
    /\ UNCHANGED <<notified, lm, queue>>

NoWriter(c) ==
    /\ th[c].pc = "readerWaits"
    /\ WokenUp(c)
    /\ EnterRead(c, th[c])
    /\ notified' = notified \ {c}
    /\ UNCHANGED <<lm, queue>>

lockReadDenied(c) ==
    /\ th[c].pc = "denied" /\ th[c].op # "write"
    /\ rw' = [rw EXCEPT ![Home[c]].pendingLock = @ - 1]
    /\ th' = [th EXCEPT ![c] = Idle]
    /\ UNCHANGED <<notified, lm, queue>>

lockReadDone(c) ==
    LET p == Home[c]
    IN  /\ th[c].pc = "locked" /\ th[c].op # "write"
        /\ rw' = [rw EXCEPT ![p].pendingLock = @ - 1, ![p].readers = @ + 1]
        /\ th' = [th EXCEPT ![c].pc = "reader"]
        /\ UNCHANGED <<notified, lm, queue>>

\* The last reader gives up the lock if somebody needs LCK_write.
GivesUpLock(p) == ~Caching \/ rw[p].pendingWriters > 0 \/ rw[p].blocking

\* Variant with a fault: every reader gives up the lock.
EveryReaderReleases(c) ==
    LET p == Home[c]
        last == rw[p].readers = 1
    IN  /\ th[c].pc = "reader"
        /\ th' = [th EXCEPT ![c] = Idle]
        /\ \/ /\ GivesUpLock(p)
              /\ lm' = Released(p)
              /\ rw' = [rw EXCEPT ![p].readers = @ - 1, ![p].physical = LCK_none,
                                  ![p].blocking = FALSE]
           \/ /\ ~GivesUpLock(p)
              /\ rw' = [rw EXCEPT ![p].readers = @ - 1]
              /\ UNCHANGED lm
        /\ notified' = IF last THEN NotifyReadersGone(p) ELSE notified
        /\ UNCHANGED queue

unlockRead(c) ==
    LET p == Home[c]
        last == rw[p].readers = 1
    IN  /\ th[c].pc = "reader"
        /\ th' = [th EXCEPT ![c] = Idle]
        /\ \/ /\ last /\ GivesUpLock(p)
              /\ lm' = Released(p)
              /\ rw' = [rw EXCEPT ![p].readers = @ - 1, ![p].physical = LCK_none,
                                  ![p].blocking = FALSE]
           \/ /\ ~(last /\ GivesUpLock(p))
              /\ rw' = [rw EXCEPT ![p].readers = @ - 1]
              /\ UNCHANGED lm
        /\ notified' = IF last THEN NotifyReadersGone(p) ELSE notified
        /\ UNCHANGED queue

-----------------------------------------------------------------------------
(* Release, shutdown and the blocking AST. *)

\* All callers have excluded the other threads of the process.
tryReleaseLock(c) ==
    LET p == Home[c]
    IN  /\ "try" \in Ops
        /\ th[c].pc = "idle"
        /\ Alone(c)
        /\ rw[p].readers = 0 /\ ~rw[p].currentWriter
        /\ rw[p].physical > LCK_none
        /\ lm' = Released(p)
        /\ rw' = [rw EXCEPT ![p].physical = LCK_none, ![p].blocking = FALSE]
        /\ UNCHANGED <<th, notified, queue>>

\* The database is closed when none of its threads is in a call.
shutdownLock(p) ==
    /\ "shutdown" \in Ops
    /\ \A c \in Client : Home[c] = p => th[c].pc = "idle"
    /\ lm' = IF rw[p].physical = LCK_none THEN lm ELSE Released(p)
    /\ rw' = [rw EXCEPT ![p].physical = LCK_none]
    /\ th' = [c \in Client |-> IF Home[c] = p THEN [Idle EXCEPT !.pc = "closed"] ELSE th[c]]
    /\ UNCHANGED <<notified, queue>>

\* Variant with a fault: the handler does not look at pendingLock.
HandlesUnderLock(p) ==
    LET g == rw[p]
    IN  /\ lm[p].ast
        /\ \/ /\ ~g.currentWriter /\ g.readers = 0
              /\ lm' = [Downgraded(p) EXCEPT ![p].ast = FALSE]
              /\ rw' = [rw EXCEPT ![p].physical = LeftLevel(p),
                                  ![p].blocking = IF LeftLevel(p) < LCK_read THEN FALSE ELSE @]
           \/ /\ g.currentWriter \/ g.readers > 0
              /\ lm' = [lm EXCEPT ![p].ast = FALSE]
              /\ rw' = [rw EXCEPT ![p].blocking = TRUE]
        /\ UNCHANGED <<th, notified, queue>>

\* blocking_ast_cached_lock.  The conversion to LCK_read is never refused:
\* nobody else holds the lock while this process has LCK_write.
blockingAstHandler(p) ==
    LET g == rw[p]
        done == [lm EXCEPT ![p].ast = FALSE]
        unused == g.pendingLock = 0 /\ ~g.currentWriter
    IN  /\ lm[p].ast
        /\ \/ /\ unused /\ g.readers = 0
              /\ lm' = [Downgraded(p) EXCEPT ![p].ast = FALSE]
              /\ rw' = [rw EXCEPT ![p].physical = LeftLevel(p),
                                  ![p].blocking = IF LeftLevel(p) < LCK_read THEN FALSE ELSE @]
           \/ /\ unused /\ g.readers > 0 /\ g.physical > LCK_read
              /\ lm' = [done EXCEPT ![p].held = LCK_read, ![p].notice = "none"]
              /\ rw' = [rw EXCEPT ![p].physical = LCK_read]
           \/ /\ ~unused \/ (g.readers > 0 /\ g.physical <= LCK_read)
              /\ lm' = done
              /\ rw' = [rw EXCEPT ![p].blocking = TRUE]
        /\ UNCHANGED <<th, notified, queue>>

Manager(c) == LmEnqueue(c) \/ LmGrant(c) \/ LmDeny(c) \/ LCK_lock(c)

Goes(c) ==
    \/ ReadersGone(c) \/ WriterFinished(c) \/ lockWriteDenied(c) \/ lockWriteDone(c)
    \/ lockReadYields(c) \/ NoWriter(c) \/ lockReadDenied(c) \/ lockReadDone(c)

Uses(c) == unlockWrite(c) \/ unlockRead(c)

Ast(p) == LmPost(p) \/ LmDeliver(p) \/ blockingAstHandler(p)

Next ==
    \/ \E c \in Client :
         \/ lockWrite(c) \/ lockRead(c) \/ tryReleaseLock(c)
         \/ Manager(c) \/ Goes(c) \/ Uses(c)
    \/ \E p \in Process : shutdownLock(p) \/ Ast(p)

Spec == Init /\ [][Next]_vars

-----------------------------------------------------------------------------
(* Properties. *)

\* A thread that has the lock for writing is the only one that has it, in all
\* processes together, although most calls never ask the lock manager.
Exclusive ==
    \A c, d \in Client :
        (th[c].pc = "writer" /\ th[d].pc \in {"reader", "writer"}) => c = d

\* A blocking notice that has been delivered is acted upon or remembered: as
\* long as a process still holds a level somebody else waits for, it has the
\* flag blocking and a thread that will look at the flag when it is done.
NoticeRemembered ==
    \A p, q \in Process :
        (lm[p].notice = "seen" /\ ~lm[p].ast /\ ~Agree(lm[q].asked, lm[p].held)) =>
            /\ rw[p].blocking
            /\ rw[p].readers > 0 \/ rw[p].currentWriter \/ rw[p].pendingLock > 0

\* What a thread has of the lock, whoever caches it.
mode ==
    [c \in Client |->
        CASE th[c].pc = "reader" -> "read"
          [] th[c].pc = "writer" -> "write"
          [] th[c].pc \in {"idle", "closed"} -> "none"
          [] OTHER -> IF th[c].op = "write" THEN "asksWrite" ELSE "asksRead"]

OneLock == INSTANCE RWLockSpec

\* The objects of all processes, the lock they cache and the ASTs that move it
\* behave as one read-write lock: no call turns into another, readers are let
\* in while nobody writes, and a writer alone.
IsOneLock == OneLock!Spec

\* Threads go on, the lock manager serves its queue and delivers ASTs, and
\* the lock is given back some time.  Callers need not call.
Fairness ==
    /\ \A c \in Client : /\ WF_vars(LmEnqueue(c)) /\ WF_vars(LmGrant(c)) /\ WF_vars(LCK_lock(c))
                         /\ WF_vars(Goes(c)) /\ WF_vars(Uses(c))
    /\ \A p \in Process : WF_vars(Ast(p))

FairSpec == Spec /\ Fairness

Calling(c) == th[c].pc \notin {"idle", "reader", "writer", "closed"}

\* Every lockRead and lockWrite returns, with or without the lock.
CallsReturn == \A c \in Client : Calling(c) ~> ~Calling(c)

=============================================================================
