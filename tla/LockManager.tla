----------------------------- MODULE LockManager -----------------------------
(***************************************************************************)
(* The Firebird lock manager (src/src/lock/lock.cpp): a table of locks in   *)
(* shared memory, used by several server processes.  A process registers    *)
(* owners (attachments and databases); an owner's threads ask for locks at  *)
(* a level, wait for them, convert them and release them; the holder of a   *)
(* lock that blocks somebody is told so by a blocking AST.                  *)
(*                                                                          *)
(* Everything happens under one mutex, which is given up only while a       *)
(* thread sleeps in wait_for_request, while an AST routine runs and while   *)
(* shutdownOwner waits for ASTs.  A step of the model is one iteration of   *)
(* a loop of the code, or one call without its loops; what a call still has *)
(* to do is in work (loops that keep the mutex) and thr (the thread's own   *)
(* control state), and the mutex cannot be released before it is done.      *)
(***************************************************************************)
EXTENDS Naturals, FiniteSets

CONSTANTS
    Process,      \* server processes; each has a blocking action thread
    Owner,        \* owner blocks (own)
    Client,       \* threads that call the lock manager for an owner
    Key,          \* keys of the resources that can be locked
    Request,      \* the pool of request blocks (lrq)
    ProcOf,       \* ProcOf[o]: the process owner o belongs to (own_process)
    Home,         \* Home[c]: the owner thread c works for
    Level,        \* the levels that clients ask for
    Mode,         \* how clients wait: "no_wait", "timeout", "wait"
    HasAst,       \* whether requests come with an AST routine (subset of BOOLEAN)
    Calls,        \* the calls that clients make
    Present,      \* owners that are initialized before the calls considered
    MaxCount,     \* bound on own_count
    MaxRepost,    \* bound on reposted blocks of an owner
    LblCapacity,  \* lock blocks the shared memory has room for
    Mortal,       \* the processes that may die
    Nobody        \* neither a thread, an owner, a request, a key nor a process

Thread == Client \cup Process

\* Lock levels (lock_proto.h); LCK_none and LCK_null conflict with nothing.
LCK_none == 0
LCK_null == 1
LCK_SR == 2
LCK_PR == 3
LCK_SW == 4
LCK_PW == 5
LCK_EX == 6
AnyLevel == 0..6

ASSUME Constants ==
    /\ ProcOf \in [Owner -> Process]
    /\ Home \in [Client -> Owner]
    /\ Level \subseteq 1..6
    /\ Mode \subseteq {"no_wait", "timeout", "wait"}
    /\ HasAst \subseteq BOOLEAN
    /\ Present \subseteq Owner
    /\ IsFiniteSet(Request) /\ IsFiniteSet(Client) /\ IsFiniteSet(Process)
    /\ MaxCount \in Nat \ {0}
    /\ MaxRepost \in Nat
    /\ LblCapacity \in Nat
    /\ Mortal \subseteq Process
    /\ Client \cap Process = {}
    /\ Nobody \notin Thread \cup Owner \cup Key \cup Request

VARIABLES
    lrq,        \* request blocks
    lbl,        \* lock blocks, by key
    own,        \* owner blocks
    prc,        \* process blocks
    mutex,      \* the thread that has the lock table, or Nobody
    work,       \* loops the mutex holder is in: post_pending, purges, probe
    thr,        \* control state of every thread
    call,       \* the enqueue or convert a client is in
    poked,      \* waiting clients whose wakeup event has been posted
    cancelled   \* waiting clients whose operation has been cancelled

vars == <<lrq, lbl, own, prc, mutex, work, thr, call, poked, cancelled>>

-----------------------------------------------------------------------------
(* Blocks.  A request is on its owner's own_pending exactly when it has the *)
(* flag "pending", and on own_blocks exactly when it has "blocking" or      *)
(* "repost": code changes queue and flag together.  pos is its place in the *)
(* lock's queue lbl_requests; physical is the level its caller was told.    *)
LrqFlag == {"blocking", "pending", "rejected", "seen", "granted", "timeout", "repost"}

LrqBlock ==
    [owner : Owner \cup {Nobody}, lock : Key \cup {Nobody}, requested : AnyLevel,
     state : AnyLevel, ast : BOOLEAN, flags : SUBSET LrqFlag, pos : Nat,
     physical : AnyLevel]

FreeLrq ==
    [owner |-> Nobody, lock |-> Nobody, requested |-> 0, state |-> 0,
     ast |-> FALSE, flags |-> {}, pos |-> 0, physical |-> 0]

FreeLbl == [counts |-> [l \in 1..6 |-> 0], state |-> 0, pending |-> 0]

FreeOwn == [inuse |-> FALSE, count |-> 0, waits |-> 0, asts |-> 0, flags |-> {}]

NewOwn == [inuse |-> TRUE, count |-> 1, waits |-> 0, asts |-> 0, flags |-> {}]

NoWork == [pend |-> Nobody, own |-> Nobody, prc |-> Nobody, probe |-> FALSE]

AtRest == [pc |-> "idle", todo |-> {}, dead |-> {}, block |-> Nobody, ast |-> FALSE]

NoCall == [op |-> "none", lrq |-> Nobody, key |-> Nobody, level |-> 0,
           mode |-> "no_wait", ast |-> FALSE]

TypeOK ==
    /\ lrq \in [Request -> LrqBlock]
    /\ lbl \in [Key -> [counts : [1..6 -> Nat], state : AnyLevel, pending : Nat]]
    /\ own \in [Owner -> [inuse : BOOLEAN, count : Nat, waits : Nat, asts : Nat,
                          flags : SUBSET {"scanned", "wakeup", "signaled"}]]
    /\ prc \in [Process -> [alive : BOOLEAN, listed : BOOLEAN, blocking : BOOLEAN]]
    /\ mutex \in Thread \cup {Nobody}
    /\ work \in [pend : Key \cup {Nobody}, own : Owner \cup {Nobody},
                 prc : Process \cup {Nobody}, probe : BOOLEAN]
    /\ thr \in [Thread ->
                 [pc : {"idle", "enqueue", "blockage", "wait", "sleep", "scan",
                        "exit", "shutdown", "loop"},
                  todo : SUBSET Owner, dead : SUBSET Process,
                  block : Owner \cup {Nobody}, ast : BOOLEAN]]
    /\ call \in [Client ->
                 [op : {"none", "enqueue", "convert"}, lrq : Request \cup {Nobody},
                  key : Key \cup {Nobody}, level : AnyLevel,
                  mode : {"no_wait", "timeout", "wait"}, ast : BOOLEAN]]
    /\ poked \subseteq Client
    /\ cancelled \subseteq Client

Init ==
    /\ lrq = [r \in Request |-> FreeLrq]
    /\ lbl = [k \in Key |-> FreeLbl]
    /\ own = [o \in Owner |-> IF o \in Present THEN NewOwn ELSE FreeOwn]
    /\ prc = [p \in Process |-> [alive |-> TRUE, blocking |-> FALSE,
                                 listed |-> \E o \in Present : ProcOf[o] = p]]
    /\ mutex = Nobody
    /\ work = NoWork
    /\ thr = [t \in Thread |-> AtRest]
    /\ call = [c \in Client |-> NoCall]
    /\ poked = {}
    /\ cancelled = {}

-----------------------------------------------------------------------------
(* Levels and the state of a lock. *)

compatibility ==
    <<  \* none  null   SR     PR     SW     PW     EX
        <<TRUE,  TRUE,  TRUE,  TRUE,  TRUE,  TRUE,  TRUE>>,    \* none
        <<TRUE,  TRUE,  TRUE,  TRUE,  TRUE,  TRUE,  TRUE>>,    \* null
        <<TRUE,  TRUE,  TRUE,  TRUE,  TRUE,  TRUE,  FALSE>>,   \* SR
        <<TRUE,  TRUE,  TRUE,  TRUE,  FALSE, FALSE, FALSE>>,   \* PR
        <<TRUE,  TRUE,  TRUE,  FALSE, TRUE,  FALSE, FALSE>>,   \* SW
        <<TRUE,  TRUE,  TRUE,  FALSE, FALSE, FALSE, FALSE>>,   \* PW
        <<TRUE,  TRUE,  FALSE, FALSE, FALSE, FALSE, FALSE>> >> \* EX

Compatible(a, b) == compatibility[a + 1][b + 1]

MaxLevel(a, b) == IF a < b THEN b ELSE a

\* Variant with a fault: the levels are tested in the wrong order.
LowestLevel(counts) ==
    CHOOSE s \in AnyLevel :
        /\ s # LCK_none => counts[s] > 0
        /\ \A l \in 1..6 : (l < s \/ s = LCK_none) => counts[l] = 0

\* The highest level somebody holds.
lock_state(counts) ==
    CHOOSE s \in AnyLevel :
        /\ s # LCK_none => counts[s] > 0
        /\ \A l \in 1..6 : l > s => counts[l] = 0

Without(counts, l) ==
    IF l = LCK_none THEN counts ELSE [counts EXCEPT ![l] = @ - 1]

With(counts, l) ==
    IF l = LCK_none THEN counts ELSE [counts EXCEPT ![l] = @ + 1]

Requests(k) == {r \in Request : lrq[r].lock = k}

\* Variant with a fault: waiting requests are not on own_requests.
HoldsGranted(o) ==
    {r \in Request : lrq[r].owner = o /\ lrq[r].lock # Nobody /\ lrq[r].state # LCK_none}

Holds(o) == {r \in Request : lrq[r].owner = o /\ lrq[r].lock # Nobody}

Blocks(o) ==
    {r \in Request : lrq[r].owner = o /\ lrq[r].flags \cap {"blocking", "repost"} # {}}

FreeRequests == {r \in Request : lrq[r].owner = Nobody}

LocksInUse == {k \in Key : Requests(k) # {}}

Pending(r) == "pending" \in lrq[r].flags

\* The state the lock of r would have if r were not there.
StateWithout(r) == lock_state(Without(lbl[lrq[r].lock].counts, lrq[r].state))

Pid(t) == IF t \in Client THEN ProcOf[Home[t]] ELSE t

Threads(p) == {t \in Thread : Pid(t) = p}

-----------------------------------------------------------------------------
(* The mutex. *)
Quiet(t) == mutex = t /\ work = NoWork

\* Thread t has the mutex and no signalling or AST delivery to go on with.
Proceeds(t) ==
    /\ Quiet(t)
    /\ thr[t].todo = {} /\ thr[t].dead = {} /\ thr[t].block = Nobody

Goto(t, pc) == thr' = [thr EXCEPT ![t].pc = pc]

\* A call comes from a client that is in no other call, or from an AST
\* routine, which works for the owner the AST was delivered to.
MayCall(t, o) ==
    /\ mutex = Nobody
    /\ prc[Pid(t)].alive
    /\ \/ t \in Client /\ thr[t] = AtRest /\ Home[t] = o
       \/ thr[t].ast /\ thr[t].block = o

\* The end of LockTableGuard's scope, or the begin of LockTableCheckout's.
release_shmem(t) ==
    /\ Quiet(t)
    /\ \/ thr[t].ast
       \/ Proceeds(t) /\ thr[t].pc \in {"idle", "sleep", "shutdown"}
    /\ mutex' = Nobody
    /\ UNCHANGED <<lrq, lbl, own, prc, work, thr, call, poked, cancelled>>

-----------------------------------------------------------------------------
(* Effects shared by the calls, as values of the blocks after them. *)

\* Variant with a fault: the event is posted, OWN_wakeup is not set.
WakeupUnmarked(ow, o) == ow

\* post_wakeup(o) on the owner table ow: only an owner that waits is woken.
post_wakeup(ow, o) ==
    IF ow[o].waits > 0
    THEN [ow EXCEPT ![o].flags = @ \cup {"wakeup"}]
    ELSE ow

\* Variant with a fault: an off-by-one in the test of own_waits.
PokedIfSeveralWait(o) ==
    IF own[o].waits > 1
    THEN poked \cup {c \in Client : Home[c] = o /\ call[c].lrq # Nobody}
    ELSE poked

PokedBy(o) ==
    IF own[o].waits > 0
    THEN poked \cup {c \in Client : Home[c] = o /\ call[c].lrq # Nobody}
    ELSE poked

\* Variant with a fault: lrq_state is not set.
GrantKeepsLevel(rq, r) == [rq EXCEPT ![r].flags = @ \ {"pending"}]

GrantedLrq(rq, r) ==
    [rq EXCEPT ![r].state = rq[r].requested, ![r].flags = @ \ {"pending"}]

\* grant(r, k) on request table rq, with the counts it finds: the former
\* level of a conversion has already been taken off them.
grant(rq, r, k, counts) ==
    LET new == With(counts, rq[r].requested)
    IN  /\ lrq' = GrantedLrq(rq, r)
        /\ lbl' = [lbl EXCEPT ![k] =
                     [counts |-> new, state |-> lock_state(new),
                      pending |-> IF "pending" \in rq[r].flags
                                  THEN @.pending - 1 ELSE @.pending]]
        /\ own' = post_wakeup(own, rq[r].owner)
        /\ poked' = PokedBy(rq[r].owner)

\* remove_que on lbl_requests: those behind r move up.
MovedUp(rq, r) ==
    [q \in Request |->
        IF rq[q].lock = rq[r].lock /\ rq[q].pos > rq[r].pos
        THEN [rq[q] EXCEPT !.pos = @ - 1] ELSE rq[q]]

\* Variant with a fault: nobody looks behind a request that was denied.
PostsIfGranted(r) ==
    IF Requests(lrq[r].lock) = {r} \/ lrq[r].state = LCK_none THEN Nobody ELSE lrq[r].lock

\* Variant with a fault: nobody looks behind a request that was granted.
PostsIfDenied(r) ==
    IF Requests(lrq[r].lock) = {r} \/ lrq[r].state # LCK_none THEN Nobody ELSE lrq[r].lock

\* The lock whose pending requests release_request(r) posts at the end.
HeldUpBy(r) == IF Requests(lrq[r].lock) = {r} THEN Nobody ELSE lrq[r].lock

\* release_request(r), up to its post_pending.
release_request(r) ==
    LET k == lrq[r].lock
        l == lrq[r].state
        counts == Without(lbl[k].counts, l)
        empty == Requests(k) = {r}
    IN  /\ lrq' = [MovedUp(lrq, r) EXCEPT ![r] = FreeLrq]
        /\ lbl' = [lbl EXCEPT ![k] =
                     IF empty THEN FreeLbl
                     ELSE [counts |-> counts,
                           state |-> IF l # LCK_none /\ counts[l] = 0
                                     THEN lock_state(counts) ELSE @.state,
                           pending |-> IF Pending(r) THEN @.pending - 1 ELSE @.pending]]
        /\ work' = [work EXCEPT !.pend = HeldUpBy(r)]

\* Variant with a fault: LRQ_pending is left on.
RejectedStaysPending(rq, r) == [rq EXCEPT ![r].flags = @ \cup {"rejected"}]

\* The marking of request r as rejected: it is no longer pending.
RejectedLrq(rq, r) ==
    [rq EXCEPT ![r].flags = (@ \cup {"rejected"}) \ {"pending"}]

\* Variant with a fault: lbl_pending_lrq_count is forgotten.
NonePendingLess(k) == lbl

OnePendingLess(k) == [lbl EXCEPT ![k].pending = @ - 1]

\* wait_for_request, up to its post_blockage, on the request table rq.
wait_for_request(rq, r, k, mode) ==
    /\ lrq' = [rq EXCEPT ![r].flags =
                 (@ \ {"rejected"}) \cup {"pending"}
                    \cup (IF mode = "wait" THEN {} ELSE {"timeout"})]
    /\ lbl' = [lbl EXCEPT ![k].pending = @ + 1]
    /\ own' = [own EXCEPT ![rq[r].owner].waits = @ + 1,
                          ![rq[r].owner].flags = @ \ {"scanned", "wakeup"}]

-----------------------------------------------------------------------------
(* Calls of an owner's threads. *)

\* Every call that works on an owner that has been shut down returns at once.
\* A request that some thread is in wait_for_request for is not used by others.
Usable(t, o) == MayCall(t, o) /\ own[o].count > 0

HeldBy(o) == {r \in Holds(o) : \A c \in Client : call[c].lrq # r}

initializeOwner(t) ==
    LET o == Home[t]
    IN  /\ "initialize" \in Calls
        /\ thr[t] = AtRest
        /\ MayCall(t, o)
        /\ \/ /\ own[o].inuse /\ own[o].count \in 1..(MaxCount - 1)
              /\ own' = [own EXCEPT ![o].count = @ + 1]
              /\ UNCHANGED <<prc, work>>
           \/ /\ ~own[o].inuse                                \* create_owner
              /\ own' = [own EXCEPT ![o] = NewOwn]
              /\ prc' = [prc EXCEPT ![ProcOf[o]].listed = TRUE]
              /\ work' = [work EXCEPT !.probe = TRUE]
        /\ mutex' = t
        /\ UNCHANGED <<lrq, lbl, thr, call, poked, cancelled>>

\* The last shutdown of an owner comes when none of its threads is in a call.
shutdownOwner(t) ==
    LET o == Home[t]
        last == own[o].count = 1
    IN  /\ "shutdown" \in Calls
        /\ thr[t] = AtRest
        /\ Usable(t, o)
        /\ last => \A c \in Client : Home[c] = o => thr[c] = AtRest
        /\ own' = [own EXCEPT ![o].count = @ - 1]
        /\ work' = [work EXCEPT !.own = IF last /\ own[o].asts = 0 THEN o ELSE Nobody]
        /\ Goto(t, IF last /\ own[o].asts > 0 THEN "shutdown" ELSE "idle")
        /\ mutex' = t
        /\ UNCHANGED <<lrq, lbl, prc, call, poked, cancelled>>

\* Variant with a fault: the loop ends while ASTs are being delivered.
AstsIgnored(t) ==
    /\ thr[t].pc = "shutdown"
    /\ mutex = Nobody
    /\ work' = [work EXCEPT !.own = Home[t]]
    /\ Goto(t, "idle")
    /\ mutex' = t
    /\ UNCHANGED <<lrq, lbl, own, prc, call, poked, cancelled>>

\* The end of shutdownOwner's loop that waits for ASTs being delivered.
AstsDone(t) ==
    /\ thr[t].pc = "shutdown"
    /\ mutex = Nobody
    /\ own[Home[t]].asts = 0
    /\ work' = [work EXCEPT !.own = Home[t]]
    /\ Goto(t, "idle")
    /\ mutex' = t
    /\ UNCHANGED <<lrq, lbl, own, prc, call, poked, cancelled>>

\* enqueue, first part: the prior request of the same lock object goes.
enqueue(t) ==
    \E k \in Key, l \in Level, m \in Mode, a \in HasAst :
      /\ "enqueue" \in Calls
      /\ thr[t] = AtRest
      /\ Usable(t, Home[t])
      /\ call' = [call EXCEPT ![t] = [op |-> "enqueue", lrq |-> Nobody, key |-> k,
                                      level |-> l, mode |-> m, ast |-> a]]
      /\ \/ UNCHANGED <<lrq, lbl, work>>
         \/ /\ "requeue" \in Calls
            /\ \E prior \in HeldBy(Home[t]) \cap Requests(k) : release_request(prior)
      /\ Goto(t, "enqueue")
      /\ mutex' = t
      /\ UNCHANGED <<own, prc, poked, cancelled>>

\* The request that enqueue puts at the tail of the lock's queue.
NewLrq(t, physical) ==
    [owner |-> Home[t], lock |-> call[t].key, requested |-> call[t].level,
     state |-> LCK_none, ast |-> call[t].ast, flags |-> {},
     pos |-> Cardinality(Requests(call[t].key)) + 1, physical |-> physical]

Returns(t) ==
    /\ call' = [call EXCEPT ![t] = NoCall]
    /\ Goto(t, "idle")

\* The lock exists: grant the new request, deny it or let it wait.
grant_or_que(t, r, k, l) ==
    IF Compatible(l, lbl[k].state) /\ (l = LCK_null \/ lbl[k].pending = 0)
    THEN /\ grant([lrq EXCEPT ![r] = NewLrq(t, l)], r, k, lbl[k].counts)
         /\ work' = [work EXCEPT !.pend = k]
         /\ Returns(t)
    ELSE IF call[t].mode = "no_wait"
    THEN /\ work' = [work EXCEPT !.pend = k]                  \* release_request
         /\ Returns(t)
         /\ UNCHANGED <<lrq, lbl, own, poked>>
    ELSE /\ wait_for_request([lrq EXCEPT ![r] = NewLrq(t, LCK_none)], r, k, call[t].mode)
         /\ call' = [call EXCEPT ![t].lrq = r]
         /\ poked' = poked \ {t}
         /\ Goto(t, "blockage")
         /\ UNCHANGED work

\* enqueue, second part.  It fails when the table has no room for the blocks.
EnqueueRequest(t) ==
    LET k == call[t].key
        l == call[t].level
    IN  /\ thr[t].pc = "enqueue"
        /\ Proceeds(t)
        /\ \/ /\ \/ FreeRequests = {}
                 \/ Requests(k) = {} /\ Cardinality(LocksInUse) >= LblCapacity
              /\ Returns(t)
              /\ UNCHANGED <<lrq, lbl, own, work, poked>>
           \/ \E r \in FreeRequests :
              \/ /\ Requests(k) = {}
                 /\ Cardinality(LocksInUse) < LblCapacity
                 /\ grant([lrq EXCEPT ![r] = NewLrq(t, l)], r, k, FreeLbl.counts)
                 /\ Returns(t)
                 /\ UNCHANGED work
              \/ /\ Requests(k) # {}
                 /\ grant_or_que(t, r, k, l)
        /\ UNCHANGED <<prc, mutex, cancelled>>

\* internal_convert of r to level l; physical is what the caller is told if
\* the conversion is refused at once.
internal_convert(t, r, l, mode, ast, refused) ==
    LET k == lrq[r].lock
        asked == [lrq EXCEPT ![r].requested = l, ![r].flags = @ \ {"seen"}]
    IN  IF Compatible(l, StateWithout(r))
        THEN /\ grant([asked EXCEPT ![r].ast = ast, ![r].physical = l], r, k,
                      Without(lbl[k].counts, lrq[r].state))
             /\ work' = [work EXCEPT !.pend = k]
             /\ UNCHANGED <<thr, call>>
        ELSE IF mode = "no_wait"
        THEN /\ lrq' = [asked EXCEPT ![r].requested = lrq[r].state, ![r].physical = refused]
             /\ UNCHANGED <<lbl, own, work, thr, call, poked>>
        ELSE /\ wait_for_request(asked, r, k, mode)
             /\ call' = [call EXCEPT ![t] = [op |-> "convert", lrq |-> r, key |-> k,
                                             level |-> l, mode |-> mode, ast |-> ast]]
             /\ poked' = poked \ {t}
             /\ Goto(t, "blockage")
             /\ UNCHANGED work

\* AST routines convert without waiting.
convert(t) ==
    \E o \in Owner, l \in Level, m \in Mode, a \in HasAst :
      /\ "convert" \in Calls
      /\ Usable(t, o)
      /\ thr[t].ast => m = "no_wait"
      /\ \E r \in HeldBy(o) : internal_convert(t, r, l, m, a, lrq[r].physical)
      /\ mutex' = t
      /\ UNCHANGED <<prc, cancelled>>

\* The highest level that the other requests of r's lock wait for.
PendingState(r) ==
    LET asked == {lrq[q].requested : q \in {x \in Requests(lrq[r].lock) \ {r} : Pending(x)}}
    IN  CHOOSE s \in asked \cup {LCK_none} : \A x \in asked : x <= s

\* The highest level up to the present one that is compatible with it.
DowngradeLevel(r) ==
    CHOOSE s \in 0..lrq[r].state :
        /\ Compatible(PendingState(r), s)
        /\ \A x \in 0..lrq[r].state : x > s => ~Compatible(PendingState(r), x)

downgrade(t) ==
    \E o \in Owner :
      /\ "downgrade" \in Calls
      /\ Usable(t, o)
      /\ \E r \in HeldBy(o) :
           IF DowngradeLevel(r) <= LCK_null
           THEN /\ release_request(r)                         \* internal_dequeue
                /\ UNCHANGED <<own, thr, call, poked>>
           ELSE internal_convert(t, r, DowngradeLevel(r), "no_wait", lrq[r].ast,
                                 DowngradeLevel(r))
      /\ mutex' = t
      /\ UNCHANGED <<prc, cancelled>>

dequeue(t) ==
    \E o \in Owner :
      /\ "dequeue" \in Calls
      /\ Usable(t, o)
      /\ \E r \in HeldBy(o) : release_request(r)
      /\ mutex' = t
      /\ UNCHANGED <<own, prc, thr, call, poked, cancelled>>

Reposted(o) == {r \in Blocks(o) : "repost" \in lrq[r].flags}

\* An AST routine reposts only for its own owner, which is still signaled.
repost(t) ==
    \E o \in Owner :
      /\ "repost" \in Calls
      /\ MayCall(t, o)
      /\ own[o].inuse
      /\ Cardinality(Reposted(o)) < MaxRepost
      /\ thr[t].ast => "signaled" \in own[o].flags
      /\ \E r \in FreeRequests :
           lrq' = [lrq EXCEPT ![r] = [FreeLrq EXCEPT !.owner = o, !.ast = TRUE,
                                                     !.flags = {"repost"}]]
      /\ thr' = IF "signaled" \in own[o].flags THEN thr ELSE [thr EXCEPT ![t].todo = {o}]
      /\ mutex' = t
      /\ UNCHANGED <<lbl, own, prc, work, call, poked, cancelled>>

\* Somebody else's cancel of a waiting client's operation: the client's
\* cancel state is set and its owner's wait is poked.
cancelWait(c) ==
    /\ "cancel" \in Calls
    /\ mutex = Nobody
    /\ call[c].lrq # Nobody
    /\ own[Home[c]].count > 0
    /\ c \notin cancelled
    /\ cancelled' = cancelled \cup {c}
    /\ own' = post_wakeup(own, Home[c])
    /\ poked' = PokedBy(Home[c])
    /\ UNCHANGED <<lrq, lbl, prc, mutex, work, thr, call>>

-----------------------------------------------------------------------------
(* Loops that keep the mutex.  Inner loops go first. *)

FirstPending(k) ==
    {r \in Requests(k) : Pending(r) /\ \A q \in Requests(k) :
                                         Pending(q) => lrq[r].pos <= lrq[q].pos}

\* A conversion is compared with the levels the others hold.
Grantable(r) ==
    Compatible(lrq[r].requested,
               IF lrq[r].state # LCK_none THEN StateWithout(r) ELSE lbl[lrq[r].lock].state)

\* Granted requests ahead of r whose owners have yet to be told that they block.
JustGranted(r) ==
    [q \in Request |->
        IF /\ lrq[q].lock = lrq[r].lock
           /\ lrq[q].pos < lrq[r].pos
           /\ lrq[q].ast
           /\ lrq[q].flags \cap {"blocking", "seen"} = {}
        THEN [lrq[q] EXCEPT !.flags = @ \cup {"granted"}] ELSE lrq[q]]

post_pending(t) ==
    LET k == work.pend
    IN  /\ mutex = t
        /\ k # Nobody
        /\ \/ /\ lbl[k].pending = 0
              /\ work' = [work EXCEPT !.pend = Nobody]
              /\ UNCHANGED <<lrq, lbl, own, poked>>
           \/ /\ lbl[k].pending # 0
              /\ \E r \in FirstPending(k) :
                   \/ /\ Grantable(r)
                      /\ grant(lrq, r, k, Without(lbl[k].counts, lrq[r].state))
                      /\ UNCHANGED work
                   \/ /\ ~Grantable(r)
                      /\ lrq' = JustGranted(r)
                      /\ own' = post_wakeup(own, lrq[r].owner)
                      /\ poked' = PokedBy(lrq[r].owner)
                      /\ work' = [work EXCEPT !.pend = Nobody]
                      /\ UNCHANGED lbl
        /\ UNCHANGED <<prc, mutex, thr, call, cancelled>>

purge_owner(t) ==
    LET o == work.own
    IN  /\ mutex = t
        /\ work.pend = Nobody /\ o # Nobody
        /\ \/ /\ \E r \in Holds(o) : release_request(r)
              /\ UNCHANGED own
           \/ /\ Holds(o) = {}
              /\ \E r \in Blocks(o) : lrq' = [lrq EXCEPT ![r] = FreeLrq]
              /\ UNCHANGED <<lbl, own, work>>
           \/ /\ Holds(o) = {} /\ Blocks(o) = {}
              /\ own' = [own EXCEPT ![o].inuse = FALSE, ![o].flags = {}]
              /\ work' = [work EXCEPT !.own = Nobody]
              /\ UNCHANGED <<lrq, lbl>>
        /\ UNCHANGED <<prc, mutex, thr, call, poked, cancelled>>

Registered(p) == {o \in Owner : ProcOf[o] = p /\ own[o].inuse}

purge_process(t) ==
    LET p == work.prc
    IN  /\ mutex = t
        /\ work.pend = Nobody /\ work.own = Nobody /\ p # Nobody
        /\ \/ /\ \E o \in Registered(p) : work' = [work EXCEPT !.own = o]
              /\ UNCHANGED prc
           \/ /\ Registered(p) = {}
              /\ prc' = [prc EXCEPT ![p].listed = FALSE]
              /\ work' = [work EXCEPT !.prc = Nobody]
        /\ UNCHANGED <<lrq, lbl, own, mutex, thr, call, poked, cancelled>>

\* Variant with a fault: the existence of the process is not checked.
ListedProcesses == {p \in Process : prc[p].listed}

DeadProcesses == {p \in Process : prc[p].listed /\ ~prc[p].alive}

probe_processes(t) ==
    /\ mutex = t
    /\ work.pend = Nobody /\ work.own = Nobody /\ work.prc = Nobody /\ work.probe
    /\ \/ \E p \in DeadProcesses : work' = [work EXCEPT !.prc = p]
       \/ DeadProcesses = {} /\ work' = [work EXCEPT !.probe = FALSE]
    /\ UNCHANGED <<lrq, lbl, own, prc, mutex, thr, call, poked, cancelled>>

-----------------------------------------------------------------------------
(* Blocking notices. *)

\* Requests that keep r from being granted and whose owner can be told so.
Notified(r) ==
    LET k == lrq[r].lock
        blockers == {b \in Requests(k) \ {r} :
                       /\ lrq[b].owner # lrq[r].owner
                       /\ ~Compatible(lrq[r].requested, lrq[b].state)
                       /\ lrq[b].ast
                       /\ "seen" \notin lrq[b].flags}
    IN  {b \in blockers : \A x \in blockers :
                            lrq[x].state = LCK_EX => lrq[b].pos <= lrq[x].pos}

\* post_blockage, first loop; the owners it collects are signaled next.
post_blockage(t) ==
    LET blockers == Notified(call[t].lrq)
    IN  /\ thr[t].pc = "blockage"
        /\ Proceeds(t)
        /\ lrq' = [b \in Request |->
                     IF b \in blockers /\ "blocking" \notin lrq[b].flags
                     THEN [lrq[b] EXCEPT !.flags = (@ \ {"granted"}) \cup {"blocking"}]
                     ELSE lrq[b]]
        /\ thr' = [thr EXCEPT ![t].todo = {lrq[b].owner : b \in blockers},
                              ![t].pc = "wait"]
        /\ UNCHANGED <<lbl, own, prc, mutex, work, call, poked, cancelled>>

Signalling(t) == Quiet(t) /\ ~thr[t].ast /\ thr[t].block = Nobody

\* The second loop of post_blockage, with signal_owner: an owner of this
\* process has its ASTs delivered here and now, another process is posted an
\* event.  Posting to a dead process may fail, and may also seem to succeed.
\* An owner purged since has no process any more: no process is posted.
signal_owner(t) ==
    \E o \in thr[t].todo :
      LET p == ProcOf[o]
          signaled == [own EXCEPT ![o].flags = @ \cup {"signaled"}]
          rest == [thr EXCEPT ![t].todo = @ \ {o}]
      IN  /\ Signalling(t)
          /\ \/ /\ own[o].count = 0 \/ "signaled" \in own[o].flags
                /\ thr' = rest
                /\ UNCHANGED <<own, prc>>
             \/ /\ own[o].count > 0 /\ "signaled" \notin own[o].flags
                /\ \/ /\ own[o].inuse /\ p = Pid(t)
                      /\ own' = signaled
                      /\ thr' = [rest EXCEPT ![t].block = o]
                      /\ UNCHANGED prc
                   \/ /\ ~own[o].inuse \/ p # Pid(t)
                      /\ own' = signaled
                      /\ prc' = [prc EXCEPT ![p].blocking = @ \/ own[o].inuse]
                      /\ thr' = rest
                   \/ /\ own[o].inuse /\ ~prc[p].alive
                      /\ thr' = [rest EXCEPT ![t].dead = @ \cup {p}]
                      /\ UNCHANGED <<own, prc>>
          /\ UNCHANGED <<lrq, lbl, mutex, work, call, poked, cancelled>>

\* The third loop of post_blockage.
PurgeUndelivered(t) ==
    \E p \in thr[t].dead :
      /\ Signalling(t)
      /\ thr[t].todo = {}
      /\ thr' = [thr EXCEPT ![t].dead = @ \ {p}]
      /\ work' = [work EXCEPT !.prc = IF prc[p].listed THEN p ELSE Nobody]
      /\ UNCHANGED <<lrq, lbl, own, prc, mutex, call, poked, cancelled>>

\* One iteration of blocking_action: the first blocking request or repost of
\* the owner has its AST routine called, without the mutex.
blocking_action(t) ==
    LET o == thr[t].block
    IN  /\ Quiet(t) /\ ~thr[t].ast
        /\ o # Nobody
        /\ \/ /\ own[o].count > 0
              /\ \E r \in Blocks(o) :
                   /\ lrq' = [lrq EXCEPT ![r] =
                                IF "blocking" \in lrq[r].flags
                                THEN [lrq[r] EXCEPT !.flags = (@ \ {"blocking"}) \cup {"seen"}]
                                ELSE FreeLrq]
                   /\ own' = [own EXCEPT ![o].asts = IF lrq[r].ast THEN @ + 1 ELSE @]
                   /\ thr' = [thr EXCEPT ![t].ast = lrq[r].ast]
           \/ /\ own[o].count = 0 \/ Blocks(o) = {}
              /\ own' = [own EXCEPT ![o].flags = @ \ {"signaled"}]
              /\ thr' = [thr EXCEPT ![t].block = Nobody]
              /\ UNCHANGED lrq
        /\ UNCHANGED <<lbl, prc, mutex, work, call, poked, cancelled>>

AstReturns(t) ==
    /\ mutex = Nobody
    /\ thr[t].ast
    /\ own' = [own EXCEPT ![thr[t].block].asts = @ - 1]
    /\ thr' = [thr EXCEPT ![t].ast = FALSE]
    /\ mutex' = t
    /\ UNCHANGED <<lrq, lbl, prc, work, call, poked, cancelled>>

\* The blocking action thread of process p wakes up when its event is posted
\* and serves all signaled owners of the process.
BlockingThreadWakes(p) ==
    /\ mutex = Nobody
    /\ prc[p].alive /\ prc[p].blocking
    /\ thr[p] = AtRest
    /\ prc' = [prc EXCEPT ![p].blocking = FALSE]                \* eventClear
    /\ Goto(p, "loop")
    /\ mutex' = p
    /\ UNCHANGED <<lrq, lbl, own, work, call, poked, cancelled>>

\* Variant with a fault: one owner is served for each event.
ServesOneOwner(p) ==
    LET signaled == {o \in Registered(p) : "signaled" \in own[o].flags}
    IN  /\ thr[p].pc = "loop"
        /\ Proceeds(p)
        /\ \/ \E o \in signaled : thr' = [thr EXCEPT ![p].block = o, ![p].pc = "idle"]
           \/ signaled = {} /\ Goto(p, "idle")
        /\ UNCHANGED <<lrq, lbl, own, prc, mutex, work, call, poked, cancelled>>

blocking_action_thread(p) ==
    LET signaled == {o \in Registered(p) : "signaled" \in own[o].flags}
    IN  /\ thr[p].pc = "loop"
        /\ Proceeds(p)
        /\ \/ \E o \in signaled : thr' = [thr EXCEPT ![p].block = o]
           \/ signaled = {} /\ Goto(p, "idle")
        /\ UNCHANGED <<lrq, lbl, own, prc, mutex, work, call, poked, cancelled>>

-----------------------------------------------------------------------------
(* Deadlocks (deadlock_walk): who has to move before pending request r can. *)

\* Variant with a fault: the requests behind r are looked at.
BehindInTheWay(r) ==
    {b \in Requests(lrq[r].lock) \ {r} :
        IF lrq[r].state > LCK_null
        THEN ~Compatible(lrq[r].requested, lrq[b].state)
        ELSE /\ lrq[b].pos > lrq[r].pos
             /\ ~Compatible(lrq[r].requested, MaxLevel(lrq[b].state, lrq[b].requested))}

InTheWay(r) ==
    {b \in Requests(lrq[r].lock) \ {r} :
        IF lrq[r].state > LCK_null
        THEN ~Compatible(lrq[r].requested, lrq[b].state)
        ELSE /\ lrq[b].pos < lrq[r].pos
             /\ ~Compatible(lrq[r].requested, MaxLevel(lrq[b].state, lrq[b].requested))}

\* Owners that have ASTs to deal with, or yet to get, are not pursued.
Busy(b) ==
    \/ own[lrq[b].owner].flags \cap {"signaled", "wakeup"} # {}
    \/ Blocks(lrq[b].owner) # {}
    \/ "granted" \in lrq[b].flags

\* The pending requests the walk goes to from r: those of the owners in the
\* way that wait without a timeout.
WaitsFor(r) ==
    {q \in Request :
        /\ Pending(q) /\ "timeout" \notin lrq[q].flags
        /\ \E b \in InTheWay(r) : lrq[b].owner = lrq[q].owner /\ ~Busy(b)}

\* Everything the walk reaches from the requests in R.
Walk(R) ==
    {q \in Request :
        \A S \in SUBSET Request :
            (R \subseteq S /\ \A x \in S : WaitsFor(x) \subseteq S) => q \in S}

\* The walk stops at the first request it meets twice: one on a cycle.
deadlock_walk(r) == {v \in Walk({r}) : v \in Walk(WaitsFor(v))}

maybe_deadlock(r) == \E q \in Walk({r}) : \E b \in InTheWay(q) : Busy(b)

-----------------------------------------------------------------------------
(* Waiting (the loop of wait_for_request). *)

OwnFlags(t) == own[Home[t]].flags

\* The waiter finds its request granted or rejected, or goes to sleep.
WaitCheck(t) ==
    /\ thr[t].pc = "wait"
    /\ Proceeds(t)
    /\ \/ ~Pending(call[t].lrq) /\ Goto(t, "exit")
       \/ Pending(call[t].lrq) /\ "wakeup" \notin OwnFlags(t) /\ Goto(t, "sleep")
    /\ UNCHANGED <<lrq, lbl, own, prc, mutex, work, call, poked, cancelled>>

\* eventWait returns when the event is posted or a timer expires.  Either way
\* the waiter first takes the mutex and clears the event it has seen.
Wakes(t) ==
    /\ \/ thr[t].pc = "wait" /\ Proceeds(t) /\ UNCHANGED poked
       \/ thr[t].pc = "sleep" /\ mutex = Nobody /\ poked' = poked \ {t}
    /\ mutex' = t

WakesResolved(t) ==
    /\ thr[t].pc = "sleep"
    /\ ~Pending(call[t].lrq)
    /\ Wakes(t)
    /\ Goto(t, "exit")
    /\ UNCHANGED <<lrq, lbl, own, prc, work, call, cancelled>>

\* The wakeup was meant for another thread of the owner, or for nobody.
WakesBogus(t) ==
    /\ thr[t].pc = "sleep"
    /\ t \in poked
    /\ Pending(call[t].lrq) /\ "wakeup" \notin OwnFlags(t)
    /\ Wakes(t)
    /\ UNCHANGED <<lrq, lbl, own, prc, work, thr, call, cancelled>>

Awoken(t) == [own EXCEPT ![Home[t]].flags = @ \ {"wakeup"}]

\* Cancelled, or the lock timeout has expired: the waiter gives up.
GivesUp(t) ==
    LET r == call[t].lrq
    IN  /\ thr[t].pc \in {"wait", "sleep"}
        /\ Pending(r)
        /\ thr[t].pc = "wait" => "wakeup" \in OwnFlags(t)
        /\ t \in cancelled \/ call[t].mode = "timeout"
        /\ Wakes(t)
        /\ own' = Awoken(t)
        /\ lrq' = RejectedLrq(lrq, r)
        /\ lbl' = OnePendingLess(lrq[r].lock)
        /\ work' = [work EXCEPT !.probe = TRUE]
        /\ Goto(t, "exit")
        /\ UNCHANGED <<prc, call, cancelled>>

\* Woken by somebody who did not grant the request: tell the new blockers.
WakesPosted(t) ==
    /\ thr[t].pc \in {"wait", "sleep"}
    /\ Pending(call[t].lrq) /\ "wakeup" \in OwnFlags(t)
    /\ t \notin cancelled
    /\ Wakes(t)
    /\ own' = Awoken(t)
    /\ Goto(t, "blockage")
    /\ UNCHANGED <<lrq, lbl, prc, work, call, cancelled>>

\* The deadlock scan interval has passed.
WakesToScan(t) ==
    /\ thr[t].pc = "sleep"
    /\ Pending(call[t].lrq) /\ "wakeup" \notin OwnFlags(t)
    /\ t \notin cancelled
    /\ Wakes(t)
    /\ work' = [work EXCEPT !.probe = TRUE]
    /\ Goto(t, "scan")
    /\ UNCHANGED <<lrq, lbl, own, prc, call, cancelled>>

deadlock_scan(t) ==
    LET r == call[t].lrq
        scans == "scanned" \notin OwnFlags(t) /\ "timeout" \notin lrq[r].flags
    IN  /\ thr[t].pc = "scan"
        /\ Proceeds(t)
        /\ \/ /\ ~Pending(r)                     \* probe_processes resolved it
              /\ Goto(t, "exit")
              /\ UNCHANGED <<lrq, lbl, own, poked>>
           \/ /\ Pending(r) /\ scans
              /\ \E v \in deadlock_walk(r) :
                   LET o == lrq[v].owner
                       rescan == [own EXCEPT ![o].flags = @ \ {"scanned"}]
                   IN  /\ lrq' = RejectedLrq(lrq, v)
                       /\ lbl' = OnePendingLess(lrq[v].lock)
                       /\ own' = IF v = r THEN rescan ELSE post_wakeup(rescan, o)
                       /\ poked' = IF v = r THEN poked ELSE PokedBy(o)
              /\ Goto(t, "wait")
           \/ /\ Pending(r) /\ (scans => deadlock_walk(r) = {})
              /\ own' = IF scans /\ ~maybe_deadlock(r)
                        THEN [own EXCEPT ![Home[t]].flags = @ \cup {"scanned"}]
                        ELSE own
              /\ Goto(t, "blockage")
              /\ UNCHANGED <<lrq, lbl, poked>>
        /\ UNCHANGED <<prc, mutex, work, call, cancelled>>

\* The return from wait_for_request, and what its caller then does: a denied
\* enqueue releases the request, a denied conversion posts the requests it
\* may have held up, a granted conversion sets the new AST routine.
WaitEnds(t) ==
    LET r == call[t].lrq
        k == lrq[r].lock
        done == [lrq[r] EXCEPT !.flags = @ \ {"timeout"}]
    IN  /\ thr[t].pc = "exit"
        /\ Proceeds(t)
        /\ own' = [own EXCEPT ![Home[t]].waits = @ - 1]
        /\ \/ /\ "rejected" \in lrq[r].flags /\ call[t].op = "enqueue"
              /\ release_request(r)
           \/ /\ "rejected" \in lrq[r].flags /\ call[t].op = "convert"
              /\ lrq' = [lrq EXCEPT ![r] = [done EXCEPT !.requested = lrq[r].state]]
              /\ work' = [work EXCEPT !.pend = k]
              /\ UNCHANGED lbl
           \/ /\ "rejected" \notin lrq[r].flags
              /\ lrq' = [lrq EXCEPT ![r] = [done EXCEPT !.physical = call[t].level,
                                                        !.ast = call[t].ast]]
              /\ UNCHANGED <<lbl, work>>
        /\ Returns(t)
        /\ poked' = poked \ {t}
        /\ cancelled' = cancelled \ {t}
        /\ UNCHANGED <<prc, mutex>>

-----------------------------------------------------------------------------
(* The death of a process takes its threads away and frees the mutex; its   *)
(* blocks stay in the shared memory as they are.                            *)
ProcessDies(p) ==
    /\ p \in Mortal /\ prc[p].alive /\ prc[p].listed
    /\ prc' = [prc EXCEPT ![p].alive = FALSE]
    /\ thr' = [t \in Thread |-> IF t \in Threads(p) THEN AtRest ELSE thr[t]]
    /\ call' = [c \in Client |-> IF c \in Threads(p) THEN NoCall ELSE call[c]]
    /\ poked' = poked \ Threads(p)
    /\ cancelled' = cancelled \ Threads(p)
    /\ mutex' = IF mutex \in Threads(p) THEN Nobody ELSE mutex
    /\ work' = IF mutex \in Threads(p) THEN NoWork ELSE work
    /\ UNCHANGED <<lrq, lbl, own>>

\* Steps that a thread in the lock manager takes of itself.
Calling(c) ==
    \/ initializeOwner(c) \/ shutdownOwner(c) \/ enqueue(c)

AnyCalling(t) == convert(t) \/ downgrade(t) \/ dequeue(t) \/ repost(t)

Waiting(c) ==
    \/ EnqueueRequest(c) \/ post_blockage(c) \/ WaitCheck(c)
    \/ WakesResolved(c) \/ WakesBogus(c) \/ GivesUp(c) \/ WakesPosted(c)
    \/ WakesToScan(c) \/ deadlock_scan(c) \/ WaitEnds(c) \/ AstsDone(c)

Working(t) ==
    \/ release_shmem(t) \/ post_pending(t)
    \/ purge_owner(t) \/ purge_process(t) \/ probe_processes(t)
    \/ signal_owner(t) \/ PurgeUndelivered(t)
    \/ blocking_action(t) \/ AstReturns(t)

Next ==
    \/ \E c \in Client : Calling(c) \/ Waiting(c) \/ cancelWait(c)
    \/ \E t \in Thread : AnyCalling(t) \/ Working(t)
    \/ \E p \in Process : BlockingThreadWakes(p) \/ blocking_action_thread(p) \/ ProcessDies(p)

Spec == Init /\ [][Next]_vars

-----------------------------------------------------------------------------
(* Safety. *)

\* Requests granted on the same lock are pairwise compatible: what every user
\* of the lock manager relies on.  The code never compares requests with each
\* other, only with the highest granted level (lock_state).
GrantedCompatible ==
    \A r, q \in Request :
        (r # q /\ lrq[r].lock # Nobody /\ lrq[r].lock = lrq[q].lock)
            => Compatible(lrq[r].state, lrq[q].state)

\* The counters of a lock block are the truth about its queue (the CHECKs of
\* validate_lock): grants per level, the highest level, the number pending.
LockCountsExact ==
    \A k \in Key :
        /\ \A l \in 1..6 :
             lbl[k].counts[l] = Cardinality({r \in Requests(k) : lrq[r].state = l})
        /\ lbl[k].state = lock_state(lbl[k].counts)
        /\ lbl[k].pending = Cardinality({r \in Requests(k) : Pending(r)})

\* Whenever the lock table is free, the first request waiting for a lock could
\* not be granted, unless a waiter that has just been rejected is still to run
\* post_pending for those it held up.
NoMissedGrant ==
    mutex = Nobody =>
        \A k \in Key : \A r \in FirstPending(k) :
            Grantable(r) => \E c \in Client :
                /\ call[c].lrq \in Requests(k)
                /\ "rejected" \in lrq[call[c].lrq].flags

\* A waiter whose request has been granted or rejected by somebody else while
\* it sleeps has had its event posted (own_waits and OWN_wakeup are shared by
\* all threads of the owner).
NoLostWakeup ==
    \A c \in Client :
        (thr[c].pc = "sleep" /\ ~Pending(call[c].lrq)) => c \in poked

\* Blocking notices do not get stuck: for an owner with undelivered ones some
\* thread is delivering them or about to signal the owner, or the owner has
\* been signaled and its process's blocking action thread has been posted.
NoticesUnderWay ==
    \A o \in Owner :
        (mutex = Nobody /\ own[o].count > 0 /\ prc[ProcOf[o]].alive /\ Blocks(o) # {}) =>
            \/ \E t \in Thread : thr[t].block = o \/ o \in thr[t].todo
            \/ /\ "signaled" \in own[o].flags
               /\ prc[ProcOf[o]].blocking \/ thr[ProcOf[o]].pc = "loop"

\* When the first waiter of a lock sleeps, the requests it waits for have been
\* told so, are being told so or were told before (LRQ_blocking_seen).
BlockersKnow ==
    \A c \in Client :
        LET r == call[c].lrq
        IN  (/\ mutex = Nobody /\ thr[c].pc = "sleep" /\ c \notin poked
             /\ r \in FirstPending(lrq[r].lock)) =>
                \A b \in Notified(r) : "blocking" \in lrq[b].flags

\* The level a caller was told (lck_physical) is the level the table has for
\* its request, whenever the request is in no call.
PhysicalIsGranted ==
    \A r \in Request :
        (lrq[r].lock # Nobody /\ \A c \in Client : call[c].lrq # r)
            => lrq[r].physical = lrq[r].state

\* Only the owner's process takes a level away from a live owner, or changes
\* the level of a request that does not wait.
HeldIsKept ==
    [][\A r \in Request :
        LET o == lrq[r].owner
        IN  (o # Nobody /\ lrq[r].lock # Nobody /\ prc[ProcOf[o]].alive) =>
              \/ lrq'[r].owner = o /\ lrq'[r].state = lrq[r].state
              \/ mutex' \in Threads(ProcOf[o])
              \/ Pending(r) /\ lrq'[r].state = lrq[r].requested]_vars

\* A request block in use belongs to an owner that is registered: purge_owner
\* leaves none of its requests behind, granted, waiting or reposted.
PurgedOwnersAreClean ==
    \A r \in Request : lrq[r].owner # Nobody => own[lrq[r].owner].inuse

\* No AST routine runs for an owner that is gone: shutdownOwner waits until
\* the ones being delivered have returned.
NoAstForGoneOwner ==
    \A t \in Thread : thr[t].ast => own[thr[t].block].inuse

-----------------------------------------------------------------------------
(* Liveness.  A thread in the lock manager goes on, a thread that asks for  *)
(* the mutex gets it some time, and timers expire.  Clients need not call.  *)
Step(t) ==
    \/ Working(t)
    \/ t \in Client /\ Waiting(t)
    \/ t \in Process /\ (BlockingThreadWakes(t) \/ blocking_action_thread(t))

Fairness == \A t \in Thread : SF_vars(Step(t))

FairSpec == Spec /\ Fairness

\* Holders at rest release their locks some time.
ReleaseFairness == \A c \in Client : SF_vars(thr[c] = AtRest /\ dequeue(c))

ServedSpec == FairSpec /\ ReleaseFairness

\* Request b keeps request r waiting: it is granted at a level that r is not
\* compatible with, or, r being no conversion, it waits ahead of r.
KeepsWaiting(b, r) ==
    /\ lrq[b].lock = lrq[r].lock /\ b # r
    /\ \/ ~Compatible(lrq[r].requested, lrq[b].state)
       \/ lrq[r].state = LCK_none /\ Pending(b) /\ lrq[b].pos < lrq[r].pos

\* Client c is one of some clients that wait without a timeout, each for a
\* request of one of them.
InDeadlock(c) ==
    \E S \in SUBSET {d \in Client : call[d].lrq # Nobody} :
        /\ c \in S
        /\ \A d \in S :
             /\ Pending(call[d].lrq) /\ call[d].mode = "wait"
             /\ \E b \in Request, e \in S :
                  KeepsWaiting(b, call[d].lrq) /\ Home[e] = lrq[b].owner

\* No client stays in a deadlock: the scan finds it and rejects a request.
DeadlocksBroken == \A c \in Client : []<>~InDeadlock(c)

\* Every wait ends, granted or rejected.
WaitsEnd == \A c \in Client : (call[c].lrq # Nobody) ~> (call[c].lrq = Nobody)

=============================================================================
