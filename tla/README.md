# TLA+ models of Firebird: locks, latches and the physical backup

Firebird is a relational DBMS whose server may run as many processes on one
database (Classic, SuperClassic, embedded engines). What keeps those processes
out of each other's way is a *lock manager*: a table of locks in shared memory,
used by every cached page, transaction, relation, metadata object, backup and
shutdown of the engine. This project models that lock manager, the process-wide
read-write lock built on it, the physical backup that uses two such locks together
with the page cache, and the latch that threads of one process use. TLC checks
them, and TLAPS proves the main safety properties of each of the four for any
number of processes, owners, threads, requests, locks and pages. All source paths are
relative to the repository (`src/src/...` is the engine's source tree).

## 1. Inventory of the system

| part (source) | state it keeps | operations | who it interacts with |
|---|---|---|---|
| **lock manager** `lock/lock.cpp`, `lock/lock_proto.h` | shared memory: header, process (`prc`), owner (`own`), lock (`lbl`) and request (`lrq`) blocks in doubly linked queues; one mutex; an event per owner and per process | initialize/shutdownOwner, enqueue, convert, downgrade, dequeue, repost, cancelWait, lock data; blocking action thread; deadlock scan; purge of dead processes | called by lck.cpp; calls AST routines back without the mutex; reads process existence from the OS |
| **engine side of locks** `jrd/lck.cpp` | `Lock` objects (`lck_id`, `lck_physical`, `lck_logical`), a hash of compatible locks per process | LCK_lock, convert, downgrade, release, re_post, AST dispatch | engine above, lock manager below |
| **global read-write lock** `jrd/GlobalRWLock.cpp/.h` | counters of readers, writers, threads in LCK_lock; cached level; flag `blocking`; two conditions | lockRead/Write, unlockRead/Write, tryReleaseLock, shutdownLock, blocking AST | lck.cpp; used by nbak.cpp and others |
| **physical backup** `jrd/nbak.cpp/.h` | backup state (normal, stalled, merge), allocation table of the difference file | begin/endBackup, actualizeState/Alloc, page I/O hooks | two GlobalRWLocks, page cache, header page |
| **page cache** `jrd/cch.cpp` | buffers, latches, precedence graph | fetch, mark, write, precedence, AST | lock manager (page locks), I/O |
| **transactions** `jrd/tra.cpp`, `jrd/tpc.cpp` | inventory pages, state cache, oldest counters | start, commit, rollback, prepare, sweep | lock manager, page cache |
| **record versions** `jrd/vio.cpp`, `Savepoint.cpp`, `GarbageCollector.cpp` | version chains, undo, collector's bitmap | store, modify, erase, backout, garbage collection | transactions, page cache |
| **pages, indices** `pag.cpp`, `dpm.epp`, `btr.cpp` | page inventory, pointer pages, B-trees | allocate, release, insert, split | page cache |
| **events** `jrd/event.cpp` | sessions, interests and events in shared memory | que, cancel, post, deliver | processes through events |
| **encryption** `CryptoManager.cpp`, **shutdown** `shut.cpp`, **shadows** `sdw.cpp`, **monitoring** `Monitoring.cpp` | database-wide modes over locks | change of mode, AST | lock manager |
| **synchronization** `common/classes/SyncObject.cpp`, `common/isc_sync.cpp` | lock word and wait queue; shared memory, mutexes, events | lock, unlock, downgrade; eventPost/Wait | everything |
| **the rest** dsql, remote, yvalve, auth, plugins, intl, isql, burp, alice, utilities, gpre, qli, msgs, iscguard | sequential or I/O | - | - |

`extern/`, `examples/`, `builds/` and `doc/` are vendored, sample or build material.

Hard behaviours, and what makes each part correct:

* *Lock manager.* Everything happens under a mutex, but the mutex is given up
  while a waiter sleeps, while an AST routine runs and while a shutdown waits for
  ASTs; a process may die anywhere. Correct means: granted requests are
  compatible; counters agree with queues; nobody sleeps on a request that is
  decided or grantable; a holder learns that it blocks; deadlocks are broken; the
  dead leave nothing behind and the living lose nothing.
* *Global read-write lock.* Three layers of waiting (conditions, LCK_lock, the
  remote holder) and a notice that may come at any time. Correct means: mutual
  exclusion across processes although most calls use only the cached level; no
  notice lost; every call returns.
* *Physical backup and page cache.* A database-wide state is cached in every
  process, protected by a lock that an AST takes away while pages are dirty; a page
  is in one of two files, or in both; a process may die between any two writes.
  Correct means: a read finds the last version written, the files alone hold it at
  any time, the main file does not change while it is being copied, and an
  incremental copy misses nothing.
* *SyncObject.* Two atomic counters used without the mutex, a queue used under it,
  timeouts. Correct means: the counters agree with holders and waiters, nobody
  sleeps in front of a free lock.
* *Transactions, precedence of page writes, events, encryption.* Cached
  state invalidated by ASTs, crash between two page writes, queues of waiters;
  see the plan, section 9, and the hazards of `PROJECT.json`.

## 2. Modules

| module | contents |
|---|---|
| `LockManager.tla` | the lock manager as a state machine, its properties, faulty variants of definitions used to test the properties |
| `LockTableProofs.tla` | lemmas about levels, counters, queue positions and about each effect on the blocks (release, grant, wait, reject, ...) |
| `LockManagerProofs.tla` | the inductive invariant of the lock manager, one lemma per action, the theorems about the state of the table |
| `LockWaitProofs.tla` | theorems about waiting: grants, wakeups, notices, levels kept and known |
| `Queue.tla`, `QueueProofs.tla` | waiting queues as sequences that members leave at any place, and lemmas about them |
| `GlobalRWLock.tla` | the read-write lock over an abstract lock manager of one lock |
| `RWLockSpec.tla` | what a read-write lock promises: readers together, a writer alone; no processes, counters or messages |
| `NBackup.tla` | physical backup with the state lock, the table of the delta and the page cache |
| `SyncObject.tla` | the latch, one step per access to a counter |
| `GlobalRWLockProofs.tla`, `SyncObjectProofs.tla` | inductive invariant, safety theorems and refinement of `RWLockSpec`, for each of the two |
| `NBackupStateProofs.tla`, `NBackupProofs.tla` | inductive invariant of the physical backup; steps that leave the files alone, and the rest with the theorems |
| `MCLockManager.tla`, `MCGlobalRWLock.tla`, `MCNBackup.tla`, `MCSyncObject.tla` | instances for TLC: which thread belongs to which owner and process, symmetries |

`GlobalRWLock` contains the promise of the lock manager in six short actions
(`LmEnqueue` ... `LmDeliver`): FIFO queue, compatible grants, a notice to each
holder in the way. What `LockManager` is shown to do (GrantedCompatible,
NoMissedGrant, NoticesUnderWay, BlockersKnow, WaitsEnd) is what these six
actions assume of it; a formal refinement between the two is in the plan.

`GlobalRWLock` and `SyncObject` both instantiate `RWLockSpec` with a mapping of
what each thread has (`mode`) and are shown to implement it (`IsOneLock`).
`NBackup` uses this result: its stateLock is one lock, without the threads inside
a process, and its page latches are read-write locks.

### 2.1 LockManager and the code

State. `lrq`, `lbl`, `own` and `prc` are the blocks of shared memory. The queues
are functions of the blocks: a request is on its lock's queue at place `pos`, on
`own_requests` if it has a lock, on `own_pending` if it has the flag *pending*,
on `own_blocks` if it has *blocking* or *repost* (the code changes queue and flag
together). `mutex` is the shared-memory mutex with its holder; `work` says in
which loops under the mutex the holder is (`post_pending` of a lock inside
`purge_owner` inside `purge_process` inside `probe_processes`); `thr` is the
control state of a thread: where it is, the owners it still has to signal
(`todo`) and processes to purge (`dead`), the owner whose ASTs it is delivering
(`block`) and whether the AST routine is running (`ast`). `call` holds the
arguments of the enqueue or convert a client is in. `poked` is the event
`own_wakeup` as each waiter sees it, `cancelled` the cancel state of a thread.
`physical` in a request block is the level its caller was told (`lck_physical`
of lck.cpp); it is history, no action reads it.

Granularity. A step is one call up to its first loop, one iteration of a loop, or
one piece between giving up and taking the mutex. `release_shmem` is possible
only when nothing is left to do, so loops under the mutex run to their end unless
the process dies. This is also the granularity of deaths: between any two
iterations, not within one.

| action | code |
|---|---|
| `initializeOwner`, `shutdownOwner`, `AstsDone` | initializeOwner with create_owner, shutdownOwner with its waiting loop |
| `enqueue`, `EnqueueRequest`, `grant_or_que` | enqueue: prior request released (with its post_pending), then allocation, grant, denial or wait |
| `convert`, `downgrade`, `internal_convert`, `dequeue`, `repost`, `cancelWait` | the calls of these names |
| `wait_for_request`, `post_blockage`, `WaitCheck`, `Wakes...`, `GivesUp`, `deadlock_scan`, `WaitEnds` | wait_for_request piece by piece, and what its callers do after it |
| `signal_owner`, `PurgeUndelivered` | second and third loop of post_blockage |
| `blocking_action`, `AstReturns`, `BlockingThreadWakes`, `blocking_action_thread` | AST delivery by a client of the process or by its blocking action thread |
| `post_pending`, `purge_owner`, `purge_process`, `probe_processes` | loops that keep the mutex |
| `ProcessDies` | the operating system: the threads are gone, the mutex is free, the blocks stay |

AST routines are arbitrary code of the engine; while one runs, the thread may
call `convert`, `downgrade`, `dequeue` and `repost` for its owner, or nothing.

`deadlock_walk` is a depth-first search with marks; the model has the set it
computes: the requests on a cycle reachable from the scanning one. The search
returns the first it meets twice, the model any of them.

Assumptions about callers, all taken from how lck.cpp calls: a request in
`wait_for_request` is not used by other threads; the last shutdown of an owner
comes when its threads are in no call; AST routines do not wait; an AST routine
reposts for its own owner, which is signaled meanwhile; owner ids are unique, so
that create_owner's search for a previous instance finds none; levels asked for
are LCK_null or higher, so that a request that is held has a level and the move to
the queue's end of a conversion from LCK_none never happens.

Abstractions: keys are values; hash chains, free lists, allocation and remapping
are the pools `Request` and `LblCapacity`; the owners collected by post_blockage
are a set (the code's array has them in queue order, with repetitions that the
flag OWN_signaled makes harmless); time is a choice between waking up and going
on sleeping; history, statistics and tracing are left out.

### 2.2 GlobalRWLock and the code

`rw[p]` is the object of process p (field names as in the header, `physical` is
`cachedLock->lck_physical`); every scope of `counterMutex` is one step. `th` has
the place of each thread: in the waits of lockWrite (`noReaders`,
`writerFinished`), of lockRead (`readerWaits`, `yield`), in LCK_lock (`enqueue`,
`queued`, `granted`, `denied`, `locked`) or with the lock (`reader`, `writer`).
`lm` and `queue` are the lock manager; a denied or timed-out request leaves
`queue` at any place (`Without` of `Queue`). The AST is in two steps: it is called
(`LmDeliver`), then it gets counterMutex (`blockingAstHandler`); anything may
come between. `Guarded` says whether callers take a read-write lock of their own
process first, as nbak.h prescribes ("must be acquired before global stateLock");
`Spurious` whether condition waits may return unasked. After `shutdownLock` a
process is closed for good. `tryReleaseLock` is called by a thread that has the
process's own lock for itself (unlockStateRead, endBackup); this is its guard
`Alone`.

### 2.3 NBackup and the code

`bm[p]` is the BackupManager of a process: backup_state and current_scn as cached,
whether the table of the delta is loaded (`loaded`, `table`), `allocIsValid`,
`open` for diff_file, `master`, `flush` for flushInProgress, `stateBlocking`, and
of the two GlobalRWLocks the cached level, the flag `blocking` and whether the
holder was notified (`told`, LRQ_blocking_seen). localStateLock is a function of
the rest: its readers are threads with a StateReadGuard and pages with
BDB_nbak_state_lock, its writer a thread with a StateWriteGuard. `buf[p]` are page
buffers with their lock, `half` between the two writes of a page. `main` and
`delta` are the files; `stored` and `snap` are history: what was last written of a
page, and the main file when the last backup began.

| action | code |
|---|---|
| `lockStateRead`, `StateRead`, `unlockStateRead` | the functions in nbak.h, with GlobalRWLock::lockRead and NBackupStateLock::fetch and invalidate |
| `AstCalled`, `AstOfMaster`, `AstFlushes`, `AstFlushed`, `AstTries` | NBackupStateLock::blockingAstHandler, with a step wherever it is without counterMutex |
| `FetchLock`, `CCH_fetch_page` | CCH_fetch_lock with lock_buffer, then the read under the state lock |
| `MarkLocks`, `CCH_mark` | CCH_mark with set_diff_page, allocateDifferencePage in the stalled state |
| `CCH_release`, `write_page`, `PageAst` | the functions of these names, blocking_ast_bdb; one step per file written |
| `beginBackup` ... `Stalled`, with `FlushDone`, `BeginsWrite`, `StateWrite`, `LeavesWrite` | beginBackup and StateWriteGuard, its failures included |
| `endBackup`, `ChecksState` ... `Finishes` | the three steps of endBackup, its failures included, and its recover mode |
| `Death`, `Restart`, `initializeAlloc` | a process dies; the next attachment opens the database, reads the table and calls endBackup with recover |
| `PageDenied`, `StateDenied` | the lock manager breaks the deadlock between page lock and state lock |
| `FetchFails` | PIO_read on a delta that is not open: a thread whose lock StateRead has invalidated at once (GlobalRWLock's `blocking`) goes on in CCH_fetch_page with the state unknown, if assertions are off, and looks for the page in the delta |

Two constants say what an instance leaves out since the code does not survive it
(section 5): `Overlap`, may two processes be in beginBackup or endBackup at once,
and `Torn`, may a process die between the two writes of a page while another one
merges. Nothing in the code excludes either. NBackup is the instance with both
FALSE and one controller; section 5 shows what happens with each of them TRUE; the
theorems hold for any values of the two, and speak of single steps instead
(section 6.5).

### 2.4 SyncObject and the code

lockState, waiters, monitorCount, exclusiveThread and waitingThreads are the
members; `mutex` is held over several steps, since threads change the counters
without it meanwhile. A step is one access to a counter that others can see: a
compare and exchange is split into the read of lockState (`TestState`,
`ReadState`) and the exchange that may fail. `Wakes` covers a wakeup left over
from an earlier grant and every way to use up the timeout. A thread locks only
what it has not got, or has exclusive: this is an assumption about callers, since
no assertion of the code would notice a thread that locks shared twice.
`dequeThread` of the doubly linked list is `Without`. The
constant assumption of the module bounds the number of threads by `WRITER_INCR`:
`waiters` has 16 bits for readers (READERS_MASK), and with more of them queued than
that they would be taken for a writer.

## 3. Properties

Lock manager: `GrantedCompatible`, `LockCountsExact` (what validate_lock checks
in debug builds), `NoMissedGrant`, `NoLostWakeup`, `NoticesUnderWay`,
`BlockersKnow`, `PhysicalIsGranted`, `HeldIsKept` (action property),
`PurgedOwnersAreClean`, `NoAstForGoneOwner`,
`DeadlocksBroken`, `WaitsEnd`. Read-write lock: `Exclusive`, `NoticeRemembered`,
`IsOneLock` (refinement of RWLockSpec), `CallsReturn`. Physical backup: `Fresh`,
`Recoverable`, `StateKnown`, `MainFrozen` (action property), `IncrementalSees`,
`TableCurrent`, `WorkGoesOn`. SyncObject: `WaitersCount`, `StateCounts`,
`NoLostWakeup`, `IsOneLock`. Each module has one `TypeOK`. The comment above each
definition states it in words.

## 4. Runs that pass

| run | instance | checks | states |
|---|---|---|---|
| LMNotices | 3 owners in 2 processes (two of them share one, so local and remote delivery both occur), EX, enqueue/dequeue with ASTs | NoticesUnderWay, BlockersKnow, NoLostWakeup | 576 000 |
| LMConvert | 2 owners in 2 processes, 3 requests, SR, PR, SW; enqueue, dequeue, convert; with wait, with a timeout, without wait; no ASTs | TypeOK, GrantedCompatible, LockCountsExact, NoMissedGrant, PhysicalIsGranted | 668 000 |
| LMLifecycle | owners come and go, count up to 2, repost, downgrade, re-enqueue, two keys but room for one lock block; the second process may die anywhere | NoAstForGoneOwner, PurgedOwnersAreClean, HeldIsKept | 1 090 000 |
| LMDeadlock | 2 owners, 2 keys, EX | DeadlocksBroken (liveness) | 58 000 |
| LMServed | 2 owners, PR and EX, with ASTs and cancelled waits | WaitsEnd (liveness) | 53 000 |
| RWShared | 2 + 1 threads, no guard, read, queue-jumping read, write, release of an idle lock, shutdown, every kind of wait | TypeOK, Exclusive, NoticeRemembered, IsOneLock | 457 000 |
| RWLive | 3 processes of one thread | CallsReturn (liveness) | 53 000 |
| NBackup | 2 processes of one thread, one page and the header page; 2 changes, 3 calls of beginBackup or endBackup, 1 death: of the process that backs up anywhere, of the other where it is denied the state lock | TypeOK, Fresh, Recoverable, StateKnown, IncrementalSees, TableCurrent, MainFrozen | 1 660 000 |
| SyncObject | 3 threads; timeouts none, some, for ever; one recursive lock | TypeOK, WaitersCount, StateCounts, NoLostWakeup, IsOneLock; deadlock | 585 000 |

Bounds. Three request blocks on one lock are the smallest number with a holder, a
first waiter and one behind it; three owners in two processes have every case of
same owner, same process, other process; two keys are needed for a deadlock or
for a shortage of lock blocks. Levels are chosen so that each run has the pairs
its question needs: EX for exclusion, PR/EX for sharing, SW/PR for levels that
are not ordered by strength. `MaxCount`, `MaxRepost` and `LblCapacity` bound
own_count, the repost blocks of an owner and the room in shared memory. Request
blocks are interchangeable (symmetry), likewise threads of one process that do
not differ in a safety run; liveness runs use no symmetry. Deadlock is checked in
all runs of the lock manager, in RWLive and in SyncObject. RWShared may stop, since
all processes may be shut down, and the unguarded lock can hang (section 5). It has
no spurious wakeups, which break the unguarded lock; with `Guarded` and `Spurious`
both TRUE its four properties hold, too (110 000 states).
The constant `Caching` is TRUE in all runs, as it is for both locks of the backup.

In NBackup two processes of one thread have every case of the state lock: the AST
of a process that is not master, the master's own, the process that dies and the
one that goes on. Two threads of one process exclude each other by localStateLock
and the latch, which are modelled, but two more threads are out of reach. Three
calls are a whole backup and the begin of the next, so that a process can miss a
cycle. With both processes mortal the properties hold as well, for three calls
(about 2 650 000 states) and for four, two whole backups (about 7 370 000 states); these take
minutes more than a run should. Two
changes give a page a version before the backup and one during it. The run may
stop for the reason that NBStuck shows; therefore deadlock is not checked.
Three threads in SyncObject are a holder, a waiter and one who comes between them,
or a writer between two readers of the queue.

Fairness. `LockManager!Fairness` is strong fairness of the steps each thread
takes in the lock manager of itself: the mutex is released again and again, and
the operating system's mutex does not starve a thread for ever; timers of waits
expire. Strong is needed since the mutex is taken and freed by others in between.
Clients need not call anything; `ReleaseFairness`, used for WaitsEnd only, says
that a client at rest releases its locks some time, which is what the lock
manager asks of its callers. `GlobalRWLock!Fairness` is weak fairness of threads,
of the lock manager's queue and of AST delivery, and that a lock taken is given
back; timeouts need not expire. `NBackup!FairSpec`, used by NBStuck, is weak
fairness of every thread that is in a call and of ASTs and page writers: the
operating system runs threads that can run, and the lock manager delivers ASTs
(NoticesUnderWay). Nobody has to start a call.

## 5. Runs that show a disagreement

Each of these runs checks one property and TLC finds it violated; `findings` in
`PROJECT.json` quotes the line of the repository that says otherwise.

* **LMUndetected**: waiting behind a *compatible* waiter is no edge for
  deadlock_walk. Owner A holds PR, owner C waits for SW, then A asks for SR: it
  is compatible with both, but queues behind C, who waits for A.
* **NBStuck**: the AST of the state lock tests `isMaster`, flushes, and tries to
  get localStateLock. If a thread of the same process calls beginBackup or
  endBackup meanwhile and has a StateWriteGuard by then, the AST only sets
  stateBlocking. ~StateWriteGuard does not look at it (unlockStateRead does), and
  the lock manager does not notify twice: the other process waits until some
  thread of this one takes the state lock for reading again.
* **NBTorn**: in the merge state a page is written to the delta, then to the main
  file. A process that dies in between, while another one merges, leaves a page
  whose SCN says that it has been merged; the merge skips it and removes the delta.
  If the merging process itself dies, recovery raises the SCN and everything is
  merged again, which is why Recoverable holds in NBackup.

More things were seen while modelling and decide what the runs assume:

* `downgrade` of the lock manager returns the level it asked internal_convert for,
  also when that was refused (SW is numerically above PR, but PR conflicts with
  other holders of SW). PhysicalIsGranted is therefore checked without downgrade;
  conversions, whose callers do look at the result, keep it (LMConvert).
* Two threads may be in blocking_action for one owner, which the comment at
  lock.cpp:1408-1410 excludes. The proofs and the runs show that this is harmless
  for the properties above.
* The AST of a process that is master looks neither at localStateLock nor at dirty
  pages, since its caller is supposed to be the only master; but nothing makes sure
  of that. Of two processes that call beginBackup at the same time, the first
  has its AST called while it still flushes its cache: it gives the state lock up,
  and the state is unknown. The second one writes *stalled* into the header page.
  Then write_page of the first writes its page to the main file, which is what it does
  unless it knows that the state is stalled or merge (cch.cpp:4867-4886; only the
  assertion at 4829 objects), although nbak.h:131-132 says that "the main files are
  read-only". With NBackup.cfg changed to `Overlap = TRUE`, `Controllers = {c1, c2}`,
  `Mortal = {}`, `MaxDeaths = 0`, `MaxCalls = 2` TLC finds within seconds StateKnown
  violated after 20 steps, MainFrozen after 22 and IncrementalSees after 23. An
  attachment that recovers in endBackup while another process begins a backup can
  take the place of one of the two. This is why the run NBackup has `Overlap` FALSE.
* The third step of endBackup drops the table and relies on
  NBackupAllocLock::invalidate for `allocIsValid`, which tryReleaseLock calls only
  if the process has allocLock. MergeStarts sets the flag without that lock
  (actualizeAlloc is called with haveGlobalLock TRUE, nbak.cpp:701), so it stays set
  on a process without a table. In the merge state of a later backup that another
  process ends, getPageIndex (nbak.cpp:729) takes the empty table for valid, returns
  0, and the page is read from the main file though its last version is in the
  delta. TLC finds Fresh violated after 124 steps with two controllers, three
  changes and four calls, more than a run can search; the theorems of section 6.5
  name the step (`Misled`).
* The header page with which endBackup changes the state to merge is itself written
  to the delta and then to the main file if it is in the table. A process that dies
  in between leaves a delta whose header page has a higher SCN than the main file's,
  and the state is read from the main file (actualizeState); the next endBackup
  gives the same SCN to pages again (`HeaderWhole` in section 6.5).
* nbak.h:133-136 says that in the merge state writes go to the main file and reads
  compare both versions. The code writes mapped pages to both files and reads the
  delta; the model follows the code. Likewise the page lock is not requested under
  the state lock, as nbak.h:152 says, but before it (cch.cpp:714): hence
  `PageDenied` and `StateDenied`.
* A process that dies after a request has left the queue and before post_pending
  leaves a waiter that could be granted: purging the process finds nothing more
  to release on that lock. WaitsEnd is therefore checked without deaths.
* post_blockage may go on to an owner that was purged while an AST ran, because
  purge_owner does not reset own_count.
* The read-write lock without the caller's own lock can lose a wakeup: lockWrite
  waits on writerFinished because a reader is in LCK_lock, and a reader notifies
  nobody when it is done; a spurious wakeup there would break the assertion that
  follows; and a denied last writer does not wake the readers that waited for it.
  The guard that nbak.h prescribes keeps readers out while a writer of the process
  is in lockWrite.
* Readers of one process that overlap keep the cached lock as long as they
  overlap while a writer of another process waits, guarded or not. RWLive has one
  thread in each process, where this cannot happen.

## 6. Proofs

### 6.1 The lock table

`LockManagerProofs` proves, from the assumption `Constants` of `LockManager`
alone (finite sets of requests, clients and processes, names distinct):

| theorem | states |
|---|---|
| Invariant | Spec => []IInv |
| TypeCorrect | Spec => []TypeOK |
| Compatibility | Spec => []GrantedCompatible |
| CountsAreExact | Spec => []LockCountsExact |
| PurgeIsComplete | Spec => []PurgedOwnersAreClean |
| AstsHaveOwners | Spec => []NoAstForGoneOwner |

None of the properties is inductive alone. That a grant keeps requests compatible
needs `lbl.state` to be the highest level held, which needs exact counters; that
counters stay natural numbers needs that what is taken off was counted, for
`own_waits` and `own_ast_count` as well; that a purge keeps all this needs that no
thread still works with the purged owner's requests. So the invariant ties blocks
to what threads are doing:

* `Table`: types of the blocks, exact counts, compatible grants, requests off a
  lock neither granted nor waiting;
* `ControlTypes`, `WorkSound`, `DeliversAtHome`: who has the mutex and in which
  loops, ASTs are delivered by threads of the owner's process;
* `WaitersSound`, `PendingOwned`: a client in a wait has a request of its owner on
  the lock it asked for, different clients different ones, and every pending
  request of a living process is waited for;
* `DeadAtRest`, `ShutIsUnused`: threads of dead processes do nothing, no thread is
  in a call for an owner whose count is zero, which is why a purge never takes a
  request away under a waiter;
* `Counted`: own_waits and own_ast_count are the numbers of waiting and delivering
  threads as long as the process lives;
* `GoneIsQuiet`, `ShutdownsSound`, `BlocksSound`: an owner that is gone has no
  requests, no AST running and no shutdown under way.

`LockTableProofs` has the facts about effects (for example that
`release_request` keeps `Table`), `LockManagerProofs` one lemma per action and
group of conjuncts, and the induction.

### 6.2 Waiting and being told

`LockWaitProofs` goes on from there:

| theorem | states |
|---|---|
| HeldKept | Spec => HeldIsKept |
| WakeupsKept | Spec => []NoLostWakeup |
| GrantsNotMissed | Spec => [](Deathless => NoMissedGrant) |
| NoticesKeptUnderWay | Spec => [](Deathless => NoticesUnderWay) |
| LevelsKnown | "downgrade" \notin Calls implies Spec => [](Deathless => PhysicalIsGranted) |

`Deathless` says that every process is alive; since the dead stay dead, it means
that none has died so far. The first two theorems hold whoever dies. The other
three stop at the first death, for a reason in the code each time: a process that
dies with the mutex, between a change of a lock and the post_pending that goes with
it, leaves a grant missed; one that dies between the marking of blockers in
post_blockage and signal_owner leaves them untold; and for a dead caller
nobody keeps `lck_physical`. Downgrade is excluded because what it returns is
wrong when its conversion is refused (section 5).

The argument is by *shapes*. Whatever the action, a step does one of a dozen things
to the request blocks: nothing apart from marks for notices (`Unmoved`), a request
leaves (`Leaves`), a new one is granted or waits (`NewGranted`, `NewWaits`), one is
converted, refused a conversion or waits for it (`Converted`, `Refused`,
`ConversionWaits`), post_pending grants the first waiter or finds none to grant
(`Served`, `PostingEnds`), a waiter is rejected (`IsRejected`) or comes back from
its wait (`WaitIsOver`), or a process dies (`Death`). `NextShaped` proves this once,
action by action; each property is then proved shape by shape. Notices are not
covered by shapes, so NoticesUnderWay has a lemma for each action that touches
them and one for all that do not (`NoticesKept`).

What each theorem needs beyond `IInv`:

* HeldKept: `PurgesAtHome`, an owner of a living process is purged by its own
  process only (shutdownOwner), never by a scan for dead processes;
* GrantsNotMissed: `Ordered`, the places of a lock's requests are 1, 2, ... without
  gaps, so that there is one first waiter and removing somebody else does not change
  who it is; and `NotMissed`, the property with the lock under `post_pending`
  excepted, in every state and not only when the mutex is free;
* LevelsKnown: `Known`, which says what `physical` is while its request waits, is
  granted by somebody else, or is rejected;
* NoticesKeptUnderWay: `Told`, which adds why OWN_signaled is not left on: as
  long as it is, somebody delivers or the blocking action thread has been posted.

### 6.3 The read-write lock

`GlobalRWLockProofs`, for any number of processes and of threads in each:

| theorem | states |
|---|---|
| CountersRight | Spec => []Counting |
| TypeCorrect | Spec => []TypeOK |
| Invariance | Disciplined implies Spec => []IInv |
| Exclusion | Disciplined implies Spec => []Exclusive |
| NoticesRemembered | Disciplined implies Spec => []NoticeRemembered |
| Refinement | Disciplined implies Spec => IsOneLock |

`Disciplined == Guarded \/ ~Spurious`: callers take their process's own lock first,
as nbak.h prescribes, or no condition wait returns unasked. Without either the
lock does not keep its promise (a writer goes on past `writerFinished` while a
reader of its process is in LCK_lock, section 5), so there is nothing to prove;
that the counters count (`Counting`) holds regardless.
The invariant has the counters (`CountsRight`, `Roles`, `OneBusy`), who may be where
inside a process (`BusyAlone`, `GuardedAlone`, `NotifiedReady`), and how the
cached level agrees with the lock manager (`LevelsKnown`: what a thread believes
when it comes back from LCK_lock; `HeldAgree`: grants to different processes are
compatible; `Remembered`: a notice is kept in `blocking`, with a thread that will
look at it). Exclusion across processes follows from `HeldAgree`, within one from
`OneBusy` and `BusyAlone`.

### 6.4 The latch

`SyncObjectProofs`, for any number of threads below WRITER_INCR:

| theorem | states |
|---|---|
| Invariance | Spec => []IInv |
| TypeCorrect | Spec => []TypeOK |
| WaitersRightly | Spec => []WaitersCount |
| StateRightly | Spec => []StateCounts |
| WakeupsKept | Spec => []NoLostWakeup |
| Refinement | Spec => IsOneLock |

The properties speak of moments when the mutex is free or nobody is granting. The
invariant has to say what the counters are in between: `WaitersRight` counts the
queue and whoever has added itself and is not in it yet; `StateRight` adds `Owed`,
the readers that grantLocks has counted in lockState and is still to take off the
queue; `HeadKnown` says that grantLocks still has the queue it decided on;
`OwnerKnown` ties exclusiveThread to the thread that has the lock or has been
granted it and does not know. `Woken` is the reason for WakeupsKept: when lockState
is zero and somebody queues or is about to, some thread (`Wakener`) is on its way
into grantLocks, or has read a lockState that makes it go on.

In both refinements a step of the detailed module changes the mode of one thread at
most: a thread that grantLocks has let in has the lock, as far as `RWLockSpec` is
concerned, when it comes back from its wait. That it may have it then is not read
off the guards (compare and exchange, cached level), which know counters only, but
off exclusion in the state after the step, which the invariant gives.

`QueueProofs` has what both use of queues. `Without` is a recursive function, so
that its properties can be proved without an induction theorem: the least place
where they fail would have a predecessor where they hold.

### 6.5 The physical backup

`NBackupProofs`, for any numbers of processes, pages, changes, backups and deaths, and
of processes in beginBackup and endBackup at a time:

| theorem | states |
|---|---|
| Invariance | for every set W: Spec /\ [][KeepsState]_vars /\ [][Spares(W)]_vars => []IInv(W) |
| StateInvariance | Spec /\ [][KeepsState]_vars => []IInv({}) |
| TypeCorrect | Spec /\ [][KeepsState]_vars => []TypeOK |
| AlwaysKnown | Spec /\ [][KeepsState]_vars => []StateKnown |
| TablesCurrent | Spec /\ [][KeepsState]_vars => []TableCurrent |
| IncrementalBackup | Spec /\ [][KeepsState]_vars => []IncrementalSees |
| StaysFrozen | Spec /\ [][KeepsState]_vars => MainFrozen |
| HarmContained | for every W: Spec /\ [][KeepsState]_vars /\ [][Spares(W)]_vars => [](pages of W are fresh and found) |
| ReadsFresh | Spec /\ [][KeepsState]_vars /\ [][Spares(AnyPage)]_vars => []Fresh |
| AlwaysRecoverable | Spec /\ [][KeepsState]_vars /\ [][Spares(AnyPage)]_vars => []Recoverable |

each under `Classic`: every process has one thread, as in the Classic architecture,
which is where several processes share a database file. Threads of one process share
the state that the invariant describes thread by thread.

The code does not keep these properties for ever: section 5 has the ways in which
it breaks them. None of the theorems says that it does. They say *which single
steps* can be the beginning of a violation, and that there are no others. The
hypotheses exclude these steps, not the situations that lead to them:

| hypothesis | step it excludes | code | where seen |
|---|---|---|---|
| KeepsState, by `HeaderWhole` | a process dies between the two writes of the header page with which endBackup changes the state | cch.cpp:4867-4886 | section 5 |
| KeepsState, by `GivesUp` | an AST of a master gives stateLock up in use: at once, or by the flag `blocking` as soon as LCK_lock returns | nbak.cpp:104, GlobalRWLock.cpp | section 5 |
| Spares(W), by `Tears` | a process dies between the two writes of a page of W while another one merges | cch.cpp:4867-4886 | NBTorn |
| Spares(W), by `Misled` | a page of W is looked up in the merge state with allocIsValid set and no table | nbak.cpp:729 | section 5 |

All conclusions are safety properties. A behaviour that has such a step can be cut off
before it and go on stuttering, so that each theorem says: the property holds in
every behaviour *up to the first such step*. Two masters at once, deaths
elsewhere, in particular at any other place of the merge, and dropped tables
that nobody uses need no hypothesis.

What follows for the faults of section 5:

* They are independent. However many pages are torn or misread, no process is wrong
  about the state (AlwaysKnown), the main file stays frozen
  (StaysFrozen), tables are right (TablesCurrent), and an incremental backup
  copies what has changed (IncrementalBackup): these need KeepsState only.
* Damage stays with the page it is done to (HarmContained, with W the pages that
  nobody has torn or misread): each of the others has its last version in the files
  and in every clean buffer.
* A program without the four steps, with one master at a time, `allocIsValid` reset
  where the table is dropped, and a way to tell a half written page, would have all
  properties without a condition, as far as the model goes.

In the run NBackup no step is `GivesUp` or `Tears` (with one controller and `Torn`
FALSE; TLC confirms it), and its properties hold in all of its states, also after
the other two kinds of steps, for which its bounds leave too little room. `MaxChanges`,
`MaxCalls` and `MaxDeaths` are any natural numbers in the theorems; overflow apart, no
bound is assumed.

What `IInv(W)` says of the *contents* of pages (in `CacheOK`, `DiffOK`, `Files` and
`Merging`) it says of the pages of W only; the rest, of states, locks, tables, SCNs and
the header page, does not depend on W.
With W empty this is enough for the first group of theorems, and no page has to be
spared for it to be inductive.

The invariant is a conjunction of predicates on values: a thread `t`, the manager `b`
and the buffers `f` of its process, and the state `st` and number `scn` in the header
page on disk. A step of one process leaves the values of the others alone, so
that theirs hold by substitution, unless the step changes the header page on disk,
the table of the delta or what is stored of a page. The parts:

* `Shape`, `LockOK`, `KnownOK`: where a thread is says whether it has stateLock, and
  who has stateLock knows state and SCN, but while it writes the header page itself;
* `BufferOK`: which buffers are valid, dirty, half written, and under which lock;
* `HeaderOK`: under a StateWriteGuard memory runs ahead of the disk by one state
  and one SCN until the header page is written, and by none after it;
* `TableOK`: a table that is not more than one SCN old (`Recent`) is a prefix of the
  table in the delta, and the whole of it under allocLock or with allocIsValid; an
  older one belongs to a delta that is gone, and the unsigned difference in
  actualizeState drops it;
* `DiffOK`, `CacheOK`, `StampOK`: a dirty page knows its place in the delta, a clean
  one is what was stored, a dirty one has the SCN of the disk;
* `Exclusive`, `EndLocked`: one master, and locks exclude each other;
* `Files`, `HeaderStored`: what is in which file of each page;
* `Merging`: during a merge, a page with the SCN of the merge is in the main file
  or half written by a living process; pages of the table that the merge has passed
  are, too, or are dirty in its own cache. This is what makes it right to skip a
  page by its SCN, and right to remove the delta at the end;
* `Numbers`: SCNs of pages against that of the header and of the last backup.

`Fresh` needs all of this: that a process reads the right file needs TableOK, which
needs KnownOK at the time the table was read; that the main file is right after the
merge needs Merging; and that nobody has the page dirty needs the page locks. Each
action has a lemma `Step...`. `write_page` has one for each of its branches: to the
delta (`StepWriteStalled`), half (`StepWriteHalf`), to the main file (`StepWriteMain`),
and the header page, which changes the state for all (`StepWriteHeader`).

### 6.6 How the invariants were found, and what is not proved

Every inductive invariant was an invariant of a TLC run on small instances (with
timeouts, conversions, owners that come and go, deaths, guarded and unguarded
locks) before it was proved; that of NBackup with two controllers and both processes
mortal (356 140 states) and with pages torn (446 356 states), each time with the
steps named in section 6.5 taken out of Next, for W empty and the one page, and on
the first for all pages.

Only model-checked:

* BlockersKnow. It holds on the instance of LMNotices, which has one client for
  each owner and no conversions, and is not claimed beyond: a conversion clears
  LRQ_blocking_seen of a request that goes on blocking; a wakeup meant for one of
  several threads of an owner lets another one go back to sleep without
  post_blockage; and a waiter rejected by a scan makes another one the first
  before post_pending runs.
* NBackup with several threads in a process: localStateLock between them is in
  the model, but neither in the run, which has one thread for each, nor in the proofs.
* DeadlocksBroken, WaitsEnd, CallsReturn and WorkGoesOn: liveness, that is fairness
  and ENABLED, is outside what the prover does.

## 7. Faulty variants

Definitions introduced by "Variant with a fault" are not part of the
specification. Each stands for a plausible mistake in the code (a counter not
decremented, the flag OWN_wakeup not set, post_pending left out on one path, the
wait for ASTs left out); substituted for the definition after it, it makes the
property it is paired with in `PROJECT.json` fail. This is how each property was
tried for what it can detect.

## 8. Not modelled, and why

Lock data (queryData, readData, writeData: a sorted queue per series), memory
allocation, remapping and extents of the shared file, history and print tool;
death inside insert_tail or remove_que with the recovery of acquire_shmem; a
process that reappears with the same id; 16-bit overflow of counters. Of lck.cpp
the hash of compatible locks.

Of the physical backup: tables of more than one page, growth of the main file
beyond `extendDatabase` failing or not, setDifference, errors of page writes and of
the allocation of a delta page, databases without forced writes, encryption,
shadows; SCN pages, which CCH_mark dirties together with a page (nested state lock);
the flush after every 512 merged pages; a new attachment to a process that has the
database open already. Of the page cache the precedence graph, the choice of a
victim and everything under an exclusive attachment.

Of SyncObject: Sync's validation, the list of reasons, 16-bit overflow of waiters,
memory order (counters are sequentially consistent). Liveness of SyncObject (every
wait without timeout ends if holders unlock) was tried on three threads and holds,
but is not among the runs; NoLostWakeup and the absence of deadlock are.

All other parts of section 1 so far; those of the last row are sequential programs
or input and output, for which tests are the better tool.

## 9. Plan

1. `LockManager` (done), its proofs (done);
   `GlobalRWLock` (done, proved).
2. `NBackup` (done, proved for one thread per process), `SyncObject` (done, proved), both locks
   shown to implement `RWLockSpec` (done, proved).
3. `SharedQueue`: insert_tail and remove_que store by store, death between any
   two, recovery in acquire_shmem; with the DUMMY_OWNER case.
4. `DeadlockWalk`: the marked depth-first search against the set of the present
   model (recursive, TLC only); `LockData`: the sorted data queue.
5. `EngineLocks` (lck.cpp with compatible locks), shown to implement the
   abstract lock of GlobalRWLock; `LockManager` restricted to one lock shown to
   implement the same abstraction.
6. `TipCache` with transaction states; the precedence graph of the
   page cache; events; encryption thread.
7. Proofs: LockManager (done, BlockersKnow apart), GlobalRWLock and SyncObject with
   their refinements (done), NBackup (done for one thread per process). Left: NBackup
   with several threads; BlockersKnow under the hypotheses of section 6.6.
