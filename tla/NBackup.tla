------------------------------- MODULE NBackup -------------------------------
(***************************************************************************)
(* The physical backup of a database that several server processes have     *)
(* open (src/src/jrd/nbak.cpp, nbak.h) with the part of the page cache it   *)
(* works on (cch.cpp).  BEGIN BACKUP freezes the main file and sends writes *)
(* to a difference file (delta); END BACKUP merges the delta back while     *)
(* work goes on.  The state is in the header page; every process caches it, *)
(* and the table of the delta, under two GlobalRWLocks: stateLock and       *)
(* allocLock.                                                               *)
(*                                                                          *)
(* stateLock is modelled with its waits, its AST and localStateLock.  A     *)
(* GlobalRWLock is one read-write lock (GlobalRWLock!IsOneLock), so that    *)
(* its threads within a process are left out here.  allocLock is never held *)
(* over a wait: taking it takes it away from the others in the same step.   *)
(* A page lock is held by a process while it caches the page.  Files are    *)
(* written through (forced writes); a page write is one step per file.      *)
(***************************************************************************)
EXTENDS Naturals, Sequences, FiniteSets

CONSTANTS
    Process,      \* the processes that have the database open
    Client,       \* their threads
    Home,         \* Home[c]: the process of thread c
    Page,         \* the pages of the main file, without the header page
    Header,       \* the header page
    Reads,        \* the pages that a thread reads,
    Changes,      \* and that it changes
    Controllers,  \* the threads that call beginBackup and endBackup
    Mortal,       \* the processes that may die
    Overlap,      \* may two processes be at beginBackup or endBackup together
    Torn,         \* may a process die between the two writes of write_page
                  \* while another one merges
    MaxChanges,   \* bound on the changes of pages
    MaxCalls,     \* bound on the calls of beginBackup and endBackup
    MaxDeaths,    \* bound on the deaths of processes
    Nobody        \* not a process

AnyPage == Page \cup {Header}

LCK_none == 0
LCK_read == 3
LCK_write == 6

ASSUME NBConstants ==
    /\ Home \in [Client -> Process]
    /\ Header \notin Page /\ Client \cap AnyPage = {}
    /\ Reads \in [Client -> SUBSET AnyPage] /\ Changes \in [Client -> SUBSET AnyPage]
    /\ Controllers \subseteq Client
    /\ Mortal \subseteq Process
    /\ Overlap \in BOOLEAN /\ Torn \in BOOLEAN
    /\ MaxChanges \in Nat /\ MaxCalls \in Nat /\ MaxDeaths \in Nat
    /\ Nobody \notin Process

VARIABLES
    bm,        \* the BackupManager of every process, with its two locks
    ast,       \* the blocking AST of stateLock, per process
    buf,       \* the page buffers of every process
    th,        \* control state of every thread
    endLock,   \* the process that has LCK_backup_end, or Nobody
    main,      \* the main file
    delta,     \* the difference file
    stored,    \* the contents last written of every page
    snap,      \* the main file as it was when the last backup began
    changes,   \* how many changes of pages have started
    calls,     \* how often beginBackup and endBackup have been called
    deaths     \* how many processes have died

files == <<main, delta, stored, snap>>
bounds == <<changes, calls, deaths>>

vars == <<bm, ast, buf, th, endLock, files, bounds>>

\* Contents of a page: its version, pag_scn and, for the header page, the
\* backup state in hdr_flags.
NewPage == [ver |-> 1, scn |-> 1, st |-> "normal"]
EmptyPage == [ver |-> 0, scn |-> 0, st |-> "normal"]

NoDelta == [exists |-> FALSE, alloc |-> <<>>, data |-> <<>>]

NewBM ==
    [state |-> "unknown", scn |-> 0, loaded |-> FALSE, table |-> <<>>,
     allocIsValid |-> FALSE, open |-> FALSE, master |-> FALSE, flush |-> FALSE,
     stateBlocking |-> FALSE, blocking |-> FALSE, told |-> FALSE,
     stateLock |-> LCK_none, allocLock |-> LCK_none]

NoBuffer == [lock |-> LCK_none, valid |-> FALSE, dirty |-> FALSE, nbak |-> FALSE,
             diff |-> 0, half |-> FALSE, page |-> EmptyPage]

NoAst == [pc |-> "none", todo |-> {}]

Idle == [pc |-> "idle", op |-> "none", page |-> Header, guard |-> FALSE,
         wait |-> FALSE, left |-> {}]

Init ==
    /\ bm = [p \in Process |-> [NewBM EXCEPT !.scn = 1]]
    /\ ast = [p \in Process |-> NoAst]
    /\ buf = [p \in Process |-> [pg \in AnyPage |-> NoBuffer]]
    /\ th = [c \in Client |-> Idle]
    /\ endLock = Nobody
    /\ main = [pg \in AnyPage |-> NewPage]
    /\ delta = NoDelta
    /\ stored = [pg \in AnyPage |-> NewPage]
    /\ snap = [scn |-> 0, ver |-> [pg \in AnyPage |-> 1]]
    /\ changes = 0
    /\ calls = 0
    /\ deaths = 0

State == {"unknown", "normal", "stalled", "merge"}
Level == {LCK_none, LCK_read, LCK_write}
Contents == [ver : Nat, scn : Nat, st : State \ {"unknown"}]

PC == {"idle", "fetch", "read", "rdisk", "have", "marked", "release", "wflush",
       "wwait", "guarded", "hwrite", "leave", "elock", "echeck", "mlock", "mtable",
       "mnext", "mflush", "init", "ialloc", "estart", "dead"}

NoRepeats(table) == \A i, j \in DOMAIN table : table[i] = table[j] => i = j

\* The types, and what actualizeAlloc raises a bugcheck on: the table names a
\* page once.
TypeOK ==
    /\ \A p \in Process : NoRepeats(bm[p].table)
    /\ NoRepeats(delta.alloc) /\ Len(delta.data) = Len(delta.alloc)
    /\ bm \in [Process ->
          [state : State, scn : Nat, loaded : BOOLEAN, table : Seq(AnyPage),
           allocIsValid : BOOLEAN, open : BOOLEAN, master : BOOLEAN, flush : BOOLEAN,
           stateBlocking : BOOLEAN, blocking : BOOLEAN, told : BOOLEAN,
           stateLock : Level, allocLock : Level]]
    /\ ast \in [Process -> [pc : {"none", "called", "flush", "try"}, todo : SUBSET AnyPage]]
    /\ buf \in [Process -> [AnyPage ->
          [lock : Level, valid : BOOLEAN, dirty : BOOLEAN, nbak : BOOLEAN,
           diff : Nat, half : BOOLEAN, page : Contents]]]
    /\ th \in [Client -> [pc : PC, op : {"none", "read", "write", "begin", "end",
                                        "recover", "merge", "finish"},
                          page : AnyPage, guard : BOOLEAN, wait : BOOLEAN,
                          left : SUBSET AnyPage]]
    /\ endLock \in Process \cup {Nobody}
    /\ main \in [AnyPage -> Contents]
    /\ delta \in [exists : BOOLEAN, alloc : Seq(AnyPage), data : Seq(Contents)]
    /\ stored \in [AnyPage -> Contents]
    /\ snap \in [scn : Nat, ver : [AnyPage -> Nat]]
    /\ changes \in 0..MaxChanges
    /\ calls \in 0..MaxCalls /\ deaths \in 0..MaxDeaths

-----------------------------------------------------------------------------
(* stateLock. *)

Threads(p) == {c \in Client : Home[c] = p}

\* localStateLock: its readers are threads with a StateReadGuard and pages
\* with BDB_nbak_state_lock, its writer is a thread with a StateWriteGuard.
LocalReaders(p) ==
    {c \in Threads(p) : th[c].guard} \cup {pg \in AnyPage : buf[p][pg].nbak}

Guarding == {"wwait", "guarded", "hwrite", "leave"}

LocalWriter(p) == {c \in Threads(p) : th[c].pc \in Guarding}

\* NBackupStateLock::invalidate, after LCK_release.
Invalidated(b) ==
    [b EXCEPT !.stateLock = LCK_none, !.told = FALSE, !.blocking = FALSE,
              !.state = "unknown", !.open = FALSE]

\* Variant with a fault: a missed cycle is not noticed.
MissesCycles(b) ==
    LET header == main[Header]
        drops == header.st = "normal"
        loses == drops /\ b.loaded
    IN  [b EXCEPT !.scn = header.scn,
                  !.loaded = @ /\ ~drops,
                  !.table = IF drops THEN <<>> ELSE @,
                  !.allocIsValid = @ /\ ~(loses /\ b.allocLock # LCK_none),
                  !.allocLock = IF loses THEN LCK_none ELSE @,
                  !.open = header.st # "normal",
                  !.state = header.st]

\* The state is read from the main file.  The difference of the SCNs is
\* unsigned: a header older than the state in memory is a missed cycle, too.
actualizeState(b) ==
    LET header == main[Header]
        missed_cycle == header.scn < b.scn \/ header.scn > b.scn + 1
        drops == header.st = "normal" \/ missed_cycle
        loses == drops /\ b.loaded
    IN  [b EXCEPT !.scn = header.scn,
                  !.loaded = @ /\ ~drops,
                  !.table = IF drops THEN <<>> ELSE @,
                  !.allocIsValid = @ /\ ~(loses /\ b.allocLock # LCK_none),
                  !.allocLock = IF loses THEN LCK_none ELSE @,
                  !.open = header.st # "normal",
                  !.state = header.st]

\* LCK_lock grants the lock and NBackupStateLock::fetch is called.
Fetched(b, level) ==
    actualizeState([b EXCEPT !.stateLock = level, !.told = FALSE, !.flush = FALSE])

\* The threads that wait in the lock manager for stateLock.
Asks(q, level) ==
    \E c \in Threads(q) :
        \/ level = LCK_read /\ th[c].wait
        \/ level = LCK_write /\ th[c].pc = "wwait"

Asked(p, level) == \E q \in Process \ {p} : Asks(q, level)

\* LCK_downgrade, and what follows if it leaves no lock.
Downgraded(p, b) ==
    IF b.stateLock = LCK_none \/ Asked(p, LCK_write) THEN Invalidated(b)
    ELSE IF Asked(p, LCK_read) THEN [b EXCEPT !.stateLock = LCK_read, !.told = FALSE]
    ELSE [b EXCEPT !.told = FALSE]

\* Variant with a fault: the lock is released though there are readers.
ReleasesEarly(p, b, readers) ==
    IF b.stateBlocking
    THEN [Invalidated(b) EXCEPT !.stateBlocking = FALSE]
    ELSE b

\* unlockStateRead after localStateLock.endRead, which leaves readers: the
\* last one releases the lock that the AST could not.
unlockStateRead(p, b, readers) ==
    IF b.stateBlocking /\ readers = {} /\ LocalWriter(p) = {}
    THEN [(IF b.stateLock = LCK_none THEN b ELSE Invalidated(b)) EXCEPT !.stateBlocking = FALSE]
    ELSE b

\* StateReadGuard::lock.  A thread that has a guard already has no need to.
AfterLock == [read |-> "rdisk", elock |-> "echeck", mlock |-> "mtable", init |-> "ialloc"]

lockStateRead(c) ==
    LET p == Home[c]
    IN  /\ th[c].pc \in DOMAIN AfterLock
        /\ \/ /\ th[c].guard
              /\ th' = [th EXCEPT ![c].pc = AfterLock[@]]
           \/ /\ ~th[c].guard
              /\ LocalWriter(p) = {}
              /\ th' = [th EXCEPT ![c].pc = AfterLock[@], ![c].guard = TRUE,
                                  ![c].wait = bm[p].state = "unknown"]
        /\ UNCHANGED <<bm, ast, buf, endLock, files, bounds>>

\* stateLock->lockRead and unlockRead of a thread that waits.
StateRead(c) ==
    LET p == Home[c]
        b == IF bm[p].stateLock = LCK_none THEN Fetched(bm[p], LCK_read) ELSE bm[p]
    IN  /\ th[c].wait
        /\ \A q \in Process \ {p} : bm[q].stateLock # LCK_write
        /\ bm' = [bm EXCEPT ![p] = IF b.blocking THEN Invalidated(b) ELSE b]
        /\ th' = [th EXCEPT ![c].wait = FALSE]
        /\ UNCHANGED <<ast, buf, endLock, files, bounds>>

\* The end of a StateReadGuard whose thread goes on at pc; b is what it made
\* of the BackupManager.
EndsGuard(c, b, t) ==
    LET p == Home[c]
    IN  /\ bm' = [bm EXCEPT ![p] = unlockStateRead(p, b, LocalReaders(p) \ {c})]
        /\ th' = [th EXCEPT ![c] = [t EXCEPT !.guard = FALSE]]

-----------------------------------------------------------------------------
(* The blocking AST of stateLock. *)

AstCalled(p) ==
    /\ ast[p].pc = "none" /\ ~bm[p].told
    /\ \/ bm[p].stateLock = LCK_write /\ Asked(p, LCK_read)
       \/ bm[p].stateLock # LCK_none /\ Asked(p, LCK_write)
    /\ bm' = [bm EXCEPT ![p].told = TRUE]
    /\ ast' = [ast EXCEPT ![p].pc = "called"]
    /\ UNCHANGED <<buf, th, endLock, files, bounds>>

\* The master does not look at localStateLock.  The handler may run after the
\* lock it was called for has been released.
AstOfMaster(p) ==
    LET inUse == \E c \in Threads(p) : th[c].wait \/ th[c].pc \in Guarding
    IN  /\ ast[p].pc = "called" /\ bm[p].master
        /\ bm' = [bm EXCEPT ![p] = IF inUse THEN [@ EXCEPT !.blocking = TRUE]
                                   ELSE Downgraded(p, @)]
        /\ ast' = [ast EXCEPT ![p] = NoAst]
        /\ UNCHANGED <<buf, th, endLock, files, bounds>>

AstFlushes(p) ==
    /\ ast[p].pc = "called" /\ ~bm[p].master
    /\ IF bm[p].flush
       THEN /\ ast' = [ast EXCEPT ![p].pc = "try"]
            /\ UNCHANGED bm
       ELSE /\ bm' = [bm EXCEPT ![p].flush = TRUE]
            /\ ast' = [ast EXCEPT ![p] = [pc |-> "flush",
                                          todo |-> {pg \in AnyPage : buf[p][pg].dirty}]]
    /\ UNCHANGED <<buf, th, endLock, files, bounds>>

AstFlushed(p) ==
    /\ ast[p].pc = "flush" /\ ast[p].todo = {}
    /\ ast' = [ast EXCEPT ![p].pc = "try"]
    /\ UNCHANGED <<bm, buf, th, endLock, files, bounds>>

\* Variant with a fault: dirty pages and readers do not hold up the AST.
AstDoesNotTry(p) ==
    LET b == Downgraded(p, bm[p])
    IN  /\ ast[p].pc = "try"
        /\ bm' = [bm EXCEPT ![p] = IF b.stateLock = LCK_read THEN [b EXCEPT !.flush = FALSE]
                                   ELSE b]
        /\ ast' = [ast EXCEPT ![p] = NoAst]
        /\ UNCHANGED <<buf, th, endLock, files, bounds>>

\* tryBeginWrite of localStateLock, and with it GlobalRWLock's handler.
AstTries(p) ==
    LET b == Downgraded(p, bm[p])
        free == LocalReaders(p) = {} /\ LocalWriter(p) = {}
    IN  /\ ast[p].pc = "try"
        /\ \/ /\ ~free
              /\ bm' = [bm EXCEPT ![p].stateBlocking = TRUE]
           \/ /\ free
              /\ bm' = [bm EXCEPT ![p] = [b EXCEPT !.stateBlocking = FALSE,
                                                   !.flush = @ /\ b.stateLock # LCK_read]]
        /\ ast' = [ast EXCEPT ![p] = NoAst]
        /\ UNCHANGED <<buf, th, endLock, files, bounds>>

-----------------------------------------------------------------------------
(* The table of the delta and allocLock. *)

\* findPageIndex: the page of the delta that a page is mapped to, or 0.
findPageIndex(b, pg) ==
    IF b.loaded /\ \E i \in DOMAIN b.table : b.table[i] = pg
    THEN CHOOSE i \in DOMAIN b.table : b.table[i] = pg
    ELSE 0

\* Variant with a fault: the table is read from its start.
ReadsFromStart(b, haveGlobalLock) ==
    [b EXCEPT !.loaded = TRUE,
              !.table = IF haveGlobalLock THEN @ \o delta.alloc ELSE @,
              !.allocIsValid = haveGlobalLock]

\* The rest of the table is read.  Its last page, the only one here, is left
\* for later if the reader has not got allocLock.
actualizeAlloc(b, haveGlobalLock) ==
    [b EXCEPT !.loaded = TRUE,
              !.table = IF haveGlobalLock
                        THEN @ \o SubSeq(delta.alloc, Len(@) + 1, Len(delta.alloc))
                        ELSE @,
              !.allocIsValid = haveGlobalLock]

\* Variant with a fault: the table stays valid when the lock is lost.
KeepsTableValid(q, level) ==
    [bm[q] EXCEPT !.allocLock = IF level = LCK_write THEN LCK_none
                                ELSE IF @ = LCK_write THEN LCK_read ELSE @]

\* What the AST of allocLock leaves process q when level is asked for.
LosesAlloc(q, level) ==
    [bm[q] EXCEPT !.allocLock = IF level = LCK_write THEN LCK_none
                                ELSE IF @ = LCK_write THEN LCK_read ELSE @,
                  !.allocIsValid = @ /\ (level = LCK_read \/ bm[q].allocLock = LCK_none)]

\* lockAllocRead and lockAllocWrite: bm with allocLock taken for b, the
\* manager of p so far.
lockAlloc(p, b, level) ==
    IF b.allocLock >= level THEN [bm EXCEPT ![p] = b]
    ELSE [q \in Process |->
            IF q = p THEN actualizeAlloc([b EXCEPT !.allocLock = level], TRUE)
            ELSE LosesAlloc(q, level)]

getPageIndex(p, b, pg) ==
    IF findPageIndex(b, pg) # 0 \/ (b.state = "merge" /\ b.allocIsValid)
    THEN [bm EXCEPT ![p] = b]
    ELSE lockAlloc(p, b, LCK_read)

\* The page is looked for again under the write lock; the table in memory is
\* written to the file with the new entry, whose page is empty.
allocateDifferencePage(p, b, pg) ==
    LET grown == lockAlloc(p, b, LCK_write)
    IN  IF findPageIndex(grown[p], pg) # 0 THEN grown
        ELSE [grown EXCEPT ![p].table = Append(@, pg)]

Extended(data, n) == [i \in 1..n |-> IF i \in DOMAIN data THEN data[i] ELSE EmptyPage]

-----------------------------------------------------------------------------
(* Pages: fetch, mark, release, write. *)

Using == {"read", "rdisk", "have", "marked", "release"} \cup Guarding

\* The latch of a buffer is shared by threads that only read, once it is read.
Latched(c, pg) ==
    \E d \in Threads(Home[c]) \ {c} :
        /\ th[d].page = pg /\ th[d].pc \in Using
        /\ ~(th[c].op = "read" /\ th[d].op = "read" /\ th[d].pc = "have")

Wants(c) == IF th[c].op = "read" THEN LCK_read ELSE LCK_write

Clash(a, b) == a # LCK_none /\ b # LCK_none /\ (a = LCK_write \/ b = LCK_write)

\* CCH_fetch_lock: the latch and the lock of the page.  If a conversion is
\* refused the lock is released and asked for anew.
FetchLock(c) ==
    LET p == Home[c]
        pg == th[c].page
        free == \A q \in Process \ {p} : ~Clash(Wants(c), buf[q][pg].lock)
    IN  /\ th[c].pc = "fetch"
        /\ ~Latched(c, pg)
        /\ \/ /\ free
              /\ buf' = [buf EXCEPT ![p][pg].lock = IF @ < Wants(c) THEN Wants(c) ELSE @]
              /\ th' = [th EXCEPT ![c].pc = IF buf[p][pg].valid THEN "have" ELSE "read"]
           \/ /\ ~free /\ buf[p][pg].lock = LCK_read
              /\ buf' = [buf EXCEPT ![p][pg] = NoBuffer]
              /\ UNCHANGED th
        /\ UNCHANGED <<bm, ast, endLock, files, bounds>>

DeltaPage(i) == IF i \in DOMAIN delta.data THEN delta.data[i] ELSE EmptyPage

\* The table or the page is looked for in a delta that is not open: a thread
\* whose lock was invalidated by StateRead goes on with the state unknown.
ReadsClosed(p, pg) ==
    /\ bm[p].state # "normal" /\ ~bm[p].open
    /\ bm[p].allocLock = LCK_none \/ findPageIndex(bm[p], pg) # 0

\* CCH_fetch_page, with the state locked.
CCH_fetch_page(c) ==
    LET p == Home[c]
        pg == th[c].page
        looked == IF bm[p].state = "normal" THEN bm ELSE getPageIndex(p, bm[p], pg)
        i == IF bm[p].state = "normal" THEN 0 ELSE findPageIndex(looked[p], pg)
        page == IF i = 0 \/ DeltaPage(i) = EmptyPage THEN main[pg] ELSE DeltaPage(i)
        t == [th[c] EXCEPT !.pc = "have"]
    IN  /\ th[c].pc = "rdisk" /\ ~th[c].wait /\ ~ReadsClosed(p, pg)
        /\ buf' = [buf EXCEPT ![p][pg].valid = TRUE, ![p][pg].page = page]
        /\ IF th[c].op = "merge"
           THEN bm' = looked /\ th' = [th EXCEPT ![c] = t]
           ELSE /\ bm' = [looked EXCEPT ![p] = unlockStateRead(p, @, LocalReaders(p) \ {c})]
                /\ th' = [th EXCEPT ![c] = [t EXCEPT !.guard = FALSE]]
        /\ UNCHANGED <<ast, endLock, files, bounds>>

\* The merge marks a page only if it has not been written in this state.
Marks(c) ==
    \/ th[c].op = "write"
    \/ th[c].op = "merge" /\ buf[Home[c]][th[c].page].page.scn # bm[Home[c]].scn

\* set_diff_page takes the state lock for the page.
MarkLocks(c) ==
    LET p == Home[c]
        pg == th[c].page
    IN  /\ th[c].pc = "have" /\ Marks(c)
        /\ ~buf[p][pg].nbak /\ ~buf[p][pg].half
        /\ LocalWriter(p) = {}
        /\ buf' = [buf EXCEPT ![p][pg].nbak = TRUE]
        /\ th' = [th EXCEPT ![c].wait = bm[p].state = "unknown"]
        /\ UNCHANGED <<bm, ast, endLock, files, bounds>>

\* Variant with a fault: the SCN of a page that has one is left alone.
MarkedUnstamped(p, pg, change, i) ==
    [buf[p][pg] EXCEPT !.dirty = TRUE, !.diff = i, !.page.ver = @ + change]

\* The buffer after CCH_mark and the change of the page.
MarkedBuffer(p, pg, change, i) ==
    [buf[p][pg] EXCEPT !.dirty = TRUE, !.diff = i, !.page.ver = @ + change,
                       !.page.scn = IF pg = Header THEN @ ELSE bm[p].scn]

\* The rest of CCH_mark: in the stalled state a page of the delta is
\* allocated, in the merge state only looked for.
CCH_mark(c) ==
    LET p == Home[c]
        pg == th[c].page
        change == IF th[c].op = "write" THEN 1 ELSE 0
        looked == IF bm[p].state = "normal" THEN bm ELSE getPageIndex(p, bm[p], pg)
        i == IF bm[p].state = "normal" THEN 0 ELSE findPageIndex(looked[p], pg)
        grown == allocateDifferencePage(p, looked[p], pg)
    IN  /\ th[c].pc = "have" /\ Marks(c)
        /\ buf[p][pg].nbak /\ ~buf[p][pg].half /\ ~th[c].wait
        /\ \/ /\ bm[p].state # "stalled" \/ i # 0
              /\ bm' = looked
              /\ buf' = [buf EXCEPT ![p][pg] = MarkedBuffer(p, pg, change, i)]
              /\ UNCHANGED delta
           \/ /\ bm[p].state = "stalled" /\ i = 0
              /\ bm' = grown
              /\ buf' = [buf EXCEPT ![p][pg] =
                           MarkedBuffer(p, pg, change, findPageIndex(grown[p], pg))]
              /\ delta' = [delta EXCEPT !.alloc = grown[p].table,
                                        !.data = Extended(@, Len(grown[p].table))]
        /\ th' = [th EXCEPT ![c].pc = "marked"]
        /\ UNCHANGED <<ast, endLock, main, stored, snap, bounds>>

Released(c) ==
    IF th[c].op = "merge"
    THEN [th[c] EXCEPT !.pc = "mnext", !.left = @ \ {th[c].page}]
    ELSE Idle

\* CCH_release of a page: a changed page stays dirty in the cache unless a
\* flush is under way; the lock of the header page is not kept, so that it
\* is written at once.
CCH_release(c) ==
    LET p == Home[c]
        pg == th[c].page
    IN  /\ \/ th[c].pc = "have" /\ th[c].op \in {"read", "merge"} /\ ~Marks(c)
           \/ th[c].pc = "marked"
           \/ th[c].pc = "release" /\ ~buf[p][pg].dirty
        /\ IF buf[p][pg].dirty /\ (pg = Header \/ bm[p].flush)
           THEN th' = [th EXCEPT ![c].pc = "release"] /\ UNCHANGED buf
           ELSE /\ th' = [th EXCEPT ![c] = Released(c)]
                /\ buf' = [buf EXCEPT ![p][pg] = IF pg = Header THEN NoBuffer ELSE @]
        /\ UNCHANGED <<bm, ast, endLock, files, bounds>>

\* write_page has written to the last of its files.
Clean(p, pg) ==
    /\ buf' = [buf EXCEPT ![p][pg].dirty = FALSE, ![p][pg].nbak = FALSE,
                          ![p][pg].diff = 0, ![p][pg].half = FALSE]
    /\ bm' = IF buf[p][pg].nbak
             THEN [bm EXCEPT ![p] = unlockStateRead(p, @, LocalReaders(p) \ {pg})]
             ELSE bm
    /\ ast' = [ast EXCEPT ![p].todo = @ \ {pg}]

\* Variant with a fault: in the merge state a mapped page is written to the
\* main file only.
WritesMainOnly(p, pg) ==
    LET b == buf[p][pg]
        stalled == bm[p].state = "stalled"
    IN  /\ b.dirty
        /\ \A c \in Threads(p) : ~(th[c].page = pg /\ th[c].pc = "marked")
        /\ Clean(p, pg)
        /\ delta' = IF stalled THEN [delta EXCEPT !.data[b.diff] = b.page] ELSE delta
        /\ main' = IF stalled THEN main ELSE [main EXCEPT ![pg] = b.page]
        /\ stored' = [stored EXCEPT ![pg] = b.page]
        /\ UNCHANGED <<th, endLock, snap, bounds>>

\* A dirty page is written by CCH_flush, by an AST or by the cache writer,
\* but not while it is marked.
write_page(p, pg) ==
    LET b == buf[p][pg]
        both == bm[p].state = "merge" /\ b.diff # 0
        stalled == bm[p].state = "stalled"
    IN  /\ b.dirty
        /\ \A c \in Threads(p) : ~(th[c].page = pg /\ th[c].pc = "marked")
        /\ \/ /\ stalled /\ b.diff # 0
              /\ delta' = [delta EXCEPT !.data[b.diff] = b.page]
              /\ stored' = [stored EXCEPT ![pg] = b.page]
              /\ Clean(p, pg)
              /\ UNCHANGED main
           \/ /\ both /\ ~b.half
              /\ delta' = [delta EXCEPT !.data[b.diff] = b.page]
              /\ stored' = [stored EXCEPT ![pg] = b.page]
              /\ buf' = [buf EXCEPT ![p][pg].half = TRUE]
              /\ UNCHANGED <<bm, ast, main>>
           \/ /\ ~stalled /\ (both => b.half)
              /\ main' = [main EXCEPT ![pg] = b.page]
              /\ stored' = [stored EXCEPT ![pg] = b.page]
              /\ Clean(p, pg)
              /\ UNCHANGED delta
        /\ UNCHANGED <<th, endLock, snap, bounds>>

\* blocking_ast_bdb: the lock of a page that is clean and not in use.
PageAst(p, pg) ==
    /\ buf[p][pg].lock # LCK_none /\ ~buf[p][pg].dirty /\ ~buf[p][pg].nbak
    /\ \A c \in Threads(p) : ~(th[c].page = pg /\ th[c].pc \in Using)
    /\ \E c \in Client \ Threads(p) :
         /\ th[c].pc = "fetch" /\ th[c].page = pg
         /\ Clash(Wants(c), buf[p][pg].lock)
         /\ buf' = [buf EXCEPT ![p][pg] = IF Wants(c) = LCK_write THEN NoBuffer
                                          ELSE [@ EXCEPT !.lock = LCK_read]]
    /\ UNCHANGED <<bm, ast, th, endLock, files, bounds>>

-----------------------------------------------------------------------------
(* Transactions read and change pages. *)

StartsRead(c, pg) ==
    /\ th[c].pc = "idle"
    /\ th' = [th EXCEPT ![c].pc = "fetch", ![c].op = "read", ![c].page = pg]
    /\ UNCHANGED <<bm, ast, buf, endLock, files, bounds>>

StartsWrite(c, pg) ==
    /\ th[c].pc = "idle"
    /\ changes < MaxChanges
    /\ changes' = changes + 1
    /\ th' = [th EXCEPT ![c].pc = "fetch", ![c].op = "write", ![c].page = pg]
    /\ UNCHANGED <<bm, ast, buf, endLock, files, calls, deaths>>

-----------------------------------------------------------------------------
(* StateWriteGuard. *)

\* CCH_flush(FLUSH_ALL), then CCH_FETCH of the header page.  Pages that other
\* threads mark meanwhile hold up localStateLock.
FlushDone(c) ==
    /\ th[c].pc = "wflush"
    /\ \A pg \in AnyPage : ~buf[Home[c]][pg].dirty
    /\ th' = [th EXCEPT ![c].pc = "fetch", ![c].page = Header]
    /\ UNCHANGED <<bm, ast, buf, endLock, files, bounds>>

\* localStateLock.beginWrite and the call of stateLock->lockWrite, which gives
\* a lock that is too weak back before it asks.
BeginsWrite(c) ==
    LET p == Home[c]
        has == bm[p].stateLock = LCK_write
    IN  /\ th[c].pc = "have" /\ th[c].op \in {"begin", "end", "recover", "finish"}
        /\ LocalReaders(p) = {} /\ LocalWriter(p) = {}
        /\ bm' = [bm EXCEPT ![p] = IF has THEN [@ EXCEPT !.flush = FALSE]
                                   ELSE IF @.stateLock = LCK_none THEN @
                                   ELSE Invalidated(@)]
        /\ th' = [th EXCEPT ![c].pc = IF has THEN "guarded" ELSE "wwait"]
        /\ UNCHANGED <<ast, buf, endLock, files, bounds>>

StateWrite(c) ==
    /\ th[c].pc = "wwait"
    /\ \A q \in Process \ {Home[c]} : bm[q].stateLock = LCK_none
    /\ bm' = [bm EXCEPT ![Home[c]] = Fetched(@, LCK_write)]
    /\ th' = [th EXCEPT ![c].pc = "guarded"]
    /\ UNCHANGED <<ast, buf, endLock, files, bounds>>

\* ~StateWriteGuard: after a failure the state is unknown and the lock is
\* released, else it is downgraded if somebody has asked for it.
LeavesWrite(c) ==
    LET p == Home[c]
        b == IF bm[p].state = "unknown" THEN Invalidated(bm[p])
             ELSE IF bm[p].blocking THEN [Downgraded(p, bm[p]) EXCEPT !.blocking = FALSE]
             ELSE bm[p]
        over == th[c].op \in {"begin", "none", "finish"}
        written == th[c].op \in {"end", "recover"} /\ ~buf[p][Header].dirty
    IN  /\ th[c].pc = "leave" \/ (th[c].pc = "hwrite" /\ written)
        /\ buf' = [buf EXCEPT ![p][Header] = NoBuffer]
        /\ bm' = [bm EXCEPT ![p] = [b EXCEPT !.master = @ /\ ~over]]
        /\ th' = [th EXCEPT ![c] = IF over THEN Idle
                                   ELSE [@ EXCEPT !.pc = "mlock", !.op = "merge"]]
        /\ UNCHANGED <<ast, endLock, files, bounds>>

\* The header page is changed under the guard and must be written.
MarkedHeader(p, st, scn, i) ==
    [buf[p][Header] EXCEPT !.dirty = TRUE, !.diff = i,
                           !.page.st = st, !.page.scn = scn]

-----------------------------------------------------------------------------
(* beginBackup. *)

\* Nobody else is at it, or that does not matter.
MayBeMaster(p) == Overlap \/ \A q \in Process \ {p} : ~bm[q].master

beginBackup(c) ==
    /\ th[c].pc = "idle" /\ c \in Controllers
    /\ calls < MaxCalls
    /\ MayBeMaster(Home[c])
    /\ calls' = calls + 1
    /\ bm' = [bm EXCEPT ![Home[c]].master = TRUE, ![Home[c]].flush = TRUE]
    /\ th' = [th EXCEPT ![c].pc = "wflush", ![c].op = "begin"]
    /\ UNCHANGED <<ast, buf, endLock, files, changes, deaths>>

\* The state is wrong, or PIO_create fails.
BeginRefused(c) ==
    /\ th[c].pc = "guarded" /\ th[c].op = "begin"
    /\ th' = [th EXCEPT ![c].pc = "leave"]
    /\ UNCHANGED <<bm, ast, buf, endLock, files, bounds>>

\* The delta is created: its rights cannot be set, or its first page cannot
\* be written, or the header page is marked.
CreatesDelta(c) ==
    LET p == Home[c]
        opened == [bm EXCEPT ![p].open = TRUE]
    IN  /\ th[c].pc = "guarded" /\ th[c].op = "begin"
        /\ bm[p].state = "normal"
        /\ delta' = [NoDelta EXCEPT !.exists = TRUE]
        /\ \/ /\ bm' \in {opened, [opened EXCEPT ![p].state = "unknown"]}
              /\ th' = [th EXCEPT ![c].pc = "leave"]
              /\ UNCHANGED buf
           \/ /\ bm' = opened
              /\ buf' = [buf EXCEPT ![p][Header] =
                           MarkedHeader(p, "stalled", @.page.scn + 1, 0)]
              /\ th' = [th EXCEPT ![c].pc = "hwrite"]
        /\ UNCHANGED <<ast, endLock, main, stored, snap, bounds>>

\* The header page is on disk.
Stalled(c) ==
    LET header == buf[Home[c]][Header].page
    IN  /\ th[c].pc = "hwrite" /\ th[c].op = "begin"
        /\ ~buf[Home[c]][Header].dirty
        /\ bm' = [bm EXCEPT ![Home[c]].state = "stalled", ![Home[c]].scn = header.scn]
        /\ snap' = [scn |-> header.scn - 1, ver |-> [pg \in AnyPage |-> main[pg].ver]]
        /\ th' = [th EXCEPT ![c].pc = "leave"]
        /\ UNCHANGED <<ast, buf, endLock, main, delta, stored, bounds>>

-----------------------------------------------------------------------------
(* endBackup. *)

\* Also called by every new attachment, with recover.
endBackup(c) ==
    LET starts == th[c].pc = "idle" /\ c \in Controllers /\ calls < MaxCalls
        recover == th[c].pc = "estart"
        p == Home[c]
    IN  /\ starts \/ recover
        /\ calls' = IF starts THEN calls + 1 ELSE calls
        /\ IF endLock # Nobody
           THEN th' = [th EXCEPT ![c] = Idle] /\ UNCHANGED <<bm, endLock>>
           ELSE /\ MayBeMaster(p)
                /\ endLock' = p
                /\ bm' = [bm EXCEPT ![p].master = TRUE]
                /\ th' = [th EXCEPT ![c].pc = "elock",
                                    ![c].op = IF recover THEN "recover" ELSE "end"]
        /\ UNCHANGED <<ast, buf, files, changes, deaths>>

InvalidState(c) ==
    /\ th[c].op = "recover" \/ bm[Home[c]].state # "stalled"
    /\ bm[Home[c]].state # "merge"

\* extendDatabase: the table is loaded if there is none.
extendDatabase(b) == IF b.loaded THEN b ELSE actualizeAlloc(b, FALSE)

\* The state is checked under the read lock; the main file is extended, which
\* may fail.
ChecksState(c) ==
    LET p == Home[c]
        b == IF bm[p].state = "stalled" /\ ~InvalidState(c) THEN extendDatabase(bm[p])
             ELSE bm[p]
    IN  /\ th[c].pc = "echeck" /\ ~th[c].wait
        /\ \/ /\ InvalidState(c) \/ bm[p].state = "stalled"
              /\ endLock' = Nobody
              /\ EndsGuard(c, [b EXCEPT !.master = FALSE], Idle)
           \/ /\ ~InvalidState(c)
              /\ EndsGuard(c, [b EXCEPT !.flush = TRUE], [th[c] EXCEPT !.pc = "wflush"])
              /\ UNCHANGED endLock
        /\ UNCHANGED <<ast, buf, files, bounds>>

\* The state is checked again under the write lock, and the main file cannot
\* be extended.
EndRefused(c) ==
    LET p == Home[c]
    IN  /\ th[c].pc = "guarded" /\ th[c].op \in {"end", "recover"}
        /\ bm' = IF InvalidState(c) THEN bm ELSE [bm EXCEPT ![p] = extendDatabase(@)]
        /\ endLock' = Nobody
        /\ th' = [th EXCEPT ![c].pc = "leave", ![c].op = "none"]
        /\ UNCHANGED <<ast, buf, files, bounds>>

\* Step 1: the state becomes merge, before the header page is marked.
MarksMerge(c) ==
    LET p == Home[c]
        b == [extendDatabase(bm[p]) EXCEPT !.state = "merge", !.scn = @ + 1]
        looked == getPageIndex(p, b, Header)
    IN  /\ th[c].pc = "guarded" /\ th[c].op \in {"end", "recover"}
        /\ ~InvalidState(c)
        /\ bm' = looked
        /\ buf' = [buf EXCEPT ![p][Header] =
                     MarkedHeader(p, "merge", b.scn, findPageIndex(looked[p], Header))]
        /\ th' = [th EXCEPT ![c].pc = "hwrite"]
        /\ UNCHANGED <<ast, endLock, files, bounds>>

\* Step 2: the table is read without allocLock, since it does not change.
MergeStarts(c) ==
    LET b == actualizeAlloc(bm[Home[c]], TRUE)
    IN  /\ th[c].pc = "mtable" /\ ~th[c].wait
        /\ bm' = [bm EXCEPT ![Home[c]] = b]
        /\ th' = [th EXCEPT ![c].pc = "mnext",
                            ![c].left = {b.table[i] : i \in DOMAIN b.table}]
        /\ UNCHANGED <<ast, buf, endLock, files, bounds>>

MergeNext(c) ==
    /\ th[c].pc = "mnext"
    /\ \/ \E pg \in th[c].left : th' = [th EXCEPT ![c].pc = "fetch", ![c].page = pg]
       \/ th[c].left = {} /\ th' = [th EXCEPT ![c].pc = "mflush"]
    /\ UNCHANGED <<bm, ast, buf, endLock, files, bounds>>

MergeDone(c) ==
    LET p == Home[c]
    IN  /\ th[c].pc = "mflush"
        /\ \A pg \in AnyPage : ~buf[p][pg].dirty
        /\ EndsGuard(c, [bm[p] EXCEPT !.flush = TRUE],
                     [th[c] EXCEPT !.pc = "wflush", !.op = "finish"])
        /\ UNCHANGED <<ast, buf, endLock, files, bounds>>

\* Step 3: the state becomes normal.
MarksNormal(c) ==
    LET p == Home[c]
    IN  /\ th[c].pc = "guarded" /\ th[c].op = "finish"
        /\ bm' = [bm EXCEPT ![p].state = "normal", ![p].scn = @ + 1]
        /\ buf' = [buf EXCEPT ![p][Header] = MarkedHeader(p, "normal", bm[p].scn + 1, 0)]
        /\ th' = [th EXCEPT ![c].pc = "hwrite"]
        /\ UNCHANGED <<ast, endLock, files, bounds>>

\* The table and the delta go.  tryReleaseLock calls invalidate only if there
\* is a lock to release.
Finishes(c) ==
    LET p == Home[c]
        has == bm[p].allocLock # LCK_none
    IN  /\ th[c].pc = "hwrite" /\ th[c].op = "finish"
        /\ ~buf[p][Header].dirty
        /\ bm' = [bm EXCEPT ![p].loaded = FALSE, ![p].table = <<>>,
                            ![p].allocIsValid = @ /\ ~has,
                            ![p].allocLock = LCK_none, ![p].open = FALSE]
        /\ delta' = NoDelta
        /\ endLock' = Nobody
        /\ th' = [th EXCEPT ![c].pc = "leave"]
        /\ UNCHANGED <<ast, buf, main, stored, snap, bounds>>

-----------------------------------------------------------------------------
(* A process dies; another attachment starts it again. *)

Dies(p) ==
    /\ deaths < MaxDeaths
    /\ Torn \/ endLock \in {p, Nobody} \/ \A pg \in AnyPage : ~buf[p][pg].half
    /\ deaths' = deaths + 1
    /\ bm' = [bm EXCEPT ![p] = NewBM]
    /\ ast' = [ast EXCEPT ![p] = NoAst]
    /\ buf' = [buf EXCEPT ![p] = [pg \in AnyPage |-> NoBuffer]]
    /\ th' = [c \in Client |-> IF Home[c] = p THEN [Idle EXCEPT !.pc = "dead"] ELSE th[c]]
    /\ endLock' = IF endLock = p THEN Nobody ELSE endLock
    /\ UNCHANGED <<files, changes, calls>>

Death(p) ==
    /\ p \in Mortal
    /\ \A c \in Threads(p) : th[c].pc # "dead"
    /\ Dies(p)

\* Thread c waits for stateLock with a page it has locked, thread d of the
\* process that has stateLock waits for that page, and the AST has run.
Cycle(c, d) ==
    /\ Home[c] # Home[d]
    /\ th[c].wait /\ bm[Home[d]].stateLock = LCK_write
    /\ bm[Home[d]].told /\ ast[Home[d]].pc = "none"
    /\ th[d].pc = "fetch" /\ th[c].page = th[d].page
    /\ Clash(Wants(d), buf[Home[c]][th[c].page].lock)

\* The lock manager finds the deadlock and denies the lock of the page: d
\* ends with an error, the backup or the merge it was at with it, ...
PageDenied(d) ==
    LET p == Home[d]
    IN  /\ \E c \in Client : Cycle(c, d)
        /\ endLock' = IF th[d].op \in {"end", "recover", "merge", "finish"}
                      THEN Nobody ELSE endLock
        /\ LET b == [bm[p] EXCEPT !.master = @ /\ th[d].op \in {"read", "write"}]
           IN  IF th[d].guard THEN EndsGuard(d, b, Idle)
               ELSE bm' = [bm EXCEPT ![p] = b] /\ th' = [th EXCEPT ![d] = Idle]
        /\ UNCHANGED <<ast, buf, files, bounds>>

\* ... or the request of the other thread, whose process is of no use then.
StateDenied(c) ==
    /\ \E d \in Client : Cycle(c, d)
    /\ Dies(Home[c])

\* PIO_read has no file: the end of the process.
FetchFails(c) ==
    /\ th[c].pc = "rdisk" /\ ~th[c].wait
    /\ ReadsClosed(Home[c], th[c].page)
    /\ Dies(Home[c])

Restart(c) ==
    /\ th[c].pc = "dead"
    /\ th' = [th EXCEPT ![c].pc = "init"]
    /\ UNCHANGED <<bm, ast, buf, endLock, files, bounds>>

\* initializeAlloc; endBackup with recover follows.
initializeAlloc(c) ==
    LET b == bm[Home[c]]
    IN  /\ th[c].pc = "ialloc" /\ ~th[c].wait
        /\ EndsGuard(c, IF b.state = "normal" THEN b ELSE actualizeAlloc(b, FALSE),
                     [th[c] EXCEPT !.pc = "estart"])
        /\ UNCHANGED <<ast, buf, endLock, files, bounds>>

-----------------------------------------------------------------------------

ThreadNext(c) ==
    \/ lockStateRead(c) \/ StateRead(c)
    \/ FetchLock(c) \/ CCH_fetch_page(c) \/ MarkLocks(c) \/ CCH_mark(c) \/ CCH_release(c)
    \/ FlushDone(c) \/ BeginsWrite(c) \/ StateWrite(c) \/ LeavesWrite(c)
    \/ BeginRefused(c) \/ CreatesDelta(c) \/ Stalled(c)
    \/ ChecksState(c) \/ EndRefused(c) \/ MarksMerge(c)
    \/ MergeStarts(c) \/ MergeNext(c) \/ MergeDone(c) \/ MarksNormal(c) \/ Finishes(c)
    \/ Restart(c) \/ initializeAlloc(c) \/ PageDenied(c) \/ StateDenied(c)
    \/ FetchFails(c)

ProcessNext(p) ==
    \/ AstCalled(p) \/ AstOfMaster(p) \/ AstFlushes(p) \/ AstFlushed(p) \/ AstTries(p)
    \/ \E pg \in AnyPage : write_page(p, pg) \/ PageAst(p, pg)

Requests(c) ==
    \/ \E pg \in Reads[c] : StartsRead(c, pg)
    \/ \E pg \in Changes[c] : StartsWrite(c, pg)
    \/ beginBackup(c) \/ endBackup(c)

Next ==
    \/ \E c \in Client : ThreadNext(c) \/ Requests(c)
    \/ \E p \in Process : ProcessNext(p) \/ Death(p)

Spec == Init /\ [][Next]_vars

\* Every thread, AST and cache writer goes on; nobody has to start anything.
FairSpec ==
    /\ Spec
    /\ \A c \in Client : WF_vars(ThreadNext(c))
    /\ \A p \in Process : WF_vars(ProcessNext(p))

-----------------------------------------------------------------------------
(* Properties. *)

\* A valid buffer that is clean holds what was last written of the page:
\* no read gets a version of the page that another process or the merge has
\* replaced.
Fresh ==
    \A p \in Process, pg \in AnyPage :
        LET b == buf[p][pg]
        IN  b.valid /\ ~b.dirty => b.page = stored[pg]

\* The pages that a process would find which opens the database now.
DiskIndex(pg) ==
    IF \E i \in DOMAIN delta.alloc : delta.alloc[i] = pg
    THEN CHOOSE i \in DOMAIN delta.alloc : delta.alloc[i] = pg ELSE 0

DiskPage(pg) ==
    IF main[Header].st = "normal" \/ DiskIndex(pg) = 0 \/ DeltaPage(DiskIndex(pg)) = EmptyPage
    THEN main[pg] ELSE DeltaPage(DiskIndex(pg))

\* Whenever all processes die, the files hold the last version written of
\* every page: in the delta until the merge has put it into the main file,
\* and in the main file when the delta goes.
Recoverable == \A pg \in AnyPage : DiskPage(pg) = stored[pg]

\* While a thread has the state locked, or a page is dirty, the process knows
\* the state and has the delta open if there is one (the assertions of
\* CCH_fetch_page, CCH_mark and write_page, and those on diff_file).
StateKnown ==
    \A p \in Process :
        LET reads == \E c \in Threads(p) : th[c].guard /\ ~th[c].wait
            dirty == \E pg \in AnyPage : buf[p][pg].dirty /\ buf[p][pg].nbak
        IN  ~bm[p].master /\ (reads \/ dirty) =>
              /\ bm[p].state = main[Header].st
              /\ bm[p].scn = main[Header].scn
              /\ bm[p].open \/ bm[p].state = "normal"

\* The main file does not change while its header says stalled: nbackup and
\* other copy programs read it without a lock.  The step that ends the state
\* is the write of the header page.
MainFrozen ==
    [][main[Header].st = "stalled" => \A pg \in Page : main'[pg] = main[pg]]_vars

\* The incremental backup copies pages whose pag_scn is above the SCN of the
\* previous backup: every page of the main file that has changed since that
\* backup has a higher one, and at most that of the backup itself.
IncrementalSees ==
    \A pg \in Page :
        /\ main[pg].ver # snap.ver[pg] => main[pg].scn > snap.scn
        /\ main[Header].st = "stalled" => main[pg].scn < main[Header].scn

\* A process that has allocLock and knows the state has the whole table.
TableCurrent ==
    \A p \in Process :
        bm[p].allocLock # LCK_none /\ bm[p].state \in {"stalled", "merge"} =>
            bm[p].loaded /\ bm[p].table = delta.alloc

\* "... and releases the lock allowing transaction processing to continue"
\* (nbak.h): a thread that waits for stateLock gets it.  It does not if the
\* AST of the process that has it fails in tryBeginWrite during a
\* StateWriteGuard: only unlockStateRead looks at stateBlocking.
WorkGoesOn == \A c \in Client : th[c].wait ~> ~th[c].wait

=============================================================================
