------------------------ MODULE NBackupStateProofs ------------------------
(***************************************************************************)
(* An inductive invariant of NBackup for processes with one thread (the    *)
(* Classic architecture), and the proof that the steps keep it that leave  *)
(* the files alone: those of a thread and its guards, of stateLock and its *)
(* AST, of the page buffers, and of the table of the delta under allocLock.*)
(*                                                                         *)
(* The invariant is a conjunction of predicates on values: the thread t,   *)
(* the manager b, the buffers f of one process, and of the header page on  *)
(* disk the state st and the number scn.  A step of one process leaves them*)
(* alone for the others, whose predicates then hold by substitution.       *)
(***************************************************************************)
EXTENDS NBackup, TLAPS, SequenceTheorems

Classic == \A p \in Process : \E c \in Client : Threads(p) = {c}

Manager ==
    [state : State, scn : Nat, loaded : BOOLEAN, table : Seq(AnyPage),
     allocIsValid : BOOLEAN, open : BOOLEAN, master : BOOLEAN, flush : BOOLEAN,
     stateBlocking : BOOLEAN, blocking : BOOLEAN, told : BOOLEAN,
     stateLock : Level, allocLock : Level]

Buffer ==
    [lock : Level, valid : BOOLEAN, dirty : BOOLEAN, nbak : BOOLEAN,
     diff : Nat, half : BOOLEAN, page : Contents]

Op == {"none", "read", "write", "begin", "end", "recover", "merge", "finish"}

Thread ==
    [pc : PC, op : Op, page : AnyPage, guard : BOOLEAN, wait : BOOLEAN,
     left : SUBSET AnyPage]

Handler == [pc : {"none", "called", "flush", "try"}, todo : SUBSET AnyPage]

Delta == [exists : BOOLEAN, alloc : Seq(AnyPage), data : Seq(Contents)]

Snap == [scn : Nat, ver : [AnyPage -> Nat]]

\* The types of the variables.
Types ==
    /\ bm \in [Process -> Manager]
    /\ ast \in [Process -> Handler]
    /\ buf \in [Process -> [AnyPage -> Buffer]]
    /\ th \in [Client -> Thread]
    /\ endLock \in Process \cup {Nobody}
    /\ main \in [AnyPage -> Contents]
    /\ delta \in Delta
    /\ stored \in [AnyPage -> Contents]
    /\ snap \in Snap
    /\ changes \in 0..MaxChanges
    /\ calls \in 0..MaxCalls /\ deaths \in 0..MaxDeaths

-----------------------------------------------------------------------------
(* One process. *)

MasterOp == {"begin", "end", "recover", "merge", "finish"}
EndOp == {"end", "recover", "merge", "finish"}
GuardOp == {"begin", "end", "recover", "finish"}

\* What a thread is at goes with its pc.
Shape(t) ==
    /\ t.pc \in {"idle", "dead", "init", "ialloc", "estart"} => t.op = "none"
    /\ t.pc \in {"wflush", "wwait", "guarded", "hwrite"} => t.op \in GuardOp
    /\ t.pc = "leave" => t.op \in {"begin", "none", "finish"}
    /\ t.pc \in {"elock", "echeck"} => t.op \in {"end", "recover"}
    /\ t.pc \in {"mlock", "mtable", "mnext", "mflush"} => t.op = "merge"
    /\ t.pc \in {"fetch", "read", "rdisk", "have"} => t.op # "none"
    /\ t.pc = "marked" => t.op \in {"write", "merge"}
    /\ t.pc = "release" => t.op \in {"read", "write", "merge"}
    /\ t.guard <=> \/ t.pc \in {"rdisk", "echeck", "ialloc"}
                   \/ t.op = "merge" /\ t.pc # "mlock"
    /\ t.wait => \/ t.pc \in {"rdisk", "echeck", "ialloc"} /\ t.op # "merge"
                 \/ t.pc = "have" /\ t.op = "write"
                 \/ t.pc = "mtable"
    /\ t.pc \in Guarding => t.page = Header
    /\ t.op \in GuardOp /\ t.pc \in {"fetch", "read", "rdisk", "have"} => t.page = Header
    /\ t.pc = "mflush" => t.left = {}

\* The flags and stateLock of the manager go with the thread.
LockOK(t, b) ==
    /\ b.master <=> t.op \in MasterOp \/ t.pc = "leave"
    /\ b.blocking => b.master /\ (t.wait \/ t.pc \in Guarding)
    /\ b.stateLock = LCK_none => b.state = "unknown" /\ ~b.open
    /\ t.pc \in {"guarded", "hwrite", "leave"} => b.stateLock = LCK_write
    /\ t.pc = "wwait" \/ t.wait => b.stateLock = LCK_none
    /\ t.guard /\ ~t.wait /\ t.op \notin GuardOp => b.stateLock # LCK_none
    /\ t.op = "merge" /\ t.pc # "mlock" /\ ~t.wait => b.stateLock # LCK_none

\* With stateLock, the manager has the state and the SCN of the header page
\* on disk, but while it writes that page or after a failure.
KnownOK(t, b, st, scn) ==
    /\ b.stateLock # LCK_none /\ t.pc # "hwrite" =>
         /\ b.scn = scn
         /\ \/ b.state = st /\ (st # "normal" => b.open)
            \/ t.pc = "leave" /\ t.op = "begin" /\ b.state = "unknown" /\ st = "normal"
    /\ t.pc = "rdisk" /\ ~t.wait => b.scn = scn
    /\ t.op = "merge" => st = "merge"
    /\ t.op = "finish" /\ t.pc \notin {"hwrite", "leave"} => st = "merge"
    /\ b.scn <= scn \/ t.pc = "hwrite"

\* The buffer g of page pg.
BufferOK(t, b, pg, g) ==
    /\ g.lock = LCK_none => g = NoBuffer
    /\ t.page = pg /\ t.pc \in Using =>
         g.lock # LCK_none /\ (t.op # "read" => g.lock = LCK_write)
    /\ t.page = pg /\ t.pc \in {"have", "marked", "release"} \cup Guarding => g.valid
    /\ t.page = pg /\ t.pc \in {"read", "rdisk"} => ~g.valid
    /\ g.dirty => g.valid /\ g.lock = LCK_write
    /\ g.nbak => g.lock = LCK_write
    /\ g.half => g.dirty /\ g.diff # 0 /\ b.state = "merge"
    /\ g.diff # 0 => g.dirty
    /\ g.nbak /\ ~g.dirty =>
         /\ t.page = pg /\ t.pc = "have" /\ t.op \in {"write", "merge"}
         /\ t.op = "merge" => g.page.scn # b.scn
    /\ g.dirty => g.nbak \/ (pg = Header /\ t.pc = "hwrite")
    /\ t.page = pg /\ t.pc = "marked" => g.dirty
    /\ pg = Header /\ g.lock # LCK_none => t.page = pg /\ t.pc \in Using
    /\ t.pc \in Guarding \cup {"mlock"} => ~g.nbak
    /\ g.nbak => \/ b.stateLock # LCK_none
                 \/ t.wait /\ t.pc = "have" /\ t.page = pg /\ ~g.dirty
    /\ t.op = "finish" /\ t.pc # "leave" /\ pg # Header => ~g.dirty

PageOK(t, b, f) == \A pg \in AnyPage : BufferOK(t, b, pg, f[pg])

\* Page pg is in the table.
Mapped(alloc, pg) == \E i \in DOMAIN alloc : alloc[i] = pg

\* The header page h under a StateWriteGuard and elsewhere.
HeaderOK(t, b, h, st, scn, alloc) ==
    /\ h.valid /\ t.pc # "hwrite" => h.page.st = st /\ h.page.scn = scn
    /\ t.pc = "hwrite" /\ t.op = "begin" =>
         /\ b.state = "normal" /\ b.open /\ ~b.loaded
         /\ h.page.st = "stalled" /\ h.page.scn = b.scn + 1 /\ h.diff = 0
         /\ h.dirty => st = "normal" /\ scn = b.scn
         /\ ~h.dirty => st = "stalled" /\ scn = b.scn + 1
         /\ alloc = <<>>
    /\ t.pc = "hwrite" /\ t.op \in {"end", "recover"} =>
         /\ b.state = "merge" /\ b.open /\ b.loaded
         /\ h.page.st = "merge" /\ h.page.scn = b.scn
         /\ h.dirty => st \in {"stalled", "merge"} /\ scn + 1 = b.scn
         /\ ~h.dirty => st = "merge" /\ scn = b.scn
         /\ h.dirty => (h.diff # 0 <=> Mapped(alloc, Header))
    /\ t.pc = "hwrite" /\ t.op = "finish" =>
         /\ b.state = "normal"
         /\ h.page.st = "normal" /\ h.page.scn = b.scn /\ h.diff = 0
         /\ h.dirty => st = "merge" /\ scn + 1 = b.scn
         /\ ~h.dirty => st = "normal" /\ scn = b.scn

\* The table in memory belongs to the delta that is there now.
Recent(b, st, scn) == b.loaded /\ st # "normal" /\ scn <= b.scn + 1

Prefix(s, t) == Len(s) <= Len(t) /\ \A i \in 1..Len(s) : s[i] = t[i]

TableOK(t, b, st, scn, alloc) ==
    /\ NoRepeats(b.table)
    /\ ~b.loaded => b.table = <<>>
    /\ b.allocLock # LCK_none => b.loaded
    /\ Recent(b, st, scn) =>
         /\ Prefix(b.table, alloc)
         /\ b.allocLock # LCK_none => b.table = alloc
         /\ b.allocIsValid => /\ b.table = alloc
                              /\ st = "stalled" => b.allocLock # LCK_none
    /\ st = "normal" /\ b.loaded => b.scn < scn \/ t.pc = "hwrite"

\* The page of the delta that a dirty buffer goes to.
DiffOK(W, g, pg, st, alloc) ==
    /\ g.diff # 0 => st # "normal" /\ g.diff \in DOMAIN alloc /\ alloc[g.diff] = pg
    /\ g.dirty /\ g.nbak =>
         /\ st = "stalled" => g.diff # 0
         /\ pg \in W /\ st = "merge" /\ Mapped(alloc, pg) => g.diff # 0

\* A buffer against what was last written of the page, and the SCN of a
\* dirty one.
CacheOK(W, g, pg, s) ==
    /\ g.valid => g.page.ver >= 1
    /\ pg \in W /\ g.valid /\ ~g.dirty => g.page = s
    /\ g.half => g.page = s

StampOK(g, pg, scn) == pg # Header /\ g.dirty => g.page.scn = scn

-----------------------------------------------------------------------------
(* The processes together, and the files. *)

Clients ==
    \A c \in Client :
        /\ Shape(th[c])
        /\ LockOK(th[c], bm[Home[c]])
        /\ KnownOK(th[c], bm[Home[c]], main[Header].st, main[Header].scn)
        /\ PageOK(th[c], bm[Home[c]], buf[Home[c]])

Headers ==
    \A c \in Client :
        HeaderOK(th[c], bm[Home[c]], buf[Home[c]][Header],
                 main[Header].st, main[Header].scn, delta.alloc)

Tables ==
    \A c \in Client :
        TableOK(th[c], bm[Home[c]], main[Header].st, main[Header].scn, delta.alloc)

Buffers(W) ==
    \A c \in Client, pg \in AnyPage :
        /\ DiffOK(W, buf[Home[c]][pg], pg, main[Header].st, delta.alloc)
        /\ CacheOK(W, buf[Home[c]][pg], pg, stored[pg])
        /\ StampOK(buf[Home[c]][pg], pg, main[Header].scn)

\* The locks exclude one another.
Exclusive ==
    \A c, d \in Client : c # d =>
        /\ bm[Home[c]].stateLock = LCK_write => bm[Home[d]].stateLock = LCK_none
        /\ bm[Home[c]].allocLock = LCK_write => bm[Home[d]].allocLock = LCK_none
        /\ \A pg \in AnyPage : ~Clash(buf[Home[c]][pg].lock, buf[Home[d]][pg].lock)

EndLocked ==
    \A c \in Client : th[c].op \in EndOp /\ th[c].pc # "leave" => endLock = Home[c]

\* Thread c has written the header page to the delta and not to the main file.
Torn1(c) == th[c].pc = "hwrite" /\ buf[Home[c]][Header].half

HeaderStored ==
    \/ /\ \E c \in Client : Torn1(c)
       /\ \A i \in DOMAIN delta.alloc : delta.alloc[i] = Header =>
            /\ delta.data[i].st = stored[Header].st
            /\ delta.data[i].scn = stored[Header].scn
    \/ /\ stored[Header].st = main[Header].st /\ stored[Header].scn = main[Header].scn
       /\ \A i \in DOMAIN delta.alloc :
            main[Header].st # "normal" /\ delta.alloc[i] = Header =>
              \/ delta.data[i] = EmptyPage
              \/ /\ delta.data[i].st = main[Header].st
                 /\ delta.data[i].scn = main[Header].scn

\* What is on disk of page pg.
FileOK(W, pg, st) ==
    /\ pg \in W =>
         /\ st = "normal" \/ ~Mapped(delta.alloc, pg) => main[pg] = stored[pg]
         /\ \A i \in DOMAIN delta.alloc : st # "normal" /\ delta.alloc[i] = pg =>
              IF delta.data[i] = EmptyPage THEN main[pg] = stored[pg]
              ELSE delta.data[i] = stored[pg]
    /\ \A i \in DOMAIN delta.alloc : delta.alloc[i] = pg =>
         delta.data[i] = EmptyPage \/ delta.data[i].ver >= 1
    /\ main[pg].ver >= 1 /\ stored[pg].ver >= 1

Files(W) ==
    /\ NoRepeats(delta.alloc) /\ Len(delta.data) = Len(delta.alloc)
    /\ \A pg \in AnyPage : FileOK(W, pg, main[Header].st)

\* The last version is in the main file, or somebody is about to write it.
Halved(pg) == \E d \in Client : buf[Home[d]][pg].half
InMain(W, pg) == pg \in W => main[pg] = stored[pg] \/ Halved(pg)

\* Thread c is at a merge, after the header page was written.
Active(c) ==
    \/ th[c].op \in {"end", "recover"} /\ th[c].pc = "hwrite" /\ ~buf[Home[c]][Header].dirty
    \/ th[c].op = "merge"
    \/ th[c].op = "finish" /\ th[c].pc # "leave"

\* It has gone through the table up to the pages it has left.
Going(c) ==
    \/ th[c].op = "merge" /\ th[c].pc \notin {"mlock", "mtable"}
    \/ th[c].op = "finish" /\ th[c].pc # "leave" /\ main[Header].st = "merge"

MergeOK(W, c) ==
    /\ Active(c) /\ main[Header].st = "merge" =>
         \A pg \in AnyPage : stored[pg].scn = main[Header].scn => InMain(W, pg)
    /\ Going(c) =>
         \A pg \in AnyPage :
             Mapped(delta.alloc, pg) /\ (th[c].op = "merge" => pg \notin th[c].left)
                => InMain(W, pg) \/ buf[Home[c]][pg].dirty
    /\ th[c].op = "merge" /\ th[c].pc = "release" =>
         InMain(W, th[c].page) \/ buf[Home[c]][th[c].page].dirty

Merging(W) == \A c \in Client : MergeOK(W, c)

Numbers ==
    /\ snap.scn < main[Header].scn
    /\ \A pg \in Page :
         /\ main[pg].scn <= main[Header].scn /\ stored[pg].scn <= main[Header].scn
         /\ main[Header].st = "stalled" => main[pg].scn < main[Header].scn
         /\ main[pg].ver # snap.ver[pg] => main[pg].scn > snap.scn

IInv(W) ==
    /\ Types /\ Clients /\ Headers /\ Tables /\ Buffers(W)
    /\ Exclusive /\ EndLocked /\ HeaderStored /\ Files(W) /\ Merging(W) /\ Numbers

\* A process dies while it has written page pg to the delta and not to the
\* main file, and another process merges: the merge will skip the page.
Tears(pg) ==
    \E c \in Client :
        /\ th[c].pc # "dead" /\ th'[c].pc = "dead"
        /\ buf[Home[c]][pg].half /\ endLock \notin {Home[c], Nobody}

\* A process looks page pg up in a table that it has dropped with allocIsValid
\* left set.
Misled(pg) ==
    \E c \in Client :
        LET b == bm[Home[c]]
        IN  /\ th[c].page = pg /\ (CCH_fetch_page(c) \/ CCH_mark(c))
            /\ b.state = "merge" /\ b.allocIsValid /\ ~b.loaded

\* No process dies between the two writes of the header page.
HeaderWhole == \A c \in Client : Torn1(c) => th'[c].pc # "dead"

\* An AST gives the stateLock of a master up though guards or dirty pages use
\* it, at once or, when it came while the merge waited for the lock, as soon as
\* LCK_lock has it.
GivesUp(p) ==
    \/ /\ AstOfMaster(p) /\ LocalReaders(p) # {}
       /\ bm[p].stateLock # LCK_none /\ bm'[p].stateLock = LCK_none
    \/ \E c \in Threads(p) : StateRead(c) /\ th[c].op = "merge" /\ bm[p].blocking

-----------------------------------------------------------------------------
(* One thread per process. *)

\* A process has one thread, and a thread has a process to itself.
LEMMA OneThread ==
    ASSUME Classic
    PROVE  /\ \A c \in Client : Home[c] \in Process /\ Threads(Home[c]) = {c}
           /\ \A c, d \in Client : Home[c] = Home[d] => c = d
           /\ \A p \in Process : \E c \in Client : Home[c] = p
<1>1. \A c \in Client : Home[c] \in Process /\ Threads(Home[c]) = {c}
  <2> TAKE c \in Client
  <2>1. Home[c] \in Process
    BY NBConstants
  <2>2. PICK d \in Client : Threads(Home[c]) = {d}
    BY <2>1 DEF Classic
  <2>3. c \in Threads(Home[c])
    BY DEF Threads
  <2> QED BY <2>1, <2>2, <2>3
<1>2. \A c, d \in Client : Home[c] = Home[d] => c = d
  <2> TAKE c, d \in Client
  <2> HAVE Home[c] = Home[d]
  <2>1. Threads(Home[c]) = {c} /\ Threads(Home[c]) = {d}
    BY <1>1
  <2> QED BY <2>1
<1>3. \A p \in Process : \E c \in Client : Home[c] = p
  <2> TAKE p \in Process
  <2>1. PICK c \in Client : Threads(p) = {c}
    BY DEF Classic
  <2>2. c \in Threads(p)
    BY <2>1
  <2> QED BY <2>2 DEF Threads
<1> QED BY <1>1, <1>2, <1>3

\* The writer of localStateLock is the thread.
LEMMA TheWriter ==
    ASSUME Classic, NEW c \in Client
    PROVE  LocalWriter(Home[c]) = {} <=> th[c].pc \notin Guarding
BY OneThread DEF LocalWriter

\* The readers of localStateLock without the thread are pages.
LEMMA TheReaders ==
    ASSUME Classic, NEW c \in Client
    PROVE  /\ LocalReaders(Home[c]) = {} <=>
                ~th[c].guard /\ \A pg \in AnyPage : ~buf[Home[c]][pg].nbak
           /\ LocalReaders(Home[c]) \ {c} = {} <=>
                \A pg \in AnyPage : ~buf[Home[c]][pg].nbak
           /\ \A pg \in AnyPage : LocalReaders(Home[c]) \ {pg} = {} <=>
                /\ ~th[c].guard
                /\ \A pg2 \in AnyPage : pg2 # pg => ~buf[Home[c]][pg2].nbak
<1>1. Threads(Home[c]) = {c} /\ c \notin AnyPage
  BY OneThread, NBConstants
<1>2. \A x : x \in LocalReaders(Home[c]) <=>
              \/ x = c /\ th[c].guard
              \/ x \in AnyPage /\ buf[Home[c]][x].nbak
  BY <1>1 DEF LocalReaders
<1> QED BY <1>1, <1>2

-----------------------------------------------------------------------------
(* What the operations on a BackupManager do to its fields. *)

\* Manager e is b but for the fields of allocLock ...
Kept(b, e) ==
    /\ e.state = b.state /\ e.scn = b.scn /\ e.loaded = b.loaded /\ e.table = b.table
    /\ e.open = b.open /\ e.master = b.master /\ e.blocking = b.blocking
    /\ e.stateLock = b.stateLock

\* ... and has the same table.
SameTable(b, e) ==
    /\ e.scn = b.scn /\ e.loaded = b.loaded /\ e.table = b.table
    /\ e.allocLock = b.allocLock /\ e.allocIsValid = b.allocIsValid

\* The release of stateLock leaves the table alone.
LEMMA InvalidatedFields ==
    ASSUME NEW b \in Manager
    PROVE  /\ Invalidated(b) \in Manager
           /\ SameTable(b, Invalidated(b))
           /\ Invalidated(b).state = "unknown" /\ ~Invalidated(b).open
           /\ Invalidated(b).stateLock = LCK_none /\ ~Invalidated(b).blocking
           /\ Invalidated(b).master = b.master
           /\ Invalidated(b).stateBlocking = b.stateBlocking
BY DEF Invalidated, Manager, State, Level, LCK_none, LCK_read, LCK_write, SameTable

\* The table is dropped in the normal state and after a missed cycle.
Drops(b) ==
    \/ main[Header].st = "normal"
    \/ main[Header].scn < b.scn
    \/ main[Header].scn > b.scn + 1

\* What actualizeState makes of the manager.
LEMMA FetchedFields ==
    ASSUME Types, NEW b \in Manager, NEW level \in Level, NEW e, e = Fetched(b, level)
    PROVE  /\ e \in Manager
           /\ e.state = main[Header].st /\ e.scn = main[Header].scn
           /\ e.open = (main[Header].st # "normal")
           /\ e.stateLock = level /\ e.blocking = b.blocking /\ e.master = b.master
           /\ e.loaded = (b.loaded /\ ~Drops(b))
           /\ e.table = IF Drops(b) THEN <<>> ELSE b.table
           /\ e.allocLock = IF Drops(b) /\ b.loaded THEN LCK_none ELSE b.allocLock
           /\ e.allocIsValid = (b.allocIsValid /\ ~(Drops(b) /\ b.loaded /\ b.allocLock # LCK_none))
<1>1. main[Header] \in Contents
  BY DEF Types, AnyPage
<1>2. /\ main[Header].scn \in Nat /\ main[Header].st \in State
  BY <1>1 DEF Contents, State
<1> DEFINE k == [b EXCEPT !.stateLock = level, !.told = FALSE, !.flush = FALSE]
<1>3. /\ k \in Manager
      /\ k.scn = b.scn /\ k.loaded = b.loaded /\ k.table = b.table
      /\ k.allocLock = b.allocLock /\ k.allocIsValid = b.allocIsValid
      /\ k.stateLock = level /\ k.blocking = b.blocking /\ k.master = b.master
  BY DEF Manager
<1>4. e = actualizeState(k)
  BY DEF Fetched
<1> HIDE DEF k
<1> DEFINE x == Drops(k)
<1>5. x \in BOOLEAN /\ x = Drops(b)
  BY <1>3 DEF Drops
<1>6. e = [k EXCEPT !.scn = main[Header].scn,
                  !.loaded = @ /\ ~x,
                  !.table = IF x THEN <<>> ELSE @,
                  !.allocIsValid = @ /\ ~((x /\ k.loaded) /\ k.allocLock # LCK_none),
                  !.allocLock = IF x /\ k.loaded THEN LCK_none ELSE @,
                  !.open = main[Header].st # "normal",
                  !.state = main[Header].st]
  BY <1>4 DEF actualizeState, Drops
<1> HIDE DEF x
<1>7. <<>> \in Seq(AnyPage) /\ LCK_none \in Level
  BY DEF Level
<1>8. e \in Manager
  <2> DEFINE u == k.loaded /\ ~x
             v == IF x THEN <<>> ELSE k.table
             w == k.allocIsValid /\ ~((x /\ k.loaded) /\ k.allocLock # LCK_none)
             y == IF x /\ k.loaded THEN LCK_none ELSE k.allocLock
             z == main[Header].st # "normal"
  <2>1. e = [k EXCEPT !.scn = main[Header].scn, !.loaded = u, !.table = v,
                      !.allocIsValid = w, !.allocLock = y, !.open = z,
                      !.state = main[Header].st]
    BY <1>6
  <2>2. /\ u \in BOOLEAN /\ v \in Seq(AnyPage) /\ w \in BOOLEAN /\ y \in Level
        /\ z \in BOOLEAN
    BY <1>3, <1>7 DEF Manager
  <2> HIDE DEF u, v, w, y, z
  <2> QED BY <1>2, <1>3, <2>1, <2>2 DEF Manager
<1>9. /\ e.state = main[Header].st /\ e.scn = main[Header].scn
      /\ e.open = (main[Header].st # "normal")
      /\ e.stateLock = k.stateLock /\ e.blocking = k.blocking /\ e.master = k.master
      /\ e.loaded = (k.loaded /\ ~x)
      /\ e.table = IF x THEN <<>> ELSE k.table
      /\ e.allocLock = IF x /\ k.loaded THEN LCK_none ELSE k.allocLock
      /\ e.allocIsValid = (k.allocIsValid /\ ~(x /\ k.loaded /\ k.allocLock # LCK_none))
  BY <1>3, <1>6 DEF Manager
<1> QED BY <1>3, <1>5, <1>8, <1>9

\* LCK_downgrade by a process that nobody asks to write, or that may lose
\* the lock.
LEMMA DowngradedFields ==
    ASSUME NEW p, NEW b \in Manager, NEW e, e = Downgraded(p, b)
    PROVE  /\ e \in Manager /\ SameTable(b, e) /\ e.master = b.master
           /\ \/ /\ b.stateLock = LCK_none \/ Asked(p, LCK_write)
                 /\ e = Invalidated(b)
              \/ /\ b.stateLock # LCK_none
                 /\ e.stateLock \in {LCK_read, b.stateLock}
                 /\ e.state = b.state /\ e.open = b.open /\ e.blocking = b.blocking
<1>1. CASE b.stateLock = LCK_none \/ Asked(p, LCK_write)
  BY <1>1, InvalidatedFields DEF Downgraded
<1>2. CASE b.stateLock # LCK_none /\ ~Asked(p, LCK_write) /\ Asked(p, LCK_read)
  <2>1. e = [b EXCEPT !.stateLock = LCK_read, !.told = FALSE]
    BY <1>2 DEF Downgraded
  <2>2. LCK_read \in Level
    BY DEF Level
  <2> QED BY <1>2, <2>1, <2>2 DEF Manager, SameTable
<1>3. CASE b.stateLock # LCK_none /\ ~Asked(p, LCK_write) /\ ~Asked(p, LCK_read)
  <2>1. e = [b EXCEPT !.told = FALSE]
    BY <1>3 DEF Downgraded
  <2> QED BY <1>3, <2>1 DEF Manager, SameTable
<1> QED BY <1>1, <1>2, <1>3

\* The end of a read of localStateLock may release stateLock.
LEMMA UnlockFields ==
    ASSUME Classic, NEW c \in Client, NEW b \in Manager, NEW readers,
           NEW e, e = unlockStateRead(Home[c], b, readers)
    PROVE  /\ e \in Manager /\ SameTable(b, e) /\ e.master = b.master
           /\ \/ Kept(b, e)
              \/ /\ readers = {} /\ th[c].pc \notin Guarding
                 /\ e.stateLock = LCK_none /\ e.state = "unknown"
                 /\ ~e.open /\ ~e.blocking
<1>1. CASE b.stateBlocking /\ readers = {} /\ LocalWriter(Home[c]) = {}
  <2> DEFINE k == IF b.stateLock = LCK_none THEN b ELSE Invalidated(b)
  <2>1. e = [k EXCEPT !.stateBlocking = FALSE]
    BY <1>1 DEF unlockStateRead
  <2>2. k \in Manager /\ SameTable(b, k) /\ k.master = b.master
    BY InvalidatedFields DEF SameTable
  <2>3. \/ k = b
        \/ k.stateLock = LCK_none /\ k.state = "unknown" /\ ~k.open /\ ~k.blocking
    BY InvalidatedFields
  <2> HIDE DEF k
  <2>4. e \in Manager /\ SameTable(k, e) /\ Kept(k, e)
    BY <2>1, <2>2 DEF Manager, SameTable, Kept
  <2>5. th[c].pc \notin Guarding
    BY <1>1, TheWriter
  <2>6. e \in Manager /\ SameTable(b, e) /\ e.master = b.master
    BY <2>2, <2>4 DEF SameTable, Kept
  <2> QED BY <1>1, <2>3, <2>4, <2>5, <2>6 DEF Kept
<1>2. CASE ~(b.stateBlocking /\ readers = {} /\ LocalWriter(Home[c]) = {})
  <2>1. e = b
    BY <1>2 DEF unlockStateRead
  <2> QED BY <2>1 DEF SameTable, Kept
<1> QED BY <1>1, <1>2

\* Asked for the lock, another process keeps all but what goes with it.
LEMMA LosesFields ==
    ASSUME Types, NEW q \in Process, NEW level, NEW e, e = LosesAlloc(q, level)
    PROVE  /\ e \in Manager /\ Kept(bm[q], e)
           /\ e.allocLock = IF level = LCK_write THEN LCK_none
                            ELSE IF bm[q].allocLock = LCK_write THEN LCK_read
                            ELSE bm[q].allocLock
           /\ e.allocIsValid = (bm[q].allocIsValid
                                 /\ (level = LCK_read \/ bm[q].allocLock = LCK_none))
<1>1. bm[q] \in Manager
  BY DEF Types
<1>2. LCK_none \in Level /\ LCK_read \in Level
  BY DEF Level
<1> QED BY <1>1, <1>2 DEF LosesAlloc, Manager, Kept

-----------------------------------------------------------------------------
(* Steps of one process that leave the files alone. *)

\* The predicates on a process do not look at allocLock.
LEMMA KeptOK ==
    ASSUME NEW t, NEW b, NEW e, NEW f, NEW st, NEW scn, NEW alloc, Kept(b, e)
    PROVE  /\ LockOK(t, b) => LockOK(t, e)
           /\ KnownOK(t, b, st, scn) => KnownOK(t, e, st, scn)
           /\ PageOK(t, b, f) => PageOK(t, e, f)
           /\ HeaderOK(t, b, f, st, scn, alloc) => HeaderOK(t, e, f, st, scn, alloc)
<1>1. LockOK(t, b) => LockOK(t, e)
  BY DEF Kept, LockOK
<1>2. KnownOK(t, b, st, scn) => KnownOK(t, e, st, scn)
  BY DEF Kept, KnownOK
<1>3. ASSUME NEW pg, NEW g, BufferOK(t, b, pg, g) PROVE BufferOK(t, e, pg, g)
  BY <1>3 DEF Kept, BufferOK
<1>4. PageOK(t, b, f) => PageOK(t, e, f)
  BY <1>3 DEF PageOK
<1>5. HeaderOK(t, b, f, st, scn, alloc) => HeaderOK(t, e, f, st, scn, alloc)
  BY DEF Kept, HeaderOK
<1> QED BY <1>1, <1>2, <1>4, <1>5

\* The other processes keep all but allocLock.
Elsewhere(c) ==
    \A d \in Client \ {c} :
        /\ th'[d] = th[d] /\ buf'[Home[d]] = buf[Home[d]]
        /\ Kept(bm[Home[d]], bm'[Home[d]])

\* What thread c has to show after a step: its own predicates, ...
OwnClient(c) ==
    /\ Shape(th'[c])
    /\ LockOK(th'[c], bm'[Home[c]])
    /\ KnownOK(th'[c], bm'[Home[c]], main[Header].st, main[Header].scn)
    /\ PageOK(th'[c], bm'[Home[c]], buf'[Home[c]])
    /\ HeaderOK(th'[c], bm'[Home[c]], buf'[Home[c]][Header],
                main[Header].st, main[Header].scn, delta.alloc)

OwnBuffers(W, c) ==
    \A pg \in AnyPage :
        /\ DiffOK(W, buf'[Home[c]][pg], pg, main[Header].st, delta.alloc)
        /\ CacheOK(W, buf'[Home[c]][pg], pg, stored[pg])
        /\ StampOK(buf'[Home[c]][pg], pg, main[Header].scn)

\* ... its locks against those of the others, ...
OwnLocks(c) ==
    \A d \in Client \ {c} :
        /\ bm'[Home[c]].stateLock = LCK_write => bm[Home[d]].stateLock = LCK_none
        /\ bm[Home[d]].stateLock = LCK_write => bm'[Home[c]].stateLock = LCK_none
        /\ \A pg \in AnyPage : ~Clash(buf'[Home[c]][pg].lock, buf[Home[d]][pg].lock)

\* ... the tables of all, ...
AllTables(c) ==
    /\ \A d \in Client :
          TableOK(th'[d], bm'[Home[d]], main[Header].st, main[Header].scn, delta.alloc)
    /\ \A d, k \in Client : d # k /\ bm'[Home[d]].allocLock = LCK_write =>
          bm'[Home[k]].allocLock = LCK_none

\* ... and that what it has half written stays so.
HalfStays(c) ==
    /\ \A pg \in AnyPage : buf[Home[c]][pg].half => buf'[Home[c]][pg].half
    /\ Torn1(c) => Torn1(c)'

\* A step that leaves the files alone keeps the invariant if all that holds
\* of its thread.
LEMMA LocalStep ==
    ASSUME NEW W, Classic, IInv(W), NEW c \in Client, Types', Elsewhere(c),
           OwnClient(c), OwnBuffers(W, c), OwnLocks(c), AllTables(c), HalfStays(c),
           EndLocked', MergeOK(W, c)', Numbers', UNCHANGED <<main, delta, stored>>
    PROVE  IInv(W)'
<1>1. Clients' /\ Headers'
  <2> SUFFICES ASSUME NEW d \in Client
               PROVE  /\ Shape(th'[d])
                      /\ LockOK(th'[d], bm'[Home[d]])
                      /\ KnownOK(th'[d], bm'[Home[d]], main[Header].st, main[Header].scn)
                      /\ PageOK(th'[d], bm'[Home[d]], buf'[Home[d]])
                      /\ HeaderOK(th'[d], bm'[Home[d]], buf'[Home[d]][Header],
                                  main[Header].st, main[Header].scn, delta.alloc)
    BY DEF Clients, Headers
  <2>1. CASE d = c
    BY <2>1 DEF OwnClient
  <2>2. CASE d # c
    <3>1. th'[d] = th[d] /\ buf'[Home[d]] = buf[Home[d]] /\ Kept(bm[Home[d]], bm'[Home[d]])
      BY <2>2 DEF Elsewhere
    <3>2. /\ Shape(th[d])
          /\ LockOK(th[d], bm[Home[d]])
          /\ KnownOK(th[d], bm[Home[d]], main[Header].st, main[Header].scn)
          /\ PageOK(th[d], bm[Home[d]], buf[Home[d]])
          /\ HeaderOK(th[d], bm[Home[d]], buf[Home[d]][Header],
                      main[Header].st, main[Header].scn, delta.alloc)
      BY DEF IInv, Clients, Headers
    <3> QED BY <3>1, <3>2, KeptOK
  <2> QED BY <2>1, <2>2
<1>2. Tables'
  BY DEF Tables, AllTables
<1>3. Buffers(W)'
  <2> SUFFICES ASSUME NEW d \in Client, NEW pg \in AnyPage
               PROVE  /\ DiffOK(W, buf'[Home[d]][pg], pg, main[Header].st, delta.alloc)
                      /\ CacheOK(W, buf'[Home[d]][pg], pg, stored[pg])
                      /\ StampOK(buf'[Home[d]][pg], pg, main[Header].scn)
    BY DEF Buffers
  <2>1. CASE d = c
    BY <2>1 DEF OwnBuffers
  <2>2. CASE d # c
    BY <2>2 DEF Elsewhere, IInv, Buffers
  <2> QED BY <2>1, <2>2
<1>4. Exclusive'
  <2> SUFFICES ASSUME NEW d \in Client, NEW k \in Client, d # k
               PROVE  /\ bm'[Home[d]].stateLock = LCK_write => bm'[Home[k]].stateLock = LCK_none
                      /\ bm'[Home[d]].allocLock = LCK_write => bm'[Home[k]].allocLock = LCK_none
                      /\ \A pg \in AnyPage :
                            ~Clash(buf'[Home[d]][pg].lock, buf'[Home[k]][pg].lock)
    BY DEF Exclusive
  <2>1. bm'[Home[d]].allocLock = LCK_write => bm'[Home[k]].allocLock = LCK_none
    BY DEF AllTables
  <2>2. CASE d = c
    <3>1. buf'[Home[k]] = buf[Home[k]] /\ Kept(bm[Home[k]], bm'[Home[k]])
      BY <2>2 DEF Elsewhere
    <3> QED BY <2>1, <2>2, <3>1 DEF OwnLocks, Kept
  <2>3. CASE k = c
    <3>1. buf'[Home[d]] = buf[Home[d]] /\ Kept(bm[Home[d]], bm'[Home[d]])
      BY <2>3 DEF Elsewhere
    <3> QED BY <2>1, <2>3, <3>1 DEF OwnLocks, Kept, Clash
  <2>4. CASE d # c /\ k # c
    <3>1. /\ buf'[Home[d]] = buf[Home[d]] /\ Kept(bm[Home[d]], bm'[Home[d]])
          /\ buf'[Home[k]] = buf[Home[k]] /\ Kept(bm[Home[k]], bm'[Home[k]])
      BY <2>4 DEF Elsewhere
    <3> QED BY <2>1, <2>4, <3>1 DEF IInv, Exclusive, Kept
  <2> QED BY <2>2, <2>3, <2>4
<1>5. HeaderStored'
  <2>1. CASE \E d \in Client : Torn1(d)
    <3>1. PICK d \in Client : Torn1(d)
      BY <2>1
    <3>2. Torn1(d)'
      BY <3>1 DEF HalfStays, Elsewhere, Torn1
    <3> QED BY <3>2 DEF IInv, HeaderStored
  <2>2. CASE ~\E d \in Client : Torn1(d)
    BY <2>2 DEF IInv, HeaderStored
  <2> QED BY <2>1, <2>2
<1>6. Files(W)'
  BY DEF IInv, Files, FileOK
<1>7. \A pg \in AnyPage : InMain(W, pg) => InMain(W, pg)'
  <2> TAKE pg \in AnyPage
  <2> HAVE InMain(W, pg)
  <2>1. CASE Halved(pg)
    <3>1. PICK d \in Client : buf[Home[d]][pg].half
      BY <2>1 DEF Halved
    <3>2. buf'[Home[d]][pg].half
      BY <3>1 DEF HalfStays, Elsewhere
    <3> QED BY <3>2 DEF InMain, Halved
  <2> QED BY <2>1 DEF InMain
<1>8. Merging(W)'
  <2> SUFFICES ASSUME NEW d \in Client PROVE MergeOK(W, d)'
    BY DEF Merging
  <2>1. CASE d = c
    BY <2>1
  <2>2. CASE d # c
    <3>1. th'[d] = th[d] /\ buf'[Home[d]] = buf[Home[d]]
      BY <2>2 DEF Elsewhere
    <3>2. (Active(d)' <=> Active(d)) /\ (Going(d)' <=> Going(d))
      BY <3>1 DEF Active, Going
    <3>3. MergeOK(W, d)
      BY DEF IInv, Merging
    <3>4. th[d].page \in AnyPage
      BY DEF IInv, Types, Thread
    <3>5. Active(d)' /\ main'[Header].st = "merge" =>
            \A pg \in AnyPage : stored'[pg].scn = main'[Header].scn => InMain(W, pg)'
      BY <1>7, <3>2, <3>3 DEF MergeOK
    <3>6. Going(d)' =>
            \A pg \in AnyPage :
                Mapped(delta'.alloc, pg) /\ (th'[d].op = "merge" => pg \notin th'[d].left)
                   => InMain(W, pg)' \/ buf'[Home[d]][pg].dirty
      BY <1>7, <3>1, <3>2, <3>3 DEF MergeOK
    <3>7. th'[d].op = "merge" /\ th'[d].pc = "release" =>
            InMain(W, th[d].page)' \/ buf'[Home[d]][th'[d].page].dirty
      BY <1>7, <3>1, <3>3, <3>4 DEF MergeOK
    <3> QED BY <3>1, <3>5, <3>6, <3>7 DEF MergeOK
  <2> QED BY <2>1, <2>2
<1> QED BY <1>1, <1>2, <1>3, <1>4, <1>5, <1>6, <1>8 DEF IInv

\* A page that is in the main file, or half written, stays so.
LEMMA InMainStays ==
    ASSUME NEW W, NEW c \in Client, Elsewhere(c), HalfStays(c), UNCHANGED <<main, stored>>,
           NEW pg \in AnyPage, InMain(W, pg)
    PROVE  InMain(W, pg)'
<1>1. CASE Halved(pg)
  <2>1. PICK d \in Client : buf[Home[d]][pg].half
    BY <1>1 DEF Halved
  <2>2. buf'[Home[d]][pg].half
    BY <2>1 DEF HalfStays, Elsewhere
  <2> QED BY <2>2 DEF InMain, Halved
<1>2. CASE ~Halved(pg)
  BY <1>2 DEF InMain
<1> QED BY <1>1, <1>2

\* A thread that does not get further with its merge has nothing to show.
LEMMA MergeStays ==
    ASSUME NEW W, IInv(W), NEW c \in Client, Elsewhere(c), HalfStays(c),
           UNCHANGED <<main, delta, stored>>, Types',
           Active(c)' => Active(c),
           Going(c)' => /\ Going(c) /\ th'[c].op = th[c].op
                        /\ th[c].op = "merge" => th[c].left \subseteq th'[c].left,
           th'[c].op = "merge" /\ th'[c].pc = "release" =>
             \/ buf'[Home[c]][th'[c].page].dirty
             \/ th[c].op = "merge" /\ th[c].pc = "release" /\ th'[c].page = th[c].page,
           \A pg \in AnyPage : buf[Home[c]][pg].dirty => buf'[Home[c]][pg].dirty
    PROVE  MergeOK(W, c)'
<1>1. \A pg \in AnyPage : InMain(W, pg) => InMain(W, pg)'
  BY InMainStays
<1>2. MergeOK(W, c)
  BY DEF IInv, Merging
<1>3. th[c].page \in AnyPage
  BY DEF IInv, Types, Thread
<1>4. Active(c)' /\ main'[Header].st = "merge" =>
        \A pg \in AnyPage : stored'[pg].scn = main'[Header].scn => InMain(W, pg)'
  BY <1>1, <1>2 DEF MergeOK
<1>5. Going(c)' =>
        \A pg \in AnyPage :
            Mapped(delta'.alloc, pg) /\ (th'[c].op = "merge" => pg \notin th'[c].left)
               => InMain(W, pg)' \/ buf'[Home[c]][pg].dirty
  <2> HAVE Going(c)'
  <2> TAKE pg \in AnyPage
  <2> HAVE Mapped(delta'.alloc, pg) /\ (th'[c].op = "merge" => pg \notin th'[c].left)
  <2>1. Going(c) /\ Mapped(delta.alloc, pg) /\ (th[c].op = "merge" => pg \notin th[c].left)
    OBVIOUS
  <2>2. InMain(W, pg) \/ buf[Home[c]][pg].dirty
    BY <1>2, <2>1 DEF MergeOK
  <2> QED BY <1>1, <2>2
<1>6. ASSUME th'[c].op = "merge", th'[c].pc = "release"
      PROVE InMain(W, th[c].page)' \/ buf'[Home[c]][th'[c].page].dirty
  <2>1. CASE buf'[Home[c]][th'[c].page].dirty
    BY <2>1
  <2>2. CASE th[c].op = "merge" /\ th[c].pc = "release" /\ th'[c].page = th[c].page
    <3>1. InMain(W, th[c].page) \/ buf[Home[c]][th[c].page].dirty
      BY <1>2, <2>2 DEF MergeOK
    <3> DEFINE pg == th[c].page
    <3>2. pg' = pg
      BY <2>2
    <3>3. InMain(W, pg) => InMain(W, pg)'
      BY <1>1, <1>3, <3>2
    <3> QED BY <1>3, <2>2, <3>1, <3>3
  <2> QED BY <1>6, <2>1, <2>2
<1> QED BY <1>4, <1>5, <1>6 DEF MergeOK

\* A step that changes a thread and its manager only.
LEMMA ManagerStepIf ==
    ASSUME NEW W, Classic, IInv(W), NEW c \in Client, NEW t1, NEW b1, Types',
           th' = [th EXCEPT ![c] = t1], bm' = [bm EXCEPT ![Home[c]] = b1],
           UNCHANGED <<buf, main, delta, stored>>,
           Shape(t1), LockOK(t1, b1),
           KnownOK(t1, b1, main[Header].st, main[Header].scn),
           PageOK(t1, b1, buf[Home[c]]),
           HeaderOK(t1, b1, buf[Home[c]][Header], main[Header].st, main[Header].scn,
                    delta.alloc),
           TableOK(t1, b1, main[Header].st, main[Header].scn, delta.alloc),
           b1.allocLock \in {LCK_none, bm[Home[c]].allocLock},
           \A d \in Client \ {c} :
              /\ b1.stateLock = LCK_write => bm[Home[d]].stateLock = LCK_none
              /\ bm[Home[d]].stateLock = LCK_write => b1.stateLock = LCK_none,
           th[c].pc = "hwrite" => t1.pc = "hwrite" \/ ~buf[Home[c]][Header].half,
           Elsewhere(c) /\ HalfStays(c) => MergeOK(W, c)',
           EndLocked', Numbers'
    PROVE  IInv(W)'
<1>1. /\ th'[c] = t1 /\ \A d \in Client \ {c} : th'[d] = th[d]
  BY DEF IInv, Types
<1>2. /\ bm'[Home[c]] = b1
      /\ \A d \in Client \ {c} : bm'[Home[d]] = bm[Home[d]]
  BY OneThread DEF IInv, Types
<1>3. Elsewhere(c)
  BY <1>1, <1>2 DEF Elsewhere, Kept
<1>4. OwnClient(c)
  BY <1>1, <1>2 DEF OwnClient
<1>5. OwnBuffers(W, c)
  BY DEF OwnBuffers, IInv, Buffers
<1>6. OwnLocks(c)
  BY <1>2 DEF OwnLocks, IInv, Exclusive
<1>7. AllTables(c)
  <2>1. \A d \in Client :
          TableOK(th'[d], bm'[Home[d]], main[Header].st, main[Header].scn, delta.alloc)
    <3> TAKE d \in Client
    <3>1. CASE d = c
      BY <1>1, <1>2, <3>1
    <3>2. CASE d # c
      BY <1>1, <1>2, <3>2 DEF IInv, Tables
    <3> QED BY <3>1, <3>2
  <2>2. ASSUME NEW d \in Client, NEW k \in Client, d # k, bm'[Home[d]].allocLock = LCK_write
        PROVE  bm'[Home[k]].allocLock = LCK_none
    <3>1. bm[Home[d]].allocLock = LCK_write
      BY <1>2, <2>2 DEF LCK_none, LCK_write
    <3>2. bm[Home[k]].allocLock = LCK_none
      BY <2>2, <3>1 DEF IInv, Exclusive
    <3> QED BY <1>2, <3>2
  <2> QED BY <2>1, <2>2 DEF AllTables
<1>8. HalfStays(c)
  BY <1>1 DEF HalfStays, Torn1
<1> QED BY <1>3, <1>4, <1>5, <1>6, <1>7, <1>8, LocalStep

\* ... if it does not get further with a merge.
LEMMA ManagerStep ==
    ASSUME NEW W, Classic, IInv(W), NEW c \in Client, NEW t1, NEW b1, Types',
           th' = [th EXCEPT ![c] = t1], bm' = [bm EXCEPT ![Home[c]] = b1],
           UNCHANGED <<buf, main, delta, stored>>,
           Shape(t1), LockOK(t1, b1),
           KnownOK(t1, b1, main[Header].st, main[Header].scn),
           PageOK(t1, b1, buf[Home[c]]),
           HeaderOK(t1, b1, buf[Home[c]][Header], main[Header].st, main[Header].scn,
                    delta.alloc),
           TableOK(t1, b1, main[Header].st, main[Header].scn, delta.alloc),
           b1.allocLock \in {LCK_none, bm[Home[c]].allocLock},
           \A d \in Client \ {c} :
              /\ b1.stateLock = LCK_write => bm[Home[d]].stateLock = LCK_none
              /\ bm[Home[d]].stateLock = LCK_write => b1.stateLock = LCK_none,
           th[c].pc = "hwrite" => t1.pc = "hwrite" \/ ~buf[Home[c]][Header].half,
           Active(c)' => Active(c),
           Going(c)' => /\ Going(c) /\ t1.op = th[c].op
                        /\ th[c].op = "merge" => th[c].left \subseteq t1.left,
           t1.op = "merge" => t1.pc # "release" \/ t1 = th[c],
           EndLocked', Numbers'
    PROVE  IInv(W)'
<1>1. th'[c] = t1
  BY DEF IInv, Types
<1>2. ASSUME Elsewhere(c), HalfStays(c) PROVE MergeOK(W, c)'
  <2>1. th'[c].op = "merge" /\ th'[c].pc = "release" =>
          th[c].op = "merge" /\ th[c].pc = "release" /\ th'[c].page = th[c].page
    BY <1>1
  <2>2. Going(c)' => /\ Going(c) /\ th'[c].op = th[c].op
                     /\ th[c].op = "merge" => th[c].left \subseteq th'[c].left
    BY <1>1
  <2> QED BY <1>2, <2>1, <2>2, MergeStays
<1> QED BY <1>2, ManagerStepIf

\* What the invariant says of one thread.
LEMMA OfClient ==
    ASSUME NEW W, IInv(W), NEW c \in Client
    PROVE  /\ th[c] \in Thread /\ bm[Home[c]] \in Manager
           /\ buf[Home[c]] \in [AnyPage -> Buffer]
           /\ Shape(th[c]) /\ LockOK(th[c], bm[Home[c]])
           /\ KnownOK(th[c], bm[Home[c]], main[Header].st, main[Header].scn)
           /\ PageOK(th[c], bm[Home[c]], buf[Home[c]])
           /\ HeaderOK(th[c], bm[Home[c]], buf[Home[c]][Header], main[Header].st,
                       main[Header].scn, delta.alloc)
           /\ TableOK(th[c], bm[Home[c]], main[Header].st, main[Header].scn, delta.alloc)
           /\ main[Header] \in Contents /\ Header \in AnyPage
BY NBConstants DEF IInv, Types, Clients, Headers, Tables, AnyPage

\* The number and the state in the header page.
LEMMA HeaderFields ==
    ASSUME NEW W, IInv(W)
    PROVE  main[Header].scn \in Nat /\ main[Header].st \in {"normal", "stalled", "merge"}
<1>1. main[Header] \in Contents
  BY DEF IInv, Types, AnyPage
<1> QED BY <1>1 DEF Contents, State

\* The variables that no predicate of the invariant looks at.
OtherTypes ==
    /\ ast \in [Process -> Handler]
    /\ changes \in 0..MaxChanges /\ calls \in 0..MaxCalls /\ deaths \in 0..MaxDeaths

\* A step that neither begins nor ends the write of the header page and
\* leaves the table of the delta alone.
LEMMA QuietStep ==
    ASSUME NEW W, Classic, IInv(W), NEW c \in Client, NEW t1 \in Thread, NEW b1 \in Manager,
           th' = [th EXCEPT ![c] = t1], bm' = [bm EXCEPT ![Home[c]] = b1],
           UNCHANGED <<buf, main, delta, stored, snap>>,
           OtherTypes', endLock' \in Process \cup {Nobody},
           SameTable(bm[Home[c]], b1),
           Shape(t1), LockOK(t1, b1),
           KnownOK(t1, b1, main[Header].st, main[Header].scn),
           PageOK(t1, b1, buf[Home[c]]),
           \/ th[c].pc # "hwrite" /\ t1.pc # "hwrite"
           \/ /\ t1 = th[c]
              /\ b1.state = bm[Home[c]].state /\ b1.open = bm[Home[c]].open,
           \/ b1.stateLock \in {LCK_none, LCK_read} /\ bm[Home[c]].stateLock # LCK_none
           \/ b1.stateLock \in {LCK_none, bm[Home[c]].stateLock},
           t1.op \in {"merge", "finish"} => t1.op = th[c].op /\ t1.left = th[c].left,
           th[c].pc \in {"mlock", "mtable"} /\ t1.op = "merge" => t1.pc \in {"mlock", "mtable"},
           th[c].pc = "leave" => t1.op # "finish" \/ t1.pc = "leave",
           t1.op = "merge" => t1.pc # "release" \/ t1 = th[c],
           EndLocked'
    PROVE  IInv(W)'
<1> DEFINE b == bm[Home[c]]
           t == th[c]
           f == buf[Home[c]]
<1>0. /\ t \in Thread /\ b \in Manager
      /\ Shape(t) /\ LockOK(t, b)
      /\ HeaderOK(t, b, f[Header], main[Header].st, main[Header].scn, delta.alloc)
      /\ TableOK(t, b, main[Header].st, main[Header].scn, delta.alloc)
  BY OfClient
<1>1. th'[c] = t1 /\ \A d \in Client \ {c} : th'[d] = th[d]
  BY DEF IInv, Types
<1>3. Types'
  <2>1. th' \in [Client -> Thread] /\ bm' \in [Process -> Manager]
    BY OneThread DEF IInv, Types
  <2> QED BY <2>1 DEF IInv, Types, OtherTypes
<1>4. HeaderOK(t1, b1, f[Header], main[Header].st, main[Header].scn, delta.alloc)
  BY <1>0 DEF HeaderOK, SameTable
<1>5. TableOK(t1, b1, main[Header].st, main[Header].scn, delta.alloc)
  BY <1>0 DEF TableOK, SameTable, Recent
<1>6. b1.allocLock \in {LCK_none, b.allocLock}
  BY DEF SameTable
<1>7. ASSUME NEW d \in Client \ {c}
      PROVE /\ b1.stateLock = LCK_write => bm[Home[d]].stateLock = LCK_none
            /\ bm[Home[d]].stateLock = LCK_write => b1.stateLock = LCK_none
  <2>1. /\ b.stateLock = LCK_write => bm[Home[d]].stateLock = LCK_none
        /\ bm[Home[d]].stateLock = LCK_write => b.stateLock = LCK_none
    BY DEF IInv, Exclusive
  <2> QED BY <2>1 DEF LCK_none, LCK_read, LCK_write
<1>8. t.pc = "hwrite" => t1.pc = "hwrite" \/ ~f[Header].half
  OBVIOUS
<1>10. Active(c)' => Active(c)
  BY <1>1 DEF Active
<1>11. Going(c)' => Going(c) /\ t1.op = t.op /\ (t.op = "merge" => t.left \subseteq t1.left)
  BY <1>1 DEF Going
<1>12. t1.op = "merge" /\ t1.pc = "release" => t1 = t
  OBVIOUS
<1>13. Numbers'
  BY DEF IInv, Numbers
<1> QED BY <1>3, <1>4, <1>5, <1>6, <1>7, <1>8, <1>10, <1>11, <1>12, <1>13, ManagerStep

-----------------------------------------------------------------------------
(* The steps of a thread. *)

\* A manager that stays the same.
LEMMA SameManager ==
    ASSUME NEW W, IInv(W), NEW c \in Client, UNCHANGED bm
    PROVE  bm' = [bm EXCEPT ![Home[c]] = bm[Home[c]]] /\ SameTable(bm[Home[c]], bm[Home[c]])
BY DEF IInv, Types, SameTable

\* The manager of a thread that has stateLock knows the state, if it is not
\* about to leave a StateWriteGuard.
LEMMA KnowsState ==
    ASSUME NEW W, IInv(W), NEW c \in Client, th[c].pc \notin {"hwrite", "leave"}
    PROVE  bm[Home[c]].state = "unknown" <=> bm[Home[c]].stateLock = LCK_none
BY OfClient, HeaderFields DEF LockOK, KnownOK

\* lockStateRead keeps the invariant: who does not wait has stateLock.
LEMMA StepLockStateRead ==
    ASSUME NEW W, Classic, IInv(W), NEW c \in Client, lockStateRead(c)
    PROVE  IInv(W)'
<1> DEFINE t == th[c]
           b == bm[Home[c]]
           f == buf[Home[c]]
           t1 == [t EXCEPT !.pc = AfterLock[@], !.guard = TRUE,
                           !.wait = ~t.guard /\ b.state = "unknown"]
<1>0. /\ t \in Thread /\ b \in Manager
      /\ Shape(t) /\ LockOK(t, b) /\ PageOK(t, b, f)
      /\ KnownOK(t, b, main[Header].st, main[Header].scn)
  BY OfClient
<1>1. t.pc \in {"read", "elock", "mlock", "init"}
  BY DEF lockStateRead, AfterLock
<1>2. ~t.wait /\ t.guard \in BOOLEAN
  BY <1>0, <1>1 DEF Shape, Thread
<1>3. th' = [th EXCEPT ![c] = t1]
  <2>1. CASE t.guard
    <3>1. t1 = [t EXCEPT !.pc = AfterLock[@]]
      BY <1>0, <1>2, <2>1 DEF Thread
    <3> QED BY <2>1, <3>1 DEF lockStateRead
  <2>2. CASE ~t.guard
    BY <2>2 DEF lockStateRead
  <2> QED BY <2>1, <2>2
<1>4. /\ AfterLock["read"] = "rdisk" /\ AfterLock["elock"] = "echeck"
      /\ AfterLock["mlock"] = "mtable" /\ AfterLock["init"] = "ialloc"
  BY DEF AfterLock
<1>5. /\ t1 \in Thread
      /\ t.pc = "read" => t1.pc = "rdisk"
      /\ t.pc = "elock" => t1.pc = "echeck"
      /\ t.pc = "mlock" => t1.pc = "mtable"
      /\ t.pc = "init" => t1.pc = "ialloc"
      /\ t1.op = t.op /\ t1.page = t.page /\ t1.left = t.left /\ t1.guard
      /\ t1.wait = (~t.guard /\ b.state = "unknown")
  BY <1>0, <1>1, <1>4 DEF Thread, PC
<1>6. b.state = "unknown" <=> b.stateLock = LCK_none
  BY <1>1, KnowsState
<1>7. UNCHANGED <<bm, ast, buf, endLock, main, delta, stored, snap, changes, calls, deaths>>
  BY DEF lockStateRead, files, bounds
<1> HIDE DEF t1
<1>8. Shape(t1)
  BY <1>0, <1>1, <1>5, <1>6 DEF Shape, Guarding, GuardOp, LockOK
<1>9. LockOK(t1, b)
  BY <1>0, <1>1, <1>2, <1>5, <1>6 DEF LockOK, Shape, Guarding, GuardOp, MasterOp
<1>10. KnownOK(t1, b, main[Header].st, main[Header].scn)
  BY <1>0, <1>1, <1>2, <1>5, <1>6 DEF KnownOK, LockOK, Shape
<1>11. PageOK(t1, b, f)
  BY <1>0, <1>1, <1>2, <1>5 DEF PageOK, BufferOK, Using, Guarding
<1>12. EndLocked'
  BY <1>1, <1>3, <1>5, <1>7 DEF IInv, EndLocked, Types
<1>13. OtherTypes' /\ endLock' \in Process \cup {Nobody}
  BY <1>7 DEF OtherTypes, IInv, Types
<1> QED
  BY <1>0, <1>1, <1>3, <1>5, <1>7, <1>8, <1>9, <1>10, <1>11, <1>12, <1>13, SameManager, QuietStep

\* A step that changes a thread only.
LEMMA ThreadStep ==
    ASSUME NEW W, Classic, IInv(W), NEW c \in Client, NEW t1 \in Thread,
           th' = [th EXCEPT ![c] = t1],
           UNCHANGED <<bm, ast, buf, endLock, main, delta, stored, snap>>,
           OtherTypes',
           Shape(t1), LockOK(t1, bm[Home[c]]),
           KnownOK(t1, bm[Home[c]], main[Header].st, main[Header].scn),
           PageOK(t1, bm[Home[c]], buf[Home[c]]),
           th[c].pc # "hwrite", t1.pc # "hwrite",
           t1.op \in {"merge", "finish"} => t1.op = th[c].op /\ t1.left = th[c].left,
           th[c].pc \in {"mlock", "mtable"} /\ t1.op = "merge" => t1.pc \in {"mlock", "mtable"},
           th[c].pc = "leave" => t1.op # "finish" \/ t1.pc = "leave",
           t1.op = "merge" => t1.pc # "release",
           t1.op \in EndOp /\ t1.pc # "leave" => th[c].op \in EndOp /\ th[c].pc # "leave"
    PROVE  IInv(W)'
<1>1. bm' = [bm EXCEPT ![Home[c]] = bm[Home[c]]] /\ SameTable(bm[Home[c]], bm[Home[c]])
  BY SameManager
<1>2. bm[Home[c]] \in Manager
  BY OfClient
<1>3. EndLocked'
  BY DEF IInv, EndLocked, Types
<1>4. endLock' \in Process \cup {Nobody}
  BY DEF IInv, Types
<1> QED BY <1>1, <1>2, <1>3, <1>4, QuietStep

\* FlushDone keeps the invariant.
LEMMA StepFlushDone ==
    ASSUME NEW W, Classic, IInv(W), NEW c \in Client, FlushDone(c)
    PROVE  IInv(W)'
<1> DEFINE t == th[c]
           b == bm[Home[c]]
           f == buf[Home[c]]
           t1 == [t EXCEPT !.pc = "fetch", !.page = Header]
<1>0. /\ t \in Thread /\ b \in Manager /\ Header \in AnyPage
      /\ Shape(t) /\ LockOK(t, b) /\ PageOK(t, b, f)
      /\ KnownOK(t, b, main[Header].st, main[Header].scn)
  BY OfClient
<1>1. t.pc = "wflush" /\ th' = [th EXCEPT ![c] = t1]
  BY DEF FlushDone
<1>2. /\ t1 \in Thread
      /\ t1.pc = "fetch" /\ t1.page = Header /\ t1.op = t.op /\ t1.guard = t.guard
      /\ t1.wait = t.wait /\ t1.left = t.left
  BY <1>0 DEF Thread, PC
<1>3. /\ UNCHANGED <<bm, ast, buf, endLock, main, delta, stored, snap>>
      /\ OtherTypes'
  BY DEF FlushDone, files, bounds, OtherTypes, IInv, Types
<1> HIDE DEF t1
<1>4. Shape(t1)
  BY <1>0, <1>1, <1>2 DEF Shape, Guarding, GuardOp
<1>5. LockOK(t1, b)
  BY <1>0, <1>1, <1>2 DEF LockOK, Shape, Guarding
<1>6. KnownOK(t1, b, main[Header].st, main[Header].scn)
  BY <1>0, <1>1, <1>2 DEF KnownOK
<1>7. PageOK(t1, b, f)
  BY <1>0, <1>1, <1>2 DEF PageOK, BufferOK, Using, Guarding
<1>8. t1.op # "merge" /\ (t1.op \in EndOp => t.op \in EndOp)
  BY <1>0, <1>1, <1>2 DEF Shape, GuardOp
<1> QED BY <1>1, <1>2, <1>3, <1>4, <1>5, <1>6, <1>7, <1>8, ThreadStep

\* MergeNext keeps the invariant.
LEMMA StepMergeNext ==
    ASSUME NEW W, Classic, IInv(W), NEW c \in Client, MergeNext(c)
    PROVE  IInv(W)'
<1> DEFINE t == th[c]
           b == bm[Home[c]]
           f == buf[Home[c]]
<1>0. /\ t \in Thread /\ b \in Manager
      /\ Shape(t) /\ LockOK(t, b) /\ PageOK(t, b, f)
      /\ KnownOK(t, b, main[Header].st, main[Header].scn)
  BY OfClient
<1>1. t.pc = "mnext" /\ t.op = "merge"
  BY <1>0 DEF MergeNext, Shape
<1>2. PICK t1 \in Thread :
        /\ th' = [th EXCEPT ![c] = t1]
        /\ t1.pc \in {"fetch", "mflush"} /\ (t1.pc = "mflush" => t1.left = {})
        /\ t1.op = t.op /\ t1.guard = t.guard /\ t1.wait = t.wait /\ t1.left = t.left
  <2>1. ASSUME NEW pg \in t.left, th' = [th EXCEPT ![c].pc = "fetch", ![c].page = pg]
        PROVE  \E t1 \in Thread :
                 /\ th' = [th EXCEPT ![c] = t1]
                 /\ t1.pc \in {"fetch", "mflush"} /\ (t1.pc = "mflush" => t1.left = {})
                 /\ t1.op = t.op /\ t1.guard = t.guard /\ t1.wait = t.wait /\ t1.left = t.left
    <3> DEFINE t1 == [t EXCEPT !.pc = "fetch", !.page = pg]
    <3>1. pg \in AnyPage
      BY <1>0, <2>1 DEF Thread
    <3>2. /\ t1 \in Thread /\ t1.pc = "fetch"
          /\ t1.op = t.op /\ t1.guard = t.guard /\ t1.wait = t.wait /\ t1.left = t.left
      BY <1>0, <3>1 DEF Thread, PC
    <3>3. th' = [th EXCEPT ![c] = t1]
      BY <2>1
    <3> QED BY <3>2, <3>3
  <2>2. ASSUME t.left = {}, th' = [th EXCEPT ![c].pc = "mflush"]
        PROVE  \E t1 \in Thread :
                 /\ th' = [th EXCEPT ![c] = t1]
                 /\ t1.pc \in {"fetch", "mflush"} /\ (t1.pc = "mflush" => t1.left = {})
                 /\ t1.op = t.op /\ t1.guard = t.guard /\ t1.wait = t.wait /\ t1.left = t.left
    <3> DEFINE t1 == [t EXCEPT !.pc = "mflush"]
    <3>2. /\ t1 \in Thread /\ t1.pc = "mflush"
          /\ t1.op = t.op /\ t1.guard = t.guard /\ t1.wait = t.wait /\ t1.left = t.left
      BY <1>0 DEF Thread, PC
    <3>3. th' = [th EXCEPT ![c] = t1]
      BY <2>2
    <3> QED BY <2>2, <3>2, <3>3
  <2> QED BY <2>1, <2>2 DEF MergeNext
<1>3. /\ UNCHANGED <<bm, ast, buf, endLock, main, delta, stored, snap>>
      /\ OtherTypes'
  BY DEF MergeNext, files, bounds, OtherTypes, IInv, Types
<1>4. Shape(t1)
  BY <1>0, <1>1, <1>2 DEF Shape, Guarding, GuardOp
<1>5. LockOK(t1, b)
  BY <1>0, <1>1, <1>2 DEF LockOK, Shape, Guarding
<1>6. KnownOK(t1, b, main[Header].st, main[Header].scn)
  BY <1>0, <1>1, <1>2 DEF KnownOK
<1>7. PageOK(t1, b, f)
  BY <1>0, <1>1, <1>2 DEF PageOK, BufferOK, Using, Guarding
<1> QED BY <1>1, <1>2, <1>3, <1>4, <1>5, <1>6, <1>7, ThreadStep DEF EndOp

\* BeginRefused keeps the invariant.
LEMMA StepBeginRefused ==
    ASSUME NEW W, Classic, IInv(W), NEW c \in Client, BeginRefused(c)
    PROVE  IInv(W)'
<1> DEFINE t == th[c]
           b == bm[Home[c]]
           f == buf[Home[c]]
           t1 == [t EXCEPT !.pc = "leave"]
<1>0. /\ t \in Thread /\ b \in Manager
      /\ Shape(t) /\ LockOK(t, b) /\ PageOK(t, b, f)
      /\ KnownOK(t, b, main[Header].st, main[Header].scn)
  BY OfClient
<1>1. t.pc = "guarded" /\ t.op = "begin" /\ th' = [th EXCEPT ![c] = t1]
  BY DEF BeginRefused
<1>2. /\ t1 \in Thread
      /\ t1.pc = "leave" /\ t1.page = t.page /\ t1.op = t.op /\ t1.guard = t.guard
      /\ t1.wait = t.wait /\ t1.left = t.left
  BY <1>0 DEF Thread, PC
<1>3. /\ UNCHANGED <<bm, ast, buf, endLock, main, delta, stored, snap>>
      /\ OtherTypes'
  BY DEF BeginRefused, files, bounds, OtherTypes, IInv, Types
<1> HIDE DEF t1
<1>4. Shape(t1)
  BY <1>0, <1>1, <1>2 DEF Shape, Guarding, GuardOp
<1>5. LockOK(t1, b)
  BY <1>0, <1>1, <1>2 DEF LockOK, Shape, Guarding, MasterOp
<1>6. KnownOK(t1, b, main[Header].st, main[Header].scn)
  BY <1>0, <1>1, <1>2 DEF KnownOK
<1>7. PageOK(t1, b, f)
  BY <1>0, <1>1, <1>2 DEF PageOK, BufferOK, Using, Guarding
<1> QED BY <1>1, <1>2, <1>3, <1>4, <1>5, <1>6, <1>7, ThreadStep DEF EndOp

\* The start of a read or of a change keeps the invariant.
LEMMA StepStarts ==
    ASSUME NEW W, Classic, IInv(W), NEW c \in Client, NEW pg \in AnyPage,
           StartsRead(c, pg) \/ StartsWrite(c, pg)
    PROVE  IInv(W)'
<1> DEFINE t == th[c]
           b == bm[Home[c]]
           f == buf[Home[c]]
<1>0. /\ t \in Thread /\ b \in Manager
      /\ Shape(t) /\ LockOK(t, b) /\ PageOK(t, b, f)
      /\ KnownOK(t, b, main[Header].st, main[Header].scn)
  BY OfClient
<1>1. PICK op \in {"read", "write"} :
        th' = [th EXCEPT ![c].pc = "fetch", ![c].op = op, ![c].page = pg]
  BY DEF StartsRead, StartsWrite
<1> DEFINE t1 == [t EXCEPT !.pc = "fetch", !.op = op, !.page = pg]
<1>2. t.pc = "idle" /\ th' = [th EXCEPT ![c] = t1]
  BY <1>1 DEF StartsRead, StartsWrite
<1>3. /\ t1 \in Thread
      /\ t1.pc = "fetch" /\ t1.page = pg /\ t1.op = op /\ t1.guard = t.guard
      /\ t1.wait = t.wait /\ t1.left = t.left
  BY <1>0 DEF Thread, PC, Op
<1>4. /\ UNCHANGED <<bm, ast, buf, endLock, main, delta, stored, snap, calls, deaths>>
      /\ changes' = changes \/ (changes < MaxChanges /\ changes' = changes + 1)
  BY DEF StartsRead, StartsWrite, files, bounds
<1>5. OtherTypes'
  BY <1>4, NBConstants DEF OtherTypes, IInv, Types
<1> HIDE DEF t1
<1>6. Shape(t1)
  BY <1>0, <1>2, <1>3 DEF Shape, Guarding, GuardOp
<1>7. LockOK(t1, b)
  BY <1>0, <1>2, <1>3 DEF LockOK, Shape, Guarding, MasterOp, GuardOp
<1>8. KnownOK(t1, b, main[Header].st, main[Header].scn)
  BY <1>0, <1>2, <1>3 DEF KnownOK
<1>9. PageOK(t1, b, f)
  BY <1>0, <1>2, <1>3 DEF PageOK, BufferOK, Using, Guarding
<1> QED BY <1>2, <1>3, <1>4, <1>5, <1>6, <1>7, <1>8, <1>9, ThreadStep DEF EndOp

\* Restart keeps the invariant.
LEMMA StepRestart ==
    ASSUME NEW W, Classic, IInv(W), NEW c \in Client, Restart(c)
    PROVE  IInv(W)'
<1> DEFINE t == th[c]
           b == bm[Home[c]]
           f == buf[Home[c]]
           t1 == [t EXCEPT !.pc = "init"]
<1>0. /\ t \in Thread /\ b \in Manager
      /\ Shape(t) /\ LockOK(t, b) /\ PageOK(t, b, f)
      /\ KnownOK(t, b, main[Header].st, main[Header].scn)
  BY OfClient
<1>1. t.pc = "dead" /\ th' = [th EXCEPT ![c] = t1]
  BY DEF Restart
<1>2. /\ t1 \in Thread
      /\ t1.pc = "init" /\ t1.page = t.page /\ t1.op = t.op /\ t1.guard = t.guard
      /\ t1.wait = t.wait /\ t1.left = t.left
  BY <1>0 DEF Thread, PC
<1>3. /\ UNCHANGED <<bm, ast, buf, endLock, main, delta, stored, snap>>
      /\ OtherTypes'
  BY DEF Restart, files, bounds, OtherTypes, IInv, Types
<1> HIDE DEF t1
<1>4. Shape(t1)
  BY <1>0, <1>1, <1>2 DEF Shape, Guarding, GuardOp
<1>5. LockOK(t1, b)
  BY <1>0, <1>1, <1>2 DEF LockOK, Shape, Guarding, MasterOp
<1>6. KnownOK(t1, b, main[Header].st, main[Header].scn)
  BY <1>0, <1>1, <1>2 DEF KnownOK
<1>7. PageOK(t1, b, f)
  BY <1>0, <1>1, <1>2 DEF PageOK, BufferOK, Using, Guarding
<1> QED BY <1>0, <1>1, <1>2, <1>3, <1>4, <1>5, <1>6, <1>7, ThreadStep DEF Shape, EndOp

-----------------------------------------------------------------------------
(* The steps of the blocking AST. *)

\* A step of the AST that changes the manager only.
LEMMA HandlerStep ==
    ASSUME NEW W, Classic, IInv(W), NEW c \in Client, NEW b1 \in Manager,
           bm' = [bm EXCEPT ![Home[c]] = b1],
           UNCHANGED <<th, buf, endLock, main, delta, stored, snap, changes, calls, deaths>>,
           ast' \in [Process -> Handler],
           SameTable(bm[Home[c]], b1),
           LockOK(th[c], b1),
           KnownOK(th[c], b1, main[Header].st, main[Header].scn),
           PageOK(th[c], b1, buf[Home[c]]),
           th[c].pc = "hwrite" =>
              b1.state = bm[Home[c]].state /\ b1.open = bm[Home[c]].open,
           \/ b1.stateLock \in {LCK_none, LCK_read} /\ bm[Home[c]].stateLock # LCK_none
           \/ b1.stateLock \in {LCK_none, bm[Home[c]].stateLock}
    PROVE  IInv(W)'
<1>1. th' = [th EXCEPT ![c] = th[c]] /\ th[c] \in Thread /\ Shape(th[c])
  BY OfClient DEF IInv, Types
<1>2. OtherTypes' /\ endLock' \in Process \cup {Nobody}
  BY DEF OtherTypes, IInv, Types
<1>3. EndLocked'
  BY DEF IInv, EndLocked
<1> DEFINE t == th[c]
<1>4. th' = [th EXCEPT ![c] = t] /\ t \in Thread /\ Shape(t) /\ t = th[c]
  BY <1>1
<1>5. /\ LockOK(t, b1) /\ KnownOK(t, b1, main[Header].st, main[Header].scn)
      /\ PageOK(t, b1, buf[Home[c]])
  OBVIOUS
<1> HIDE DEF t
<1>6. /\ \/ th[c].pc # "hwrite" /\ t.pc # "hwrite"
         \/ /\ t = th[c]
            /\ b1.state = bm[Home[c]].state /\ b1.open = bm[Home[c]].open
      /\ t.op \in {"merge", "finish"} => t.op = th[c].op /\ t.left = th[c].left
      /\ th[c].pc \in {"mlock", "mtable"} /\ t.op = "merge" => t.pc \in {"mlock", "mtable"}
      /\ th[c].pc = "leave" => t.op # "finish" \/ t.pc = "leave"
      /\ t.op = "merge" => t.pc # "release" \/ t = th[c]
  BY <1>4
<1> QED BY <1>2, <1>3, <1>4, <1>5, <1>6, QuietStep

\* A manager that differs in flags no predicate looks at.
LEMMA SameFlags ==
    ASSUME NEW W, Classic, IInv(W), NEW c \in Client, NEW b1 \in Manager,
           bm' = [bm EXCEPT ![Home[c]] = b1],
           UNCHANGED <<th, buf, endLock, main, delta, stored, snap, changes, calls, deaths>>,
           ast' \in [Process -> Handler],
           SameTable(bm[Home[c]], b1), Kept(bm[Home[c]], b1)
    PROVE  IInv(W)'
<1>1. /\ LockOK(th[c], b1) /\ KnownOK(th[c], b1, main[Header].st, main[Header].scn)
      /\ PageOK(th[c], b1, buf[Home[c]])
  BY OfClient, KeptOK
<1> QED BY <1>1, HandlerStep DEF Kept

\* The call, the flush and the wait for it keep the invariant.
LEMMA StepAstFlags ==
    ASSUME NEW W, Classic, IInv(W), NEW p \in Process,
           AstCalled(p) \/ AstFlushes(p) \/ AstFlushed(p)
    PROVE  IInv(W)'
<1>1. PICK c \in Client : Home[c] = p
  BY OneThread
<1>2. bm[p] \in Manager /\ ast[p] \in Handler
  BY DEF IInv, Types
<1>3. ast' \in [Process -> Handler]
  <2>1. {pg \in AnyPage : buf[p][pg].dirty} \in SUBSET AnyPage
    OBVIOUS
  <2>2. ast \in [Process -> Handler]
    BY DEF IInv, Types
  <2>3. CASE AstFlushes(p)
    <3>1. [pc |-> "flush", todo |-> {pg \in AnyPage : buf[p][pg].dirty}] \in Handler
      BY <2>1 DEF Handler
    <3>2. [ast[p] EXCEPT !.pc = "try"] \in Handler
      BY <1>2 DEF Handler
    <3> QED BY <2>2, <2>3, <3>1, <3>2 DEF AstFlushes
  <2>4. CASE AstCalled(p) \/ AstFlushed(p)
    <3>1. [ast[p] EXCEPT !.pc = "try"] \in Handler /\ [ast[p] EXCEPT !.pc = "called"] \in Handler
      BY <1>2 DEF Handler
    <3> QED BY <2>2, <2>4, <3>1 DEF AstCalled, AstFlushed
  <2> QED BY <2>3, <2>4
<1>4. PICK b1 \in {bm[p], [bm[p] EXCEPT !.told = TRUE], [bm[p] EXCEPT !.flush = TRUE]} :
        bm' = [bm EXCEPT ![p] = b1]
  <2>1. bm = [bm EXCEPT ![p] = bm[p]]
    BY DEF IInv, Types
  <2> QED BY <2>1 DEF AstCalled, AstFlushes, AstFlushed
<1>5. b1 \in Manager /\ SameTable(bm[p], b1) /\ Kept(bm[p], b1)
  BY <1>2, <1>4 DEF Manager, SameTable, Kept
<1>6. UNCHANGED <<th, buf, endLock, main, delta, stored, snap, changes, calls, deaths>>
  BY DEF AstCalled, AstFlushes, AstFlushed, files, bounds
<1> QED BY <1>1, <1>3, <1>4, <1>5, <1>6, SameFlags

\* NoAst is a handler.
LEMMA NoAstType ==
    ASSUME NEW W, IInv(W), NEW p \in Process, ast' = [ast EXCEPT ![p] = NoAst]
    PROVE  ast' \in [Process -> Handler]
BY DEF IInv, Types, NoAst, Handler

\* The AST of a master keeps the invariant if it does not give stateLock up
\* under a thread that reads the state or a page that is marked.
LEMMA StepAstOfMaster ==
    ASSUME NEW W, Classic, IInv(W), NEW p \in Process, AstOfMaster(p), ~GivesUp(p)
    PROVE  IInv(W)'
<1>1. PICK c \in Client : Home[c] = p
  BY OneThread
<1> DEFINE t == th[c]
           b == bm[Home[c]]
           f == buf[Home[c]]
           inUse == t.wait \/ t.pc \in Guarding
           b1 == IF inUse THEN [b EXCEPT !.blocking = TRUE] ELSE Downgraded(p, b)
<1>0. /\ t \in Thread /\ b \in Manager /\ f \in [AnyPage -> Buffer]
      /\ Shape(t) /\ LockOK(t, b) /\ PageOK(t, b, f)
      /\ KnownOK(t, b, main[Header].st, main[Header].scn)
  BY OfClient
<1>2. b.master /\ ast' = [ast EXCEPT ![p] = NoAst]
  BY <1>1 DEF AstOfMaster
<1>3. bm' = [bm EXCEPT ![Home[c]] = b1]
  <2>1. Threads(p) = {c}
    BY <1>1, OneThread
  <2> QED BY <1>1, <2>1 DEF AstOfMaster
<1>4. b.stateLock # LCK_none /\ b1.stateLock = LCK_none =>
         ~t.guard /\ \A pg \in AnyPage : ~f[pg].nbak
  <2>1. bm'[p] = b1
    BY <1>1, <1>3, OneThread DEF IInv, Types
  <2> QED BY <1>1, <2>1, TheReaders DEF GivesUp
<1>5. UNCHANGED <<th, buf, endLock, main, delta, stored, snap, changes, calls, deaths>>
  BY DEF AstOfMaster, files, bounds
<1>6. /\ b1 \in Manager /\ SameTable(b, b1) /\ b1.master = b.master
      /\ \/ inUse /\ b1.blocking /\ Kept([b EXCEPT !.blocking = TRUE], b1)
         \/ /\ ~inUse
            /\ b1.stateLock = LCK_none /\ b1.state = "unknown" /\ ~b1.open /\ ~b1.blocking
         \/ /\ ~inUse /\ b.stateLock # LCK_none
            /\ b1.stateLock \in {LCK_read, b.stateLock}
            /\ b1.state = b.state /\ b1.open = b.open /\ b1.blocking = b.blocking
  <2>1. CASE inUse
    BY <1>0, <2>1 DEF Manager, SameTable, Kept
  <2>2. CASE ~inUse
    <3>1. b1 = Downgraded(p, b)
      BY <2>2
    <3> HIDE DEF b1, inUse
    <3> QED BY <1>0, <2>2, <3>1, DowngradedFields, InvalidatedFields
  <2> QED BY <2>1, <2>2
<1>7. inUse => /\ b1.state = b.state /\ b1.open = b.open /\ b1.stateLock = b.stateLock
               /\ b1.blocking
  BY <1>0, <1>6 DEF Kept, Manager
<1> HIDE DEF b1
<1>8. LockOK(t, b1)
  BY <1>0, <1>2, <1>4, <1>6, <1>7 DEF LockOK, Shape, Guarding, LCK_read, LCK_none, LCK_write
<1>9. KnownOK(t, b1, main[Header].st, main[Header].scn)
  BY <1>0, <1>4, <1>6, <1>7 DEF KnownOK, SameTable, LCK_read, LCK_none
<1>10. PageOK(t, b1, f)
  <2> SUFFICES ASSUME NEW pg \in AnyPage PROVE BufferOK(t, b1, pg, f[pg])
    BY DEF PageOK
  <2>1. BufferOK(t, b, pg, f[pg])
    BY <1>0 DEF PageOK
  <2> DEFINE g == f[pg]
  <2> HIDE DEF g
  <2>2. b1.scn = b.scn
    BY <1>6 DEF SameTable
  <2>3. CASE b1.state = b.state /\ (b.stateLock # LCK_none => b1.stateLock # LCK_none)
    BY <2>1, <2>2, <2>3 DEF BufferOK
  <2>4. CASE b.stateLock # LCK_none /\ b1.stateLock = LCK_none
    <3>1. ~g.nbak /\ t.pc \notin Guarding
      BY <1>4, <1>7, <2>4 DEF g
    <3>2. ~g.half
      BY <2>1, <3>1 DEF BufferOK, Guarding, g
    <3> QED BY <2>1, <2>2, <3>1, <3>2 DEF BufferOK, g
  <2>5. CASE b.stateLock = LCK_none
    <3>1. b1.state = b.state
      BY <1>0, <1>6, <1>7, <2>5 DEF LockOK, LCK_read, LCK_none
    <3> QED BY <2>1, <2>2, <2>5, <3>1 DEF BufferOK
  <2>6. b1.stateLock # LCK_none => b1.state = b.state
    BY <1>6, <1>7
  <2> QED BY <2>3, <2>4, <2>5, <2>6
<1>11. \/ b1.stateLock \in {LCK_none, LCK_read} /\ b.stateLock # LCK_none
       \/ b1.stateLock \in {LCK_none, b.stateLock}
  BY <1>6, <1>7
<1>12. t.pc = "hwrite" => b1.state = b.state /\ b1.open = b.open
  BY <1>7 DEF Guarding
<1>13. ast' \in [Process -> Handler]
  BY <1>2, NoAstType
<1> QED BY <1>3, <1>5, <1>6, <1>8, <1>9, <1>10, <1>11, <1>12, <1>13, HandlerStep

\* The AST of another process keeps the invariant: it releases stateLock only
\* if no thread reads the state and no page is marked.
LEMMA StepAstTries ==
    ASSUME NEW W, Classic, IInv(W), NEW p \in Process, AstTries(p)
    PROVE  IInv(W)'
<1>1. PICK c \in Client : Home[c] = p
  BY OneThread
<1> DEFINE t == th[c]
           b == bm[Home[c]]
           f == buf[Home[c]]
           k == Downgraded(p, b)
<1>0. /\ t \in Thread /\ b \in Manager /\ f \in [AnyPage -> Buffer]
      /\ Shape(t) /\ LockOK(t, b) /\ PageOK(t, b, f)
      /\ KnownOK(t, b, main[Header].st, main[Header].scn)
  BY OfClient
<1>2. ast' \in [Process -> Handler]
  BY NoAstType DEF AstTries
<1>3. UNCHANGED <<th, buf, endLock, main, delta, stored, snap, changes, calls, deaths>>
  BY DEF AstTries, files, bounds
<1>4. CASE bm' = [bm EXCEPT ![p].stateBlocking = TRUE]
  <2> DEFINE b1 == [b EXCEPT !.stateBlocking = TRUE]
  <2>1. bm' = [bm EXCEPT ![Home[c]] = b1]
    BY <1>1, <1>4
  <2>2. b1 \in Manager /\ SameTable(b, b1) /\ Kept(b, b1)
    BY <1>0 DEF Manager, SameTable, Kept
  <2> QED BY <1>2, <1>3, <2>1, <2>2, SameFlags
<1>5. CASE /\ LocalReaders(p) = {} /\ LocalWriter(p) = {}
           /\ bm' = [bm EXCEPT ![p] = [k EXCEPT !.stateBlocking = FALSE,
                                                !.flush = @ /\ k.stateLock # LCK_read]]
  <2> DEFINE b1 == [k EXCEPT !.stateBlocking = FALSE, !.flush = @ /\ k.stateLock # LCK_read]
  <2>1. bm' = [bm EXCEPT ![Home[c]] = b1]
    BY <1>1, <1>5
  <2>2. /\ k \in Manager /\ SameTable(b, k) /\ k.master = b.master
        /\ \/ /\ b.stateLock = LCK_none \/ Asked(p, LCK_write)
              /\ k.stateLock = LCK_none /\ k.state = "unknown" /\ ~k.open /\ ~k.blocking
           \/ /\ b.stateLock # LCK_none /\ k.stateLock \in {LCK_read, b.stateLock}
              /\ k.state = b.state /\ k.open = b.open /\ k.blocking = b.blocking
    <3> HIDE DEF k
    <3> QED BY <1>0, DowngradedFields, InvalidatedFields DEF k
  <2> HIDE DEF k
  <2>3. b1 \in Manager /\ SameTable(k, b1) /\ Kept(k, b1)
    BY <2>2 DEF Manager, SameTable, Kept
  <2> HIDE DEF b1
  <2>4. SameTable(b, b1) /\ b1.master = b.master
    BY <2>2, <2>3 DEF SameTable, Kept
  <2>5. /\ ~t.guard /\ t.pc \notin Guarding
        /\ \A pg \in AnyPage : ~f[pg].nbak
    BY <1>1, <1>5, TheReaders, TheWriter
  <2>7. \/ /\ b1.stateLock = LCK_none /\ b1.state = "unknown" /\ ~b1.open /\ ~b1.blocking
        \/ /\ b.stateLock # LCK_none /\ b1.stateLock \in {LCK_read, b.stateLock}
           /\ b1.state = b.state /\ b1.open = b.open /\ b1.blocking = b.blocking
    BY <2>2, <2>3 DEF Kept
  <2>9. LockOK(t, b1)
    BY <1>0, <2>4, <2>5, <2>7
       DEF LockOK, Guarding, Shape, MasterOp, LCK_read, LCK_none, LCK_write
  <2>10. KnownOK(t, b1, main[Header].st, main[Header].scn)
    BY <1>0, <2>4, <2>5, <2>7 DEF KnownOK, SameTable, LCK_read, LCK_none
  <2>11. PageOK(t, b1, f)
    <3> SUFFICES ASSUME NEW pg \in AnyPage PROVE BufferOK(t, b1, pg, f[pg])
      BY DEF PageOK
    <3>1. BufferOK(t, b, pg, f[pg]) /\ ~f[pg].nbak
      BY <1>0, <2>5 DEF PageOK
    <3> DEFINE g == f[pg]
    <3>2. ~g.dirty /\ ~g.half /\ ~g.nbak
      BY <2>5, <3>1 DEF BufferOK, Guarding
    <3>3. b1.scn = b.scn
      BY <2>4 DEF SameTable
    <3> HIDE DEF g
    <3> QED BY <3>1, <3>2, <3>3 DEF BufferOK, g
  <2>12. \/ b1.stateLock \in {LCK_none, LCK_read} /\ b.stateLock # LCK_none
         \/ b1.stateLock \in {LCK_none, b.stateLock}
    BY <2>7
  <2>13. t.pc # "hwrite"
    BY <2>5 DEF Guarding
  <2> QED BY <1>2, <1>3, <2>1, <2>3, <2>4, <2>9, <2>10, <2>11, <2>12, <2>13, HandlerStep
<1> QED BY <1>1, <1>4, <1>5 DEF AstTries

-----------------------------------------------------------------------------
(* Steps that end a StateReadGuard or take stateLock. *)

\* The manager b2 of thread c after the end of its StateReadGuard.
EndOf(c, b2) == unlockStateRead(Home[c], b2, LocalReaders(Home[c]) \ {c})

\* What holds of thread t1 of the process of thread c with manager b2 when the
\* StateReadGuard has ended.
Rests(c, t1, b2, f, st, scn) ==
    /\ \A pg \in AnyPage : f[pg].nbak = buf[Home[c]][pg].nbak
    /\ ~t1.guard /\ t1.op # "merge" /\ t1.pc \notin {"guarded", "hwrite", "leave", "rdisk"}
    /\ LockOK(t1, b2) /\ KnownOK(t1, b2, st, scn) /\ PageOK(t1, b2, f)

\* The end of a StateReadGuard keeps what holds of the process.
LEMMA Unlocked ==
    ASSUME Classic, NEW c \in Client, NEW t1, NEW b2 \in Manager, NEW f, NEW e,
           NEW st, NEW scn,
           e = EndOf(c, b2),
           Rests(c, t1, b2, f, st, scn)
    PROVE  /\ e \in Manager /\ SameTable(b2, e) /\ e.master = b2.master
           /\ LockOK(t1, e) /\ KnownOK(t1, e, st, scn) /\ PageOK(t1, e, f)
           /\ e.stateLock \in {LCK_none, b2.stateLock}
<1>0. /\ \A pg \in AnyPage : f[pg].nbak = buf[Home[c]][pg].nbak
      /\ ~t1.guard /\ t1.op # "merge" /\ t1.pc \notin {"guarded", "hwrite", "leave", "rdisk"}
      /\ LockOK(t1, b2) /\ KnownOK(t1, b2, st, scn) /\ PageOK(t1, b2, f)
  BY DEF Rests
<1>1. /\ e \in Manager /\ SameTable(b2, e) /\ e.master = b2.master
      /\ \/ Kept(b2, e)
         \/ /\ LocalReaders(Home[c]) \ {c} = {}
            /\ e.stateLock = LCK_none /\ e.state = "unknown"
            /\ ~e.open /\ ~e.blocking
  <2> DEFINE r == LocalReaders(Home[c]) \ {c}
  <2>1. e = unlockStateRead(Home[c], b2, r)
    BY DEF EndOf
  <2> HIDE DEF r
  <2>2. /\ e \in Manager /\ SameTable(b2, e) /\ e.master = b2.master
        /\ \/ Kept(b2, e)
           \/ /\ r = {} /\ th[c].pc \notin Guarding
              /\ e.stateLock = LCK_none /\ e.state = "unknown"
              /\ ~e.open /\ ~e.blocking
    BY <2>1, UnlockFields, Zenon
  <2> QED BY <2>2 DEF r
<1>2. CASE Kept(b2, e)
  BY <1>0, <1>1, <1>2, KeptOK DEF Kept
<1>3. CASE /\ LocalReaders(Home[c]) \ {c} = {}
           /\ e.stateLock = LCK_none /\ e.state = "unknown"
           /\ ~e.open /\ ~e.blocking
  <2>1. \A pg \in AnyPage : ~f[pg].nbak
    BY <1>0, <1>3, TheReaders
  <2>2. LockOK(t1, e)
    BY <1>0, <1>1, <1>3 DEF LockOK
  <2>3. KnownOK(t1, e, st, scn)
    BY <1>0, <1>1, <1>3 DEF KnownOK, SameTable
  <2>4. PageOK(t1, e, f)
    <3> SUFFICES ASSUME NEW pg \in AnyPage PROVE BufferOK(t1, e, pg, f[pg])
      BY DEF PageOK
    <3>1. BufferOK(t1, b2, pg, f[pg]) /\ ~f[pg].nbak
      BY <1>0, <2>1 DEF PageOK
    <3> DEFINE g == f[pg]
    <3>2. ~g.dirty /\ ~g.half /\ ~g.nbak
      BY <1>0, <3>1 DEF BufferOK
    <3> HIDE DEF g
    <3> QED BY <1>0, <3>1, <3>2 DEF BufferOK, g
  <2> QED BY <1>1, <1>3, <2>2, <2>3, <2>4
<1> QED BY <1>1, <1>2, <1>3

\* A thread at rest.
LEMMA IdleFields ==
    /\ Idle \in Thread
    /\ Idle.pc = "idle" /\ Idle.op = "none" /\ Idle.page = Header
    /\ ~Idle.guard /\ ~Idle.wait /\ Idle.left = {}
    /\ Shape(Idle)
<1>1. /\ Idle \in Thread
      /\ Idle.pc = "idle" /\ Idle.op = "none" /\ Idle.page = Header
      /\ ~Idle.guard /\ ~Idle.wait /\ Idle.left = {}
  BY NBConstants DEF Idle, Thread, PC, Op, AnyPage
<1>2. Shape(Idle)
  BY <1>1 DEF Shape, Guarding, GuardOp
<1> QED BY <1>1, <1>2

\* A thread whose StateReadGuard ends with its call.
LEMMA EndedFields ==
    ASSUME NEW t1, t1 = [Idle EXCEPT !.guard = FALSE]
    PROVE  /\ t1 \in Thread
           /\ t1.pc = "idle" /\ t1.op = "none" /\ t1.page = Header
           /\ ~t1.guard /\ ~t1.wait /\ t1.left = {}
           /\ Shape(t1)
<1>1. /\ t1 \in Thread
      /\ t1.pc = "idle" /\ t1.op = "none" /\ t1.page = Header
      /\ ~t1.guard /\ ~t1.wait /\ t1.left = {}
  BY IdleFields DEF Thread
<1>2. Shape(t1)
  BY <1>1 DEF Shape, Guarding, GuardOp
<1> QED BY <1>1, <1>2

\* BeginsWrite keeps the invariant.
LEMMA StepBeginsWrite ==
    ASSUME NEW W, Classic, IInv(W), NEW c \in Client, BeginsWrite(c)
    PROVE  IInv(W)'
<1> DEFINE t == th[c]
           b == bm[Home[c]]
           f == buf[Home[c]]
           has == b.stateLock = LCK_write
           t1 == [t EXCEPT !.pc = IF has THEN "guarded" ELSE "wwait"]
           b1 == IF has THEN [b EXCEPT !.flush = FALSE]
                 ELSE IF b.stateLock = LCK_none THEN b ELSE Invalidated(b)
<1>0. /\ t \in Thread /\ b \in Manager /\ f \in [AnyPage -> Buffer]
      /\ Shape(t) /\ LockOK(t, b) /\ PageOK(t, b, f)
      /\ KnownOK(t, b, main[Header].st, main[Header].scn)
  BY OfClient
<1>1. /\ t.pc = "have" /\ t.op \in GuardOp
      /\ LocalReaders(Home[c]) = {}
      /\ bm' = [bm EXCEPT ![Home[c]] = b1] /\ th' = [th EXCEPT ![c] = t1]
      /\ UNCHANGED <<buf, endLock, main, delta, stored, snap>>
      /\ UNCHANGED <<ast, changes, calls, deaths>>
  BY DEF BeginsWrite, GuardOp, files, bounds
<1>2. /\ t1 \in Thread /\ t1.pc = IF has THEN "guarded" ELSE "wwait"
      /\ t1.page = t.page /\ t1.op = t.op /\ t1.guard = t.guard
      /\ t1.wait = t.wait /\ t1.left = t.left
  BY <1>0 DEF Thread, PC
<1>3. /\ b1 \in Manager /\ SameTable(b, b1) /\ b1.master = b.master
      /\ has => Kept(b, b1)
      /\ ~has => /\ b1.stateLock = LCK_none /\ b1.state = "unknown" /\ ~b1.open
                 /\ b1.blocking => b.blocking
  <2>1. CASE has
    BY <1>0, <2>1 DEF Manager, SameTable, Kept
  <2>2. CASE ~has /\ b.stateLock = LCK_none
    BY <1>0, <2>2 DEF SameTable, LockOK
  <2>3. CASE ~has /\ b.stateLock # LCK_none
    <3>1. b1 = Invalidated(b)
      BY <2>3
    <3> HIDE DEF b1
    <3> QED BY <1>0, <2>3, <3>1, InvalidatedFields
  <2> QED BY <2>1, <2>2, <2>3
<1>4. ~t.guard /\ \A pg \in AnyPage : ~f[pg].nbak
  BY <1>1, TheReaders
<1> HIDE DEF t1, b1
<1>5. ~t.wait /\ t.page = Header
  BY <1>0, <1>1 DEF Shape, GuardOp
<1>6. Shape(t1)
  BY <1>0, <1>1, <1>2, <1>4, <1>5 DEF Shape, Guarding, GuardOp
<1>7. LockOK(t1, b1)
  BY <1>0, <1>1, <1>2, <1>3, <1>4, <1>5
     DEF LockOK, Kept, Guarding, GuardOp, MasterOp, LCK_none, LCK_write
<1>8. KnownOK(t1, b1, main[Header].st, main[Header].scn)
  BY <1>0, <1>1, <1>2, <1>3 DEF KnownOK, Kept, SameTable, GuardOp
<1>9. PageOK(t1, b1, f)
  <2> SUFFICES ASSUME NEW pg \in AnyPage PROVE BufferOK(t1, b1, pg, f[pg])
    BY DEF PageOK
  <2>1. BufferOK(t, b, pg, f[pg]) /\ ~f[pg].nbak
    BY <1>0, <1>4 DEF PageOK
  <2> DEFINE g == f[pg]
  <2>2. ~g.dirty /\ ~g.half /\ ~g.nbak
    BY <1>1, <2>1 DEF BufferOK
  <2> HIDE DEF g
  <2> QED BY <1>1, <1>2, <1>5, <2>1, <2>2 DEF BufferOK, g, Using, Guarding
<1>10. EndLocked'
  BY <1>1, <1>2 DEF IInv, EndLocked, Types
<1>11. OtherTypes' /\ endLock' \in Process \cup {Nobody}
  BY <1>1 DEF OtherTypes, IInv, Types
<1>12. b1.stateLock \in {LCK_none, b.stateLock}
  BY <1>3 DEF Kept
<1>13. t1.op # "merge" /\ t.op = t1.op /\ t.left = t1.left /\ t1.pc # "hwrite"
  BY <1>1, <1>2 DEF GuardOp
<1> QED BY <1>1, <1>2, <1>3, <1>6, <1>7, <1>8, <1>9, <1>10, <1>11, <1>12, <1>13, QuietStep

\* beginBackup keeps the invariant, whoever else is at a backup.
LEMMA StepBeginBackup ==
    ASSUME NEW W, Classic, IInv(W), NEW c \in Client, beginBackup(c)
    PROVE  IInv(W)'
<1> DEFINE t == th[c]
           b == bm[Home[c]]
           f == buf[Home[c]]
           t1 == [t EXCEPT !.pc = "wflush", !.op = "begin"]
           b1 == [b EXCEPT !.master = TRUE, !.flush = TRUE]
<1>0. /\ t \in Thread /\ b \in Manager /\ f \in [AnyPage -> Buffer]
      /\ Shape(t) /\ LockOK(t, b) /\ PageOK(t, b, f)
      /\ KnownOK(t, b, main[Header].st, main[Header].scn)
  BY OfClient
<1>1. /\ t.pc = "idle" /\ calls < MaxCalls /\ calls' = calls + 1
      /\ bm' = [bm EXCEPT ![Home[c]] = b1] /\ th' = [th EXCEPT ![c] = t1]
      /\ UNCHANGED <<buf, endLock, main, delta, stored, snap>>
      /\ UNCHANGED <<ast, changes, deaths>>
  BY DEF beginBackup, files, bounds
<1>2. /\ t1 \in Thread /\ t1.pc = "wflush" /\ t1.op = "begin"
      /\ t1.page = t.page /\ t1.guard = t.guard /\ t1.wait = t.wait /\ t1.left = t.left
  BY <1>0 DEF Thread, PC, Op
<1>3. /\ b1 \in Manager /\ SameTable(b, b1) /\ b1.master
      /\ b1.state = b.state /\ b1.open = b.open /\ b1.blocking = b.blocking
      /\ b1.stateLock = b.stateLock
  BY <1>0 DEF Manager, SameTable
<1> HIDE DEF t1, b1
<1>4. Shape(t1)
  BY <1>0, <1>1, <1>2 DEF Shape, Guarding, GuardOp
<1>5. LockOK(t1, b1)
  BY <1>0, <1>1, <1>2, <1>3 DEF LockOK, Shape, Guarding, MasterOp
<1>6. KnownOK(t1, b1, main[Header].st, main[Header].scn)
  BY <1>0, <1>1, <1>2, <1>3 DEF KnownOK, SameTable
<1>7. PageOK(t1, b1, f)
  BY <1>0, <1>1, <1>2, <1>3 DEF PageOK, BufferOK, Using, Guarding, SameTable
<1>9. EndLocked'
  BY <1>1, <1>2 DEF IInv, EndLocked, Types, EndOp
<1>10. OtherTypes' /\ endLock' \in Process \cup {Nobody}
  BY <1>1, NBConstants DEF OtherTypes, IInv, Types
<1> QED BY <1>1, <1>2, <1>3, <1>4, <1>5, <1>6, <1>7, <1>9, <1>10, QuietStep

\* endBackup keeps the invariant.
LEMMA StepEndBackup ==
    ASSUME NEW W, Classic, IInv(W), NEW c \in Client, endBackup(c)
    PROVE  IInv(W)'
<1> DEFINE t == th[c]
           b == bm[Home[c]]
           f == buf[Home[c]]
<1>0. /\ t \in Thread /\ b \in Manager /\ f \in [AnyPage -> Buffer]
      /\ Shape(t) /\ LockOK(t, b) /\ PageOK(t, b, f)
      /\ KnownOK(t, b, main[Header].st, main[Header].scn)
  BY OfClient
<1>1. /\ t.pc \in {"idle", "estart"}
      /\ calls' \in 0..MaxCalls
      /\ UNCHANGED <<ast, buf, main, delta, stored, snap, changes, deaths>>
  BY NBConstants DEF endBackup, files, IInv, Types
<1>2. OtherTypes'
  BY <1>1 DEF OtherTypes, IInv, Types
<1>3. CASE endLock # Nobody
  <2>1. th' = [th EXCEPT ![c] = Idle] /\ UNCHANGED <<bm, endLock>>
    BY <1>3 DEF endBackup
  <2>2. LockOK(Idle, b)
    BY <1>0, <1>1, IdleFields DEF LockOK, Shape, Guarding, MasterOp
  <2>3. KnownOK(Idle, b, main[Header].st, main[Header].scn)
    BY <1>0, <1>1, IdleFields DEF KnownOK
  <2>4. PageOK(Idle, b, f)
    BY <1>0, <1>1, IdleFields DEF PageOK, BufferOK, Using, Guarding
  <2> QED BY <1>1, <1>2, <2>1, <2>2, <2>3, <2>4, IdleFields, ThreadStep DEF EndOp
<1>4. CASE endLock = Nobody
  <2> DEFINE op == IF t.pc = "estart" THEN "recover" ELSE "end"
             t1 == [t EXCEPT !.pc = "elock", !.op = op]
             b1 == [b EXCEPT !.master = TRUE]
  <2>1. /\ bm' = [bm EXCEPT ![Home[c]] = b1] /\ th' = [th EXCEPT ![c] = t1]
        /\ endLock' = Home[c]
    BY <1>4 DEF endBackup
  <2>2. /\ t1 \in Thread /\ t1.pc = "elock" /\ t1.op \in {"end", "recover"}
        /\ t1.page = t.page /\ t1.guard = t.guard /\ t1.wait = t.wait /\ t1.left = t.left
    BY <1>0 DEF Thread, PC, Op
  <2>3. /\ b1 \in Manager /\ SameTable(b, b1) /\ b1.master
        /\ b1.state = b.state /\ b1.open = b.open /\ b1.blocking = b.blocking
        /\ b1.stateLock = b.stateLock
    BY <1>0 DEF Manager, SameTable
  <2> HIDE DEF t1, b1
  <2>4. Shape(t1)
    BY <1>0, <1>1, <2>2 DEF Shape, Guarding, GuardOp
  <2>5. LockOK(t1, b1)
    BY <1>0, <1>1, <2>2, <2>3 DEF LockOK, Shape, Guarding, MasterOp
  <2>6. KnownOK(t1, b1, main[Header].st, main[Header].scn)
    BY <1>0, <1>1, <2>2, <2>3 DEF KnownOK, SameTable
  <2>7. PageOK(t1, b1, f)
    BY <1>0, <1>1, <2>2, <2>3 DEF PageOK, BufferOK, Using, Guarding, SameTable
  <2>9. EndLocked'
    <3> SUFFICES ASSUME NEW d \in Client, th'[d].op \in EndOp, th'[d].pc # "leave"
                 PROVE  endLock' = Home[d]
      BY DEF EndLocked
    <3>1. CASE d = c
      BY <2>1, <3>1
    <3>2. CASE d # c
      <4>1. th[d].op \in EndOp /\ th[d].pc # "leave"
        BY <2>1, <3>2 DEF IInv, Types
      <4>2. endLock = Home[d] /\ Home[d] \in Process
        BY <4>1, OneThread DEF IInv, EndLocked
      <4> QED BY <1>4, <4>2, NBConstants
    <3> QED BY <3>1, <3>2
  <2>10. endLock' \in Process \cup {Nobody}
    BY <2>1, OneThread
  <2> QED BY <1>1, <1>2, <2>1, <2>2, <2>3, <2>4, <2>5, <2>6, <2>7, <2>9, <2>10, QuietStep
<1> QED BY <1>3, <1>4

\* An empty table is a prefix of any, and what follows a prefix completes it.
LEMMA PrefixRest ==
    ASSUME NEW s \in Seq(AnyPage), NEW u \in Seq(AnyPage), Prefix(s, u)
    PROVE  s \o SubSeq(u, Len(s) + 1, Len(u)) = u
<1> DEFINE m == Len(s)
           n == Len(u)
           r == SubSeq(u, m + 1, n)
           w == s \o r
<1>1. m \in Nat /\ n \in Nat /\ m <= n /\ \A i \in 1..m : s[i] = u[i]
  BY DEF Prefix
<1>2. r \in Seq(AnyPage) /\ Len(r) = n - m /\ \A i \in 1..(n - m) : r[i] = u[m + i]
  BY <1>1
<1>3. w \in Seq(AnyPage) /\ Len(w) = n
  BY <1>1, <1>2
<1>4. \A i \in 1..n : w[i] = u[i]
  BY <1>1, <1>2
<1> HIDE DEF w, m, n, r
<1>5. w = u
  BY <1>3, <1>4, SeqEqual DEF n
<1> QED BY <1>5 DEF w, m, n, r

\* actualizeAlloc without allocLock.
LEMMA WithoutLock ==
    ASSUME NEW b \in Manager, NEW e, e = actualizeAlloc(b, FALSE)
    PROVE  /\ e \in Manager /\ e.loaded /\ ~e.allocIsValid
           /\ e.state = b.state /\ e.scn = b.scn /\ e.table = b.table
           /\ e.open = b.open /\ e.master = b.master /\ e.blocking = b.blocking
           /\ e.stateLock = b.stateLock /\ e.allocLock = b.allocLock
BY DEF actualizeAlloc, Manager

\* A manager without a table starts one.
LEMMA StartsTable ==
    ASSUME NEW t, NEW t1, NEW b \in Manager, NEW e \in Manager, NEW st, NEW scn \in Nat,
           NEW alloc \in Seq(AnyPage),
           TableOK(t, b, st, scn, alloc), st # "normal",
           e.loaded, ~e.allocIsValid, e.scn = b.scn, e.table = b.table,
           e.allocLock = b.allocLock
    PROVE  TableOK(t1, e, st, scn, alloc)
<1>1. Prefix(<<>>, alloc)
  BY DEF Prefix
<1>2. Recent(e, st, scn) => Prefix(e.table, alloc)
  <2>1. CASE b.loaded
    BY <2>1 DEF TableOK, Recent
  <2>2. CASE ~b.loaded
    BY <1>1, <2>2 DEF TableOK
  <2> QED BY <2>1, <2>2
<1>3. e.allocLock # LCK_none => b.loaded
  BY DEF TableOK
<1> QED BY <1>2, <1>3 DEF TableOK, Recent

\* The table of a manager that has just got the state.
LEMMA FetchedTable ==
    ASSUME NEW W, IInv(W), NEW c \in Client, th[c].pc # "hwrite", NEW t1, NEW level \in Level,
           NEW e, e = Fetched(bm[Home[c]], level)
    PROVE  TableOK(t1, e, main[Header].st, main[Header].scn, delta.alloc)
<1> DEFINE b == bm[Home[c]]
           x == Drops(b)
           st == main[Header].st
           scn == main[Header].scn
           alloc == delta.alloc
<1>1. b \in Manager /\ TableOK(th[c], b, st, scn, alloc) /\ b.scn \in Nat
  BY OfClient DEF Manager
<1>2. /\ e.scn = scn
      /\ e.loaded = (b.loaded /\ ~x)
      /\ e.table = IF x THEN <<>> ELSE b.table
      /\ e.allocLock = IF x /\ b.loaded THEN LCK_none ELSE b.allocLock
      /\ e.allocIsValid = (b.allocIsValid /\ ~(x /\ b.loaded /\ b.allocLock # LCK_none))
  BY <1>1, FetchedFields DEF IInv
<1>3. scn \in Nat
  BY HeaderFields
<1>4. ~x => st # "normal" /\ scn <= b.scn + 1 /\ b.scn <= scn
  BY <1>1, <1>3 DEF Drops
<1>5. CASE x
  <2>1. ~e.loaded /\ e.table = <<>>
    BY <1>2, <1>5
  <2>2. e.allocLock = LCK_none
    BY <1>1, <1>2, <1>5 DEF TableOK
  <2>3. NoRepeats(<<>>)
    BY DEF NoRepeats
  <2> QED BY <2>1, <2>2, <2>3 DEF TableOK, Recent
<1>6. CASE ~x
  <2>1. /\ e.loaded = b.loaded /\ e.table = b.table /\ e.allocLock = b.allocLock
        /\ e.allocIsValid = b.allocIsValid
    BY <1>1, <1>2, <1>6 DEF Manager
  <2>2. b.loaded => Recent(b, st, scn)
    BY <1>4, <1>6 DEF Recent
  <2>3. e.scn = scn /\ scn <= scn + 1
    BY <1>2, <1>3
  <2> QED BY <1>1, <1>4, <1>6, <2>1, <2>2, <2>3 DEF TableOK, Recent
<1> QED BY <1>5, <1>6

\* StateRead keeps the invariant.
LEMMA StepStateRead ==
    ASSUME NEW W, Classic, IInv(W), NEW c \in Client, StateRead(c), ~GivesUp(Home[c])
    PROVE  IInv(W)'
<1> DEFINE t == th[c]
           b == bm[Home[c]]
           f == buf[Home[c]]
           k == Fetched(b, LCK_read)
           t1 == [t EXCEPT !.wait = FALSE]
           b1 == IF k.blocking THEN Invalidated(k) ELSE k
           st == main[Header].st
           scn == main[Header].scn
<1>0. /\ t \in Thread /\ b \in Manager /\ f \in [AnyPage -> Buffer]
      /\ Shape(t) /\ LockOK(t, b) /\ PageOK(t, b, f)
      /\ KnownOK(t, b, st, scn)
      /\ HeaderOK(t, b, f[Header], st, scn, delta.alloc)
  BY OfClient
<1>1. t.wait /\ b.stateLock = LCK_none
  BY <1>0 DEF StateRead, LockOK
<1>2. /\ bm' = [bm EXCEPT ![Home[c]] = b1] /\ th' = [th EXCEPT ![c] = t1]
      /\ UNCHANGED <<buf, endLock, main, delta, stored, snap>>
      /\ UNCHANGED <<ast, changes, calls, deaths>>
      /\ \A q \in Process \ {Home[c]} : bm[q].stateLock # LCK_write
  BY <1>1 DEF StateRead, files, bounds
<1>3. /\ t1 \in Thread /\ t1.pc = t.pc /\ t1.op = t.op /\ ~t1.wait
      /\ t1.page = t.page /\ t1.guard = t.guard /\ t1.left = t.left
  BY <1>0 DEF Thread
<1>4. /\ k \in Manager
      /\ k.state = st /\ k.scn = scn /\ k.open = (st # "normal")
      /\ k.stateLock = LCK_read /\ k.blocking = b.blocking /\ k.master = b.master
  <2>1. LCK_read \in Level
    BY DEF Level
  <2> HIDE DEF k
  <2> QED BY <1>0, <2>1, FetchedFields DEF IInv, k
<1>5. TableOK(t1, k, st, scn, delta.alloc)
  <2>1. LCK_read \in Level /\ t.pc # "hwrite"
    BY <1>0, <1>1 DEF Level, Shape
  <2> HIDE DEF k, t1
  <2> QED BY <2>1, FetchedTable DEF k
<1> HIDE DEF k
<1>6. /\ b1 \in Manager /\ SameTable(k, b1) /\ b1.master = b.master /\ ~b1.blocking
      /\ \/ b1 = k /\ ~b.blocking
         \/ b.blocking /\ b1.stateLock = LCK_none /\ b1.state = "unknown" /\ ~b1.open
  <2>1. CASE k.blocking
    <3>1. b1 = Invalidated(k)
      BY <2>1
    <3> HIDE DEF b1
    <3> QED BY <1>4, <2>1, <3>1, InvalidatedFields
  <2>2. CASE ~k.blocking
    BY <1>4, <2>2 DEF SameTable
  <2> QED BY <2>1, <2>2
<1> HIDE DEF b1, t1
<1>7. TableOK(t1, b1, st, scn, delta.alloc)
  BY <1>5, <1>6 DEF SameTable, TableOK, Recent
<1>8. b.blocking => t.op \in GuardOp
  <2>1. c \in Threads(Home[c])
    BY OneThread
  <2>2. ~(t.op = "merge" /\ b.blocking)
    BY <2>1 DEF GivesUp
  <2> QED BY <1>0, <1>1, <2>2 DEF LockOK, Shape, MasterOp, GuardOp
<1>9. Shape(t1)
  BY <1>0, <1>3 DEF Shape
<1>10. LockOK(t1, b1)
  BY <1>0, <1>1, <1>3, <1>4, <1>6, <1>8
     DEF LockOK, Shape, Guarding, GuardOp, LCK_none, LCK_read, LCK_write
<1>11. KnownOK(t1, b1, st, scn)
  <2>1. b1.scn = scn /\ scn <= scn
    BY <1>4, <1>6, HeaderFields DEF SameTable
  <2>2. b1.stateLock = LCK_none \/ (b1.state = st /\ (st # "normal" => b1.open))
    BY <1>4, <1>6
  <2> QED BY <1>0, <1>3, <2>1, <2>2 DEF KnownOK
<1>12. PageOK(t1, b1, f)
  <2> SUFFICES ASSUME NEW pg \in AnyPage PROVE BufferOK(t1, b1, pg, f[pg])
    BY DEF PageOK
  <2>1. BufferOK(t, b, pg, f[pg])
    BY <1>0 DEF PageOK
  <2> DEFINE g == f[pg]
  <2>2. g.nbak => t.pc = "have" /\ ~g.dirty
    BY <1>1, <2>1 DEF BufferOK
  <2>3. ~g.dirty /\ ~g.half
    BY <1>0, <1>1, <2>1, <2>2 DEF BufferOK, Shape
  <2>4. g.nbak => b1.stateLock # LCK_none
    BY <1>0, <1>1, <1>4, <1>6, <1>8, <2>1, <2>2 DEF Shape, GuardOp, LCK_none, LCK_read
  <2>5. g.nbak => t.op # "merge"
    BY <1>0, <1>1, <2>2 DEF Shape
  <2> HIDE DEF g
  <2> QED BY <1>1, <1>3, <2>1, <2>2, <2>3, <2>4, <2>5 DEF BufferOK, g
<1>13. t.pc # "hwrite" /\ t.pc # "release" /\ t1.pc # "hwrite"
  BY <1>0, <1>1, <1>3 DEF Shape
<1>14. HeaderOK(t1, b1, f[Header], st, scn, delta.alloc)
  BY <1>0, <1>3, <1>13 DEF HeaderOK
<1>15. b1.allocLock \in {LCK_none, b.allocLock}
  <2>1. LCK_read \in Level
    BY DEF Level
  <2>2. k.allocLock \in {LCK_none, b.allocLock}
    BY <1>0, <2>1, FetchedFields DEF IInv, k
  <2> QED BY <1>6, <2>2 DEF SameTable
<1>16. ASSUME NEW d \in Client \ {c}
       PROVE  /\ b1.stateLock = LCK_write => bm[Home[d]].stateLock = LCK_none
              /\ bm[Home[d]].stateLock = LCK_write => b1.stateLock = LCK_none
  <2>1. bm[Home[d]].stateLock # LCK_write
    BY <1>2, OneThread
  <2> QED BY <1>4, <1>6, <2>1 DEF LCK_none, LCK_read, LCK_write
<1>17. th'[c] = t1
  BY <1>2 DEF IInv, Types
<1>18. /\ Active(c)' => Active(c)
       /\ Going(c)' => /\ Going(c) /\ t1.op = t.op
                       /\ t.op = "merge" => t.left \subseteq t1.left
  BY <1>2, <1>3, <1>13, <1>17 DEF Active, Going
<1>19. Types'
  <2>1. th' \in [Client -> Thread] /\ bm' \in [Process -> Manager]
    BY <1>2, <1>3, <1>6, OneThread DEF IInv, Types
  <2> QED BY <1>2, <2>1 DEF IInv, Types
<1>20. EndLocked' /\ Numbers'
  BY <1>2, <1>3, <1>17 DEF IInv, EndLocked, Numbers, Types
<1>21. t1.op = "merge" => t1.pc # "release"
  BY <1>3, <1>13
<1> QED BY <1>2, <1>7, <1>9, <1>10, <1>11, <1>12, <1>13, <1>14, <1>15, <1>16, <1>18,
           <1>19, <1>20, <1>21, ManagerStep

\* StateWrite keeps the invariant.
LEMMA StepStateWrite ==
    ASSUME NEW W, Classic, IInv(W), NEW c \in Client, StateWrite(c)
    PROVE  IInv(W)'
<1> DEFINE t == th[c]
           b == bm[Home[c]]
           f == buf[Home[c]]
           b1 == Fetched(b, LCK_write)
           t1 == [t EXCEPT !.pc = "guarded"]
           st == main[Header].st
           scn == main[Header].scn
<1>0. /\ t \in Thread /\ b \in Manager /\ f \in [AnyPage -> Buffer]
      /\ Shape(t) /\ LockOK(t, b) /\ PageOK(t, b, f)
      /\ KnownOK(t, b, st, scn)
      /\ HeaderOK(t, b, f[Header], st, scn, delta.alloc)
  BY OfClient
<1>1. /\ t.pc = "wwait"
      /\ bm' = [bm EXCEPT ![Home[c]] = b1] /\ th' = [th EXCEPT ![c] = t1]
      /\ UNCHANGED <<buf, endLock, main, delta, stored, snap>>
      /\ UNCHANGED <<ast, changes, calls, deaths>>
      /\ \A q \in Process \ {Home[c]} : bm[q].stateLock = LCK_none
  BY DEF StateWrite, files, bounds
<1>2. /\ t1 \in Thread /\ t1.pc = "guarded" /\ t1.op = t.op /\ t1.wait = t.wait
      /\ t1.page = t.page /\ t1.guard = t.guard /\ t1.left = t.left
  BY <1>0 DEF Thread, PC
<1>3. LCK_write \in Level
  BY DEF Level
<1>4. /\ b1 \in Manager
      /\ b1.state = st /\ b1.scn = scn /\ b1.open = (st # "normal")
      /\ b1.stateLock = LCK_write /\ b1.blocking = b.blocking /\ b1.master = b.master
      /\ b1.allocLock \in {LCK_none, b.allocLock}
  <2> HIDE DEF b1
  <2> QED BY <1>0, <1>3, FetchedFields DEF IInv, b1
<1>5. TableOK(t1, b1, st, scn, delta.alloc)
  <2> HIDE DEF b1, t1
  <2> QED BY <1>1, <1>3, FetchedTable DEF b1
<1> HIDE DEF b1, t1
<1>6. Shape(t1)
  BY <1>0, <1>1, <1>2 DEF Shape, Guarding
<1>7. LockOK(t1, b1)
  BY <1>0, <1>1, <1>2, <1>4 DEF LockOK, Shape, Guarding, MasterOp, GuardOp, LCK_none, LCK_write
<1>8. KnownOK(t1, b1, st, scn)
  <2>1. b1.scn <= scn
    BY <1>4, HeaderFields
  <2> QED BY <1>0, <1>1, <1>2, <1>4, <2>1 DEF KnownOK
<1>9. PageOK(t1, b1, f)
  <2> SUFFICES ASSUME NEW pg \in AnyPage PROVE BufferOK(t1, b1, pg, f[pg])
    BY DEF PageOK
  <2>1. BufferOK(t, b, pg, f[pg])
    BY <1>0 DEF PageOK
  <2> DEFINE g == f[pg]
  <2>2. ~g.nbak /\ ~g.dirty /\ ~g.half
    BY <1>1, <2>1 DEF BufferOK, Guarding
  <2> HIDE DEF g
  <2> QED BY <1>1, <1>2, <2>1, <2>2 DEF BufferOK, g, Using, Guarding
<1>10. HeaderOK(t1, b1, f[Header], st, scn, delta.alloc)
  BY <1>0, <1>1, <1>2 DEF HeaderOK
<1>11. ASSUME NEW d \in Client \ {c}
       PROVE  /\ b1.stateLock = LCK_write => bm[Home[d]].stateLock = LCK_none
              /\ bm[Home[d]].stateLock = LCK_write => b1.stateLock = LCK_none
  <2>1. bm[Home[d]].stateLock = LCK_none
    BY <1>1, OneThread
  <2> QED BY <1>4, <2>1 DEF LCK_none, LCK_write
<1>12. th'[c] = t1
  BY <1>1 DEF IInv, Types
<1>13. t.op \in GuardOp
  BY <1>0, <1>1 DEF Shape
<1>14. /\ Active(c)' => Active(c)
       /\ Going(c)' => /\ Going(c) /\ t1.op = t.op
                       /\ t.op = "merge" => t.left \subseteq t1.left
       /\ t1.op = "merge" => t1.pc # "release"
  BY <1>1, <1>2, <1>12 DEF Active, Going
<1>15. Types'
  <2>1. th' \in [Client -> Thread] /\ bm' \in [Process -> Manager]
    BY <1>1, <1>2, <1>4, OneThread DEF IInv, Types
  <2> QED BY <1>1, <2>1 DEF IInv, Types
<1>16. EndLocked' /\ Numbers'
  BY <1>1, <1>2, <1>12 DEF IInv, EndLocked, Numbers, Types
<1> QED BY <1>1, <1>4, <1>5, <1>6, <1>7, <1>8, <1>9, <1>10, <1>11, <1>14,
           <1>15, <1>16, ManagerStep

\* Stalled keeps the invariant: the header page is written, the manager
\* takes its state.
LEMMA StepStalled ==
    ASSUME NEW W, Classic, IInv(W), NEW c \in Client, Stalled(c)
    PROVE  IInv(W)'
<1> DEFINE t == th[c]
           b == bm[Home[c]]
           f == buf[Home[c]]
           h == f[Header].page
           b1 == [b EXCEPT !.state = "stalled", !.scn = h.scn]
           t1 == [t EXCEPT !.pc = "leave"]
           st == main[Header].st
           scn == main[Header].scn
<1>0. /\ t \in Thread /\ b \in Manager /\ f \in [AnyPage -> Buffer]
      /\ Shape(t) /\ LockOK(t, b) /\ PageOK(t, b, f)
      /\ KnownOK(t, b, st, scn)
      /\ HeaderOK(t, b, f[Header], st, scn, delta.alloc)
      /\ TableOK(t, b, st, scn, delta.alloc) /\ Header \in AnyPage
  BY OfClient
<1>1. /\ t.pc = "hwrite" /\ t.op = "begin" /\ ~f[Header].dirty
      /\ bm' = [bm EXCEPT ![Home[c]] = b1] /\ th' = [th EXCEPT ![c] = t1]
      /\ UNCHANGED <<buf, endLock, main, delta, stored>>
      /\ UNCHANGED <<ast, changes, calls, deaths>>
      /\ snap' = [scn |-> h.scn - 1, ver |-> [pg \in AnyPage |-> main[pg].ver]]
  BY DEF Stalled, files, bounds
<1>2. /\ t1 \in Thread /\ t1.pc = "leave" /\ t1.op = "begin" /\ t1.wait = t.wait
      /\ t1.page = t.page /\ t1.guard = t.guard /\ t1.left = t.left
  BY <1>0, <1>1 DEF Thread, PC
<1>3. /\ st = "stalled" /\ scn = b.scn + 1 /\ h.scn = b.scn + 1 /\ h.st = "stalled"
      /\ ~b.loaded /\ b.open /\ b.scn \in Nat
  BY <1>0, <1>1 DEF HeaderOK, Manager
<1>4. /\ b1 \in Manager
      /\ b1.state = st /\ b1.scn = scn /\ b1.open = b.open /\ b1.loaded = b.loaded
      /\ b1.table = b.table /\ b1.allocIsValid = b.allocIsValid
      /\ b1.stateLock = b.stateLock /\ b1.blocking = b.blocking /\ b1.master = b.master
      /\ b1.allocLock = b.allocLock
  <2>1. h.scn \in Nat
    BY <1>3
  <2> HIDE DEF h
  <2> QED BY <1>0, <1>3, <2>1 DEF Manager, State
<1> HIDE DEF b1, t1, h
<1>5. TableOK(t1, b1, st, scn, delta.alloc)
  BY <1>0, <1>3, <1>4 DEF TableOK, Recent
<1>6. Shape(t1)
  BY <1>0, <1>1, <1>2 DEF Shape, Guarding, GuardOp
<1>7. LockOK(t1, b1)
  BY <1>0, <1>1, <1>2, <1>4
     DEF LockOK, Shape, Guarding, MasterOp, GuardOp, LCK_none, LCK_write
<1>8. KnownOK(t1, b1, st, scn)
  BY <1>0, <1>2, <1>3, <1>4 DEF KnownOK
<1>9. PageOK(t1, b1, f)
  <2> SUFFICES ASSUME NEW pg \in AnyPage PROVE BufferOK(t1, b1, pg, f[pg])
    BY DEF PageOK
  <2>1. BufferOK(t, b, pg, f[pg])
    BY <1>0 DEF PageOK
  <2> DEFINE g == f[pg]
  <2>2. ~g.nbak /\ ~g.dirty /\ ~g.half
    BY <1>1, <2>1 DEF BufferOK, Guarding
  <2> HIDE DEF g
  <2> QED BY <1>1, <1>2, <2>1, <2>2 DEF BufferOK, g, Using, Guarding
<1>10. HeaderOK(t1, b1, f[Header], st, scn, delta.alloc)
  BY <1>2, <1>3 DEF HeaderOK, h
<1>11. ASSUME NEW d \in Client \ {c}
       PROVE  /\ b1.stateLock = LCK_write => bm[Home[d]].stateLock = LCK_none
              /\ bm[Home[d]].stateLock = LCK_write => b1.stateLock = LCK_none
  BY <1>4 DEF IInv, Exclusive
<1>12. th'[c] = t1
  BY <1>1 DEF IInv, Types
<1>13. ~f[Header].half
  BY <1>0, <1>1 DEF PageOK, BufferOK
<1>14. /\ Active(c)' => Active(c)
       /\ Going(c)' => /\ Going(c) /\ t1.op = t.op
                       /\ t.op = "merge" => t.left \subseteq t1.left
       /\ t1.op = "merge" => t1.pc # "release"
  BY <1>2, <1>12 DEF Active, Going
<1>15. snap'.scn = b.scn /\ \A pg \in AnyPage : snap'.ver[pg] = main[pg].ver
  BY <1>1, <1>3
<1>16. Types'
  <2>1. th' \in [Client -> Thread] /\ bm' \in [Process -> Manager]
    BY <1>1, <1>2, <1>4, OneThread DEF IInv, Types
  <2>2. [pg \in AnyPage |-> main[pg].ver] \in [AnyPage -> Nat]
    BY DEF IInv, Types, Contents
  <2>3. h.scn - 1 \in Nat
    BY <1>3
  <2>4. snap' \in Snap
    BY <1>1, <2>2, <2>3 DEF Snap
  <2> QED BY <1>1, <2>1, <2>4 DEF IInv, Types
<1>17. EndLocked'
  BY <1>1, <1>2, <1>12 DEF IInv, EndLocked, Types, EndOp
<1>18. Numbers'
  <2>1. snap'.scn < scn
    BY <1>3, <1>15
  <2> QED BY <1>1, <1>15, <2>1 DEF IInv, Numbers, AnyPage
<1> QED BY <1>1, <1>4, <1>5, <1>6, <1>7, <1>8, <1>9, <1>10, <1>11, <1>13, <1>14,
           <1>16, <1>17, <1>18, ManagerStep

\* PageDenied keeps the invariant: whatever the thread was at ends.
LEMMA StepPageDenied ==
    ASSUME NEW W, Classic, IInv(W), NEW c \in Client, PageDenied(c)
    PROVE  IInv(W)'
<1> DEFINE t == th[c]
           b == bm[Home[c]]
           f == buf[Home[c]]
           b2 == [b EXCEPT !.master = @ /\ t.op \in {"read", "write"}]
           st == main[Header].st
           scn == main[Header].scn
<1>0. /\ t \in Thread /\ b \in Manager /\ f \in [AnyPage -> Buffer]
      /\ Shape(t) /\ LockOK(t, b) /\ PageOK(t, b, f)
      /\ KnownOK(t, b, st, scn)
  BY OfClient
<1>1. t.pc = "fetch"
  BY DEF PageDenied, Cycle
<1>2. /\ UNCHANGED <<ast, buf, main, delta, stored, snap, changes, calls, deaths>>
      /\ endLock' = IF t.op \in EndOp THEN Nobody ELSE endLock
  BY DEF PageDenied, files, bounds, EndOp
<1>3. /\ b2 \in Manager /\ SameTable(b, b2) /\ ~b2.master
      /\ b2.state = b.state /\ b2.open = b.open /\ b2.blocking = b.blocking
      /\ b2.stateLock = b.stateLock
  <2> DEFINE m == b.master /\ t.op \in {"read", "write"}
  <2>1. ~m /\ m \in BOOLEAN
    BY <1>0, <1>1 DEF LockOK, MasterOp
  <2>2. b2 = [b EXCEPT !.master = m]
    OBVIOUS
  <2> HIDE DEF m, b2
  <2> QED BY <1>0, <2>1, <2>2 DEF Manager, SameTable
<1> HIDE DEF b2
<1>4. PICK t1 \in {Idle, [Idle EXCEPT !.guard = FALSE]},
           b1 \in {b2, unlockStateRead(Home[c], b2, LocalReaders(Home[c]) \ {c})} :
        th' = [th EXCEPT ![c] = t1] /\ bm' = [bm EXCEPT ![Home[c]] = b1]
  BY DEF PageDenied, EndsGuard, b2
<1>5. /\ t1 \in Thread /\ Shape(t1)
      /\ t1.pc = "idle" /\ t1.op = "none" /\ t1.page = Header
      /\ ~t1.guard /\ ~t1.wait /\ t1.left = {}
  BY <1>4, IdleFields, EndedFields
<1>6. LockOK(t1, b2)
  BY <1>0, <1>1, <1>3, <1>5 DEF LockOK, Shape, Guarding, MasterOp, GuardOp
<1>7. KnownOK(t1, b2, st, scn)
  BY <1>0, <1>1, <1>3, <1>5 DEF KnownOK, SameTable
<1>8. PageOK(t1, b2, f)
  BY <1>0, <1>1, <1>3, <1>5 DEF PageOK, BufferOK, Using, Guarding, SameTable
<1>9. /\ b1 \in Manager /\ SameTable(b, b1) /\ ~b1.master
      /\ LockOK(t1, b1) /\ KnownOK(t1, b1, st, scn) /\ PageOK(t1, b1, f)
      /\ b1.stateLock \in {LCK_none, b.stateLock}
  <2>1. CASE b1 = b2
    BY <1>3, <1>6, <1>7, <1>8, <2>1
  <2>2. CASE b1 = unlockStateRead(Home[c], b2, LocalReaders(Home[c]) \ {c})
    <3>1. /\ b1 \in Manager /\ SameTable(b2, b1) /\ b1.master = b2.master
          /\ LockOK(t1, b1) /\ KnownOK(t1, b1, st, scn) /\ PageOK(t1, b1, f)
          /\ b1.stateLock \in {LCK_none, b2.stateLock}
      <4>1. b2 \in Manager /\ Rests(c, t1, b2, f, st, scn)
        BY <1>3, <1>5, <1>6, <1>7, <1>8 DEF Rests
      <4>2. b1 = EndOf(c, b2)
        BY <2>2 DEF EndOf
      <4> HIDE DEF f, st, scn
      <4> QED BY <4>1, <4>2, Unlocked
    <3> QED BY <1>3, <3>1 DEF SameTable
  <2> QED BY <1>4, <2>1, <2>2
<1>10. EndLocked'
  <2> SUFFICES ASSUME NEW d \in Client, th'[d].op \in EndOp, th'[d].pc # "leave"
               PROVE  endLock' = Home[d]
    BY DEF EndLocked
  <2>1. d # c
    BY <1>4, <1>5 DEF EndOp, IInv, Types
  <2>2. th[d].op \in EndOp /\ th[d].pc # "leave"
    BY <1>4, <2>1 DEF IInv, Types
  <2>3. endLock = Home[d]
    BY <2>2 DEF IInv, EndLocked
  <2>4. t.op \notin EndOp
    <3>1. t.pc # "leave"
      BY <1>1
    <3> QED BY <2>1, <2>3, <3>1, OneThread DEF IInv, EndLocked
  <2> QED BY <1>2, <2>3, <2>4
<1>11. OtherTypes' /\ endLock' \in Process \cup {Nobody}
  BY <1>2 DEF OtherTypes, IInv, Types
<1> QED BY <1>1, <1>2, <1>4, <1>5, <1>9, <1>10, <1>11, QuietStep

\* extendDatabase: a manager without a table starts one.
LEMMA ExtendFields ==
    ASSUME NEW W, IInv(W), NEW c \in Client, main[Header].st # "normal", NEW t1,
           NEW e, e = extendDatabase(bm[Home[c]])
    PROVE  /\ e \in Manager /\ e.loaded
           /\ e.state = bm[Home[c]].state /\ e.scn = bm[Home[c]].scn
           /\ e.open = bm[Home[c]].open /\ e.master = bm[Home[c]].master
           /\ e.blocking = bm[Home[c]].blocking /\ e.stateLock = bm[Home[c]].stateLock
           /\ e.allocLock = bm[Home[c]].allocLock
           /\ TableOK(t1, e, main[Header].st, main[Header].scn, delta.alloc)
<1> DEFINE b == bm[Home[c]]
<1>1. /\ b \in Manager
      /\ TableOK(th[c], b, main[Header].st, main[Header].scn, delta.alloc)
      /\ main[Header].scn \in Nat /\ delta.alloc \in Seq(AnyPage)
  BY OfClient, HeaderFields DEF IInv, Types, Delta
<1> HIDE DEF b
<1>2. CASE b.loaded
  <2>1. e = b
    BY <1>2 DEF extendDatabase, b
  <2>2. TableOK(t1, b, main[Header].st, main[Header].scn, delta.alloc)
    BY <1>1 DEF TableOK
  <2> QED BY <1>1, <1>2, <2>1, <2>2 DEF b
<1>3. CASE ~b.loaded
  <2>1. e = actualizeAlloc(b, FALSE)
    BY <1>3 DEF extendDatabase, b
  <2>2. /\ e \in Manager /\ e.loaded /\ ~e.allocIsValid
        /\ e.state = b.state /\ e.scn = b.scn /\ e.table = b.table
        /\ e.open = b.open /\ e.master = b.master /\ e.blocking = b.blocking
        /\ e.stateLock = b.stateLock /\ e.allocLock = b.allocLock
    BY <1>1, <2>1, WithoutLock
  <2>3. TableOK(t1, e, main[Header].st, main[Header].scn, delta.alloc)
    BY <1>1, <2>2, StartsTable
  <2> QED BY <2>2, <2>3 DEF b
<1> QED BY <1>2, <1>3

\* EndRefused keeps the invariant.
LEMMA StepEndRefused ==
    ASSUME NEW W, Classic, IInv(W), NEW c \in Client, EndRefused(c)
    PROVE  IInv(W)'
<1> DEFINE t == th[c]
           b == bm[Home[c]]
           f == buf[Home[c]]
           b1 == IF InvalidState(c) THEN b ELSE extendDatabase(b)
           t1 == [t EXCEPT !.pc = "leave", !.op = "none"]
           st == main[Header].st
           scn == main[Header].scn
<1>0. /\ t \in Thread /\ b \in Manager /\ f \in [AnyPage -> Buffer]
      /\ Shape(t) /\ LockOK(t, b) /\ PageOK(t, b, f)
      /\ KnownOK(t, b, st, scn)
      /\ HeaderOK(t, b, f[Header], st, scn, delta.alloc)
      /\ TableOK(t, b, st, scn, delta.alloc)
  BY OfClient
<1>1. /\ t.pc = "guarded" /\ t.op \in {"end", "recover"}
      /\ bm' = [bm EXCEPT ![Home[c]] = b1] /\ th' = [th EXCEPT ![c] = t1]
      /\ UNCHANGED <<buf, main, delta, stored, snap>>
      /\ UNCHANGED <<ast, changes, calls, deaths>>
      /\ endLock' = Nobody
  <2>1. bm = [bm EXCEPT ![Home[c]] = b]
    BY DEF IInv, Types
  <2> QED BY <2>1 DEF EndRefused, files, bounds
<1>2. /\ t1 \in Thread /\ t1.pc = "leave" /\ t1.op = "none" /\ t1.wait = t.wait
      /\ t1.page = t.page /\ t1.guard = t.guard /\ t1.left = t.left
  BY <1>0 DEF Thread, PC, Op
<1>3. b.state = st /\ b.scn = scn
  BY <1>0, <1>1 DEF KnownOK, LockOK, LCK_none, LCK_write
<1>4. /\ b1 \in Manager
      /\ b1.state = b.state /\ b1.scn = b.scn /\ b1.open = b.open
      /\ b1.stateLock = b.stateLock /\ b1.blocking = b.blocking /\ b1.master = b.master
      /\ b1.allocLock = b.allocLock
      /\ TableOK(t1, b1, st, scn, delta.alloc)
  <2>1. CASE InvalidState(c)
    <3>1. b1 = b
      BY <2>1
    <3> HIDE DEF b1, t1
    <3> QED BY <1>0, <1>1, <3>1 DEF TableOK
  <2>2. CASE ~InvalidState(c)
    <3>1. b1 = extendDatabase(bm[Home[c]])
      BY <2>2
    <3>2. st # "normal"
      BY <1>3, <2>2 DEF InvalidState
    <3> HIDE DEF b1, t1
    <3> QED BY <3>1, <3>2, ExtendFields
  <2> QED BY <2>1, <2>2
<1> HIDE DEF b1, t1
<1>5. ~t.guard /\ ~t.wait /\ t.page = Header
  BY <1>0, <1>1 DEF Shape, Guarding
<1>6. Shape(t1)
  BY <1>2, <1>5 DEF Shape, Guarding, GuardOp
<1>7. LockOK(t1, b1)
  BY <1>0, <1>1, <1>2, <1>4, <1>5 DEF LockOK, Guarding, MasterOp, LCK_none, LCK_write
<1>8. KnownOK(t1, b1, st, scn)
  BY <1>0, <1>1, <1>2, <1>3, <1>4 DEF KnownOK
<1>9. PageOK(t1, b1, f)
  <2> SUFFICES ASSUME NEW pg \in AnyPage PROVE BufferOK(t1, b1, pg, f[pg])
    BY DEF PageOK
  <2>1. BufferOK(t, b, pg, f[pg])
    BY <1>0 DEF PageOK
  <2> DEFINE g == f[pg]
  <2>2. ~g.nbak /\ ~g.dirty /\ ~g.half
    BY <1>1, <2>1 DEF BufferOK, Guarding
  <2> HIDE DEF g
  <2> QED BY <1>1, <1>2, <2>1, <2>2 DEF BufferOK, g, Using, Guarding
<1>10. HeaderOK(t1, b1, f[Header], st, scn, delta.alloc)
  BY <1>0, <1>1, <1>2 DEF HeaderOK
<1>11. ASSUME NEW d \in Client \ {c}
       PROVE  /\ b1.stateLock = LCK_write => bm[Home[d]].stateLock = LCK_none
              /\ bm[Home[d]].stateLock = LCK_write => b1.stateLock = LCK_none
  BY <1>4 DEF IInv, Exclusive
<1>12. th'[c] = t1 /\ \A d \in Client \ {c} : th'[d] = th[d]
  BY <1>1 DEF IInv, Types
<1>14. /\ Active(c)' => Active(c)
       /\ Going(c)' => /\ Going(c) /\ t1.op = t.op
                       /\ t.op = "merge" => t.left \subseteq t1.left
       /\ t1.op = "merge" => t1.pc # "release"
  BY <1>2, <1>12 DEF Active, Going
<1>15. Types'
  <2>1. th' \in [Client -> Thread] /\ bm' \in [Process -> Manager]
    BY <1>1, <1>2, <1>4, OneThread DEF IInv, Types
  <2> QED BY <1>1, <2>1 DEF IInv, Types
<1>16. b.master
  BY <1>0, <1>1 DEF LockOK, MasterOp
<1>17. EndLocked'
  <2> SUFFICES ASSUME NEW d \in Client, th'[d].op \in EndOp, th'[d].pc # "leave"
               PROVE  FALSE
    BY DEF EndLocked
  <2>1. d # c
    BY <1>2, <1>12
  <2>2. th[d].op \in EndOp /\ th[d].pc # "leave"
    BY <1>12, <2>1
  <2>3. t.op \in EndOp /\ t.pc # "leave"
    BY <1>1 DEF EndOp
  <2> QED BY <2>1, <2>2, <2>3, OneThread DEF IInv, EndLocked
<1>18. Numbers'
  BY <1>1 DEF IInv, Numbers
<1> QED BY <1>1, <1>4, <1>6, <1>7, <1>8, <1>9, <1>10, <1>11, <1>14,
           <1>15, <1>17, <1>18, ManagerStep

\* MergeStarts keeps the invariant: the table does not change any more.
LEMMA StepMergeStarts ==
    ASSUME NEW W, Classic, IInv(W), NEW c \in Client, MergeStarts(c)
    PROVE  IInv(W)'
<1> DEFINE t == th[c]
           b == bm[Home[c]]
           f == buf[Home[c]]
           b1 == actualizeAlloc(b, TRUE)
           pages == {b1.table[i] : i \in DOMAIN b1.table}
           t1 == [t EXCEPT !.pc = "mnext", !.left = pages]
           st == main[Header].st
           scn == main[Header].scn
<1>0. /\ t \in Thread /\ b \in Manager /\ f \in [AnyPage -> Buffer]
      /\ Shape(t) /\ LockOK(t, b) /\ PageOK(t, b, f)
      /\ KnownOK(t, b, st, scn)
      /\ HeaderOK(t, b, f[Header], st, scn, delta.alloc)
      /\ TableOK(t, b, st, scn, delta.alloc)
  BY OfClient
<1>1. /\ t.pc = "mtable" /\ t.op = "merge" /\ ~t.wait
      /\ bm' = [bm EXCEPT ![Home[c]] = b1] /\ th' = [th EXCEPT ![c] = t1]
      /\ UNCHANGED <<buf, endLock, main, delta, stored, snap>>
      /\ UNCHANGED <<ast, changes, calls, deaths>>
  BY <1>0 DEF MergeStarts, files, bounds, Shape
<1>2. delta.alloc \in Seq(AnyPage) /\ b.table \in Seq(AnyPage) /\ b.scn \in Nat /\ scn \in Nat
  BY <1>0, HeaderFields DEF IInv, Types, Delta, Manager
<1>3. b.scn = scn /\ st = "merge"
  BY <1>0, <1>1 DEF KnownOK, LockOK
<1>4. Prefix(b.table, delta.alloc)
  <2>1. CASE b.loaded
    BY <1>0, <1>2, <1>3, <2>1 DEF TableOK, Recent
  <2>2. CASE ~b.loaded
    BY <1>0, <1>2, <2>2 DEF TableOK, Prefix
  <2> QED BY <2>1, <2>2
<1>5. /\ b1 = [b EXCEPT !.loaded = TRUE, !.table = delta.alloc, !.allocIsValid = TRUE]
  BY <1>2, <1>4, PrefixRest DEF actualizeAlloc
<1> HIDE DEF b1
<1>6. /\ b1 \in Manager /\ b1.loaded /\ b1.table = delta.alloc
      /\ b1.state = b.state /\ b1.scn = b.scn /\ b1.open = b.open
      /\ b1.stateLock = b.stateLock /\ b1.blocking = b.blocking /\ b1.master = b.master
      /\ b1.allocLock = b.allocLock
  BY <1>0, <1>2, <1>5 DEF Manager
<1>7. pages \in SUBSET AnyPage /\ \A pg \in AnyPage : Mapped(delta.alloc, pg) => pg \in pages
  BY <1>2, <1>6 DEF Mapped
<1> HIDE DEF pages
<1>8. /\ t1 \in Thread /\ t1.pc = "mnext" /\ t1.op = "merge" /\ t1.wait = t.wait
      /\ t1.page = t.page /\ t1.guard = t.guard /\ t1.left = pages
  BY <1>0, <1>1, <1>7 DEF Thread, PC
<1> HIDE DEF t1
<1>9. TableOK(t1, b1, st, scn, delta.alloc)
  <2>1. NoRepeats(delta.alloc) /\ Prefix(delta.alloc, delta.alloc)
    BY <1>2 DEF IInv, Files, Prefix
  <2> QED BY <1>0, <1>3, <1>6, <2>1 DEF TableOK, Recent
<1>10. Shape(t1)
  BY <1>0, <1>1, <1>8 DEF Shape, Guarding, GuardOp
<1>11. LockOK(t1, b1)
  BY <1>0, <1>1, <1>6, <1>8 DEF LockOK, Shape, Guarding, MasterOp
<1>12. KnownOK(t1, b1, st, scn)
  BY <1>0, <1>1, <1>6, <1>8 DEF KnownOK
<1>13. PageOK(t1, b1, f)
  BY <1>0, <1>1, <1>6, <1>8 DEF PageOK, BufferOK, Using, Guarding
<1>14. HeaderOK(t1, b1, f[Header], st, scn, delta.alloc)
  BY <1>0, <1>1, <1>8 DEF HeaderOK
<1>15. ASSUME NEW d \in Client \ {c}
       PROVE  /\ b1.stateLock = LCK_write => bm[Home[d]].stateLock = LCK_none
              /\ bm[Home[d]].stateLock = LCK_write => b1.stateLock = LCK_none
  BY <1>6 DEF IInv, Exclusive
<1>16. th'[c] = t1
  BY <1>1 DEF IInv, Types
<1>17. ASSUME Elsewhere(c), HalfStays(c) PROVE MergeOK(W, c)'
  <2>1. \A pg \in AnyPage : InMain(W, pg) => InMain(W, pg)'
    BY <1>1, <1>17, InMainStays
  <2>2. MergeOK(W, c) /\ Active(c)
    BY <1>1 DEF IInv, Merging, Active
  <2>3. \A pg \in AnyPage : stored'[pg].scn = main'[Header].scn => InMain(W, pg)'
    BY <1>1, <1>3, <2>1, <2>2 DEF MergeOK
  <2>4. \A pg \in AnyPage : ~(Mapped(delta'.alloc, pg) /\ (th'[c].op = "merge" => pg \notin th'[c].left))
    BY <1>1, <1>7, <1>8, <1>16
  <2>5. th'[c].pc # "release"
    BY <1>8, <1>16
  <2> QED BY <2>3, <2>4, <2>5 DEF MergeOK
<1>18. Types'
  <2>1. th' \in [Client -> Thread] /\ bm' \in [Process -> Manager]
    BY <1>1, <1>6, <1>8, OneThread DEF IInv, Types
  <2> QED BY <1>1, <2>1 DEF IInv, Types
<1>19. EndLocked' /\ Numbers'
  BY <1>1, <1>8, <1>16 DEF IInv, EndLocked, Numbers, Types
<1> QED BY <1>1, <1>6, <1>9, <1>10, <1>11, <1>12, <1>13, <1>14, <1>15, <1>17,
           <1>18, <1>19, ManagerStepIf

\* A step that ends a StateReadGuard: what holds with b2, before stateLock
\* may be released, and t1.
LEMMA GuardStep ==
    ASSUME NEW W, Classic, IInv(W), NEW c \in Client, NEW t1 \in Thread, NEW b2 \in Manager,
           th' = [th EXCEPT ![c] = t1],
           bm' = [bm EXCEPT ![Home[c]] =
                    unlockStateRead(Home[c], b2, LocalReaders(Home[c]) \ {c})],
           UNCHANGED <<buf, main, delta, stored, snap>>,
           OtherTypes', endLock' \in Process \cup {Nobody},
           th[c].pc # "hwrite",
           ~t1.guard, t1.op # "merge", t1.pc \notin {"guarded", "hwrite", "leave", "rdisk"},
           Shape(t1), LockOK(t1, b2),
           KnownOK(t1, b2, main[Header].st, main[Header].scn),
           PageOK(t1, b2, buf[Home[c]]),
           TableOK(t1, b2, main[Header].st, main[Header].scn, delta.alloc),
           b2.allocLock = bm[Home[c]].allocLock, b2.stateLock = bm[Home[c]].stateLock,
           Elsewhere(c) /\ HalfStays(c) => MergeOK(W, c)',
           EndLocked'
    PROVE  IInv(W)'
<1> DEFINE b == bm[Home[c]]
           f == buf[Home[c]]
           st == main[Header].st
           scn == main[Header].scn
<1>0. b \in Manager /\ HeaderOK(th[c], b, f[Header], st, scn, delta.alloc)
  BY OfClient
<1>a. PICK b1 : b1 = EndOf(c, b2)
  OBVIOUS
<1>1. /\ b1 \in Manager /\ SameTable(b2, b1) /\ b1.master = b2.master
      /\ LockOK(t1, b1) /\ KnownOK(t1, b1, st, scn) /\ PageOK(t1, b1, f)
      /\ b1.stateLock \in {LCK_none, b2.stateLock}
  <2>1. Rests(c, t1, b2, f, st, scn)
    BY DEF Rests
  <2> HIDE DEF f, st, scn
  <2> QED BY <1>a, <2>1, Unlocked
<1>2. bm' = [bm EXCEPT ![Home[c]] = b1]
  BY <1>a DEF EndOf
<1>3. Types'
  <2>1. th' \in [Client -> Thread] /\ bm' \in [Process -> Manager]
    BY <1>1, <1>2, OneThread DEF IInv, Types
  <2> QED BY <2>1 DEF IInv, Types, OtherTypes
<1>4. TableOK(t1, b1, st, scn, delta.alloc)
  BY <1>1 DEF TableOK, SameTable, Recent
<1>5. HeaderOK(t1, b1, f[Header], st, scn, delta.alloc)
  BY <1>0 DEF HeaderOK
<1>6. b1.allocLock \in {LCK_none, b.allocLock}
  BY <1>1 DEF SameTable
<1>7. ASSUME NEW d \in Client \ {c}
      PROVE  /\ b1.stateLock = LCK_write => bm[Home[d]].stateLock = LCK_none
             /\ bm[Home[d]].stateLock = LCK_write => b1.stateLock = LCK_none
  <2>1. /\ b.stateLock = LCK_write => bm[Home[d]].stateLock = LCK_none
        /\ bm[Home[d]].stateLock = LCK_write => b.stateLock = LCK_none
    BY DEF IInv, Exclusive
  <2> QED BY <1>1, <2>1 DEF LCK_none, LCK_write
<1>8. Numbers'
  BY DEF IInv, Numbers
<1> QED BY <1>1, <1>2, <1>3, <1>4, <1>5, <1>6, <1>7, <1>8, ManagerStepIf

\* MergeDone keeps the invariant: the merge has gone through the table, and
\* what it marked is written.
LEMMA StepMergeDone ==
    ASSUME NEW W, Classic, IInv(W), NEW c \in Client, MergeDone(c)
    PROVE  IInv(W)'
<1> DEFINE t == th[c]
           b == bm[Home[c]]
           f == buf[Home[c]]
           b2 == [b EXCEPT !.flush = TRUE]
           t1 == [[t EXCEPT !.pc = "wflush", !.op = "finish"] EXCEPT !.guard = FALSE]
           st == main[Header].st
           scn == main[Header].scn
<1>0. /\ t \in Thread /\ b \in Manager /\ f \in [AnyPage -> Buffer]
      /\ Shape(t) /\ LockOK(t, b) /\ PageOK(t, b, f)
      /\ KnownOK(t, b, st, scn)
      /\ TableOK(t, b, st, scn, delta.alloc)
  BY OfClient
<1>1. /\ t.pc = "mflush" /\ t.op = "merge" /\ t.left = {} /\ st = "merge"
      /\ th' = [th EXCEPT ![c] = t1]
      /\ bm' = [bm EXCEPT ![Home[c]] =
                  unlockStateRead(Home[c], b2, LocalReaders(Home[c]) \ {c})]
      /\ \A pg \in AnyPage : ~f[pg].dirty
      /\ UNCHANGED <<buf, endLock, main, delta, stored, snap>>
      /\ UNCHANGED <<ast, changes, calls, deaths>>
  BY <1>0 DEF MergeDone, EndsGuard, files, bounds, Shape, KnownOK
<1>2. /\ t1 \in Thread /\ t1.pc = "wflush" /\ t1.op = "finish" /\ t1.wait = t.wait
      /\ t1.page = t.page /\ ~t1.guard /\ t1.left = t.left
  BY <1>0 DEF Thread, PC, Op
<1>3. /\ b2 \in Manager /\ SameTable(b, b2) /\ Kept(b, b2)
  BY <1>0 DEF Manager, SameTable, Kept
<1> HIDE DEF t1, b2
<1>4. Shape(t1)
  BY <1>0, <1>1, <1>2 DEF Shape, Guarding, GuardOp
<1>5. LockOK(t1, b2)
  BY <1>0, <1>1, <1>2, <1>3 DEF LockOK, Shape, Guarding, MasterOp, GuardOp, Kept
<1>6. KnownOK(t1, b2, st, scn)
  BY <1>0, <1>1, <1>2, <1>3 DEF KnownOK, Kept
<1>7. PageOK(t1, b2, f)
  <2> SUFFICES ASSUME NEW pg \in AnyPage PROVE BufferOK(t1, b2, pg, f[pg])
    BY DEF PageOK
  <2>1. BufferOK(t, b, pg, f[pg]) /\ ~f[pg].dirty
    BY <1>0, <1>1 DEF PageOK
  <2> DEFINE g == f[pg]
  <2> HIDE DEF g
  <2>2. BufferOK(t, b, pg, g) /\ ~g.dirty
    BY <2>1 DEF g
  <2>3. BufferOK(t1, b2, pg, g)
    BY <1>1, <1>2, <1>3, <2>2 DEF BufferOK, Using, Guarding, Kept
  <2> QED BY <2>3 DEF g
<1>8. TableOK(t1, b2, st, scn, delta.alloc)
  BY <1>0, <1>1, <1>3 DEF TableOK, SameTable, Recent
<1>9. th'[c] = t1
  BY <1>1 DEF IInv, Types
<1>10. ASSUME Elsewhere(c), HalfStays(c) PROVE MergeOK(W, c)'
  <2>1. \A pg \in AnyPage : InMain(W, pg) => InMain(W, pg)'
    BY <1>1, <1>10, InMainStays
  <2>2. MergeOK(W, c) /\ Active(c) /\ Going(c)
    BY <1>1 DEF IInv, Merging, Active, Going
  <2>3. \A pg \in AnyPage : stored'[pg].scn = main'[Header].scn => InMain(W, pg)'
    BY <1>1, <2>1, <2>2 DEF MergeOK
  <2>4. \A pg \in AnyPage : Mapped(delta'.alloc, pg) => InMain(W, pg)'
    BY <1>1, <2>1, <2>2 DEF MergeOK
  <2>5. th'[c].op # "merge"
    BY <1>2, <1>9
  <2> QED BY <2>3, <2>4, <2>5 DEF MergeOK
<1>11. EndLocked'
  BY <1>1, <1>2, <1>9 DEF IInv, EndLocked, Types, EndOp
<1>12. OtherTypes' /\ endLock' \in Process \cup {Nobody}
  BY <1>1 DEF OtherTypes, IInv, Types
<1>13. /\ b2.allocLock = b.allocLock /\ b2.stateLock = b.stateLock
       /\ b2.master => b.master
  BY <1>3 DEF SameTable, Kept
<1>14. /\ t.pc # "hwrite" /\ t1.op # "merge"
       /\ t1.pc \notin {"guarded", "hwrite", "leave", "rdisk"}
  BY <1>1, <1>2
<1> QED BY <1>1, <1>2, <1>3, <1>4, <1>5, <1>6, <1>7, <1>8, <1>10, <1>11, <1>12, <1>13, <1>14,
           GuardStep

\* initializeAlloc keeps the invariant.
LEMMA StepInitializeAlloc ==
    ASSUME NEW W, Classic, IInv(W), NEW c \in Client, initializeAlloc(c)
    PROVE  IInv(W)'
<1> DEFINE t == th[c]
           b == bm[Home[c]]
           f == buf[Home[c]]
           b2 == IF b.state = "normal" THEN b ELSE actualizeAlloc(b, FALSE)
           t1 == [[t EXCEPT !.pc = "estart"] EXCEPT !.guard = FALSE]
           st == main[Header].st
           scn == main[Header].scn
<1>0. /\ t \in Thread /\ b \in Manager /\ f \in [AnyPage -> Buffer]
      /\ Shape(t) /\ LockOK(t, b) /\ PageOK(t, b, f)
      /\ KnownOK(t, b, st, scn)
      /\ TableOK(t, b, st, scn, delta.alloc)
  BY OfClient
<1>1. /\ t.pc = "ialloc" /\ ~t.wait /\ t.op = "none"
      /\ th' = [th EXCEPT ![c] = t1]
      /\ bm' = [bm EXCEPT ![Home[c]] =
                  unlockStateRead(Home[c], b2, LocalReaders(Home[c]) \ {c})]
      /\ UNCHANGED <<buf, endLock, main, delta, stored, snap>>
      /\ UNCHANGED <<ast, changes, calls, deaths>>
  BY <1>0 DEF initializeAlloc, EndsGuard, files, bounds, Shape
<1>2. /\ t1 \in Thread /\ t1.pc = "estart" /\ t1.op = t.op /\ t1.wait = t.wait
      /\ t1.page = t.page /\ ~t1.guard /\ t1.left = t.left
  BY <1>0 DEF Thread, PC, Op
<1>3. b.state = st
  BY <1>0, <1>1 DEF KnownOK, LockOK, Shape, GuardOp
<1> HIDE DEF t1
<1>4. /\ b2 \in Manager
      /\ b2.state = b.state /\ b2.scn = b.scn /\ b2.open = b.open
      /\ b2.stateLock = b.stateLock /\ b2.blocking = b.blocking /\ b2.master = b.master
      /\ b2.allocLock = b.allocLock
      /\ TableOK(t1, b2, st, scn, delta.alloc)
  <2>1. CASE b.state = "normal"
    <3>1. b2 = b
      BY <2>1
    <3> HIDE DEF b2
    <3> QED BY <1>0, <1>1, <3>1 DEF TableOK
  <2>2. CASE b.state # "normal"
    <3>1. b2 = actualizeAlloc(b, FALSE)
      BY <2>2
    <3> HIDE DEF b2
    <3>2. /\ b2 \in Manager /\ b2.loaded /\ ~b2.allocIsValid
          /\ b2.state = b.state /\ b2.scn = b.scn /\ b2.table = b.table
          /\ b2.open = b.open /\ b2.master = b.master /\ b2.blocking = b.blocking
          /\ b2.stateLock = b.stateLock /\ b2.allocLock = b.allocLock
      BY <1>0, <3>1, WithoutLock
    <3>3. scn \in Nat /\ delta.alloc \in Seq(AnyPage)
      BY HeaderFields DEF IInv, Types, Delta
    <3>4. TableOK(t1, b2, st, scn, delta.alloc)
      BY <1>0, <1>3, <2>2, <3>2, <3>3, StartsTable
    <3> QED BY <3>2, <3>4
  <2> QED BY <2>1, <2>2
<1> HIDE DEF b2
<1>5. Shape(t1)
  BY <1>0, <1>1, <1>2 DEF Shape, Guarding, GuardOp
<1>6. LockOK(t1, b2)
  BY <1>0, <1>1, <1>2, <1>4 DEF LockOK, Shape, Guarding, MasterOp, GuardOp
<1>7. KnownOK(t1, b2, st, scn)
  BY <1>0, <1>1, <1>2, <1>4 DEF KnownOK
<1>8. PageOK(t1, b2, f)
  BY <1>0, <1>1, <1>2, <1>4 DEF PageOK, BufferOK, Using, Guarding
<1>9. th'[c] = t1
  BY <1>1 DEF IInv, Types
<1>10. ASSUME Elsewhere(c), HalfStays(c) PROVE MergeOK(W, c)'
  BY <1>1, <1>2, <1>9 DEF MergeOK, Active, Going
<1>11. EndLocked'
  BY <1>1, <1>2, <1>9 DEF IInv, EndLocked, Types, EndOp
<1>12. OtherTypes' /\ endLock' \in Process \cup {Nobody}
  BY <1>1 DEF OtherTypes, IInv, Types
<1>14. /\ t.pc # "hwrite" /\ t1.op # "merge"
       /\ t1.pc \notin {"guarded", "hwrite", "leave", "rdisk"}
  BY <1>1, <1>2
<1> QED BY <1>1, <1>2, <1>4, <1>5, <1>6, <1>7, <1>8, <1>10, <1>11, <1>12, <1>14, GuardStep

\* ChecksState keeps the invariant.
LEMMA StepChecksState ==
    ASSUME NEW W, Classic, IInv(W), NEW c \in Client, ChecksState(c)
    PROVE  IInv(W)'
<1> DEFINE t == th[c]
           b == bm[Home[c]]
           f == buf[Home[c]]
           k == IF b.state = "stalled" /\ ~InvalidState(c) THEN extendDatabase(b) ELSE b
           st == main[Header].st
           scn == main[Header].scn
<1>0. /\ t \in Thread /\ b \in Manager /\ f \in [AnyPage -> Buffer]
      /\ Shape(t) /\ LockOK(t, b) /\ PageOK(t, b, f)
      /\ KnownOK(t, b, st, scn)
      /\ TableOK(t, b, st, scn, delta.alloc)
  BY OfClient
<1>1. /\ t.pc = "echeck" /\ ~t.wait /\ t.op \in {"end", "recover"} /\ ~b.blocking
      /\ UNCHANGED <<buf, main, delta, stored, snap>>
      /\ UNCHANGED <<ast, changes, calls, deaths>>
  BY <1>0 DEF ChecksState, files, bounds, Shape, LockOK, Guarding
<1>2. /\ k \in Manager
      /\ k.state = b.state /\ k.scn = b.scn /\ k.open = b.open
      /\ k.stateLock = b.stateLock /\ k.blocking = b.blocking /\ k.master = b.master
      /\ k.allocLock = b.allocLock
      /\ TableOK(t, k, st, scn, delta.alloc)
  <2>1. CASE b.state = "stalled" /\ ~InvalidState(c)
    <3>1. k = extendDatabase(bm[Home[c]])
      BY <2>1
    <3>2. st # "normal"
      BY <1>0, <1>1, <2>1 DEF KnownOK, LockOK
    <3> HIDE DEF k
    <3> QED BY <3>1, <3>2, ExtendFields
  <2>2. CASE ~(b.state = "stalled" /\ ~InvalidState(c))
    BY <1>0, <2>2
  <2> QED BY <2>1, <2>2
<1> HIDE DEF k
<1>3. OtherTypes'
  BY <1>1 DEF OtherTypes, IInv, Types
<1>4. CASE /\ endLock' = Nobody
           /\ EndsGuard(c, [k EXCEPT !.master = FALSE], Idle)
  <2> DEFINE b2 == [k EXCEPT !.master = FALSE]
             t1 == [Idle EXCEPT !.guard = FALSE]
  <2>1. /\ th' = [th EXCEPT ![c] = t1]
        /\ bm' = [bm EXCEPT ![Home[c]] =
                    unlockStateRead(Home[c], b2, LocalReaders(Home[c]) \ {c})]
    BY <1>4 DEF EndsGuard
  <2>2. /\ t1 \in Thread /\ Shape(t1)
        /\ t1.pc = "idle" /\ t1.op = "none" /\ t1.page = Header
        /\ ~t1.guard /\ ~t1.wait /\ t1.left = {}
    BY EndedFields
  <2>3. /\ b2 \in Manager /\ ~b2.master
        /\ b2.state = k.state /\ b2.scn = k.scn /\ b2.open = k.open
        /\ b2.stateLock = k.stateLock /\ b2.blocking = k.blocking
        /\ b2.allocLock = k.allocLock /\ b2.loaded = k.loaded /\ b2.table = k.table
        /\ b2.allocIsValid = k.allocIsValid
    BY <1>2 DEF Manager
  <2> HIDE DEF b2, t1
  <2>4. LockOK(t1, b2)
    BY <1>0, <1>1, <1>2, <2>2, <2>3 DEF LockOK, Guarding, MasterOp, GuardOp
  <2>5. KnownOK(t1, b2, st, scn)
    BY <1>0, <1>1, <1>2, <2>2, <2>3 DEF KnownOK
  <2>6. PageOK(t1, b2, f)
    BY <1>0, <1>1, <1>2, <2>2, <2>3 DEF PageOK, BufferOK, Using, Guarding
  <2>7. TableOK(t1, b2, st, scn, delta.alloc)
    BY <1>1, <1>2, <2>2, <2>3 DEF TableOK, Recent
  <2>8. th'[c] = t1 /\ \A d \in Client \ {c} : th'[d] = th[d]
    BY <2>1 DEF IInv, Types
  <2>9. ASSUME Elsewhere(c), HalfStays(c) PROVE MergeOK(W, c)'
    BY <2>2, <2>8 DEF MergeOK, Active, Going
  <2>10. EndLocked'
    <3> SUFFICES ASSUME NEW d \in Client, th'[d].op \in EndOp, th'[d].pc # "leave"
                 PROVE  FALSE
      BY DEF EndLocked
    <3>1. d # c
      BY <2>2, <2>8 DEF EndOp
    <3>2. th[d].op \in EndOp /\ th[d].pc # "leave"
      BY <2>8, <3>1
    <3>3. t.op \in EndOp /\ t.pc # "leave"
      BY <1>1 DEF EndOp
    <3> QED BY <3>1, <3>2, <3>3, OneThread DEF IInv, EndLocked
  <2>11. /\ t.pc # "hwrite" /\ t1.op # "merge"
         /\ t1.pc \notin {"guarded", "hwrite", "leave", "rdisk"}
    BY <1>1, <2>2
  <2>12. endLock' \in Process \cup {Nobody}
    BY <1>4
  <2>13. b2.allocLock = b.allocLock /\ b2.stateLock = b.stateLock /\ (b2.master => b.master)
    BY <1>2, <2>3
  <2> QED BY <1>1, <1>3, <2>1, <2>2, <2>3, <2>4, <2>5, <2>6, <2>7, <2>9, <2>10, <2>11, <2>12,
             <2>13, GuardStep
<1>5. CASE /\ EndsGuard(c, [k EXCEPT !.flush = TRUE], [th[c] EXCEPT !.pc = "wflush"])
           /\ UNCHANGED endLock
  <2> DEFINE b2 == [k EXCEPT !.flush = TRUE]
             t1 == [[t EXCEPT !.pc = "wflush"] EXCEPT !.guard = FALSE]
  <2>1. /\ th' = [th EXCEPT ![c] = t1]
        /\ bm' = [bm EXCEPT ![Home[c]] =
                    unlockStateRead(Home[c], b2, LocalReaders(Home[c]) \ {c})]
    BY <1>5 DEF EndsGuard
  <2>2. /\ t1 \in Thread
        /\ t1.pc = "wflush" /\ t1.op = t.op /\ t1.page = t.page
        /\ ~t1.guard /\ t1.wait = t.wait /\ t1.left = t.left
    BY <1>0 DEF Thread, PC
  <2>3. /\ b2 \in Manager /\ b2.master = k.master
        /\ b2.state = k.state /\ b2.scn = k.scn /\ b2.open = k.open
        /\ b2.stateLock = k.stateLock /\ b2.blocking = k.blocking
        /\ b2.allocLock = k.allocLock /\ b2.loaded = k.loaded /\ b2.table = k.table
        /\ b2.allocIsValid = k.allocIsValid
    BY <1>2 DEF Manager
  <2> HIDE DEF b2, t1
  <2>4. LockOK(t1, b2)
    BY <1>0, <1>1, <1>2, <2>2, <2>3 DEF LockOK, Guarding, MasterOp, GuardOp
  <2>5. KnownOK(t1, b2, st, scn)
    BY <1>0, <1>1, <1>2, <2>2, <2>3 DEF KnownOK
  <2>6. PageOK(t1, b2, f)
    BY <1>0, <1>1, <1>2, <2>2, <2>3 DEF PageOK, BufferOK, Using, Guarding
  <2>7. TableOK(t1, b2, st, scn, delta.alloc)
    BY <1>1, <1>2, <2>2, <2>3 DEF TableOK, Recent
  <2>8. th'[c] = t1
    BY <2>1 DEF IInv, Types
  <2>9. ASSUME Elsewhere(c), HalfStays(c) PROVE MergeOK(W, c)'
    BY <1>1, <2>2, <2>8 DEF MergeOK, Active, Going
  <2>10. EndLocked'
    BY <1>1, <1>5, <2>1, <2>2, <2>8 DEF IInv, EndLocked, Types, EndOp
  <2>11. /\ t.pc # "hwrite" /\ t1.op # "merge"
         /\ t1.pc \notin {"guarded", "hwrite", "leave", "rdisk"}
    BY <1>1, <2>2
  <2>12. endLock' \in Process \cup {Nobody}
    BY <1>5 DEF IInv, Types
  <2>13. b2.allocLock = b.allocLock /\ b2.stateLock = b.stateLock /\ (b2.master => b.master)
    BY <1>2, <2>3
  <2>14. Shape(t1)
    BY <1>0, <1>1, <2>2 DEF Shape, Guarding, GuardOp
  <2> QED BY <1>1, <1>3, <2>1, <2>2, <2>3, <2>4, <2>5, <2>6, <2>7, <2>9, <2>10, <2>11, <2>12,
             <2>13, <2>14, GuardStep
<1> QED
  <2>1. \/ endLock' = Nobody /\ EndsGuard(c, [k EXCEPT !.master = FALSE], Idle)
        \/ /\ EndsGuard(c, [k EXCEPT !.flush = TRUE], [th[c] EXCEPT !.pc = "wflush"])
           /\ UNCHANGED endLock
    BY DEF ChecksState, k
  <2> QED BY <1>4, <1>5, <2>1

-----------------------------------------------------------------------------
(* Steps that change the buffers of one process and leave the files alone. *)

\* A step that changes a thread, its manager but for allocLock, and its buffers.
LEMMA BufferStep ==
    ASSUME NEW W, Classic, IInv(W), NEW c \in Client, NEW t1 \in Thread, NEW b1 \in Manager,
           NEW f1 \in [AnyPage -> Buffer],
           th' = [th EXCEPT ![c] = t1], bm' = [bm EXCEPT ![Home[c]] = b1],
           buf' = [buf EXCEPT ![Home[c]] = f1],
           UNCHANGED <<main, delta, stored, snap>>,
           OtherTypes', endLock' \in Process \cup {Nobody},
           Shape(t1), LockOK(t1, b1),
           KnownOK(t1, b1, main[Header].st, main[Header].scn),
           PageOK(t1, b1, f1),
           HeaderOK(t1, b1, f1[Header], main[Header].st, main[Header].scn, delta.alloc),
           TableOK(t1, b1, main[Header].st, main[Header].scn, delta.alloc),
           b1.allocLock \in {LCK_none, bm[Home[c]].allocLock},
           \A pg \in AnyPage :
              /\ DiffOK(W, f1[pg], pg, main[Header].st, delta.alloc)
              /\ CacheOK(W, f1[pg], pg, stored[pg])
              /\ StampOK(f1[pg], pg, main[Header].scn)
              /\ buf[Home[c]][pg].half => f1[pg].half,
           \A d \in Client \ {c} :
              /\ b1.stateLock = LCK_write => bm[Home[d]].stateLock = LCK_none
              /\ bm[Home[d]].stateLock = LCK_write => b1.stateLock = LCK_none
              /\ \A pg \in AnyPage : ~Clash(f1[pg].lock, buf[Home[d]][pg].lock),
           th[c].pc = "hwrite" => t1.pc = "hwrite" \/ ~buf[Home[c]][Header].half,
           Elsewhere(c) /\ HalfStays(c) => MergeOK(W, c)',
           EndLocked'
    PROVE  IInv(W)'
<1>1. /\ th'[c] = t1 /\ \A d \in Client \ {c} : th'[d] = th[d]
  BY DEF IInv, Types
<1>2. /\ bm'[Home[c]] = b1
      /\ \A d \in Client \ {c} : bm'[Home[d]] = bm[Home[d]]
  BY OneThread DEF IInv, Types
<1>3. /\ buf'[Home[c]] = f1
      /\ \A d \in Client \ {c} : buf'[Home[d]] = buf[Home[d]]
  BY OneThread DEF IInv, Types
<1>4. Types'
  <2>1. /\ th' \in [Client -> Thread] /\ bm' \in [Process -> Manager]
        /\ buf' \in [Process -> [AnyPage -> Buffer]]
    BY OneThread DEF IInv, Types
  <2> QED BY <2>1 DEF IInv, Types, OtherTypes
<1>5. Elsewhere(c)
  BY <1>1, <1>2, <1>3 DEF Elsewhere, Kept
<1>6. OwnClient(c)
  BY <1>1, <1>2, <1>3 DEF OwnClient
<1>7. OwnBuffers(W, c)
  BY <1>3 DEF OwnBuffers
<1>8. OwnLocks(c)
  BY <1>2, <1>3 DEF OwnLocks
<1>9. AllTables(c)
  <2>1. \A d \in Client :
          TableOK(th'[d], bm'[Home[d]], main[Header].st, main[Header].scn, delta.alloc)
    <3> TAKE d \in Client
    <3>1. CASE d = c
      BY <1>1, <1>2, <3>1
    <3>2. CASE d # c
      BY <1>1, <1>2, <3>2 DEF IInv, Tables
    <3> QED BY <3>1, <3>2
  <2>2. ASSUME NEW d \in Client, NEW k \in Client, d # k, bm'[Home[d]].allocLock = LCK_write
        PROVE  bm'[Home[k]].allocLock = LCK_none
    <3>1. bm[Home[d]].allocLock = LCK_write
      BY <1>2, <2>2 DEF LCK_none, LCK_write
    <3>2. bm[Home[k]].allocLock = LCK_none
      BY <2>2, <3>1 DEF IInv, Exclusive
    <3> QED BY <1>2, <3>2
  <2> QED BY <2>1, <2>2 DEF AllTables
<1>10. HalfStays(c)
  BY <1>1, <1>3, OfClient DEF HalfStays, Torn1
<1>11. Numbers'
  BY DEF IInv, Numbers
<1> QED BY <1>4, <1>5, <1>6, <1>7, <1>8, <1>9, <1>10, <1>11, LocalStep

\* A page that is not cached.
LEMMA NoBufferFields ==
    /\ NoBuffer \in Buffer
    /\ NoBuffer.lock = LCK_none /\ ~NoBuffer.valid /\ ~NoBuffer.dirty /\ ~NoBuffer.nbak
    /\ NoBuffer.diff = 0 /\ ~NoBuffer.half
BY DEF NoBuffer, Buffer, EmptyPage, Contents, State, Level

\* What is in buffer g stays in g1, or is dropped though it is clean.
Keeps(g, g1) ==
    \/ g1 = NoBuffer /\ ~g.dirty
    \/ /\ g1.valid = g.valid /\ g1.dirty = g.dirty /\ g1.diff = g.diff
       /\ g1.half = g.half /\ g1.page = g.page
       /\ g.dirty => g1.nbak = g.nbak

\* A step that changes a thread and locks or drops one of its pages.
LEMMA PageStep ==
    ASSUME NEW W, Classic, IInv(W), NEW c \in Client, NEW t1 \in Thread,
           NEW pg \in AnyPage, NEW g1 \in Buffer,
           th' = [th EXCEPT ![c] = t1],
           buf' = [buf EXCEPT ![Home[c]] = [@ EXCEPT ![pg] = g1]],
           UNCHANGED <<bm, main, delta, stored, snap>>,
           OtherTypes', UNCHANGED endLock,
           \/ th[c].pc # "hwrite" /\ t1.pc # "hwrite"
           \/ t1 = th[c] /\ pg # Header,
           Shape(t1), LockOK(t1, bm[Home[c]]),
           KnownOK(t1, bm[Home[c]], main[Header].st, main[Header].scn),
           BufferOK(t1, bm[Home[c]], pg, g1),
           \A pg2 \in AnyPage \ {pg} : BufferOK(t1, bm[Home[c]], pg2, buf[Home[c]][pg2]),
           Keeps(buf[Home[c]][pg], g1),
           \A d \in Client \ {c} : ~Clash(g1.lock, buf[Home[d]][pg].lock),
           Elsewhere(c) /\ HalfStays(c) => MergeOK(W, c)',
           t1.op \in EndOp /\ t1.pc # "leave" => th[c].op \in EndOp /\ th[c].pc # "leave"
    PROVE  IInv(W)'
<1> DEFINE b == bm[Home[c]]
           f == buf[Home[c]]
           f1 == [f EXCEPT ![pg] = g1]
           st == main[Header].st
           scn == main[Header].scn
<1>0. /\ b \in Manager /\ f \in [AnyPage -> Buffer]
      /\ HeaderOK(th[c], b, f[Header], st, scn, delta.alloc)
      /\ TableOK(th[c], b, st, scn, delta.alloc)
      /\ PageOK(th[c], b, f) /\ Header \in AnyPage
  BY OfClient
<1>1. bm' = [bm EXCEPT ![Home[c]] = b]
  BY SameManager
<1>2. buf' = [buf EXCEPT ![Home[c]] = f1]
  BY OneThread DEF IInv, Types
<1>3. /\ f1 \in [AnyPage -> Buffer] /\ f1[pg] = g1
      /\ \A pg2 \in AnyPage \ {pg} : f1[pg2] = f[pg2]
  BY <1>0
<1> HIDE DEF f1
<1>4. PageOK(t1, b, f1)
  BY <1>3 DEF PageOK
<1>5. f[pg].half => f[pg].dirty
  BY <1>0 DEF PageOK, BufferOK
<1>6. ASSUME NEW pg2 \in AnyPage
      PROVE  /\ DiffOK(W, f1[pg2], pg2, st, delta.alloc)
             /\ CacheOK(W, f1[pg2], pg2, stored[pg2])
             /\ StampOK(f1[pg2], pg2, scn)
             /\ f[pg2].half => f1[pg2].half
  <2>1. /\ DiffOK(W, f[pg2], pg2, st, delta.alloc) /\ CacheOK(W, f[pg2], pg2, stored[pg2])
        /\ StampOK(f[pg2], pg2, scn)
    BY DEF IInv, Buffers
  <2>2. CASE pg2 # pg
    BY <1>3, <2>1, <2>2
  <2>3. CASE pg2 = pg
    <3> DEFINE g == f[pg]
    <3> HIDE DEF g
    <3>1. DiffOK(W, g, pg, st, delta.alloc) /\ CacheOK(W, g, pg, stored[pg]) /\ StampOK(g, pg, scn)
      BY <2>1, <2>3 DEF g
    <3>2. Keeps(g, g1) /\ (g.half => g.dirty)
      BY <1>5 DEF g
    <3>3. /\ DiffOK(W, g1, pg, st, delta.alloc) /\ CacheOK(W, g1, pg, stored[pg]) /\ StampOK(g1, pg, scn)
          /\ g.half => g1.half
      BY <3>1, <3>2, NoBufferFields DEF Keeps, DiffOK, CacheOK, StampOK
    <3> QED BY <1>3, <2>3, <3>3 DEF g
  <2> QED BY <2>2, <2>3
<1>7. HeaderOK(t1, b, f1[Header], st, scn, delta.alloc)
  <2>0. CASE t1 = th[c] /\ pg # Header
    BY <1>0, <1>3, <2>0
  <2>1. f1[Header].valid => f[Header].valid /\ f1[Header].page = f[Header].page
    <3>1. CASE Header # pg
      BY <1>0, <1>3, <3>1
    <3>2. CASE Header = pg
      BY <1>0, <1>3, <3>2, NoBufferFields DEF Keeps
    <3> QED BY <3>1, <3>2
  <2>2. CASE th[c].pc # "hwrite" /\ t1.pc # "hwrite"
    BY <1>0, <2>1, <2>2 DEF HeaderOK
  <2> QED BY <2>0, <2>2
<1>8. TableOK(t1, b, st, scn, delta.alloc)
  BY <1>0 DEF TableOK
<1>9. ASSUME NEW d \in Client \ {c}
      PROVE  /\ b.stateLock = LCK_write => bm[Home[d]].stateLock = LCK_none
             /\ bm[Home[d]].stateLock = LCK_write => b.stateLock = LCK_none
             /\ \A pg2 \in AnyPage : ~Clash(f1[pg2].lock, buf[Home[d]][pg2].lock)
  <2>1. \A pg2 \in AnyPage : ~Clash(f1[pg2].lock, buf[Home[d]][pg2].lock)
    BY <1>3 DEF IInv, Exclusive
  <2> QED BY <2>1 DEF IInv, Exclusive
<1>10. EndLocked'
  BY DEF IInv, EndLocked, Types
<1>11. endLock' \in Process \cup {Nobody}
  BY DEF IInv, Types
<1>12. th[c].pc = "hwrite" => t1.pc = "hwrite" \/ ~f[Header].half
  OBVIOUS
<1> QED BY <1>12, <1>0, <1>1, <1>2, <1>3, <1>4, <1>6, <1>7, <1>8, <1>9, <1>10, <1>11, BufferStep

\* ... and that does not get further with its merge.
LEMMA QuietPageStep ==
    ASSUME NEW W, Classic, IInv(W), NEW c \in Client, NEW t1 \in Thread,
           NEW pg \in AnyPage, NEW g1 \in Buffer,
           th' = [th EXCEPT ![c] = t1],
           buf' = [buf EXCEPT ![Home[c]] = [@ EXCEPT ![pg] = g1]],
           UNCHANGED <<bm, ast, endLock, main, delta, stored, snap, changes, calls, deaths>>,
           \/ th[c].pc # "hwrite" /\ t1.pc \notin {"hwrite", "release"}
           \/ t1 = th[c] /\ pg # Header,
           Shape(t1), LockOK(t1, bm[Home[c]]),
           KnownOK(t1, bm[Home[c]], main[Header].st, main[Header].scn),
           BufferOK(t1, bm[Home[c]], pg, g1),
           \A pg2 \in AnyPage \ {pg} : BufferOK(t1, bm[Home[c]], pg2, buf[Home[c]][pg2]),
           Keeps(buf[Home[c]][pg], g1),
           \A d \in Client \ {c} : ~Clash(g1.lock, buf[Home[d]][pg].lock),
           t1.op = th[c].op, t1.left = th[c].left,
           th[c].pc \notin {"mlock", "mtable", "leave"} \/ t1 = th[c]
    PROVE  IInv(W)'
<1>1. th'[c] = t1
  BY DEF IInv, Types
<1>5. \/ th[c].pc # "hwrite" /\ t1.pc # "hwrite"
      \/ t1 = th[c] /\ pg # Header
  OBVIOUS
<1>6. pg # Header => buf'[Home[c]][Header] = buf[Home[c]][Header]
  <2>1. buf'[Home[c]] = [buf[Home[c]] EXCEPT ![pg] = g1]
    BY OneThread DEF IInv, Types
  <2> QED BY <2>1, OfClient
<1>2. ASSUME Elsewhere(c), HalfStays(c) PROVE MergeOK(W, c)'
  <2>1. /\ Active(c)' => Active(c)
        /\ Going(c)' => /\ Going(c) /\ th'[c].op = th[c].op
                        /\ th[c].op = "merge" => th[c].left \subseteq th'[c].left
    BY <1>1, <1>5, <1>6 DEF Active, Going
  <2>2. th'[c].pc # "release" \/ th'[c] = th[c]
    BY <1>1
  <2>3. \A pg2 \in AnyPage : buf[Home[c]][pg2].dirty => buf'[Home[c]][pg2].dirty
    <3> SUFFICES ASSUME NEW pg2 \in AnyPage, buf[Home[c]][pg2].dirty
                 PROVE  buf'[Home[c]][pg2].dirty
      OBVIOUS
    <3>1. buf'[Home[c]] = [buf[Home[c]] EXCEPT ![pg] = g1]
      BY OneThread DEF IInv, Types
    <3>2. CASE pg2 = pg
      BY <3>1, <3>2, OfClient DEF Keeps
    <3>3. CASE pg2 # pg
      BY <3>1, <3>3, OfClient
    <3> QED BY <3>2, <3>3
  <2>4. Types'
    <3>1. th' \in [Client -> Thread]
      BY DEF IInv, Types
    <3>2. [buf[Home[c]] EXCEPT ![pg] = g1] \in [AnyPage -> Buffer]
      BY OfClient
    <3>3. buf' \in [Process -> [AnyPage -> Buffer]]
      BY <3>2, OneThread DEF IInv, Types
    <3> QED BY <3>1, <3>3 DEF IInv, Types
  <2> QED BY <1>2, <2>1, <2>2, <2>3, <2>4, MergeStays
<1>3. OtherTypes'
  BY DEF IInv, Types, OtherTypes
<1>4. t1.op \in EndOp /\ t1.pc # "leave" => th[c].op \in EndOp /\ th[c].pc # "leave"
  OBVIOUS
<1> QED BY <1>2, <1>3, <1>4, <1>5, PageStep

\* FetchLock keeps the invariant: the page is locked against the others.
LEMMA StepFetchLock ==
    ASSUME NEW W, Classic, IInv(W), NEW c \in Client, FetchLock(c)
    PROVE  IInv(W)'
<1> DEFINE t == th[c]
           b == bm[Home[c]]
           f == buf[Home[c]]
           pg == t.page
           g == f[pg]
           st == main[Header].st
           scn == main[Header].scn
<1>0. /\ t \in Thread /\ b \in Manager /\ f \in [AnyPage -> Buffer]
      /\ Shape(t) /\ LockOK(t, b) /\ PageOK(t, b, f)
      /\ KnownOK(t, b, st, scn)
  BY OfClient
<1>1. t.pc = "fetch"
  BY DEF FetchLock
<1>2. pg \in AnyPage /\ g \in Buffer
  BY <1>0 DEF Thread
<1>3. BufferOK(t, b, pg, g)
  BY <1>0, <1>2 DEF PageOK
<1>4. UNCHANGED <<bm, ast, endLock, main, delta, stored, snap, changes, calls, deaths>>
  BY DEF FetchLock, files, bounds
<1>5. CASE \A q \in Process \ {Home[c]} : ~Clash(Wants(c), buf[q][pg].lock)
  <2> DEFINE level == IF g.lock < Wants(c) THEN Wants(c) ELSE g.lock
             g1 == [g EXCEPT !.lock = level]
             t1 == [t EXCEPT !.pc = IF g.valid THEN "have" ELSE "read"]
  <2>1. th' = [th EXCEPT ![c] = t1] /\ buf' = [buf EXCEPT ![Home[c]] = [@ EXCEPT ![pg] = g1]]
    <3>1. /\ buf' = [buf EXCEPT ![Home[c]][pg].lock = IF @ < Wants(c) THEN Wants(c) ELSE @]
          /\ th' = [th EXCEPT ![c].pc = IF g.valid THEN "have" ELSE "read"]
      BY <1>5 DEF FetchLock
    <3> QED BY <3>1
  <2>2. /\ t1 \in Thread /\ t1.pc = (IF g.valid THEN "have" ELSE "read")
        /\ t1.op = t.op /\ t1.wait = t.wait
        /\ t1.page = t.page /\ t1.guard = t.guard /\ t1.left = t.left
    BY <1>0 DEF Thread, PC
  <2>3. /\ level \in Level /\ level # LCK_none
        /\ t.op # "read" => level = LCK_write
        /\ g.lock = LCK_write => level = LCK_write
        /\ level = g.lock \/ level = Wants(c)
    BY <1>2 DEF Wants, Buffer, Level, LCK_none, LCK_read, LCK_write
  <2> HIDE DEF level
  <2>4. /\ g1 \in Buffer /\ g1.lock = level
        /\ g1.valid = g.valid /\ g1.dirty = g.dirty /\ g1.nbak = g.nbak
        /\ g1.diff = g.diff /\ g1.half = g.half /\ g1.page = g.page
    BY <1>2, <2>3 DEF Buffer
  <2> HIDE DEF t1, g1, g, pg
  <2>5. Shape(t1)
    BY <1>0, <1>1, <2>2 DEF Shape, Guarding, GuardOp
  <2>6. LockOK(t1, b)
    BY <1>0, <1>1, <2>2 DEF LockOK, Shape, Guarding
  <2>7. KnownOK(t1, b, st, scn)
    BY <1>0, <1>1, <2>2 DEF KnownOK
  <2>8. BufferOK(t1, b, pg, g1)
    <3>1. t1.page = pg
      BY <2>2 DEF pg
    <3>2. g1.nbak => g1.dirty /\ b.stateLock # LCK_none
      BY <1>1, <1>3, <2>4 DEF BufferOK
    <3>3. g1.dirty => g1.valid /\ g1.lock = LCK_write /\ g1.nbak
      BY <1>1, <1>3, <2>3, <2>4 DEF BufferOK
    <3>4. /\ g1.half => g1.dirty /\ g1.diff # 0 /\ b.state = "merge"
          /\ g1.diff # 0 => g1.dirty
          /\ t.op = "finish" /\ pg # Header => ~g1.dirty
      BY <1>1, <1>3, <2>4 DEF BufferOK
    <3> QED BY <1>1, <2>2, <2>3, <2>4, <3>1, <3>2, <3>3, <3>4 DEF BufferOK, Using, Guarding, LCK_none
  <2>9. ASSUME NEW pg2 \in AnyPage \ {pg} PROVE BufferOK(t1, b, pg2, f[pg2])
    <3> DEFINE k == f[pg2]
    <3>1. BufferOK(t, b, pg2, k) /\ t.page # pg2
      BY <1>0, <2>9 DEF PageOK, pg
    <3> HIDE DEF k
    <3>2. BufferOK(t1, b, pg2, k)
      BY <1>1, <2>2, <3>1 DEF BufferOK, Using, Guarding
    <3> QED BY <3>2 DEF k
  <2>10. Keeps(f[pg], g1)
    BY <2>4 DEF Keeps, g
  <2>11. ASSUME NEW d \in Client \ {c} PROVE ~Clash(g1.lock, buf[Home[d]][pg].lock)
    <3>1. ~Clash(g.lock, buf[Home[d]][pg].lock)
      BY <1>2 DEF IInv, Exclusive, g
    <3>2. ~Clash(Wants(c), buf[Home[d]][pg].lock)
      BY <1>5, OneThread
    <3> QED BY <2>3, <2>4, <3>1, <3>2
  <2>12. /\ t.pc # "hwrite" /\ t1.pc \notin {"hwrite", "release"}
         /\ t.pc \notin {"mlock", "mtable", "leave"}
    BY <1>1, <2>2
  <2> QED BY <1>2, <1>4, <2>1, <2>2, <2>4, <2>5, <2>6, <2>7, <2>8, <2>9, <2>10, <2>11,
             <2>12, QuietPageStep
<1>6. CASE ~\A q \in Process \ {Home[c]} : ~Clash(Wants(c), buf[q][pg].lock)
  <2>1. /\ g.lock = LCK_read /\ UNCHANGED th
        /\ buf' = [buf EXCEPT ![Home[c]] = [@ EXCEPT ![pg] = NoBuffer]]
    <3>1. g.lock = LCK_read /\ UNCHANGED th /\ buf' = [buf EXCEPT ![Home[c]][pg] = NoBuffer]
      BY <1>6 DEF FetchLock
    <3> QED BY <3>1
  <2>2. th' = [th EXCEPT ![c] = t]
    BY <2>1 DEF IInv, Types
  <2>3. ~g.dirty
    BY <1>3, <2>1 DEF BufferOK, LCK_read, LCK_write
  <2>4. BufferOK(t, b, pg, NoBuffer)
    BY <1>1, NoBufferFields DEF BufferOK, Using, Guarding
  <2>5. \A pg2 \in AnyPage \ {pg} : BufferOK(t, b, pg2, f[pg2])
    BY <1>0 DEF PageOK
  <2>6. Keeps(f[pg], NoBuffer)
    BY <2>3 DEF Keeps
  <2>7. \A d \in Client \ {c} : ~Clash(NoBuffer.lock, buf[Home[d]][pg].lock)
    BY NoBufferFields DEF Clash
  <2> HIDE DEF g, pg
  <2> QED BY <1>0, <1>1, <1>2, <1>4, <2>1, <2>2, <2>4, <2>5, <2>6, <2>7, NoBufferFields,
             QuietPageStep
<1> QED BY <1>5, <1>6

\* PageAst keeps the invariant.
LEMMA StepPageAst ==
    ASSUME NEW W, Classic, IInv(W), NEW p \in Process, NEW pg \in AnyPage, PageAst(p, pg)
    PROVE  IInv(W)'
<1>1. PICK c \in Client : Home[c] = p
  BY OneThread
<1> DEFINE t == th[c]
           b == bm[Home[c]]
           f == buf[Home[c]]
           g == f[pg]
           st == main[Header].st
           scn == main[Header].scn
<1>0. /\ t \in Thread /\ b \in Manager /\ f \in [AnyPage -> Buffer]
      /\ Shape(t) /\ LockOK(t, b) /\ PageOK(t, b, f)
      /\ KnownOK(t, b, st, scn)
  BY OfClient
<1>2. /\ g.lock # LCK_none /\ ~g.dirty /\ ~g.nbak
      /\ ~(t.page = pg /\ t.pc \in Using)
  BY <1>1, OneThread DEF PageAst
<1>3. PICK g1 \in {NoBuffer, [g EXCEPT !.lock = LCK_read]} :
        buf' = [buf EXCEPT ![Home[c]] = [@ EXCEPT ![pg] = g1]]
  BY <1>1 DEF PageAst
<1>4. g \in Buffer /\ BufferOK(t, b, pg, g)
  BY <1>0 DEF PageOK
<1> HIDE DEF g
<1>5. UNCHANGED <<bm, ast, endLock, main, delta, stored, snap, changes, calls, deaths, th>>
  BY DEF PageAst, files, bounds
<1>6. th' = [th EXCEPT ![c] = t]
  BY <1>5 DEF IInv, Types
<1>7. pg # Header
  BY <1>2, <1>4 DEF BufferOK
<1>8. /\ g1 \in Buffer /\ BufferOK(t, b, pg, g1) /\ Keeps(g, g1)
      /\ g1.lock \in {LCK_none, LCK_read}
  <2>1. CASE g1 = NoBuffer
    BY <1>2, <1>7, <2>1, NoBufferFields DEF BufferOK, Keeps, Guarding, Using
  <2>2. CASE g1 = [g EXCEPT !.lock = LCK_read]
    <3>1. LCK_read \in Level
      BY DEF Level
    <3>2. /\ g1 \in Buffer /\ g1.lock = LCK_read
          /\ g1.valid = g.valid /\ g1.dirty = g.dirty /\ g1.nbak = g.nbak
          /\ g1.diff = g.diff /\ g1.half = g.half /\ g1.page = g.page
      BY <1>4, <2>2, <3>1 DEF Buffer
    <3>3. BufferOK(t, b, pg, g1)
      BY <1>2, <1>4, <1>7, <3>2 DEF BufferOK, Guarding, Using, LCK_none, LCK_read
    <3> QED BY <1>2, <3>2, <3>3 DEF Keeps
  <2> QED BY <1>3, <2>1, <2>2
<1>9. \A pg2 \in AnyPage \ {pg} : BufferOK(t, b, pg2, f[pg2])
  BY <1>0 DEF PageOK
<1>10. \A d \in Client \ {c} : ~Clash(g1.lock, buf[Home[d]][pg].lock)
  <2> SUFFICES ASSUME NEW d \in Client \ {c} PROVE ~Clash(g1.lock, buf[Home[d]][pg].lock)
    OBVIOUS
  <2>1. ~Clash(g.lock, buf[Home[d]][pg].lock)
    BY DEF IInv, Exclusive, g
  <2> QED BY <1>2, <1>8, <2>1 DEF Clash, LCK_none, LCK_read, LCK_write
<1>11. Keeps(f[pg], g1)
  BY <1>8 DEF g
<1> QED BY <1>0, <1>3, <1>5, <1>6, <1>7, <1>8, <1>9, <1>10, <1>11, QuietPageStep

\* MarkLocks keeps the invariant: the page has the state locked, or waits.
LEMMA StepMarkLocks ==
    ASSUME NEW W, Classic, IInv(W), NEW c \in Client, MarkLocks(c)
    PROVE  IInv(W)'
<1> DEFINE t == th[c]
           b == bm[Home[c]]
           f == buf[Home[c]]
           pg == t.page
           g == f[pg]
           st == main[Header].st
           scn == main[Header].scn
           w == b.state = "unknown"
           g1 == [g EXCEPT !.nbak = TRUE]
           t1 == [t EXCEPT !.wait = w]
<1>0. /\ t \in Thread /\ b \in Manager /\ f \in [AnyPage -> Buffer]
      /\ Shape(t) /\ LockOK(t, b) /\ PageOK(t, b, f)
      /\ KnownOK(t, b, st, scn)
  BY OfClient
<1>1. /\ t.pc = "have" /\ ~g.nbak
      /\ t.op = "write" \/ (t.op = "merge" /\ g.page.scn # b.scn)
  BY DEF MarkLocks, Marks
<1>2. pg \in AnyPage /\ g \in Buffer
  BY <1>0 DEF Thread
<1>3. BufferOK(t, b, pg, g)
  BY <1>0, <1>2 DEF PageOK
<1>4. UNCHANGED <<bm, ast, endLock, main, delta, stored, snap, changes, calls, deaths>>
  BY DEF MarkLocks, files, bounds
<1>5. th' = [th EXCEPT ![c] = t1] /\ buf' = [buf EXCEPT ![Home[c]] = [@ EXCEPT ![pg] = g1]]
  <2>1. th' = [th EXCEPT ![c].wait = w] /\ buf' = [buf EXCEPT ![Home[c]][pg].nbak = TRUE]
    BY DEF MarkLocks
  <2> QED BY <2>1
<1>6. w \in BOOLEAN /\ (w <=> b.stateLock = LCK_none)
  BY <1>1, KnowsState
<1> HIDE DEF w
<1>7. /\ t1 \in Thread /\ t1.pc = t.pc /\ t1.op = t.op /\ t1.wait = w
      /\ t1.page = t.page /\ t1.guard = t.guard /\ t1.left = t.left
  BY <1>0, <1>6 DEF Thread
<1>8. /\ g1 \in Buffer /\ g1.lock = g.lock /\ g1.nbak
      /\ g1.valid = g.valid /\ g1.dirty = g.dirty
      /\ g1.diff = g.diff /\ g1.half = g.half /\ g1.page = g.page
  BY <1>2 DEF Buffer
<1> HIDE DEF t1, g1, g, pg
<1>9. ~g.dirty
  BY <1>1, <1>3 DEF BufferOK
<1>10. Shape(t1)
  BY <1>0, <1>1, <1>6, <1>7 DEF Shape, Guarding, GuardOp, LockOK
<1>11. LockOK(t1, b)
  BY <1>0, <1>1, <1>6, <1>7 DEF LockOK, Shape, Guarding, GuardOp, MasterOp
<1>12. KnownOK(t1, b, st, scn)
  BY <1>0, <1>1, <1>7 DEF KnownOK
<1>13. BufferOK(t1, b, pg, g1)
  <2>1. t1.page = pg
    BY <1>7 DEF pg
  <2>2. g1.lock = LCK_write
    BY <1>1, <1>3, <1>8 DEF BufferOK, Using, pg
  <2>3. b.stateLock # LCK_none \/ (t1.wait /\ ~g1.dirty)
    BY <1>6, <1>7, <1>8, <1>9
  <2> QED BY <1>1, <1>3, <1>7, <1>8, <1>9, <2>1, <2>2, <2>3
          DEF BufferOK, Guarding, Using, LCK_none, LCK_write
<1>14. ASSUME NEW pg2 \in AnyPage \ {pg} PROVE BufferOK(t1, b, pg2, f[pg2])
  <2> DEFINE k == f[pg2]
  <2>1. BufferOK(t, b, pg2, k) /\ t.page # pg2
    BY <1>0, <1>14 DEF PageOK, pg
  <2> HIDE DEF k
  <2>2. BufferOK(t1, b, pg2, k)
    BY <1>1, <1>7, <2>1 DEF BufferOK, Using, Guarding
  <2> QED BY <2>2 DEF k
<1>15. Keeps(f[pg], g1)
  BY <1>8, <1>9 DEF Keeps, g
<1>16. \A d \in Client \ {c} : ~Clash(g1.lock, buf[Home[d]][pg].lock)
  BY <1>2, <1>8 DEF IInv, Exclusive, g
<1>17. /\ t.pc # "hwrite" /\ t1.pc \notin {"hwrite", "release"}
       /\ t.pc \notin {"mlock", "mtable", "leave"}
  BY <1>1, <1>7
<1> QED BY <1>2, <1>4, <1>5, <1>7, <1>8, <1>10, <1>11, <1>12, <1>13, <1>14, <1>15, <1>16,
           <1>17, QuietPageStep

\* CCH_release keeps the invariant: a page that the merge lets go is in the
\* main file or dirty.
LEMMA StepRelease ==
    ASSUME NEW W, Classic, IInv(W), NEW c \in Client, CCH_release(c)
    PROVE  IInv(W)'
<1> DEFINE t == th[c]
           b == bm[Home[c]]
           f == buf[Home[c]]
           st == main[Header].st
           scn == main[Header].scn
<1>0. /\ t \in Thread /\ b \in Manager /\ f \in [AnyPage -> Buffer]
      /\ Shape(t) /\ LockOK(t, b) /\ PageOK(t, b, f)
      /\ KnownOK(t, b, st, scn)
  BY OfClient
<1>a. PICK pg \in AnyPage : pg = t.page
  BY <1>0 DEF Thread
<1> DEFINE g == f[pg]
           waits == g.dirty /\ (pg = Header \/ b.flush)
           g1 == IF ~waits /\ pg = Header THEN NoBuffer ELSE g
           t1 == IF waits THEN [t EXCEPT !.pc = "release"] ELSE Released(c)
<1>1. /\ t.pc \in {"have", "marked", "release"} /\ t.op \in {"read", "write", "merge"}
      /\ ~t.wait
      /\ t.pc = "have" => t.op \in {"read", "merge"}
      /\ t.pc = "have" /\ t.op = "merge" => g.page.scn = b.scn
      /\ t.pc = "release" => ~g.dirty
  BY <1>0, <1>a DEF CCH_release, Marks, Shape
<1>2. pg \in AnyPage /\ g \in Buffer
  BY <1>0
<1>3. BufferOK(t, b, pg, g)
  BY <1>0, <1>2 DEF PageOK
<1>4. UNCHANGED <<bm, ast, endLock, main, delta, stored, snap, changes, calls, deaths>>
  BY DEF CCH_release, files, bounds
<1>5. th' = [th EXCEPT ![c] = t1] /\ buf' = [buf EXCEPT ![Home[c]] = [@ EXCEPT ![pg] = g1]]
  <2>1. CASE waits
    <3>1. th' = [th EXCEPT ![c].pc = "release"] /\ buf' = buf
      BY <1>a, <2>1 DEF CCH_release
    <3>2. buf = [buf EXCEPT ![Home[c]] = [@ EXCEPT ![pg] = buf[Home[c]][pg]]]
      BY <1>2 DEF IInv, Types
    <3> QED BY <2>1, <3>1, <3>2
  <2>2. CASE ~waits
    <3>1. /\ th' = [th EXCEPT ![c] = Released(c)]
          /\ buf' = [buf EXCEPT ![Home[c]][pg] = IF pg = Header THEN NoBuffer ELSE @]
      BY <1>a, <2>2 DEF CCH_release
    <3> QED BY <2>2, <3>1
  <2> QED BY <2>1, <2>2
<1>6. /\ t1 \in Thread /\ Shape(t1)
      /\ waits => /\ t1.pc = "release" /\ t1.op = t.op /\ t1.wait = t.wait
                  /\ t1.page = t.page /\ t1.guard = t.guard /\ t1.left = t.left
      /\ ~waits /\ t.op = "merge" =>
           /\ t1.pc = "mnext" /\ t1.op = t.op /\ t1.wait = t.wait
           /\ t1.page = t.page /\ t1.guard = t.guard /\ t1.left = t.left \ {pg}
      /\ ~waits /\ t.op # "merge" =>
           t1.pc = "idle" /\ t1.op = "none" /\ ~t1.guard /\ ~t1.wait
  <2>1. CASE waits
    <3>1. /\ t1 \in Thread /\ t1.pc = "release" /\ t1.op = t.op /\ t1.wait = t.wait
          /\ t1.page = t.page /\ t1.guard = t.guard /\ t1.left = t.left
      BY <1>0, <2>1 DEF Thread, PC
    <3> HIDE DEF t1
    <3>2. Shape(t1)
      BY <1>0, <1>1, <3>1 DEF Shape, Guarding, GuardOp
    <3> QED BY <2>1, <3>1, <3>2
  <2>2. CASE ~waits /\ t.op = "merge"
    <3>1. t1 = [t EXCEPT !.pc = "mnext", !.left = @ \ {pg}]
      BY <1>a, <2>2 DEF Released
    <3>2. t.left \ {pg} \in SUBSET AnyPage
      BY <1>0 DEF Thread
    <3>3. /\ t1 \in Thread /\ t1.pc = "mnext" /\ t1.op = t.op /\ t1.wait = t.wait
          /\ t1.page = t.page /\ t1.guard = t.guard /\ t1.left = t.left \ {pg}
      BY <1>0, <3>1, <3>2 DEF Thread, PC
    <3> HIDE DEF t1
    <3>4. Shape(t1)
      BY <1>0, <1>1, <2>2, <3>3 DEF Shape, Guarding, GuardOp
    <3> QED BY <2>2, <3>3, <3>4
  <2>3. CASE ~waits /\ t.op # "merge"
    <3>1. t1 = Idle
      BY <2>3 DEF Released
    <3> QED BY <2>3, <3>1, IdleFields
  <2> QED BY <2>1, <2>2, <2>3
<1>7. /\ g1 \in Buffer /\ Keeps(g, g1)
      /\ g1 = g \/ (pg = Header /\ g1 = NoBuffer /\ ~g.dirty)
      /\ pg = Header /\ ~waits => g1 = NoBuffer
  BY <1>2, NoBufferFields DEF Keeps
<1>8. waits => g.dirty
  OBVIOUS
<1>9. pg = Header /\ g.dirty => waits
  OBVIOUS
<1> HIDE DEF t1, g1, waits, g
<1>10. LockOK(t1, b)
  BY <1>0, <1>1, <1>6 DEF LockOK, Shape, Guarding, GuardOp, MasterOp
<1>11. KnownOK(t1, b, st, scn)
  BY <1>0, <1>1, <1>6 DEF KnownOK
<1>12. g.nbak => g.dirty
  BY <1>1, <1>3 DEF BufferOK
<1>13. t.op # "finish" /\ t1.op # "finish"
  BY <1>1, <1>6
<1>14. BufferOK(t1, b, pg, g1)
  <2>0. t.page = pg
    BY <1>a
  <2>1. CASE waits
    <3>1. g1 = g
      BY <1>7, <1>8, <2>1
    <3> QED BY <1>1, <1>3, <1>6, <1>8, <1>12, <1>13, <2>0, <2>1, <3>1 DEF BufferOK, Using, Guarding
  <2>2. CASE ~waits /\ pg # Header
    <3>1. g1 = g
      BY <1>7, <2>2
    <3>2. t1.pc \in {"idle", "mnext"}
      BY <1>6, <2>2
    <3>3. g.nbak => b.stateLock # LCK_none
      BY <1>3, <1>12 DEF BufferOK
    <3>4. g.dirty => g.nbak
      BY <1>1, <1>3 DEF BufferOK
    <3> QED BY <1>3, <1>12, <1>13, <2>2, <3>1, <3>2, <3>3, <3>4 DEF BufferOK, Using, Guarding
  <2>3. CASE ~waits /\ pg = Header
    <3>1. g1 = NoBuffer
      BY <1>7, <2>3
    <3>2. t1.pc \in {"idle", "mnext"}
      BY <1>6, <2>3
    <3> QED BY <3>1, <3>2, NoBufferFields DEF BufferOK, Using, Guarding
  <2> QED BY <2>1, <2>2, <2>3
<1>15. ASSUME NEW pg2 \in AnyPage \ {pg} PROVE BufferOK(t1, b, pg2, f[pg2])
  <2> DEFINE k == f[pg2]
  <2>1. BufferOK(t, b, pg2, k) /\ t.page # pg2
    BY <1>a, <1>0, <1>15 DEF PageOK
  <2> HIDE DEF k
  <2>2. t1.page # pg2 \/ t1.pc = "idle"
    BY <1>6, <2>1
  <2>3. t1.pc \in {"idle", "mnext", "release"}
    BY <1>6
  <2>4. (k.nbak => k.dirty /\ b.stateLock # LCK_none) /\ (k.dirty => k.nbak)
    BY <1>1, <2>1 DEF BufferOK
  <2>5. pg2 = Header => k.lock = LCK_none
    BY <2>1 DEF BufferOK
  <2>6. BufferOK(t1, b, pg2, k)
    BY <1>13, <2>1, <2>2, <2>3, <2>4, <2>5 DEF BufferOK, Using, Guarding
  <2> QED BY <2>6 DEF k
<1>16. Keeps(f[pg], g1)
  BY <1>7 DEF g
<1>17. \A d \in Client \ {c} : ~Clash(g1.lock, buf[Home[d]][pg].lock)
  <2>1. g1 = f[pg] \/ g1.lock = LCK_none
    BY <1>7, NoBufferFields DEF g
  <2> QED BY <1>2, <2>1 DEF IInv, Exclusive, Clash
<1>18. t.pc # "hwrite" /\ t1.pc # "hwrite"
  BY <1>1, <1>6
<1>19. t1.op \in EndOp /\ t1.pc # "leave" => t.op \in EndOp /\ t.pc # "leave"
  BY <1>1, <1>6 DEF EndOp
<1>20. /\ th'[c] = t1
       /\ buf'[Home[c]][pg] = g1 /\ \A pg2 \in AnyPage \ {pg} : buf'[Home[c]][pg2] = f[pg2]
  BY <1>2, <1>5, OneThread DEF IInv, Types
<1>21. ASSUME Elsewhere(c), HalfStays(c) PROVE MergeOK(W, c)'
  <2>1. \A pg2 \in AnyPage : InMain(W, pg2) => InMain(W, pg2)'
    BY <1>4, <1>21, InMainStays
  <2>2. CASE t.op # "merge"
    <3>1. t1.op # "merge" /\ t1.op # "finish" /\ t1.pc # "hwrite"
      BY <1>13, <1>18, <1>6, <2>2
    <3>2. ~Active(c)' /\ ~Going(c)'
      BY <1>20, <3>1 DEF Active, Going
    <3> QED BY <1>20, <3>1, <3>2 DEF MergeOK
  <2>3. CASE t.op = "merge"
    <3>1. MergeOK(W, c) /\ Active(c) /\ Going(c) /\ st = "merge"
      BY <1>0, <1>1, <2>3 DEF IInv, Merging, Active, Going, KnownOK
    <3>2. \A pg2 \in AnyPage : stored'[pg2].scn = main'[Header].scn => InMain(W, pg2)'
      BY <1>4, <2>1, <3>1 DEF MergeOK
    <3>3. InMain(W, pg) \/ (g.dirty /\ g1 = g)
      <4>1. CASE g.dirty
        BY <1>7, <4>1
      <4>2. CASE ~g.dirty
        <5>1. t.pc \in {"have", "release"}
          BY <1>a, <1>1, <1>3, <4>2 DEF BufferOK
        <5>2. CASE t.pc = "release"
          BY <1>a, <2>3, <3>1, <4>2, <5>2 DEF MergeOK, g
        <5>3. CASE t.pc = "have" /\ pg \in W
          <6>1. g.valid
            BY <1>a, <1>3, <5>3 DEF BufferOK
          <6>2. g.page = stored[pg]
            BY <1>2, <4>2, <5>3, <6>1 DEF IInv, Buffers, CacheOK, g
          <6>3. b.scn = scn
            BY <1>0, <1>1, <2>3, <5>3 DEF LockOK, KnownOK
          <6>4. stored[pg].scn = main[Header].scn
            BY <1>1, <2>3, <5>3, <6>2, <6>3
          <6> QED BY <1>2, <3>1, <6>4 DEF MergeOK
        <5>4. CASE pg \notin W
          BY <5>4 DEF InMain
        <5> QED BY <5>1, <5>2, <5>3, <5>4
      <4> QED BY <4>1, <4>2
    <3>4. InMain(W, pg)' \/ buf'[Home[c]][pg].dirty
      BY <1>20, <2>1, <3>3
    <3>5. ASSUME NEW pg2 \in AnyPage, Mapped(delta'.alloc, pg2),
                 th'[c].op = "merge" => pg2 \notin th'[c].left
          PROVE  InMain(W, pg2)' \/ buf'[Home[c]][pg2].dirty
      <4>1. CASE pg2 = pg
        BY <3>4, <4>1
      <4>2. CASE pg2 # pg
        <5>1. t1.op = "merge" /\ pg2 \notin t.left
          BY <1>6, <1>20, <2>3, <3>5, <4>2
        <5>2. InMain(W, pg2) \/ f[pg2].dirty
          BY <1>4, <3>1, <3>5, <5>1 DEF MergeOK
        <5> QED BY <1>20, <2>1, <4>2, <5>2
      <4> QED BY <4>1, <4>2
    <3>6. th'[c].pc = "release" => buf'[Home[c]][th'[c].page].dirty
      <4> HAVE th'[c].pc = "release"
      <4>1. waits
        BY <1>6, <1>20, <2>3
      <4>2. th'[c].page = pg /\ g1 = g /\ g.dirty
        BY <1>a, <1>6, <1>7, <1>8, <1>20, <4>1
      <4> QED BY <1>20, <4>2
    <3> QED BY <3>2, <3>5, <3>6 DEF MergeOK
  <2> QED BY <2>2, <2>3
<1>22. OtherTypes'
  BY <1>4 DEF IInv, Types, OtherTypes
<1> QED BY <1>2, <1>4, <1>5, <1>6, <1>7, <1>10, <1>11, <1>14, <1>15, <1>16, <1>17, <1>18,
           <1>19, <1>21, <1>22, PageStep

\* What is marked of the header page.
LEMMA MarkedFields ==
    ASSUME NEW W, IInv(W), NEW c \in Client, NEW st \in {"normal", "stalled", "merge"},
           NEW scn \in Nat, NEW i \in Nat, NEW g1, g1 = MarkedHeader(Home[c], st, scn, i)
    PROVE  /\ g1 \in Buffer /\ g1.dirty /\ g1.diff = i
           /\ g1.lock = buf[Home[c]][Header].lock /\ g1.valid = buf[Home[c]][Header].valid
           /\ g1.nbak = buf[Home[c]][Header].nbak /\ g1.half = buf[Home[c]][Header].half
           /\ g1.page.st = st /\ g1.page.scn = scn
           /\ g1.page.ver = buf[Home[c]][Header].page.ver
<1> DEFINE g == buf[Home[c]][Header]
           u == [g.page EXCEPT !.st = st, !.scn = scn]
<1>1. g \in Buffer
  BY OfClient
<1>2. g1 = [g EXCEPT !.dirty = TRUE, !.diff = i, !.page.st = st, !.page.scn = scn]
  BY DEF MarkedHeader
<1> HIDE DEF g
<1>3. g.page \in Contents
  BY <1>1 DEF Buffer
<1>4. u \in Contents /\ u.st = st /\ u.scn = scn /\ u.ver = g.page.ver
  BY <1>3 DEF Contents, State
<1>5. g1 = [g EXCEPT !.dirty = TRUE, !.diff = i, !.page = u]
  BY <1>1, <1>2, <1>3 DEF Buffer, Contents
<1> HIDE DEF u
<1>6. /\ g1 \in Buffer /\ g1.dirty /\ g1.diff = i
      /\ g1.lock = g.lock /\ g1.valid = g.valid /\ g1.nbak = g.nbak /\ g1.half = g.half
      /\ g1.page = u
  BY <1>1, <1>4, <1>5 DEF Buffer
<1> QED BY <1>4, <1>6 DEF g

\* Under a StateWriteGuard no page is dirty but the header page.
LEMMA GuardedPages ==
    ASSUME NEW t, NEW b, NEW f, PageOK(t, b, f), t.pc \in Guarding, NEW pg \in AnyPage
    PROVE  /\ ~f[pg].nbak
           /\ pg # Header \/ t.pc # "hwrite" => ~f[pg].dirty /\ ~f[pg].half /\ f[pg].diff = 0
BY DEF PageOK, BufferOK, Guarding

\* A page that is neither in use nor dirty.
LEMMA ClearPage ==
    ASSUME NEW t, NEW b, NEW t1, NEW b1, NEW pg, NEW g, BufferOK(t, b, pg, g),
           ~g.nbak, ~g.dirty, t1.page # pg \/ t1.pc \notin Using,
           pg # Header \/ g.lock = LCK_none
    PROVE  BufferOK(t1, b1, pg, g)
BY DEF BufferOK, Using, Guarding

\* LeavesWrite keeps the invariant: the lock is given up or weakened.
LEMMA StepLeavesWrite ==
    ASSUME NEW W, Classic, IInv(W), NEW c \in Client, LeavesWrite(c)
    PROVE  IInv(W)'
<1> DEFINE t == th[c]
           b == bm[Home[c]]
           f == buf[Home[c]]
           st == main[Header].st
           scn == main[Header].scn
           over == t.op \in {"begin", "none", "finish"}
           k == IF b.state = "unknown" THEN Invalidated(b)
                ELSE IF b.blocking THEN [Downgraded(Home[c], b) EXCEPT !.blocking = FALSE]
                ELSE b
           m == k.master /\ ~over
           b1 == [k EXCEPT !.master = m]
           t1 == IF over THEN Idle ELSE [t EXCEPT !.pc = "mlock", !.op = "merge"]
           f1 == [f EXCEPT ![Header] = NoBuffer]
<1>0. /\ t \in Thread /\ b \in Manager /\ f \in [AnyPage -> Buffer]
      /\ Shape(t) /\ LockOK(t, b) /\ PageOK(t, b, f)
      /\ KnownOK(t, b, st, scn)
      /\ HeaderOK(t, b, f[Header], st, scn, delta.alloc)
      /\ TableOK(t, b, st, scn, delta.alloc) /\ Header \in AnyPage
  BY OfClient
<1>1. /\ t.pc \in {"leave", "hwrite"}
      /\ t.pc = "hwrite" => t.op \in {"end", "recover"} /\ ~f[Header].dirty
      /\ t.pc = "leave" => over
      /\ UNCHANGED <<ast, endLock, main, delta, stored, snap, changes, calls, deaths>>
  BY <1>0 DEF LeavesWrite, files, bounds, Shape
<1>2. /\ bm' = [bm EXCEPT ![Home[c]] = b1] /\ th' = [th EXCEPT ![c] = t1]
      /\ buf' = [buf EXCEPT ![Home[c]] = f1]
  <2>1. buf' = [buf EXCEPT ![Home[c]][Header] = NoBuffer]
    BY DEF LeavesWrite
  <2>2. bm' = [bm EXCEPT ![Home[c]] = b1] /\ th' = [th EXCEPT ![c] = t1]
    BY DEF LeavesWrite
  <2> QED BY <2>1, <2>2
<1>3. b.stateLock = LCK_write /\ ~t.guard /\ ~t.wait
  BY <1>0, <1>1 DEF LockOK, Shape
<1>4. ~over => /\ st = "merge" /\ scn = b.scn /\ b.state = "merge" /\ b.open
               /\ t.pc = "hwrite" /\ b.master /\ t.op \in {"end", "recover"}
  BY <1>0, <1>1 DEF HeaderOK, LockOK, MasterOp
<1>5. /\ k \in Manager /\ SameTable(b, k) /\ k.master = b.master /\ ~k.blocking
      /\ \/ k.state = b.state /\ k.open = b.open /\ k.stateLock \in {LCK_read, LCK_write}
            /\ b.state # "unknown"
         \/ k.stateLock = LCK_none /\ k.state = "unknown" /\ ~k.open
  <2>1. CASE b.state = "unknown"
    <3>1. k = Invalidated(b)
      BY <2>1
    <3> HIDE DEF k
    <3> QED BY <1>0, <1>4, <2>1, <3>1, InvalidatedFields
  <2>2. CASE b.state # "unknown" /\ b.blocking
    <3> DEFINE e == Downgraded(Home[c], b)
    <3>1. k = [e EXCEPT !.blocking = FALSE]
      BY <2>2
    <3>2. /\ e \in Manager /\ SameTable(b, e) /\ e.master = b.master
          /\ \/ /\ b.stateLock = LCK_none \/ Asked(Home[c], LCK_write)
                /\ e = Invalidated(b)
             \/ /\ b.stateLock # LCK_none
                /\ e.stateLock \in {LCK_read, b.stateLock}
                /\ e.state = b.state /\ e.open = b.open /\ e.blocking = b.blocking
      <4> HIDE DEF e
      <4> QED BY <1>0, DowngradedFields DEF e
    <3>3. /\ Invalidated(b).stateLock = LCK_none /\ Invalidated(b).state = "unknown"
          /\ ~Invalidated(b).open
      BY <1>0, InvalidatedFields
    <3> HIDE DEF e, k
    <3>6. \/ e.stateLock \in {LCK_read, LCK_write} /\ e.state = b.state /\ e.open = b.open
          \/ e.stateLock = LCK_none /\ e.state = "unknown" /\ ~e.open
      BY <1>3, <3>2, <3>3
    <3>7. /\ k \in Manager /\ SameTable(e, k) /\ k.master = e.master /\ ~k.blocking
          /\ k.state = e.state /\ k.open = e.open /\ k.stateLock = e.stateLock
      BY <3>1, <3>2 DEF Manager, SameTable
    <3> QED BY <2>2, <3>2, <3>6, <3>7 DEF SameTable
  <2>3. CASE b.state # "unknown" /\ ~b.blocking
    <3>1. k = b
      BY <2>3
    <3> QED BY <1>0, <1>3, <2>3, <3>1 DEF SameTable
  <2> QED BY <2>1, <2>2, <2>3
<1> HIDE DEF k
<1>6. /\ b1 \in Manager /\ SameTable(b, b1) /\ b1.master = m /\ ~b1.blocking
      /\ b1.state = k.state /\ b1.open = k.open /\ b1.stateLock = k.stateLock
  <2>1. m \in BOOLEAN
    BY <1>5 DEF Manager
  <2> HIDE DEF m
  <2> QED BY <1>5, <2>1 DEF Manager, SameTable
<1> HIDE DEF b1
<1>7. /\ t1 \in Thread /\ Shape(t1) /\ ~t1.guard /\ ~t1.wait
      /\ over => t1.pc = "idle" /\ t1.op = "none"
      /\ ~over => t1.pc = "mlock" /\ t1.op = "merge"
  <2>1. CASE over
    BY <2>1, IdleFields
  <2>2. CASE ~over
    <3>1. t1 \in Thread /\ t1.pc = "mlock" /\ t1.op = "merge" /\ ~t1.guard /\ ~t1.wait
      BY <1>0, <1>3, <2>2 DEF Thread, PC, Op
    <3> HIDE DEF t1
    <3>2. Shape(t1)
      BY <3>1 DEF Shape, Guarding, GuardOp
    <3> QED BY <2>2, <3>1, <3>2
  <2> QED BY <2>1, <2>2
<1> HIDE DEF t1
<1>8. /\ f1 \in [AnyPage -> Buffer] /\ f1[Header] = NoBuffer
      /\ \A pg \in AnyPage \ {Header} : f1[pg] = f[pg]
  BY <1>0, NoBufferFields
<1> HIDE DEF f1
<1>9. /\ b1.master => b.master
      /\ b1.master <=> ~over
  BY <1>4, <1>5, <1>6
<1> HIDE DEF over
<1>10. LockOK(t1, b1)
  BY <1>3, <1>4, <1>5, <1>6, <1>7, <1>9
     DEF LockOK, Guarding, GuardOp, MasterOp, LCK_none, LCK_read, LCK_write
<1>11. KnownOK(t1, b1, st, scn)
  <2>1. b.scn = scn
    BY <1>0, <1>1, <1>3, <1>4 DEF KnownOK, LCK_none, LCK_write, over
  <2>2. b1.scn = scn /\ b1.scn <= scn
    BY <1>6, <2>1, HeaderFields DEF SameTable
  <2>3. b.state # "unknown" => b.state = st /\ (st # "normal" => b.open)
    BY <1>0, <1>1, <1>3, <1>4 DEF KnownOK, LCK_none, LCK_write, over
  <2> QED BY <1>4, <1>5, <1>6, <1>7, <2>2, <2>3 DEF KnownOK
<1>12. \A pg \in AnyPage \ {Header} : ~f[pg].nbak /\ ~f[pg].dirty /\ ~f[pg].half /\ f[pg].diff = 0
  BY <1>0, <1>1, GuardedPages DEF Guarding
<1>13. ~f[Header].half
  BY <1>0, <1>1, GuardedPages DEF Guarding, PageOK, BufferOK
<1>14. PageOK(t1, b1, f1)
  <2> SUFFICES ASSUME NEW pg \in AnyPage PROVE BufferOK(t1, b1, pg, f1[pg])
    BY DEF PageOK
  <2>1. t1.pc \notin Using /\ t1.op # "finish" /\ t1.pc # "have"
    BY <1>7 DEF Using, Guarding
  <2>2. CASE pg = Header
    BY <1>8, <2>1, <2>2, NoBufferFields DEF BufferOK, Using, Guarding
  <2>3. CASE pg # Header
    <3>1. BufferOK(t, b, pg, f[pg]) /\ ~f[pg].nbak /\ ~f[pg].dirty
      BY <1>0, <1>12, <2>3 DEF PageOK
    <3>2. BufferOK(t1, b1, pg, f[pg])
      <4> DEFINE g == f[pg]
      <4> HIDE DEF g
      <4>1. BufferOK(t, b, pg, g) /\ ~g.nbak /\ ~g.dirty
        BY <3>1 DEF g
      <4>2. BufferOK(t1, b1, pg, g)
        BY <2>1, <2>3, <4>1, ClearPage
      <4> QED BY <4>2 DEF g
    <3> QED BY <1>8, <2>3, <3>2
  <2> QED BY <2>2, <2>3
<1>15. HeaderOK(t1, b1, f1[Header], st, scn, delta.alloc)
  BY <1>7, <1>8, NoBufferFields DEF HeaderOK
<1>16. TableOK(t1, b1, st, scn, delta.alloc)
  <2>1. t.pc = "hwrite" => st # "normal"
    BY <1>0, <1>1 DEF HeaderOK
  <2> QED BY <1>0, <1>6, <2>1 DEF TableOK, SameTable, Recent
<1>17. ASSUME NEW pg \in AnyPage
       PROVE  /\ DiffOK(W, f1[pg], pg, st, delta.alloc)
              /\ CacheOK(W, f1[pg], pg, stored[pg])
              /\ StampOK(f1[pg], pg, scn)
              /\ f[pg].half => f1[pg].half
  <2>1. CASE pg = Header
    BY <1>8, <1>13, <2>1, NoBufferFields DEF DiffOK, CacheOK, StampOK
  <2>2. CASE pg # Header
    BY <1>8, <2>2 DEF IInv, Buffers
  <2> QED BY <2>1, <2>2
<1>18. ASSUME NEW d \in Client \ {c}
       PROVE  /\ b1.stateLock = LCK_write => bm[Home[d]].stateLock = LCK_none
              /\ bm[Home[d]].stateLock = LCK_write => b1.stateLock = LCK_none
              /\ \A pg \in AnyPage : ~Clash(f1[pg].lock, buf[Home[d]][pg].lock)
  <2>1. /\ bm[Home[d]].stateLock = LCK_none
        /\ \A pg \in AnyPage : ~Clash(f[pg].lock, buf[Home[d]][pg].lock)
    BY <1>3 DEF IInv, Exclusive
  <2>2. \A pg \in AnyPage : ~Clash(f1[pg].lock, buf[Home[d]][pg].lock)
    <3> TAKE pg \in AnyPage
    <3>1. CASE pg = Header
      BY <1>8, <3>1, NoBufferFields DEF Clash
    <3>2. CASE pg # Header
      BY <1>8, <2>1, <3>2
    <3> QED BY <3>1, <3>2
  <2> QED BY <1>9, <2>1, <2>2 DEF LCK_none, LCK_write
<1>19. th'[c] = t1 /\ \A d \in Client \ {c} : th'[d] = th[d]
  BY <1>2 DEF IInv, Types
<1>20. ASSUME Elsewhere(c), HalfStays(c) PROVE MergeOK(W, c)'
  <2>1. \A pg \in AnyPage : InMain(W, pg) => InMain(W, pg)'
    BY <1>1, <1>20, InMainStays
  <2>2. CASE over
    <3>1. ~Active(c)' /\ ~Going(c)' /\ th'[c].op # "merge"
      BY <1>7, <1>19, <2>2 DEF Active, Going
    <3> QED BY <3>1 DEF MergeOK
  <2>3. CASE ~over
    <3>1. Active(c) /\ MergeOK(W, c)
      BY <1>1, <1>4, <2>3 DEF IInv, Merging, Active
    <3>2. ~Going(c)' /\ th'[c].pc # "release"
      BY <1>7, <1>19, <2>3 DEF Going
    <3>3. \A pg \in AnyPage : stored'[pg].scn = main'[Header].scn => InMain(W, pg)'
      BY <1>1, <1>4, <2>1, <2>3, <3>1 DEF MergeOK
    <3> QED BY <3>2, <3>3 DEF MergeOK
  <2> QED BY <2>2, <2>3
<1>21. EndLocked'
  <2> SUFFICES ASSUME NEW d \in Client, th'[d].op \in EndOp, th'[d].pc # "leave"
               PROVE  endLock' = Home[d]
    BY DEF EndLocked
  <2>1. th[d].op \in EndOp /\ th[d].pc # "leave"
    BY <1>1, <1>4, <1>7, <1>19 DEF EndOp
  <2> QED BY <1>1, <2>1 DEF IInv, EndLocked
<1>22. OtherTypes' /\ endLock' \in Process \cup {Nobody}
  BY <1>1 DEF OtherTypes, IInv, Types
<1>23. b1.allocLock = b.allocLock
  BY <1>6 DEF SameTable
<1> QED BY <1>1, <1>2, <1>6, <1>7, <1>8, <1>10, <1>11, <1>13, <1>14, <1>15, <1>16, <1>17, <1>18,
           <1>20, <1>21, <1>22, <1>23, BufferStep

\* MarksNormal keeps the invariant: the header page is to be written.
LEMMA StepMarksNormal ==
    ASSUME NEW W, Classic, IInv(W), NEW c \in Client, MarksNormal(c)
    PROVE  IInv(W)'
<1> DEFINE t == th[c]
           b == bm[Home[c]]
           f == buf[Home[c]]
           g == f[Header]
           st == main[Header].st
           scn == main[Header].scn
           g1 == MarkedHeader(Home[c], "normal", b.scn + 1, 0)
           b1 == [b EXCEPT !.state = "normal", !.scn = b.scn + 1]
           t1 == [t EXCEPT !.pc = "hwrite"]
           f1 == [f EXCEPT ![Header] = g1]
<1>0. /\ t \in Thread /\ b \in Manager /\ f \in [AnyPage -> Buffer]
      /\ Shape(t) /\ LockOK(t, b) /\ PageOK(t, b, f)
      /\ KnownOK(t, b, st, scn)
      /\ HeaderOK(t, b, f[Header], st, scn, delta.alloc)
      /\ TableOK(t, b, st, scn, delta.alloc) /\ Header \in AnyPage
  BY OfClient
<1>1. /\ t.pc = "guarded" /\ t.op = "finish"
      /\ UNCHANGED <<ast, endLock, main, delta, stored, snap, changes, calls, deaths>>
  BY DEF MarksNormal, files, bounds
<1>2. /\ bm' = [bm EXCEPT ![Home[c]] = b1] /\ th' = [th EXCEPT ![c] = t1]
      /\ buf' = [buf EXCEPT ![Home[c]] = f1]
  <2>1. /\ bm' = [bm EXCEPT ![Home[c]].state = "normal", ![Home[c]].scn = @ + 1]
        /\ buf' = [buf EXCEPT ![Home[c]][Header] = g1]
        /\ th' = [th EXCEPT ![c].pc = "hwrite"]
    BY DEF MarksNormal
  <2> HIDE DEF g1
  <2>2. bm' = [bm EXCEPT ![Home[c]] = b1]
    BY <2>1, OneThread DEF IInv, Types
  <2> QED BY <2>1, <2>2
<1>3. b.stateLock = LCK_write /\ b.scn = scn /\ st = "merge" /\ ~t.guard /\ ~t.wait
      /\ t.page = Header /\ b.scn \in Nat /\ b.state = "merge"
  <2>1. b.stateLock = LCK_write /\ ~t.guard /\ ~t.wait /\ t.page = Header
    BY <1>0, <1>1 DEF LockOK, Shape, Guarding
  <2>2. b.scn = scn /\ st = "merge" /\ b.state = st
    BY <1>0, <1>1, <2>1 DEF KnownOK, LCK_none, LCK_write
  <2> QED BY <1>0, <2>1, <2>2 DEF Manager
<1>4. /\ t1 \in Thread /\ t1.pc = "hwrite" /\ t1.op = "finish" /\ t1.wait = t.wait
      /\ t1.page = t.page /\ t1.guard = t.guard /\ t1.left = t.left
  BY <1>0, <1>1 DEF Thread, PC
<1>5. /\ b1 \in Manager /\ b1.state = "normal" /\ b1.scn = scn + 1
      /\ b1.loaded = b.loaded /\ b1.table = b.table /\ b1.allocLock = b.allocLock
      /\ b1.allocIsValid = b.allocIsValid /\ b1.open = b.open /\ b1.master = b.master
      /\ b1.blocking = b.blocking /\ b1.stateLock = b.stateLock
  <2>1. PICK n \in Nat : n = b.scn + 1
    BY <1>3
  <2>2. b1 = [b EXCEPT !.state = "normal", !.scn = n] /\ n = scn + 1
    BY <1>3, <2>1
  <2>3. "normal" \in State
    BY DEF State
  <2> HIDE DEF b1
  <2>4. /\ b1 \in Manager /\ b1.state = "normal" /\ b1.scn = n
        /\ b1.loaded = b.loaded /\ b1.table = b.table /\ b1.allocLock = b.allocLock
        /\ b1.allocIsValid = b.allocIsValid /\ b1.open = b.open /\ b1.master = b.master
        /\ b1.blocking = b.blocking /\ b1.stateLock = b.stateLock
    BY <1>0, <2>1, <2>2, <2>3 DEF Manager
  <2> QED BY <2>2, <2>4
<1>6. /\ g1 \in Buffer /\ g1.dirty /\ g1.diff = 0
      /\ g1.lock = g.lock /\ g1.valid = g.valid /\ g1.nbak = g.nbak /\ g1.half = g.half
      /\ g1.page.st = "normal" /\ g1.page.scn = scn + 1 /\ g1.page.ver = g.page.ver
  <2>1. 0 \in Nat /\ b.scn + 1 \in Nat /\ "normal" \in {"normal", "stalled", "merge"}
    BY <1>3
  <2>2. b.scn + 1 = scn + 1
    BY <1>3
  <2> HIDE DEF g1
  <2> QED BY <2>1, <2>2, MarkedFields DEF g1
<1> HIDE DEF g1, t1, b1
<1>7. /\ f1 \in [AnyPage -> Buffer] /\ f1[Header] = g1
      /\ \A pg \in AnyPage \ {Header} : f1[pg] = f[pg]
  BY <1>0, <1>6
<1> HIDE DEF f1
<1>8. Shape(t1)
  BY <1>3, <1>4 DEF Shape, Guarding, GuardOp
<1>9. LockOK(t1, b1)
  BY <1>0, <1>1, <1>3, <1>4, <1>5 DEF LockOK, Guarding, MasterOp, GuardOp, LCK_none, LCK_write
<1>10. KnownOK(t1, b1, st, scn)
  BY <1>4 DEF KnownOK
<1>11. \A pg \in AnyPage : ~f[pg].nbak /\ ~f[pg].dirty /\ ~f[pg].half /\ f[pg].diff = 0
  BY <1>0, <1>1, GuardedPages DEF Guarding
<1>12. PageOK(t1, b1, f1)
  <2> SUFFICES ASSUME NEW pg \in AnyPage PROVE BufferOK(t1, b1, pg, f1[pg])
    BY DEF PageOK
  <2>2. CASE pg = Header
    <3>1. BufferOK(t, b, Header, g)
      BY <1>0 DEF PageOK
    <3>2. g.lock = LCK_write /\ g.valid /\ ~g.nbak /\ ~g.half
      BY <1>0, <1>1, <1>3, <1>11, <3>1 DEF BufferOK, Using, Guarding
    <3>3. BufferOK(t1, b1, Header, g1)
      BY <1>3, <1>4, <1>6, <3>2 DEF BufferOK, Using, Guarding, LCK_none, LCK_write
    <3> QED BY <1>7, <2>2, <3>3
  <2>3. CASE pg # Header
    <3> DEFINE k == f[pg]
    <3>1. BufferOK(t, b, pg, k) /\ ~k.nbak /\ ~k.dirty
      BY <1>0, <1>11 DEF PageOK
    <3> HIDE DEF k
    <3>2. BufferOK(t1, b1, pg, k)
      BY <1>3, <1>4, <2>3, <3>1, ClearPage
    <3> QED BY <1>7, <2>3, <3>2 DEF k
  <2> QED BY <2>2, <2>3
<1>13. HeaderOK(t1, b1, f1[Header], st, scn, delta.alloc)
  BY <1>3, <1>4, <1>5, <1>6, <1>7 DEF HeaderOK
<1>14. TableOK(t1, b1, st, scn, delta.alloc)
  <2>1. Recent(b1, st, scn) => Recent(b, st, scn)
    BY <1>3, <1>5 DEF Recent
  <2> QED BY <1>0, <1>3, <1>5, <2>1 DEF TableOK
<1>15. ASSUME NEW pg \in AnyPage
       PROVE  /\ DiffOK(W, f1[pg], pg, st, delta.alloc)
              /\ CacheOK(W, f1[pg], pg, stored[pg])
              /\ StampOK(f1[pg], pg, scn)
              /\ f[pg].half => f1[pg].half
  <2>1. CASE pg = Header
    <3>1. CacheOK(W, g, Header, stored[Header])
      BY <1>0 DEF IInv, Buffers
    <3>2. ~g1.nbak /\ ~g1.half /\ (g1.valid => g1.page.ver >= 1)
      BY <1>0, <1>6, <1>11, <3>1 DEF CacheOK
    <3> QED BY <1>6, <1>7, <1>11, <2>1, <3>2 DEF DiffOK, CacheOK, StampOK
  <2>2. CASE pg # Header
    BY <1>7, <2>2 DEF IInv, Buffers
  <2> QED BY <2>1, <2>2
<1>16. ASSUME NEW d \in Client \ {c}
       PROVE  /\ b1.stateLock = LCK_write => bm[Home[d]].stateLock = LCK_none
              /\ bm[Home[d]].stateLock = LCK_write => b1.stateLock = LCK_none
              /\ \A pg \in AnyPage : ~Clash(f1[pg].lock, buf[Home[d]][pg].lock)
  <2>2. \A pg \in AnyPage : f1[pg].lock = f[pg].lock
    BY <1>6, <1>7
  <2> QED BY <1>5, <2>2 DEF IInv, Exclusive
<1>17. th'[c] = t1 /\ \A d \in Client \ {c} : th'[d] = th[d]
  BY <1>2 DEF IInv, Types
<1>18. \A pg \in AnyPage : f[pg].dirty => buf'[Home[c]][pg].dirty
  BY <1>11
<1>19. Types'
  <2>1. /\ th' \in [Client -> Thread] /\ bm' \in [Process -> Manager]
        /\ buf' \in [Process -> [AnyPage -> Buffer]]
    BY <1>2, <1>4, <1>5, <1>7, OneThread DEF IInv, Types
  <2> QED BY <1>1, <2>1 DEF IInv, Types
<1>20. ASSUME Elsewhere(c), HalfStays(c) PROVE MergeOK(W, c)'
  <2>1. /\ Active(c)' => Active(c)
        /\ Going(c)' => /\ Going(c) /\ th'[c].op = t.op
                        /\ t.op = "merge" => t.left \subseteq th'[c].left
        /\ th'[c].pc # "release"
    BY <1>1, <1>3, <1>4, <1>17 DEF Active, Going
  <2> QED BY <1>1, <1>18, <1>19, <1>20, <2>1, MergeStays
<1>21. EndLocked'
  BY <1>1, <1>4, <1>17 DEF IInv, EndLocked
<1>22. OtherTypes' /\ endLock' \in Process \cup {Nobody}
  BY <1>1 DEF OtherTypes, IInv, Types
<1> QED BY <1>1, <1>2, <1>4, <1>5, <1>7, <1>8, <1>9, <1>10, <1>12, <1>13, <1>14, <1>15, <1>16,
           <1>20, <1>21, <1>22, BufferStep

-----------------------------------------------------------------------------
(* The table of the delta and allocLock. *)

\* Manager e has stateLock and the state as b has.
SameState(b, e) ==
    /\ e.state = b.state /\ e.scn = b.scn /\ e.open = b.open
    /\ e.master = b.master /\ e.blocking = b.blocking /\ e.stateLock = b.stateLock

\* Manager b has a part of the table, and all of it if it has allocLock.
Ready(b) ==
    /\ b \in Manager
    /\ Prefix(b.table, delta.alloc)
    /\ b.allocLock # LCK_none => b.loaded /\ b.table = delta.alloc

\* What holds of the managers L once thread c, with manager b, has looked for
\* a page.
Looked(c, b, L) ==
    /\ L \in [Process -> Manager]
    /\ SameState(b, L[Home[c]])
    /\ \/ L[Home[c]] = b
       \/ L[Home[c]].loaded /\ L[Home[c]].table = delta.alloc /\ L[Home[c]].allocLock # LCK_none
    /\ \A d \in Client \ {c} :
         /\ Kept(bm[Home[d]], L[Home[d]])
         /\ TableOK(th[d], L[Home[d]], main[Header].st, main[Header].scn, delta.alloc)
    /\ \A d, k \in Client : d # k /\ L[Home[d]].allocLock = LCK_write =>
         L[Home[k]].allocLock = LCK_none

\* The managers with b as that of thread c.
With(c, b) == [bm EXCEPT ![Home[c]] = b]

\* Nothing has to be read again with a lock that is held already.
LEMMA AlreadyLocked ==
    ASSUME NEW W, Classic, IInv(W), NEW c \in Client, NEW b, Ready(b), NEW L,
           b.allocLock = bm[Home[c]].allocLock, L = With(c, b)
    PROVE  /\ Looked(c, b, L) /\ L[Home[c]] = b
           /\ \A d \in Client \ {c} : L[Home[d]] = bm[Home[d]]
<1>1. L[Home[c]] = b /\ \A d \in Client \ {c} : L[Home[d]] = bm[Home[d]]
  BY OneThread DEF IInv, Types, With
<1>2. L \in [Process -> Manager]
  BY OneThread DEF IInv, Types, Ready, With
<1>3. \A d \in Client : L[Home[d]].allocLock = bm[Home[d]].allocLock
  BY <1>1
<1> QED BY <1>1, <1>2, <1>3 DEF Looked, SameState, Kept, IInv, Tables, Exclusive

\* The table of a process that is asked for its lock stays in order.
LEMMA LosesTable ==
    ASSUME NEW W, IInv(W), NEW d \in Client, NEW level \in {LCK_read, LCK_write}, NEW e,
           e = LosesAlloc(Home[d], level)
    PROVE  TableOK(th[d], e, main[Header].st, main[Header].scn, delta.alloc)
<1> DEFINE b == bm[Home[d]]
<1>1. TableOK(th[d], b, main[Header].st, main[Header].scn, delta.alloc)
  BY OfClient
<1>2. /\ Kept(b, e)
      /\ e.allocLock # LCK_none => b.allocLock # LCK_none
      /\ e.allocIsValid => b.allocIsValid /\ (level = LCK_read \/ b.allocLock = LCK_none)
      /\ level = LCK_read => (b.allocLock # LCK_none => e.allocLock # LCK_none)
  <2>1. Home[d] \in Process /\ Types
    BY NBConstants DEF IInv
  <2>2. /\ Kept(b, e)
        /\ e.allocLock = IF level = LCK_write THEN LCK_none
                         ELSE IF b.allocLock = LCK_write THEN LCK_read ELSE b.allocLock
        /\ e.allocIsValid => b.allocIsValid /\ (level = LCK_read \/ b.allocLock = LCK_none)
    BY <2>1, LosesFields
  <2> HIDE DEF b
  <2> QED BY <2>2 DEF LCK_none, LCK_read, LCK_write
<1> HIDE DEF b
<1>3. Recent(e, main[Header].st, main[Header].scn) => Recent(b, main[Header].st, main[Header].scn)
  BY <1>2 DEF Recent, Kept
<1> QED BY <1>1, <1>2, <1>3 DEF TableOK, Kept

\* lockAlloc: the table is complete, and the others have no lock, or none to
\* write, that is as strong.
LEMMA LockAllocFields ==
    ASSUME NEW W, Classic, IInv(W), NEW c \in Client, NEW b, Ready(b),
           NEW level \in {LCK_read, LCK_write}, NEW L, L = lockAlloc(Home[c], b, level),
           \/ b.allocLock = bm[Home[c]].allocLock
           \/ level = LCK_write /\ b.allocLock = LCK_read
    PROVE  /\ Looked(c, b, L)
           /\ L[Home[c]].loaded /\ L[Home[c]].table = delta.alloc
           /\ L[Home[c]].allocLock # LCK_none
           /\ L[Home[c]].allocLock \in {level, b.allocLock}
           /\ level = LCK_write =>
                \A d \in Client \ {c} :
                   /\ L[Home[d]].allocLock = LCK_none
                   /\ L[Home[d]].allocIsValid =>
                        bm[Home[d]].allocIsValid /\ bm[Home[d]].allocLock = LCK_none
<1>1. b \in Manager /\ delta.alloc \in Seq(AnyPage) /\ Home[c] \in Process
  BY OneThread DEF Ready, IInv, Types, Delta
<1>2. b.allocLock \in Level
  BY <1>1 DEF Manager
<1>3. CASE b.allocLock >= level
  <2>1. L = With(c, b)
    BY <1>3 DEF lockAlloc, With
  <2>0. b.allocLock = bm[Home[c]].allocLock
    BY <1>3 DEF LCK_read, LCK_write
  <2>2. /\ Looked(c, b, L) /\ L[Home[c]] = b
        /\ \A d \in Client \ {c} : L[Home[d]] = bm[Home[d]]
    BY <2>0, <2>1, AlreadyLocked
  <2>3. b.allocLock # LCK_none /\ (level = LCK_write => b.allocLock = LCK_write)
    BY <1>2, <1>3 DEF Level, LCK_none, LCK_read, LCK_write
  <2>4. level = LCK_write => \A d \in Client \ {c} : bm[Home[d]].allocLock = LCK_none
    BY <2>0, <2>3 DEF IInv, Exclusive
  <2> QED BY <2>2, <2>3, <2>4 DEF Ready
<1>4. CASE ~(b.allocLock >= level)
  <2> DEFINE e == actualizeAlloc([b EXCEPT !.allocLock = level], TRUE)
  <2>1. L = [q \in Process |-> IF q = Home[c] THEN e ELSE LosesAlloc(q, level)]
    BY <1>4 DEF lockAlloc
  <2>2. /\ e \in Manager /\ SameState(b, e) /\ e.loaded /\ e.table = delta.alloc
        /\ e.allocLock = level
    <3> DEFINE k == [b EXCEPT !.allocLock = level]
               s == b.table \o SubSeq(delta.alloc, Len(b.table) + 1, Len(delta.alloc))
    <3>1. b.table \in Seq(AnyPage) /\ level \in Level
      BY <1>1 DEF Manager, Level
    <3>2. s = delta.alloc
      BY <1>1, <3>1, PrefixRest DEF Ready
    <3>3. e = [k EXCEPT !.loaded = TRUE, !.table = delta.alloc, !.allocIsValid = TRUE]
      BY <1>1, <3>2 DEF actualizeAlloc, Manager
    <3> HIDE DEF e
    <3>4. /\ e \in Manager /\ SameState(b, e) /\ e.loaded /\ e.table = delta.alloc
          /\ e.allocLock = level
      BY <1>1, <3>1, <3>3 DEF Manager, SameState
    <3> QED BY <3>4
  <2> HIDE DEF e
  <2>3. \A q \in Process : LosesAlloc(q, level) \in Manager
    BY LosesFields DEF IInv
  <2>4. L \in [Process -> Manager] /\ L[Home[c]] = e
    BY <1>1, <2>1, <2>2, <2>3
  <2>5. ASSUME NEW d \in Client \ {c}
        PROVE  /\ L[Home[d]] = LosesAlloc(Home[d], level)
               /\ Kept(bm[Home[d]], L[Home[d]])
               /\ TableOK(th[d], L[Home[d]], main[Header].st, main[Header].scn, delta.alloc)
               /\ L[Home[d]].allocLock # LCK_write
               /\ level = LCK_write =>
                   /\ L[Home[d]].allocLock = LCK_none
                   /\ L[Home[d]].allocIsValid =>
                        bm[Home[d]].allocIsValid /\ bm[Home[d]].allocLock = LCK_none
    <3>1. L[Home[d]] = LosesAlloc(Home[d], level) /\ Home[d] \in Process
      BY <2>1, OneThread
    <3>2. TableOK(th[d], L[Home[d]], main[Header].st, main[Header].scn, delta.alloc)
      BY <3>1, LosesTable
    <3>3. Types
      BY DEF IInv
    <3>a. PICK k : k = L[Home[d]]
      OBVIOUS
    <3>4. /\ Kept(bm[Home[d]], k)
          /\ k.allocLock = IF level = LCK_write THEN LCK_none
                           ELSE IF bm[Home[d]].allocLock = LCK_write THEN LCK_read
                           ELSE bm[Home[d]].allocLock
          /\ k.allocIsValid =>
               bm[Home[d]].allocIsValid /\ (level = LCK_read \/ bm[Home[d]].allocLock = LCK_none)
      <4>1. k = LosesAlloc(Home[d], level)
        BY <3>1, <3>a
      <4> QED BY <3>1, <3>3, <4>1, LosesFields
    <3> QED BY <3>1, <3>2, <3>4, <3>a DEF LCK_none, LCK_read, LCK_write
  <2>6. \A d, k \in Client : d # k /\ L[Home[d]].allocLock = LCK_write =>
           L[Home[k]].allocLock = LCK_none
    BY <2>2, <2>4, <2>5
  <2>7. level # LCK_none
    BY DEF LCK_none, LCK_read, LCK_write
  <2> QED BY <2>2, <2>4, <2>5, <2>6, <2>7 DEF Looked
<1> QED BY <1>3, <1>4

\* The index that is found is that of the page.
LEMMA FoundFields ==
    ASSUME NEW b \in Manager, NEW pg, NEW alloc \in Seq(AnyPage), Prefix(b.table, alloc),
           NEW i, i = findPageIndex(b, pg)
    PROVE  /\ i \in Nat
           /\ i # 0 => /\ b.loaded /\ i \in DOMAIN alloc /\ alloc[i] = pg
                       /\ i \in DOMAIN b.table /\ b.table[i] = pg
           /\ i = 0 /\ b.loaded /\ b.table = alloc => ~Mapped(alloc, pg)
<1>1. b.table \in Seq(AnyPage)
  BY DEF Manager
<1>2. CASE b.loaded /\ \E j \in DOMAIN b.table : b.table[j] = pg
  <2>1. i \in DOMAIN b.table /\ b.table[i] = pg
    BY <1>2 DEF findPageIndex
  <2>2. i \in 1..Len(b.table)
    BY <1>1, <2>1
  <2>3. i \in Nat /\ i # 0 /\ i \in 1..Len(alloc) /\ alloc[i] = pg
    BY <1>1, <2>1, <2>2 DEF Prefix
  <2> QED BY <1>2, <2>1, <2>3
<1>3. CASE ~(b.loaded /\ \E j \in DOMAIN b.table : b.table[j] = pg)
  BY <1>3 DEF findPageIndex, Mapped
<1> QED BY <1>2, <1>3

\* getPageIndex finds the page in the table on disk.
LEMMA PageIndexFields ==
    ASSUME NEW W, Classic, IInv(W), NEW c \in Client, NEW b, Ready(b), NEW pg,
           b.allocLock = bm[Home[c]].allocLock,
           b.state = "merge" /\ b.allocIsValid => b.loaded /\ b.table = delta.alloc,
           NEW L, L = getPageIndex(Home[c], b, pg), NEW i, i = findPageIndex(L[Home[c]], pg)
    PROVE  /\ Looked(c, b, L) /\ i \in Nat
           /\ i # 0 => i \in DOMAIN delta.alloc /\ delta.alloc[i] = pg
           /\ i = 0 => /\ ~Mapped(delta.alloc, pg)
                       /\ L[Home[c]].allocLock \in {LCK_read, b.allocLock}
                       /\ Ready(L[Home[c]])
<1>1. b \in Manager /\ delta.alloc \in Seq(AnyPage) /\ Prefix(b.table, delta.alloc)
  BY DEF Ready, IInv, Types, Delta
<1>2. CASE findPageIndex(b, pg) # 0 \/ (b.state = "merge" /\ b.allocIsValid)
  <2>1. L = With(c, b)
    BY <1>2 DEF getPageIndex, With
  <2>2. Looked(c, b, L) /\ L[Home[c]] = b
    BY <2>1, AlreadyLocked
  <2> QED BY <1>1, <1>2, <2>2, FoundFields
<1>3. CASE ~(findPageIndex(b, pg) # 0 \/ (b.state = "merge" /\ b.allocIsValid))
  <2>1. L = lockAlloc(Home[c], b, LCK_read)
    BY <1>3 DEF getPageIndex
  <2>2. /\ Looked(c, b, L)
        /\ L[Home[c]].loaded /\ L[Home[c]].table = delta.alloc
        /\ L[Home[c]].allocLock \in {LCK_read, b.allocLock}
    BY <2>1, LockAllocFields
  <2>3. L[Home[c]] \in Manager
    BY <2>2, OneThread DEF Looked
  <2>4. Prefix(L[Home[c]].table, delta.alloc)
    BY <1>1, <2>2 DEF Prefix
  <2> QED BY <1>1, <2>2, <2>3, <2>4, FoundFields DEF Ready
<1> QED BY <1>2, <1>3

\* The other processes keep all but allocLock, and their tables stay in order.
Beside(c, L) ==
    /\ L \in [Process -> Manager]
    /\ \A d \in Client \ {c} :
         /\ Kept(bm[Home[d]], L[Home[d]])
         /\ TableOK(th[d], L[Home[d]], main[Header].st, main[Header].scn, delta.alloc)
    /\ \A d, k \in Client : d # k /\ L[Home[d]].allocLock = LCK_write =>
         L[Home[k]].allocLock = LCK_none

\* What thread c, now t1 with manager b1 and buffers f1, shows of itself.
Shows(t1, b1, f1) ==
    /\ Shape(t1) /\ LockOK(t1, b1)
    /\ KnownOK(t1, b1, main[Header].st, main[Header].scn)
    /\ PageOK(t1, b1, f1)
    /\ HeaderOK(t1, b1, f1[Header], main[Header].st, main[Header].scn, delta.alloc)
    /\ TableOK(t1, b1, main[Header].st, main[Header].scn, delta.alloc)

\* What buffers f1 of process p have to show: only contents and indices differ.
Contains(W, p, f1) ==
    \A pg \in AnyPage :
        /\ DiffOK(W, f1[pg], pg, main[Header].st, delta.alloc)
        /\ CacheOK(W, f1[pg], pg, stored[pg])
        /\ StampOK(f1[pg], pg, main[Header].scn)
        /\ f1[pg].half = buf[p][pg].half /\ f1[pg].lock = buf[p][pg].lock

\* A step that takes allocLock away from others and leaves the files alone.
LEMMA AllocStep ==
    ASSUME NEW W, Classic, IInv(W), NEW c \in Client, NEW t1 \in Thread, NEW b1,
           NEW f1 \in [AnyPage -> Buffer],
           th' = [th EXCEPT ![c] = t1], buf' = [buf EXCEPT ![Home[c]] = f1],
           bm'[Home[c]] = b1, Beside(c, bm'),
           UNCHANGED <<main, delta, stored, snap>>, OtherTypes', UNCHANGED endLock,
           Shows(t1, b1, f1), Contains(W, Home[c], f1),
           b1.stateLock \in {LCK_none, bm[Home[c]].stateLock},
           th[c].pc # "hwrite",
           Elsewhere(c) /\ HalfStays(c) /\ Types' => MergeOK(W, c)',
           EndLocked'
    PROVE  IInv(W)'
<1>1. /\ th'[c] = t1 /\ \A d \in Client \ {c} : th'[d] = th[d]
  BY DEF IInv, Types
<1>2. /\ buf'[Home[c]] = f1
      /\ \A d \in Client \ {c} : buf'[Home[d]] = buf[Home[d]]
  BY OneThread DEF IInv, Types
<1>3. Types'
  <2>1. /\ th' \in [Client -> Thread] /\ bm' \in [Process -> Manager]
        /\ buf' \in [Process -> [AnyPage -> Buffer]]
    BY OneThread DEF IInv, Types, Beside
  <2> QED BY <2>1 DEF IInv, Types, OtherTypes
<1>4. Elsewhere(c)
  BY <1>1, <1>2 DEF Elsewhere, Beside
<1>5. OwnClient(c)
  BY <1>1, <1>2 DEF OwnClient, Shows
<1>6. OwnBuffers(W, c)
  BY <1>2 DEF OwnBuffers, Contains
<1>7. OwnLocks(c)
  <2> SUFFICES ASSUME NEW d \in Client \ {c}
               PROVE  /\ b1.stateLock = LCK_write => bm[Home[d]].stateLock = LCK_none
                      /\ bm[Home[d]].stateLock = LCK_write => b1.stateLock = LCK_none
                      /\ \A pg \in AnyPage : ~Clash(f1[pg].lock, buf[Home[d]][pg].lock)
    BY <1>2 DEF OwnLocks
  <2>1. /\ bm[Home[c]].stateLock = LCK_write => bm[Home[d]].stateLock = LCK_none
        /\ bm[Home[d]].stateLock = LCK_write => bm[Home[c]].stateLock = LCK_none
        /\ \A pg \in AnyPage : ~Clash(buf[Home[c]][pg].lock, buf[Home[d]][pg].lock)
    BY DEF IInv, Exclusive
  <2>2. \A pg \in AnyPage : f1[pg].lock = buf[Home[c]][pg].lock
    BY DEF Contains
  <2> QED BY <2>1, <2>2 DEF LCK_none, LCK_write
<1>8. AllTables(c)
  <2>1. \A d \in Client :
          TableOK(th'[d], bm'[Home[d]], main[Header].st, main[Header].scn, delta.alloc)
    BY <1>1 DEF Shows, Beside
  <2> QED BY <2>1 DEF AllTables, Beside
<1>9. HalfStays(c)
  BY <1>1, <1>2 DEF HalfStays, Torn1, Contains
<1>10. Numbers'
  BY DEF IInv, Numbers
<1> QED BY <1>3, <1>4, <1>5, <1>6, <1>7, <1>8, <1>9, <1>10, LocalStep

\* A process has the table that it looks up a page of W in.
Trusts(W, c, pg) ==
    pg \in W /\ bm[Home[c]].state = "merge" /\ bm[Home[c]].allocIsValid
        => bm[Home[c]].loaded

\* Who knows the state finds a page in the table.
LEMMA KnownLooked ==
    ASSUME NEW W, Classic, IInv(W), NEW c \in Client, th[c].pc # "hwrite",
           bm[Home[c]].state = main[Header].st, main[Header].st # "normal",
           bm[Home[c]].scn = main[Header].scn,
           NEW pg, Trusts(W, c, pg), NEW L, L = getPageIndex(Home[c], bm[Home[c]], pg),
           NEW i, i = findPageIndex(L[Home[c]], pg)
    PROVE  /\ Beside(c, L) /\ SameState(bm[Home[c]], L[Home[c]])
           /\ TableOK(th[c], L[Home[c]], main[Header].st, main[Header].scn, delta.alloc)
           /\ i \in Nat
           /\ i # 0 => i \in DOMAIN delta.alloc /\ delta.alloc[i] = pg
           /\ i = 0 => /\ (pg \in W \/ main[Header].st = "stalled") => ~Mapped(delta.alloc, pg)
                       /\ L[Home[c]].allocLock \in {LCK_read, bm[Home[c]].allocLock}
                       /\ Ready(L[Home[c]])
<1> DEFINE t == th[c]
           b == bm[Home[c]]
           e == L[Home[c]]
           st == main[Header].st
           scn == main[Header].scn
<1>1. /\ b \in Manager /\ TableOK(t, b, st, scn, delta.alloc)
      /\ delta.alloc \in Seq(AnyPage) /\ scn \in Nat
  BY OfClient, HeaderFields DEF IInv, Types, Delta
<1>2. scn <= b.scn + 1
  BY <1>1
<1>3. b.loaded => Recent(b, st, scn)
  BY <1>2 DEF Recent
<1>4. Prefix(<<>>, delta.alloc)
  BY <1>1 DEF Prefix
<1>5. Ready(b)
  BY <1>1, <1>3, <1>4 DEF Ready, TableOK
<1>6. b.loaded /\ b.allocIsValid => b.table = delta.alloc
  BY <1>1, <1>3 DEF TableOK
<1>7. /\ Looked(c, b, L) /\ i \in Nat
      /\ i # 0 => i \in DOMAIN delta.alloc /\ delta.alloc[i] = pg
      /\ i = 0 => /\ (pg \in W \/ st = "stalled") => ~Mapped(delta.alloc, pg)
                  /\ e.allocLock \in {LCK_read, b.allocLock} /\ Ready(e)
  <2>1. CASE b.state = "merge" /\ b.allocIsValid => b.loaded
    BY <1>5, <1>6, <2>1, PageIndexFields
  <2>2. CASE ~(b.state = "merge" /\ b.allocIsValid => b.loaded)
    <3>1. L = With(c, b)
      BY <2>2 DEF getPageIndex, With
    <3>2. Looked(c, b, L) /\ e = b
      BY <1>5, <3>1, AlreadyLocked
    <3>3. i = 0
      BY <2>2, <3>2 DEF findPageIndex
    <3>4. pg \notin W /\ st # "stalled"
      BY <2>2 DEF Trusts
    <3> HIDE DEF e
    <3> QED BY <1>5, <3>2, <3>3, <3>4
  <2> QED BY <2>1, <2>2
<1>8. NoRepeats(delta.alloc) /\ Prefix(delta.alloc, delta.alloc)
  BY <1>1 DEF IInv, Files, Prefix
<1>9. TableOK(t, e, st, scn, delta.alloc)
  <2>1. CASE e = b
    BY <1>1, <2>1
  <2>2. CASE e # b
    <3>1. e.loaded /\ e.table = delta.alloc /\ e.allocLock # LCK_none
      BY <1>7, <2>2 DEF Looked
    <3> HIDE DEF e
    <3> QED BY <1>8, <3>1 DEF TableOK
  <2> QED BY <2>1, <2>2
<1> QED BY <1>7, <1>9 DEF Looked, Beside

\* CCH_fetch_page reads what was last written of the page.
LEMMA StepFetchPage ==
    ASSUME NEW W, Classic, IInv(W), NEW c \in Client, CCH_fetch_page(c),
           Trusts(W, c, th[c].page)
    PROVE  IInv(W)'
<1> DEFINE t == th[c]
           b == bm[Home[c]]
           f == buf[Home[c]]
           st == main[Header].st
           scn == main[Header].scn
<1>0. /\ t \in Thread /\ b \in Manager /\ f \in [AnyPage -> Buffer]
      /\ Shape(t) /\ LockOK(t, b) /\ PageOK(t, b, f)
      /\ KnownOK(t, b, st, scn)
      /\ HeaderOK(t, b, f[Header], st, scn, delta.alloc)
      /\ TableOK(t, b, st, scn, delta.alloc) /\ Header \in AnyPage
  BY OfClient
<1>a. PICK pg \in AnyPage : pg = t.page
  BY <1>0 DEF Thread
<1>b. PICK L : L = IF b.state = "normal" THEN bm ELSE getPageIndex(Home[c], b, pg)
  OBVIOUS
<1>c. PICK i : i = IF b.state = "normal" THEN 0 ELSE findPageIndex(L[Home[c]], pg)
  OBVIOUS
<1>d. PICK page : page = IF i = 0 \/ DeltaPage(i) = EmptyPage THEN main[pg] ELSE DeltaPage(i)
  OBVIOUS
<1> DEFINE g == f[pg]
           g1 == [g EXCEPT !.valid = TRUE, !.page = page]
           f1 == [f EXCEPT ![pg] = g1]
           over == t.op # "merge"
           t1 == IF over THEN [[t EXCEPT !.pc = "have"] EXCEPT !.guard = FALSE]
                 ELSE [t EXCEPT !.pc = "have"]
<1>1. /\ t.pc = "rdisk" /\ ~t.wait /\ ~ReadsClosed(Home[c], pg)
      /\ UNCHANGED <<ast, endLock, main, delta, stored, snap, changes, calls, deaths>>
  BY <1>a DEF CCH_fetch_page, files, bounds
<1>2. /\ th' = [th EXCEPT ![c] = t1] /\ buf' = [buf EXCEPT ![Home[c]] = f1]
      /\ over => bm' = [L EXCEPT ![Home[c]] = EndOf(c, L[Home[c]])]
      /\ ~over => bm' = L
  <2>1. /\ buf' = [buf EXCEPT ![Home[c]][pg].valid = TRUE, ![Home[c]][pg].page = page]
        /\ IF t.op = "merge"
           THEN bm' = L /\ th' = [th EXCEPT ![c] = [t EXCEPT !.pc = "have"]]
           ELSE /\ bm' = [L EXCEPT ![Home[c]] =
                             unlockStateRead(Home[c], @, LocalReaders(Home[c]) \ {c})]
                /\ th' = [th EXCEPT ![c] = [[t EXCEPT !.pc = "have"] EXCEPT !.guard = FALSE]]
    BY <1>a, <1>b, <1>c, <1>d DEF CCH_fetch_page
  <2>2. buf' = [buf EXCEPT ![Home[c]] = f1]
    <3> DEFINE h == [g EXCEPT !.valid = TRUE]
               m == [buf EXCEPT ![Home[c]] = [f EXCEPT ![pg] = h]]
    <3>1. /\ Home[c] \in Process /\ buf \in [Process -> [AnyPage -> Buffer]] /\ g \in Buffer
      BY <1>0, OneThread DEF IInv, Types
    <3>2. h \in Buffer /\ g1 = [h EXCEPT !.page = page]
      BY <3>1 DEF Buffer
    <3>3. m = [buf EXCEPT ![Home[c]][pg].valid = TRUE]
      OBVIOUS
    <3>4. buf' = [m EXCEPT ![Home[c]][pg].page = page]
      BY <2>1, <3>3
    <3> HIDE DEF h, g1
    <3>5. /\ m[Home[c]] = [f EXCEPT ![pg] = h] /\ m[Home[c]][pg] = h
          /\ m \in [Process -> [AnyPage -> Buffer]]
      BY <1>0, <3>1, <3>2
    <3>6. buf' = [m EXCEPT ![Home[c]] = [m[Home[c]] EXCEPT ![pg] = g1]]
      BY <3>2, <3>4, <3>5
    <3>7. [m[Home[c]] EXCEPT ![pg] = g1] = f1
      BY <1>0, <3>5
    <3> HIDE DEF f1
    <3> QED BY <3>1, <3>6, <3>7
  <2> HIDE DEF t, f1
  <2>3. CASE over
    <3>1. /\ bm' = [L EXCEPT ![Home[c]] =
                       unlockStateRead(Home[c], @, LocalReaders(Home[c]) \ {c})]
          /\ th' = [th EXCEPT ![c] = t1]
      BY <2>1, <2>3
    <3> QED BY <2>2, <2>3, <3>1 DEF EndOf
  <2>4. CASE ~over
    BY <2>1, <2>2, <2>4
  <2> QED BY <2>3, <2>4
<1>3. delta \in Delta /\ delta.alloc \in Seq(AnyPage) /\ st \in {"normal", "stalled", "merge"}
      /\ scn \in Nat /\ b.scn = scn
  BY <1>0, <1>1, HeaderFields DEF IInv, Types, Delta, KnownOK
<1>4. /\ Beside(c, L) /\ SameState(b, L[Home[c]])
      /\ TableOK(t, L[Home[c]], st, scn, delta.alloc)
      /\ i \in Nat
      /\ i # 0 => st # "normal" /\ i \in DOMAIN delta.alloc /\ delta.alloc[i] = pg
      /\ i = 0 /\ pg \in W => st = "normal" \/ ~Mapped(delta.alloc, pg)
  <2>1. CASE b.state = "normal"
    <3>1. L = bm /\ i = 0
      BY <1>b, <1>c, <2>1
    <3>2. b.stateLock # LCK_none
      BY <1>0, <2>1 DEF LockOK
    <3>3. st = "normal"
      BY <1>0, <1>1, <2>1, <3>2 DEF KnownOK
    <3>4. Beside(c, bm)
      BY DEF Beside, IInv, Types, Tables, Exclusive, Kept
    <3> QED BY <1>0, <3>1, <3>3, <3>4 DEF SameState
  <2>2. CASE b.state # "normal" /\ b.stateLock # LCK_none
    <3>1. b.state = st /\ st # "normal"
      BY <1>0, <1>1, <2>2 DEF KnownOK
    <3>2. L = getPageIndex(Home[c], b, pg) /\ i = findPageIndex(L[Home[c]], pg)
      BY <1>b, <1>c, <2>2
    <3>3. t.pc # "hwrite"
      BY <1>1
    <3>4. /\ Beside(c, L) /\ SameState(b, L[Home[c]])
          /\ TableOK(t, L[Home[c]], st, scn, delta.alloc) /\ i \in Nat
          /\ i # 0 => i \in DOMAIN delta.alloc /\ delta.alloc[i] = pg
          /\ i = 0 /\ pg \in W => ~Mapped(delta.alloc, pg)
      <4>1. Trusts(W, c, pg)
        BY <1>a
      <4> HIDE DEF t
      <4> QED BY <1>3, <3>1, <3>2, <3>3, <4>1, KnownLooked DEF t
    <3> QED BY <3>1, <3>4
  <2>3. CASE b.state # "normal" /\ b.stateLock = LCK_none
    <3>1. b.state = "unknown" /\ ~b.open
      BY <1>0, <2>3 DEF LockOK
    <3>2. b.allocLock # LCK_none /\ findPageIndex(b, pg) = 0
      BY <1>1, <2>3, <3>1 DEF ReadsClosed
    <3>3. b.loaded
      BY <1>0, <3>2 DEF TableOK
    <3>4. scn <= b.scn + 1 /\ Prefix(<<>>, delta.alloc)
      BY <1>3 DEF Prefix
    <3>5. st # "normal"
      BY <1>0, <1>1, <1>3, <3>3 DEF TableOK
    <3>6. Recent(b, st, scn)
      BY <3>3, <3>4, <3>5 DEF Recent
    <3>7. b.table = delta.alloc /\ Ready(b) /\ Prefix(b.table, delta.alloc)
      BY <1>0, <3>2, <3>3, <3>6 DEF TableOK, Ready
    <3>8. L = getPageIndex(Home[c], b, pg) /\ i = findPageIndex(L[Home[c]], pg)
      BY <1>b, <1>c, <2>3
    <3>9. L = lockAlloc(Home[c], b, LCK_read)
      BY <3>1, <3>2, <3>8 DEF getPageIndex
    <3>10. b.allocLock >= LCK_read
      BY <1>0, <3>2 DEF Manager, Level, LCK_none, LCK_read, LCK_write
    <3>11. L = With(c, b)
      BY <3>9, <3>10 DEF lockAlloc, With
    <3>12. Looked(c, b, L) /\ L[Home[c]] = b
      BY <3>7, <3>11, AlreadyLocked
    <3>13. i = 0 /\ ~Mapped(delta.alloc, pg)
      BY <1>0, <1>3, <3>2, <3>3, <3>7, <3>8, <3>12, FoundFields
    <3> QED BY <1>0, <3>12, <3>13 DEF Beside, Looked
  <2> QED BY <2>1, <2>2, <2>3
<1>t. /\ i # 0 => i \in DOMAIN delta.data /\ DeltaPage(i) = delta.data[i]
      /\ page = main[pg] \/ (i # 0 /\ page = delta.data[i] /\ page # EmptyPage)
  <2>1. CASE i = 0
    BY <1>d, <2>1
  <2>2. CASE i # 0
    <3>1. i \in DOMAIN delta.data
      BY <1>3, <1>4, <2>2 DEF IInv, Files, Delta
    <3>2. DeltaPage(i) = delta.data[i]
      BY <3>1 DEF DeltaPage
    <3> QED BY <1>d, <2>2, <3>1, <3>2
  <2> QED BY <2>1, <2>2
<1>5. pg \in W => page = stored[pg]
  <2> SUFFICES ASSUME pg \in W PROVE page = stored[pg]
    OBVIOUS
  <2>1. /\ st = "normal" \/ ~Mapped(delta.alloc, pg) => main[pg] = stored[pg]
        /\ \A j \in DOMAIN delta.alloc : st # "normal" /\ delta.alloc[j] = pg =>
             IF delta.data[j] = EmptyPage THEN main[pg] = stored[pg]
             ELSE delta.data[j] = stored[pg]
    BY DEF IInv, Files, FileOK
  <2>2. CASE i = 0
    BY <1>4, <1>d, <2>1, <2>2
  <2>3. CASE i # 0
    BY <1>4, <1>d, <1>t, <2>1, <2>3
  <2> QED BY <2>2, <2>3
<1>6. page \in Contents /\ page.ver >= 1
  <2>1. main[pg] \in Contents /\ main[pg].ver >= 1
    BY DEF IInv, Types, Files, FileOK
  <2>2. CASE i # 0 /\ page = delta.data[i] /\ page # EmptyPage
    <3>1. delta.data \in Seq(Contents)
      BY <1>3 DEF Delta
    <3>2. page.ver >= 1
      BY <1>4, <2>2 DEF IInv, Files, FileOK
    <3> QED BY <1>t, <2>2, <3>1, <3>2
  <2> QED BY <1>t, <2>1, <2>2
<1>7. g \in Buffer /\ BufferOK(t, b, pg, g) /\ t.op # "none"
  BY <1>0, <1>1 DEF PageOK, Shape
<1>8. /\ t1 \in Thread /\ t1.pc = "have" /\ t1.op = t.op /\ ~t1.wait
      /\ t1.page = t.page /\ t1.left = t.left /\ (t1.guard <=> ~over)
  <2>1. t.guard
    BY <1>0, <1>1 DEF Shape
  <2> QED BY <1>0, <1>1, <2>1 DEF Thread, PC
<1>9. /\ g1 \in Buffer /\ g1.valid /\ g1.page = page
      /\ g1.lock = g.lock /\ g1.dirty = g.dirty /\ g1.nbak = g.nbak
      /\ g1.diff = g.diff /\ g1.half = g.half
  BY <1>6, <1>7 DEF Buffer
<1> HIDE DEF t1, g1, g
<1>10. /\ f1 \in [AnyPage -> Buffer] /\ f1[pg] = g1
       /\ \A pg2 \in AnyPage \ {pg} : f1[pg2] = f[pg2]
  BY <1>0, <1>9
<1> HIDE DEF f1
<1>11. ~g.dirty /\ ~g.nbak /\ ~g.half /\ ~g.valid /\ g.diff = 0
  BY <1>a, <1>1, <1>7 DEF BufferOK
<1>12. Shape(t1)
  BY <1>0, <1>1, <1>8 DEF Shape, Guarding, GuardOp
<1> DEFINE e == L[Home[c]]
<1>e. SameState(b, e) /\ TableOK(t, e, st, scn, delta.alloc) /\ e \in Manager
  BY <1>4, OneThread DEF Beside
<1> HIDE DEF e
<1>13. LockOK(t1, e)
  BY <1>0, <1>1, <1>8, <1>e DEF LockOK, SameState, Guarding
<1>14. KnownOK(t1, e, st, scn)
  BY <1>0, <1>1, <1>8, <1>e DEF KnownOK, SameState
<1>15. PageOK(t1, e, f1)
  <2> SUFFICES ASSUME NEW pg2 \in AnyPage PROVE BufferOK(t1, e, pg2, f1[pg2])
    BY DEF PageOK
  <2>1. CASE pg2 = pg
    <3>1. BufferOK(t1, e, pg, g1)
      BY <1>a, <1>1, <1>7, <1>8, <1>9, <1>11 DEF BufferOK, Using, Guarding
    <3> QED BY <1>10, <2>1, <3>1
  <2>2. CASE pg2 # pg
    <3> DEFINE k == f[pg2]
    <3>1. BufferOK(t, b, pg2, k) /\ t.page # pg2
      BY <1>0, <1>a, <2>2 DEF PageOK
    <3> HIDE DEF k
    <3>2. BufferOK(t1, e, pg2, k)
      BY <1>1, <1>8, <1>e, <3>1 DEF BufferOK, Using, Guarding, SameState
    <3> QED BY <1>10, <2>2, <3>2 DEF k
  <2> QED BY <2>1, <2>2
<1>16. HeaderOK(t1, e, f1[Header], st, scn, delta.alloc)
  <2>1. f1[Header].valid => f1[Header].page.st = st /\ f1[Header].page.scn = scn
    <3>1. CASE pg # Header
      BY <1>0, <1>1, <1>10, <3>1 DEF HeaderOK
    <3>2. CASE pg = Header
      <4>2. HeaderStored
        BY DEF IInv
      <4>3. ~\E d \in Client : Torn1(d)
        <5> SUFFICES ASSUME NEW d \in Client, Torn1(d) PROVE FALSE
          OBVIOUS
        <5>1. /\ th[d].pc = "hwrite" /\ buf[Home[d]][Header].half
              /\ PageOK(th[d], bm[Home[d]], buf[Home[d]])
          BY OfClient DEF Torn1
        <5>2. buf[Home[d]][Header].lock = LCK_write
          BY <1>0, <5>1 DEF PageOK, BufferOK
        <5>3. d # c
          BY <1>1, <5>1
        <5>4. g.lock # LCK_none
          BY <1>a, <1>1, <1>7 DEF BufferOK, Using
        <5>5. Clash(g.lock, buf[Home[d]][Header].lock)
          BY <5>2, <5>4 DEF Clash, LCK_none, LCK_write
        <5> QED BY <1>0, <3>2, <5>3, <5>5 DEF IInv, Exclusive, g
      <4>4. page.st = st /\ page.scn = scn
        BY <1>4, <1>t, <3>2, <4>2, <4>3 DEF HeaderStored
      <4> QED BY <1>9, <1>10, <3>2, <4>4
    <3> QED BY <3>1, <3>2
  <2> QED BY <1>8, <2>1 DEF HeaderOK
<1>17. TableOK(t1, e, st, scn, delta.alloc)
  BY <1>1, <1>8, <1>e DEF TableOK
<1>18. Contains(W, Home[c], f1)
  <2> SUFFICES ASSUME NEW pg2 \in AnyPage
               PROVE  /\ DiffOK(W, f1[pg2], pg2, st, delta.alloc)
                      /\ CacheOK(W, f1[pg2], pg2, stored[pg2])
                      /\ StampOK(f1[pg2], pg2, scn)
                      /\ f1[pg2].half = f[pg2].half /\ f1[pg2].lock = f[pg2].lock
    BY DEF Contains
  <2>1. CASE pg2 = pg
    BY <1>5, <1>6, <1>9, <1>10, <1>11, <2>1 DEF DiffOK, CacheOK, StampOK, g
  <2>2. CASE pg2 # pg
    BY <1>10, <2>2 DEF IInv, Buffers
  <2> QED BY <2>1, <2>2
<1>b1. PICK b1 : b1 = IF over THEN EndOf(c, e) ELSE e
  OBVIOUS
<1>19. /\ LockOK(t1, b1) /\ KnownOK(t1, b1, st, scn) /\ PageOK(t1, b1, f1)
       /\ SameTable(e, b1) /\ b1.master = e.master /\ b1 \in Manager
       /\ b1.stateLock \in {LCK_none, e.stateLock}
  <2>1. CASE ~over
    BY <1>b1, <1>13, <1>14, <1>15, <1>e, <2>1 DEF SameTable
  <2>2. CASE over
    <3>1. b1 = EndOf(c, e)
      BY <1>b1, <2>2
    <3>2. \A pg2 \in AnyPage : f1[pg2].nbak = f[pg2].nbak
      BY <1>9, <1>10 DEF g
    <3>3. Rests(c, t1, e, f1, st, scn)
      BY <1>8, <1>13, <1>14, <1>15, <2>2, <3>2 DEF Rests
    <3> HIDE DEF st, scn
    <3> QED BY <1>e, <3>1, <3>3, Unlocked
  <2> QED BY <2>1, <2>2
<1>20. /\ bm'[Home[c]] = b1 /\ \A d \in Client \ {c} : bm'[Home[d]] = L[Home[d]]
       /\ bm' \in [Process -> Manager]
  <2>1. L \in [Process -> Manager] /\ Home[c] \in Process
    BY <1>4, OneThread DEF Beside
  <2>2. bm' = [L EXCEPT ![Home[c]] = b1]
    BY <1>2, <1>b1, <2>1 DEF e
  <2> QED BY <1>19, <2>1, <2>2, OneThread
<1>21. Beside(c, bm')
  <2>1. \A d \in Client : bm'[Home[d]].allocLock = L[Home[d]].allocLock
    BY <1>19, <1>20 DEF SameTable, e
  <2> QED BY <1>4, <1>20, <2>1 DEF Beside
<1>22. Shows(t1, b1, f1)
  <2>1. TableOK(t1, b1, st, scn, delta.alloc)
    BY <1>17, <1>19 DEF TableOK, SameTable, Recent
  <2>2. HeaderOK(t1, b1, f1[Header], st, scn, delta.alloc)
    BY <1>8, <1>16 DEF HeaderOK
  <2> QED BY <1>12, <1>19, <2>1, <2>2 DEF Shows
<1>23. b1.master = b.master /\ b1.stateLock \in {LCK_none, b.stateLock}
  BY <1>19, <1>e DEF SameState
<1>24. th'[c] = t1 /\ buf'[Home[c]] = f1
  BY <1>2, OneThread DEF IInv, Types
<1>25. ASSUME Elsewhere(c), HalfStays(c), Types' PROVE MergeOK(W, c)'
  <2>1. /\ Active(c)' => Active(c)
        /\ Going(c)' => /\ Going(c) /\ th'[c].op = t.op
                        /\ t.op = "merge" => t.left \subseteq th'[c].left
        /\ th'[c].pc # "release"
    BY <1>1, <1>8, <1>24 DEF Active, Going
  <2>2. \A pg2 \in AnyPage : f[pg2].dirty => buf'[Home[c]][pg2].dirty
    BY <1>9, <1>10, <1>24 DEF g
  <2> QED BY <1>1, <1>25, <2>1, <2>2, MergeStays
<1>26. EndLocked'
  BY <1>1, <1>2, <1>8, <1>24 DEF IInv, EndLocked, Types
<1>27. OtherTypes'
  BY <1>1 DEF IInv, Types, OtherTypes
<1> QED BY <1>1, <1>2, <1>8, <1>10, <1>18, <1>20, <1>21, <1>22, <1>23, <1>25, <1>26, <1>27,
           AllocStep

\* MarksMerge keeps the invariant: the header page goes to the delta, too, if
\* it is in the table.
LEMMA StepMarksMerge ==
    ASSUME NEW W, Classic, IInv(W), NEW c \in Client, MarksMerge(c)
    PROVE  IInv(W)'
<1> DEFINE t == th[c]
           b0 == bm[Home[c]]
           f == buf[Home[c]]
           g == f[Header]
           st == main[Header].st
           scn == main[Header].scn
           t1 == [t EXCEPT !.pc = "hwrite"]
<1>0. /\ t \in Thread /\ b0 \in Manager /\ f \in [AnyPage -> Buffer]
      /\ Shape(t) /\ LockOK(t, b0) /\ PageOK(t, b0, f)
      /\ KnownOK(t, b0, st, scn)
      /\ TableOK(t, b0, st, scn, delta.alloc) /\ Header \in AnyPage
  BY OfClient
<1>a. PICK k : k = extendDatabase(b0)
  OBVIOUS
<1>b. PICK b : b = [k EXCEPT !.state = "merge", !.scn = @ + 1]
  OBVIOUS
<1>c. PICK L : L = getPageIndex(Home[c], b, Header)
  OBVIOUS
<1>d. PICK i : i = findPageIndex(L[Home[c]], Header)
  OBVIOUS
<1>e. PICK g1 : g1 = MarkedHeader(Home[c], "merge", b.scn, i)
  OBVIOUS
<1> DEFINE f1 == [f EXCEPT ![Header] = g1]
           b1 == L[Home[c]]
<1>1. /\ t.pc = "guarded" /\ t.op \in {"end", "recover"} /\ ~InvalidState(c)
      /\ bm' = L /\ th' = [th EXCEPT ![c] = t1] /\ buf' = [buf EXCEPT ![Home[c]] = f1]
      /\ UNCHANGED <<ast, endLock, main, delta, stored, snap, changes, calls, deaths>>
  BY <1>a, <1>b, <1>c, <1>d, <1>e DEF MarksMerge, files, bounds
<1>2. /\ b0.stateLock = LCK_write /\ ~t.guard /\ ~t.wait /\ t.page = Header
      /\ b0.scn = scn /\ b0.state = st /\ st \in {"stalled", "merge"} /\ b0.open
      /\ scn \in Nat
  <2>1. b0.stateLock = LCK_write /\ ~t.guard /\ ~t.wait /\ t.page = Header
    BY <1>0, <1>1 DEF LockOK, Shape, Guarding
  <2>2. b0.scn = scn /\ b0.state = st /\ (st # "normal" => b0.open)
    BY <1>0, <1>1, <2>1 DEF KnownOK, LCK_none, LCK_write
  <2>3. b0.state = "stalled" \/ b0.state = "merge"
    BY <1>1 DEF InvalidState
  <2> QED BY <2>1, <2>2, <2>3, HeaderFields
<1>3. /\ k \in Manager /\ k.loaded
      /\ k.state = b0.state /\ k.scn = b0.scn /\ k.open = b0.open /\ k.master = b0.master
      /\ k.blocking = b0.blocking /\ k.stateLock = b0.stateLock
      /\ k.allocLock = b0.allocLock
      /\ TableOK(t1, k, st, scn, delta.alloc)
  <2> HIDE DEF t1
  <2> QED BY <1>a, <1>2, ExtendFields
<1>4. /\ b \in Manager /\ b.loaded /\ b.state = "merge" /\ b.scn = scn + 1
      /\ b.open /\ b.master = b0.master /\ b.table = k.table
      /\ b.blocking = b0.blocking /\ b.stateLock = LCK_write
      /\ b.allocLock = b0.allocLock /\ b.allocIsValid = k.allocIsValid
  <2>1. PICK n \in Nat : n = k.scn + 1
    BY <1>2, <1>3
  <2>2. "merge" \in State
    BY DEF State
  <2>3. b = [k EXCEPT !.state = "merge", !.scn = n]
    BY <1>b, <2>1
  <2> HIDE DEF b0
  <2> QED BY <1>2, <1>3, <2>1, <2>2, <2>3 DEF Manager
<1> HIDE DEF b0
<1>5. Recent(k, st, scn)
  BY <1>2, <1>3 DEF Recent
<1>6. /\ Ready(b) /\ b.allocLock = bm[Home[c]].allocLock
      /\ b.state = "merge" /\ b.allocIsValid => b.loaded /\ b.table = delta.alloc
  BY <1>3, <1>4, <1>5 DEF TableOK, Ready, b0
<1>7. /\ Looked(c, b, L) /\ i \in Nat
      /\ i # 0 => i \in DOMAIN delta.alloc /\ delta.alloc[i] = Header
      /\ i = 0 => ~Mapped(delta.alloc, Header)
  BY <1>c, <1>d, <1>6, PageIndexFields
<1>8. SameState(b, b1) /\ b1.loaded /\ (b1 = b \/ (b1.table = delta.alloc /\ b1.allocLock # LCK_none))
  BY <1>4, <1>7 DEF Looked
<1>9. Beside(c, bm') /\ bm'[Home[c]] = b1
  BY <1>1, <1>7 DEF Beside, Looked
<1> HIDE DEF b1
<1>10. /\ b1.state = "merge" /\ b1.scn = scn + 1 /\ b1.open /\ b1.loaded
       /\ b1.master = b0.master /\ b1.blocking = b0.blocking /\ b1.stateLock = LCK_write
  BY <1>4, <1>8 DEF SameState
<1>11. TableOK(t1, b1, st, scn, delta.alloc)
  <2>1. CASE b1 = b
    BY <1>2, <1>3, <1>4, <1>5, <2>1 DEF TableOK, Recent
  <2>2. CASE b1.table = delta.alloc /\ b1.allocLock # LCK_none
    <3>1. NoRepeats(delta.alloc) /\ delta.alloc \in Seq(AnyPage)
      BY DEF IInv, Files, Types, Delta
    <3>2. Prefix(delta.alloc, delta.alloc)
      BY <3>1 DEF Prefix
    <3> QED BY <1>2, <1>10, <2>2, <3>1, <3>2 DEF TableOK
  <2> QED BY <1>8, <2>1, <2>2
<1>12. /\ t1 \in Thread /\ t1.pc = "hwrite" /\ t1.op = t.op /\ t1.wait = t.wait
       /\ t1.page = t.page /\ t1.guard = t.guard /\ t1.left = t.left
  BY <1>0, <1>1 DEF Thread, PC
<1> HIDE DEF t1
<1>13. /\ g1 \in Buffer /\ g1.dirty /\ g1.diff = i
       /\ g1.lock = g.lock /\ g1.valid = g.valid /\ g1.nbak = g.nbak /\ g1.half = g.half
       /\ g1.page.st = "merge" /\ g1.page.scn = scn + 1 /\ g1.page.ver = g.page.ver
  <2>1. "merge" \in {"normal", "stalled", "merge"} /\ b.scn \in Nat
    BY <1>4 DEF Manager
  <2> HIDE DEF g
  <2> QED BY <1>e, <1>4, <1>7, <2>1, MarkedFields DEF g
<1>14. /\ f1 \in [AnyPage -> Buffer] /\ f1[Header] = g1
       /\ \A pg \in AnyPage \ {Header} : f1[pg] = f[pg]
  BY <1>0, <1>13
<1> HIDE DEF f1
<1>15. \A pg \in AnyPage : ~f[pg].nbak /\ ~f[pg].dirty /\ ~f[pg].half /\ f[pg].diff = 0
  BY <1>0, <1>1, GuardedPages DEF Guarding
<1>16. g.lock = LCK_write /\ g.valid /\ CacheOK(W, g, Header, stored[Header])
  <2>1. BufferOK(t, b0, Header, g)
    BY <1>0 DEF PageOK
  <2>2. g.lock = LCK_write /\ g.valid
    BY <1>1, <1>2, <2>1 DEF BufferOK, Using, Guarding
  <2> QED BY <1>0, <2>2 DEF IInv, Buffers
<1>17. Shows(t1, b1, f1)
  <2>1. Shape(t1)
    BY <1>1, <1>2, <1>12 DEF Shape, Guarding, GuardOp
  <2>2. LockOK(t1, b1)
    BY <1>0, <1>1, <1>2, <1>10, <1>12 DEF LockOK, Guarding, MasterOp, GuardOp, LCK_none, LCK_write
  <2>3. KnownOK(t1, b1, st, scn)
    BY <1>1, <1>12 DEF KnownOK
  <2>4. PageOK(t1, b1, f1)
    <3> SUFFICES ASSUME NEW pg \in AnyPage PROVE BufferOK(t1, b1, pg, f1[pg])
      BY DEF PageOK
    <3>1. CASE pg = Header
      <4>1. ~g1.nbak /\ ~g1.half
        BY <1>0, <1>13, <1>15
      <4>2. BufferOK(t1, b1, Header, g1)
        BY <1>1, <1>2, <1>12, <1>13, <1>16, <4>1
           DEF BufferOK, Using, Guarding, LCK_none, LCK_write
      <4> QED BY <1>14, <3>1, <4>2
    <3>2. CASE pg # Header
      <4> DEFINE m == f[pg]
      <4>1. BufferOK(t, b0, pg, m) /\ ~m.nbak /\ ~m.dirty
        BY <1>0, <1>15 DEF PageOK
      <4> HIDE DEF m
      <4>2. BufferOK(t1, b1, pg, m)
        BY <1>2, <1>12, <3>2, <4>1, ClearPage
      <4> QED BY <1>14, <3>2, <4>2 DEF m
    <3> QED BY <3>1, <3>2
  <2>5. HeaderOK(t1, b1, f1[Header], st, scn, delta.alloc)
    <3>1. i # 0 <=> Mapped(delta.alloc, Header)
      BY <1>7 DEF Mapped
    <3> QED BY <1>1, <1>2, <1>10, <1>12, <1>13, <1>14, <3>1 DEF HeaderOK
  <2> QED BY <1>11, <2>1, <2>2, <2>3, <2>4, <2>5 DEF Shows
<1>18. Contains(W, Home[c], f1)
  <2> SUFFICES ASSUME NEW pg \in AnyPage
               PROVE  /\ DiffOK(W, f1[pg], pg, st, delta.alloc)
                      /\ CacheOK(W, f1[pg], pg, stored[pg])
                      /\ StampOK(f1[pg], pg, scn)
                      /\ f1[pg].half = f[pg].half /\ f1[pg].lock = f[pg].lock
    BY DEF Contains
  <2>1. CASE pg = Header
    <3>1. ~g1.nbak /\ ~g1.half /\ g1.page.ver >= 1
      BY <1>0, <1>13, <1>15, <1>16 DEF CacheOK
    <3>2. /\ DiffOK(W, g1, Header, st, delta.alloc)
          /\ CacheOK(W, g1, Header, stored[Header]) /\ StampOK(g1, Header, scn)
      BY <1>2, <1>7, <1>13, <3>1 DEF DiffOK, CacheOK, StampOK
    <3> QED BY <1>13, <1>14, <2>1, <3>2
  <2>2. CASE pg # Header
    BY <1>14, <2>2 DEF IInv, Buffers
  <2> QED BY <2>1, <2>2
<1>19. th'[c] = t1 /\ buf'[Home[c]] = f1
  BY <1>1, OneThread DEF IInv, Types
<1>20. ASSUME Elsewhere(c), HalfStays(c), Types' PROVE MergeOK(W, c)'
  <2>1. ~Active(c)' /\ ~Going(c)'
    BY <1>1, <1>12, <1>13, <1>14, <1>19 DEF Active, Going
  <2> QED BY <1>1, <1>12, <1>19, <2>1 DEF MergeOK
<1>21. EndLocked'
  BY <1>1, <1>12, <1>19 DEF IInv, EndLocked, Types, EndOp
<1>22. OtherTypes'
  BY <1>1 DEF IInv, Types, OtherTypes
<1>23. b1.master = bm[Home[c]].master /\ b1.stateLock \in {LCK_none, bm[Home[c]].stateLock}
  BY <1>2, <1>10 DEF b0
<1>24. t.pc # "hwrite"
  BY <1>1
<1> QED BY <1>1, <1>9, <1>12, <1>14, <1>17, <1>18, <1>20, <1>21, <1>22, <1>23, <1>24, AllocStep

=============================================================================
