--------------------------- MODULE NBackupProofs ---------------------------
(***************************************************************************)
(* The rest of the proof that IInv(W) is an invariant: the marking of      *)
(* pages, for which the delta grows, the steps that write files, the death *)
(* of a process and the initial state; and what follows from it, the       *)
(* properties of NBackup and the harm that a step can do them.             *)
(***************************************************************************)
EXTENDS NBackupStateProofs

-----------------------------------------------------------------------------
(* CCH_mark. *)

\* A thread that marks a page knows the state.
LEMMA MarksKnown ==
    ASSUME NEW W, Classic, IInv(W), NEW c \in Client, th[c].pc = "have", Marks(c),
           buf[Home[c]][th[c].page].nbak, ~th[c].wait
    PROVE  /\ bm[Home[c]].stateLock # LCK_none
           /\ bm[Home[c]].state = main[Header].st /\ bm[Home[c]].scn = main[Header].scn
           /\ th[c].op \in {"write", "merge"} /\ th[c].page \in AnyPage
<1> DEFINE t == th[c]
           b == bm[Home[c]]
<1>1. /\ t \in Thread /\ PageOK(t, b, buf[Home[c]])
      /\ KnownOK(t, b, main[Header].st, main[Header].scn)
  BY OfClient
<1>2. t.op \in {"write", "merge"} /\ t.page \in AnyPage
  BY <1>1 DEF Marks, Thread
<1>3. b.stateLock # LCK_none
  BY <1>1, <1>2 DEF PageOK, BufferOK
<1> QED BY <1>1, <1>2, <1>3 DEF KnownOK

\* What thread c that has marked page pg shows of itself, with manager e and
\* buffers f1, but for the table and the index.
Marked(W, c, pg, i, t1, e, f1) ==
    /\ t1 \in Thread /\ t1.pc = "marked" /\ t1.op = th[c].op /\ t1.left = th[c].left
    /\ Shape(t1) /\ LockOK(t1, e) /\ PageOK(t1, e, f1)
    /\ KnownOK(t1, e, main[Header].st, main[Header].scn)
    /\ f1[Header].valid =>
         f1[Header].page.st = main[Header].st /\ f1[Header].page.scn = main[Header].scn
    /\ f1 \in [AnyPage -> Buffer] /\ f1[pg].diff = i /\ f1[pg].dirty
    /\ \A pg2 \in AnyPage \ {pg} : f1[pg2] = buf[Home[c]][pg2]
    /\ \A pg2 \in AnyPage :
         /\ CacheOK(W, f1[pg2], pg2, stored[pg2])
         /\ StampOK(f1[pg2], pg2, main[Header].scn)
         /\ f1[pg2].half = buf[Home[c]][pg2].half /\ f1[pg2].lock = buf[Home[c]][pg2].lock

\* A marked page is dirty, has the SCN of the state and goes to page i.
LEMMA MarkedPage ==
    ASSUME NEW W, Classic, IInv(W), NEW c \in Client, th[c].pc = "have", Marks(c),
           buf[Home[c]][th[c].page].nbak, ~buf[Home[c]][th[c].page].half, ~th[c].wait,
           NEW pg \in AnyPage, pg = th[c].page, NEW i \in Nat, NEW n \in Nat,
           NEW g1, g1 = MarkedBuffer(Home[c], pg, n, i),
           NEW t1, t1 = [th[c] EXCEPT !.pc = "marked"],
           NEW f1, f1 = [buf[Home[c]] EXCEPT ![pg] = g1],
           NEW e \in Manager, SameState(bm[Home[c]], e)
    PROVE  Marked(W, c, pg, i, t1, e, f1)
<1> DEFINE t == th[c]
           b == bm[Home[c]]
           f == buf[Home[c]]
           g == f[pg]
           st == main[Header].st
           scn == main[Header].scn
<1>0. /\ t \in Thread /\ b \in Manager /\ f \in [AnyPage -> Buffer]
      /\ Shape(t) /\ LockOK(t, b) /\ PageOK(t, b, f)
      /\ KnownOK(t, b, st, scn) /\ Header \in AnyPage
      /\ HeaderOK(t, b, f[Header], st, scn, delta.alloc)
  BY OfClient
<1>1. /\ b.stateLock # LCK_none /\ b.state = st /\ b.scn = scn
      /\ t.op \in {"write", "merge"} /\ t.pc = "have" /\ ~t.wait
  BY MarksKnown
<1>2. g \in Buffer /\ BufferOK(t, b, pg, g) /\ g.nbak /\ ~g.half /\ scn \in Nat
  BY <1>0, HeaderFields DEF PageOK
<1>3. /\ t1 \in Thread /\ t1.pc = "marked" /\ t1.op = t.op /\ ~t1.wait
      /\ t1.page = t.page /\ t1.guard = t.guard /\ t1.left = t.left
  BY <1>0, <1>1 DEF Thread, PC
<1>4. /\ g1 \in Buffer /\ g1.dirty /\ g1.diff = i
      /\ g1.lock = g.lock /\ g1.valid = g.valid /\ g1.nbak = g.nbak /\ g1.half = g.half
      /\ g1.page.ver >= g.page.ver /\ g1.page.st = g.page.st
      /\ pg = Header => g1.page.scn = g.page.scn
      /\ pg # Header => g1.page.scn = scn
  <2>0. g.page.ver \in Nat
    BY <1>2 DEF Buffer, Contents
  <2>a. PICK v : v = g.page.ver + n
    OBVIOUS
  <2>1. v \in Nat /\ v >= g.page.ver
    BY <2>0, <2>a
  <2>2. PICK s \in Nat : s = IF pg = Header THEN g.page.scn ELSE scn
    BY <1>2 DEF Buffer, Contents
  <2>3. g1 = [g EXCEPT !.dirty = TRUE, !.diff = i, !.page.ver = @ + n,
                       !.page.scn = IF pg = Header THEN @ ELSE b.scn]
    BY DEF MarkedBuffer
  <2> DEFINE u == [g.page EXCEPT !.ver = v, !.scn = s]
  <2> HIDE DEF g, b
  <2>4. g.page \in Contents
    BY <1>2 DEF Buffer
  <2>5. u \in Contents /\ u.st = g.page.st /\ u.ver = v /\ u.scn = s
    BY <2>1, <2>4 DEF Contents
  <2>6. g1 = [g EXCEPT !.dirty = TRUE, !.diff = i, !.page = u]
    <3>1. /\ [g.page EXCEPT !.ver = @ + n].scn = g.page.scn
          /\ [g.page EXCEPT !.ver = @ + n] = [g.page EXCEPT !.ver = v]
      BY <2>a, <2>4 DEF Contents
    <3> DEFINE m == [g EXCEPT !.dirty = TRUE, !.diff = i, !.page.ver = @ + n]
    <3>2. m = [g EXCEPT !.dirty = TRUE, !.diff = i, !.page = [g.page EXCEPT !.ver = v]]
      BY <1>2, <3>1 DEF Buffer
    <3>3. m.page = [g.page EXCEPT !.ver = v]
      BY <1>2, <3>2 DEF Buffer
    <3>4. g1 = [m EXCEPT !.page.scn = s]
      BY <1>1, <2>2, <2>3, <3>1, <3>3
    <3> HIDE DEF m
    <3>5. g1 = [m EXCEPT !.page = [m.page EXCEPT !.scn = s]]
      BY <3>4
    <3>6. [m.page EXCEPT !.scn = s] = u
      BY <3>3
    <3> HIDE DEF u
    <3> QED BY <1>2, <3>2, <3>5, <3>6 DEF Buffer
  <2> HIDE DEF u
  <2>7. /\ g1 \in Buffer /\ g1.dirty /\ g1.diff = i
        /\ g1.lock = g.lock /\ g1.valid = g.valid /\ g1.nbak = g.nbak /\ g1.half = g.half
        /\ g1.page = u
    BY <1>2, <2>5, <2>6 DEF Buffer
  <2> QED BY <2>1, <2>2, <2>5, <2>7
<1>5. /\ f1 \in [AnyPage -> Buffer] /\ f1[pg] = g1
      /\ \A pg2 \in AnyPage \ {pg} : f1[pg2] = f[pg2]
  BY <1>0, <1>4
<1>6. Shape(t1)
  BY <1>0, <1>1, <1>3 DEF Shape, Guarding, GuardOp
<1>7. LockOK(t1, e)
  BY <1>0, <1>1, <1>3 DEF LockOK, Shape, SameState, Guarding, MasterOp, GuardOp
<1>8. KnownOK(t1, e, st, scn)
  BY <1>0, <1>1, <1>3 DEF KnownOK, SameState
<1>9. PageOK(t1, e, f1)
  <2> SUFFICES ASSUME NEW pg2 \in AnyPage PROVE BufferOK(t1, e, pg2, f1[pg2])
    BY DEF PageOK
  <2>1. CASE pg2 = pg
    <3> HIDE DEF g, b
    <3>1. e.stateLock # LCK_none
      BY <1>1 DEF SameState, b
    <3>2. g.lock = LCK_write /\ g.valid
      BY <1>1, <1>2 DEF BufferOK
    <3>3. t1.page = pg
      BY <1>3
    <3>4. BufferOK(t1, e, pg, g1)
      BY <1>1, <1>2, <1>3, <1>4, <3>1, <3>2, <3>3
         DEF BufferOK, Using, Guarding, LCK_none, LCK_write
    <3> QED BY <1>5, <2>1, <3>4
  <2>2. CASE pg2 # pg
    <3> DEFINE k == f[pg2]
    <3>1. BufferOK(t, b, pg2, k) /\ t.page # pg2
      BY <1>0, <2>2 DEF PageOK
    <3> HIDE DEF k
    <3>2. BufferOK(t1, e, pg2, k)
      BY <1>1, <1>3, <3>1 DEF BufferOK, Using, Guarding, SameState
    <3> QED BY <1>5, <2>2, <3>2 DEF k
  <2> QED BY <2>1, <2>2
<1>10. f1[Header].valid => f1[Header].page.st = st /\ f1[Header].page.scn = scn
  BY <1>0, <1>1, <1>4, <1>5 DEF HeaderOK
<1>11. ASSUME NEW pg2 \in AnyPage
       PROVE  /\ CacheOK(W, f1[pg2], pg2, stored[pg2])
              /\ StampOK(f1[pg2], pg2, scn)
              /\ f1[pg2].half = f[pg2].half /\ f1[pg2].lock = f[pg2].lock
  <2>1. CASE pg2 = pg
    <3>1. CacheOK(W, g, pg, stored[pg])
      BY DEF IInv, Buffers
    <3>2. g.page.ver \in Nat /\ g1.page.ver \in Nat
      BY <1>2, <1>4 DEF Buffer, Contents
    <3>3. g1.valid => g1.page.ver >= 1
      BY <1>4, <3>1, <3>2 DEF CacheOK
    <3> QED BY <1>2, <1>4, <1>5, <2>1, <3>3 DEF CacheOK, StampOK
  <2>2. CASE pg2 # pg
    BY <1>5, <2>2 DEF IInv, Buffers
  <2> QED BY <2>1, <2>2
<1> QED BY <1>3, <1>4, <1>5, <1>6, <1>7, <1>8, <1>9, <1>10, <1>11 DEF Marked

\* What CCH_mark has found: managers L and page i of the delta, 0 if the page
\* is not mapped.
Finds(c, pg, L, i) ==
    /\ L = IF bm[Home[c]].state = "normal" THEN bm ELSE getPageIndex(Home[c], bm[Home[c]], pg)
    /\ i = IF bm[Home[c]].state = "normal" THEN 0 ELSE findPageIndex(L[Home[c]], pg)

\* It is the page of the delta where there is one.
LEMMA FindsPage ==
    ASSUME NEW W, Classic, IInv(W), NEW c \in Client, th[c].pc = "have",
           bm[Home[c]].state = main[Header].st, bm[Home[c]].scn = main[Header].scn,
           NEW pg, Trusts(W, c, pg), NEW L, NEW i, Finds(c, pg, L, i)
    PROVE  /\ Beside(c, L) /\ SameState(bm[Home[c]], L[Home[c]])
           /\ TableOK(th[c], L[Home[c]], main[Header].st, main[Header].scn, delta.alloc)
           /\ i \in Nat
           /\ i # 0 => /\ main[Header].st # "normal"
                       /\ i \in DOMAIN delta.alloc /\ delta.alloc[i] = pg
           /\ i = 0 /\ main[Header].st # "normal" =>
                /\ (pg \in W \/ main[Header].st = "stalled") => ~Mapped(delta.alloc, pg)
                /\ Ready(L[Home[c]])
                /\ L[Home[c]].allocLock \in {LCK_read, bm[Home[c]].allocLock}
<1>1. CASE bm[Home[c]].state = "normal"
  <2>1. L = bm /\ i = 0
    BY <1>1 DEF Finds
  <2>2. Beside(c, bm)
    BY DEF Beside, IInv, Types, Tables, Exclusive, Kept
  <2> QED BY <1>1, <2>1, <2>2, OfClient DEF SameState
<1>2. CASE bm[Home[c]].state # "normal"
  <2>1. L = getPageIndex(Home[c], bm[Home[c]], pg) /\ i = findPageIndex(L[Home[c]], pg)
    BY <1>2 DEF Finds
  <2>2. th[c].pc # "hwrite"
    OBVIOUS
  <2> QED BY <1>2, <2>1, <2>2, KnownLooked
<1> QED BY <1>1, <1>2

\* The step of CCH_mark that marks page pg for page i of the delta, n for a
\* change of its version, with the managers L.
MarksAt(c, pg, n, i, L) ==
    /\ bm' = L
    /\ buf' = [buf EXCEPT ![Home[c]][pg] = MarkedBuffer(Home[c], pg, n, i)]
    /\ th' = [th EXCEPT ![c].pc = "marked"]
    /\ UNCHANGED <<ast, endLock, main, stored, snap, changes, calls, deaths>>

\* The step of CCH_mark that leaves the delta alone keeps the invariant.
LEMMA StepMarkFound ==
    ASSUME NEW W, Classic, IInv(W), NEW c \in Client, th[c].pc = "have", Marks(c),
           buf[Home[c]][th[c].page].nbak, ~buf[Home[c]][th[c].page].half, ~th[c].wait,
           NEW pg \in AnyPage, pg = th[c].page, Trusts(W, c, pg),
           NEW L, NEW i, Finds(c, pg, L, i),
           NEW n \in Nat, bm[Home[c]].state # "stalled" \/ i # 0,
           MarksAt(c, pg, n, i, L), UNCHANGED delta
    PROVE  IInv(W)'
<1>0. /\ bm' = L
      /\ buf' = [buf EXCEPT ![Home[c]][pg] = MarkedBuffer(Home[c], pg, n, i)]
      /\ th' = [th EXCEPT ![c].pc = "marked"]
      /\ UNCHANGED <<ast, endLock, main, stored, snap, changes, calls, deaths>>
  BY DEF MarksAt
<1> USE <1>0
<1> DEFINE t == th[c]
           b == bm[Home[c]]
           f == buf[Home[c]]
           st == main[Header].st
           scn == main[Header].scn
<1>a. PICK g1 : g1 = MarkedBuffer(Home[c], pg, n, i)
  OBVIOUS
<1>b. PICK t1 : t1 = [t EXCEPT !.pc = "marked"]
  OBVIOUS
<1>c. PICK f1 : f1 = [f EXCEPT ![pg] = g1]
  OBVIOUS
<1>d. PICK e : e = L[Home[c]]
  OBVIOUS
<1>1. /\ b.stateLock # LCK_none /\ b.state = st /\ b.scn = scn /\ t.op \in {"write", "merge"}
  BY MarksKnown
<1>2. /\ Beside(c, L) /\ SameState(b, e)
      /\ TableOK(t, e, st, scn, delta.alloc) /\ i \in Nat
      /\ i # 0 => st # "normal" /\ i \in DOMAIN delta.alloc /\ delta.alloc[i] = pg
      /\ i = 0 /\ st # "normal" /\ pg \in W => ~Mapped(delta.alloc, pg)
  BY <1>d, <1>1, FindsPage
<1>3. e \in Manager
  BY <1>2, <1>d, OneThread DEF Beside
<1>4. Marked(W, c, pg, i, t1, e, f1)
  BY <1>a, <1>b, <1>c, <1>2, <1>3, MarkedPage
<1>5. /\ th' = [th EXCEPT ![c] = t1] /\ buf' = [buf EXCEPT ![Home[c]] = f1]
      /\ bm'[Home[c]] = e
  BY <1>a, <1>b, <1>c, <1>d
<1>6. th'[c] = t1 /\ buf'[Home[c]] = f1
  BY <1>5, OneThread DEF IInv, Types
<1>7. Shows(t1, e, f1)
  <2>1. HeaderOK(t1, e, f1[Header], st, scn, delta.alloc)
    BY <1>4 DEF Marked, HeaderOK
  <2>2. TableOK(t1, e, st, scn, delta.alloc)
    BY <1>2, <1>4 DEF Marked, TableOK
  <2> QED BY <1>4, <2>1, <2>2 DEF Marked, Shows
<1>8. Contains(W, Home[c], f1)
  <2> SUFFICES ASSUME NEW pg2 \in AnyPage PROVE DiffOK(W, f1[pg2], pg2, st, delta.alloc)
    BY <1>4 DEF Contains, Marked
  <2>1. CASE pg2 = pg
    <3>1. f1[pg].diff = i
      BY <1>4 DEF Marked
    <3>2. /\ st = "stalled" => i # 0
          /\ pg \in W /\ st = "merge" /\ Mapped(delta.alloc, pg) => i # 0
      BY <1>1, <1>2
    <3> QED BY <1>2, <2>1, <3>1, <3>2 DEF DiffOK
  <2>2. CASE pg2 # pg
    <3>1. f1[pg2] = f[pg2]
      BY <1>4, <2>2 DEF Marked
    <3> QED BY <3>1 DEF IInv, Buffers
  <2> QED BY <2>1, <2>2
<1>9. ASSUME Elsewhere(c), HalfStays(c), Types' PROVE MergeOK(W, c)'
  <2>1. t1.op = t.op /\ t1.left = t.left /\ t1.pc = "marked"
    BY <1>4 DEF Marked
  <2>2. /\ Active(c)' => Active(c)
        /\ Going(c)' => /\ Going(c) /\ th'[c].op = t.op
                        /\ t.op = "merge" => t.left \subseteq th'[c].left
        /\ th'[c].pc # "release"
    BY <1>6, <2>1 DEF Active, Going
  <2>3. \A pg2 \in AnyPage : f[pg2].dirty => buf'[Home[c]][pg2].dirty
    BY <1>4, <1>6 DEF Marked
  <2> QED BY <1>9, <2>2, <2>3, MergeStays
<1>10. EndLocked'
  BY <1>4, <1>5, <1>6 DEF IInv, EndLocked, Types, Marked
<1>11. OtherTypes'
  BY DEF IInv, Types, OtherTypes
<1>12. e.master = b.master /\ e.stateLock \in {LCK_none, b.stateLock}
  BY <1>2 DEF SameState
<1>13. t1 \in Thread /\ f1 \in [AnyPage -> Buffer]
  BY <1>4 DEF Marked
<1>14. Beside(c, bm') /\ t.pc # "hwrite"
  BY <1>2
<1> QED BY <1>5, <1>7, <1>8, <1>9, <1>10, <1>11, <1>12, <1>13, <1>14, AllocStep

-----------------------------------------------------------------------------
(* Steps that change the delta. *)

\* The locks of the processes after a step of thread c.
LEMMA ExclusiveStep ==
    ASSUME NEW W, IInv(W), NEW c \in Client, Elsewhere(c), OwnLocks(c),
           \A d, k \in Client : d # k /\ bm'[Home[d]].allocLock = LCK_write =>
              bm'[Home[k]].allocLock = LCK_none
    PROVE  Exclusive'
<1> SUFFICES ASSUME NEW d \in Client, NEW k \in Client, d # k
             PROVE  /\ bm'[Home[d]].stateLock = LCK_write => bm'[Home[k]].stateLock = LCK_none
                    /\ bm'[Home[d]].allocLock = LCK_write => bm'[Home[k]].allocLock = LCK_none
                    /\ \A pg \in AnyPage :
                          ~Clash(buf'[Home[d]][pg].lock, buf'[Home[k]][pg].lock)
  BY DEF Exclusive
<1>1. bm'[Home[d]].allocLock = LCK_write => bm'[Home[k]].allocLock = LCK_none
  OBVIOUS
<1>2. CASE d = c
  <2>1. buf'[Home[k]] = buf[Home[k]] /\ Kept(bm[Home[k]], bm'[Home[k]])
    BY <1>2 DEF Elsewhere
  <2> QED BY <1>1, <1>2, <2>1 DEF OwnLocks, Kept
<1>3. CASE k = c
  <2>1. buf'[Home[d]] = buf[Home[d]] /\ Kept(bm[Home[d]], bm'[Home[d]])
    BY <1>3 DEF Elsewhere
  <2> QED BY <1>1, <1>3, <2>1 DEF OwnLocks, Kept, Clash
<1>4. CASE d # c /\ k # c
  <2>1. /\ buf'[Home[d]] = buf[Home[d]] /\ Kept(bm[Home[d]], bm'[Home[d]])
        /\ buf'[Home[k]] = buf[Home[k]] /\ Kept(bm[Home[k]], bm'[Home[k]])
    BY <1>4 DEF Elsewhere
  <2> QED BY <1>1, <1>4, <2>1 DEF IInv, Exclusive, Kept
<1> QED BY <1>2, <1>3, <1>4

\* What thread c, now t1 with manager b1 and buffers f1, shows of itself
\* against a table.
ShowsTable(W, t1, b1, f1, alloc) ==
    /\ Shape(t1) /\ LockOK(t1, b1)
    /\ KnownOK(t1, b1, main[Header].st, main[Header].scn)
    /\ PageOK(t1, b1, f1)
    /\ HeaderOK(t1, b1, f1[Header], main[Header].st, main[Header].scn, alloc)
    /\ TableOK(t1, b1, main[Header].st, main[Header].scn, alloc)
    /\ \A pg \in AnyPage :
         /\ DiffOK(W, f1[pg], pg, main[Header].st, alloc)
         /\ CacheOK(W, f1[pg], pg, stored[pg])
         /\ StampOK(f1[pg], pg, main[Header].scn)

\* The copies of the header page in a delta with table alloc and pages data are
\* those of the main file.
HeaderCopies(alloc, data) ==
    \A i \in DOMAIN alloc : main[Header].st # "normal" /\ alloc[i] = Header =>
       \/ data[i] = EmptyPage
       \/ data[i].st = main[Header].st /\ data[i].scn = main[Header].scn

\* The others go with the new table.
OthersTable(W, c, alloc) ==
    \A d \in Client \ {c} :
        /\ HeaderOK(th[d], bm[Home[d]], buf[Home[d]][Header], main[Header].st,
                    main[Header].scn, alloc)
        /\ TableOK(th[d], bm'[Home[d]], main[Header].st, main[Header].scn, alloc)
        /\ \A pg \in AnyPage : DiffOK(W, buf[Home[d]][pg], pg, main[Header].st, alloc)

\* A step that changes the delta, and nothing else on disk.
LEMMA DeltaStep ==
    ASSUME NEW W, Classic, IInv(W), NEW c \in Client, Types', Elsewhere(c),
           UNCHANGED <<main, stored, snap>>,
           ShowsTable(W, th'[c], bm'[Home[c]], buf'[Home[c]], delta'.alloc),
           OthersTable(W, c, delta'.alloc), OwnLocks(c),
           \A d, k \in Client : d # k /\ bm'[Home[d]].allocLock = LCK_write =>
              bm'[Home[k]].allocLock = LCK_none,
           \A d \in Client : ~Torn1(d), HeaderCopies(delta'.alloc, delta'.data),
           EndLocked', Files(W)', Merging(W)'
    PROVE  IInv(W)'
<1>1. Clients' /\ Headers'
  <2> SUFFICES ASSUME NEW d \in Client
               PROVE  /\ Shape(th'[d])
                      /\ LockOK(th'[d], bm'[Home[d]])
                      /\ KnownOK(th'[d], bm'[Home[d]], main[Header].st, main[Header].scn)
                      /\ PageOK(th'[d], bm'[Home[d]], buf'[Home[d]])
                      /\ HeaderOK(th'[d], bm'[Home[d]], buf'[Home[d]][Header],
                                  main[Header].st, main[Header].scn, delta'.alloc)
    BY DEF Clients, Headers
  <2>1. CASE d = c
    BY <2>1 DEF ShowsTable
  <2>2. CASE d # c
    <3>1. th'[d] = th[d] /\ buf'[Home[d]] = buf[Home[d]] /\ Kept(bm[Home[d]], bm'[Home[d]])
      BY <2>2 DEF Elsewhere
    <3>2. /\ Shape(th[d])
          /\ LockOK(th[d], bm[Home[d]])
          /\ KnownOK(th[d], bm[Home[d]], main[Header].st, main[Header].scn)
          /\ PageOK(th[d], bm[Home[d]], buf[Home[d]])
          /\ HeaderOK(th[d], bm[Home[d]], buf[Home[d]][Header],
                      main[Header].st, main[Header].scn, delta'.alloc)
      BY <2>2 DEF IInv, Clients, OthersTable
    <3> QED BY <3>1, <3>2, KeptOK
  <2> QED BY <2>1, <2>2
<1>2. Tables'
  <2> SUFFICES ASSUME NEW d \in Client
               PROVE  TableOK(th'[d], bm'[Home[d]], main[Header].st, main[Header].scn,
                              delta'.alloc)
    BY DEF Tables
  <2>1. CASE d = c
    BY <2>1 DEF ShowsTable
  <2>2. CASE d # c
    BY <2>2 DEF OthersTable, Elsewhere
  <2> QED BY <2>1, <2>2
<1>3. Buffers(W)'
  <2> SUFFICES ASSUME NEW d \in Client, NEW pg \in AnyPage
               PROVE  /\ DiffOK(W, buf'[Home[d]][pg], pg, main[Header].st, delta'.alloc)
                      /\ CacheOK(W, buf'[Home[d]][pg], pg, stored[pg])
                      /\ StampOK(buf'[Home[d]][pg], pg, main[Header].scn)
    BY DEF Buffers
  <2>1. CASE d = c
    BY <2>1 DEF ShowsTable
  <2>2. CASE d # c
    BY <2>2 DEF OthersTable, Elsewhere, IInv, Buffers
  <2> QED BY <2>1, <2>2
<1>4. Exclusive'
  BY ExclusiveStep
<1>5. HeaderStored'
  BY DEF IInv, HeaderStored, HeaderCopies
<1>6. Numbers'
  BY DEF IInv, Numbers
<1> QED BY <1>1, <1>2, <1>3, <1>4, <1>5, <1>6 DEF IInv

\* A new entry of the table leaves the others alone.
LEMMA AppendFields ==
    ASSUME NEW alloc \in Seq(AnyPage), NEW pg \in AnyPage, NEW a1, a1 = Append(alloc, pg),
           NEW n, n = Len(alloc) + 1
    PROVE  /\ a1 \in Seq(AnyPage) /\ Len(a1) = n /\ n \in Nat \ {0}
           /\ DOMAIN a1 = 1..n /\ DOMAIN alloc = 1..(n - 1) /\ a1[n] = pg
           /\ \A i \in DOMAIN alloc : i \in DOMAIN a1 /\ a1[i] = alloc[i]
           /\ \A s \in Seq(AnyPage) : Prefix(s, alloc) => Prefix(s, a1)
<1>1. /\ a1 \in Seq(AnyPage) /\ Len(a1) = n /\ n \in Nat \ {0} /\ a1[n] = pg
      /\ \A i \in 1..(n - 1) : a1[i] = alloc[i]
  OBVIOUS
<1>2. DOMAIN a1 = 1..n /\ DOMAIN alloc = 1..(n - 1) /\ Len(alloc) = n - 1
  BY <1>1
<1>3. ASSUME NEW s \in Seq(AnyPage), Prefix(s, alloc) PROVE Prefix(s, a1)
  <2>1. /\ Len(s) \in Nat /\ Len(s) <= n - 1
        /\ \A i \in 1..Len(s) : s[i] = alloc[i]
    BY <1>2, <1>3 DEF Prefix
  <2> QED BY <1>1, <2>1 DEF Prefix
<1> QED BY <1>1, <1>2, <1>3

\* The delta with a new page for pg, and the managers then.
Grows(c, pg, e, G) ==
    /\ G = allocateDifferencePage(Home[c], e, pg)
    /\ delta' = [delta EXCEPT !.alloc = G[Home[c]].table,
                              !.data = Extended(@, Len(G[Home[c]].table))]

\* What the managers and the delta are then, with e the writer's manager before:
\* the writer has the new table, the others no lock.
GrownTo(c, pg, e, G) ==
    /\ G \in [Process -> Manager] /\ SameState(e, G[Home[c]])
    /\ G[Home[c]].loaded /\ G[Home[c]].table = Append(delta.alloc, pg)
    /\ G[Home[c]].allocLock # LCK_none
    /\ \A d \in Client \ {c} :
         /\ Kept(bm[Home[d]], G[Home[d]])
         /\ TableOK(th[d], G[Home[d]], main[Header].st, main[Header].scn, delta.alloc)
         /\ G[Home[d]].allocLock = LCK_none
         /\ G[Home[d]].allocIsValid =>
              bm[Home[d]].allocIsValid /\ bm[Home[d]].allocLock = LCK_none
    /\ delta'.alloc = Append(delta.alloc, pg)
    /\ delta' = [delta EXCEPT !.alloc = Append(delta.alloc, pg),
                              !.data = Extended(@, Len(delta.alloc) + 1)]

\* The managers and the delta after a page has been allocated.
LEMMA GrownFields ==
    ASSUME NEW W, Classic, IInv(W), NEW c \in Client, NEW pg \in AnyPage, NEW e, Ready(e),
           ~Mapped(delta.alloc, pg), NEW G, Grows(c, pg, e, G),
           e.allocLock \in {LCK_read, bm[Home[c]].allocLock}
    PROVE  GrownTo(c, pg, e, G)
<1>a. PICK M : M = lockAlloc(Home[c], e, LCK_write)
  OBVIOUS
<1>1. /\ delta \in Delta /\ delta.alloc \in Seq(AnyPage) /\ Home[c] \in Process
  BY OneThread DEF IInv, Types, Delta
<1>2. /\ Looked(c, e, M) /\ M[Home[c]].loaded /\ M[Home[c]].table = delta.alloc
      /\ M[Home[c]].allocLock # LCK_none
      /\ \A d \in Client \ {c} :
           /\ M[Home[d]].allocLock = LCK_none
           /\ M[Home[d]].allocIsValid =>
                bm[Home[d]].allocIsValid /\ bm[Home[d]].allocLock = LCK_none
  BY <1>a, LockAllocFields
<1> DEFINE m == M[Home[c]]
           a1 == Append(delta.alloc, pg)
           e2 == [m EXCEPT !.table = a1]
<1>3. M \in [Process -> Manager] /\ m \in Manager /\ a1 \in Seq(AnyPage)
  BY <1>1, <1>2 DEF Looked
<1>4. Prefix(m.table, delta.alloc)
  BY <1>1, <1>2 DEF Prefix
<1>5. findPageIndex(m, pg) = 0
  <2>1. findPageIndex(m, pg) # 0 =>
          /\ findPageIndex(m, pg) \in DOMAIN delta.alloc
          /\ delta.alloc[findPageIndex(m, pg)] = pg
    BY <1>1, <1>3, <1>4, FoundFields
  <2> QED BY <2>1 DEF Mapped
<1>6. G = [M EXCEPT ![Home[c]] = e2]
  <2>1. G = [M EXCEPT ![Home[c]].table = Append(@, pg)]
    BY <1>a, <1>5 DEF Grows, allocateDifferencePage
  <2> QED BY <1>2, <2>1
<1>7. /\ e2 \in Manager /\ e2.table = a1 /\ e2.loaded /\ e2.allocLock = m.allocLock
      /\ SameState(m, e2)
  BY <1>2, <1>3 DEF Manager, SameState
<1>8. SameState(e, m)
  BY <1>2 DEF Looked
<1> HIDE DEF e2, m
<1>9. /\ G \in [Process -> Manager] /\ G[Home[c]] = e2
      /\ \A d \in Client \ {c} : G[Home[d]] = M[Home[d]]
  BY <1>1, <1>3, <1>6, <1>7, OneThread
<1>10. SameState(e, e2)
  BY <1>7, <1>8 DEF SameState
<1>11. G[Home[c]].table = a1 /\ Len(a1) = Len(delta.alloc) + 1
  BY <1>1, <1>7, <1>9
<1>12. delta' = [delta EXCEPT !.alloc = a1, !.data = Extended(@, Len(delta.alloc) + 1)]
  <2> HIDE DEF a1
  <2> QED BY <1>11 DEF Grows
<1>13. delta'.alloc = a1
  BY <1>1, <1>12 DEF Delta
<1> QED BY <1>2, <1>7, <1>9, <1>10, <1>12, <1>13 DEF GrownTo, Looked, m

\* The new page of the delta is empty, so that the main file counts.
LEMMA GrownFiles ==
    ASSUME NEW W, IInv(W), main[Header].st = "stalled", NEW pg \in AnyPage,
           ~Mapped(delta.alloc, pg), HeaderCopies(delta.alloc, delta.data),
           UNCHANGED <<main, stored>>,
           delta' = [delta EXCEPT !.alloc = Append(delta.alloc, pg),
                                  !.data = Extended(@, Len(delta.alloc) + 1)]
    PROVE  Files(W)' /\ delta' \in Delta /\ HeaderCopies(delta'.alloc, delta'.data)
<1> DEFINE alloc == delta.alloc
           n == Len(alloc) + 1
           a1 == Append(alloc, pg)
           d1 == Extended(delta.data, n)
<1>1. /\ delta \in Delta /\ alloc \in Seq(AnyPage) /\ delta.data \in Seq(Contents)
      /\ Len(delta.data) = Len(alloc) /\ NoRepeats(alloc)
      /\ \A pg2 \in AnyPage : FileOK(W, pg2, "stalled")
  BY DEF IInv, Types, Delta, Files
<1>2. /\ a1 \in Seq(AnyPage) /\ Len(a1) = n /\ n \in Nat \ {0}
      /\ DOMAIN a1 = 1..n /\ DOMAIN alloc = 1..(n - 1) /\ a1[n] = pg
      /\ \A i \in DOMAIN alloc : i \in DOMAIN a1 /\ a1[i] = alloc[i]
  <2> HIDE DEF a1
  <2> QED BY <1>1, AppendFields DEF a1
<1>3. delta' = [delta EXCEPT !.alloc = a1, !.data = d1]
  BY <1>1
<1> HIDE DEF a1
<1>4. DOMAIN delta.data = 1..(n - 1)
  BY <1>1
<1>7. \A i \in 1..(n - 1) : delta.data[i] \in Contents
  <2>1. \A i \in 1..Len(delta.data) : delta.data[i] \in Contents
    BY <1>1
  <2>2. n - 1 = Len(delta.data)
    BY <1>1
  <2> QED BY <2>1, <2>2
<1>5. EmptyPage \in Contents
  BY DEF EmptyPage, Contents, State
<1>6. d1 = [i \in 1..n |-> IF i \in 1..(n - 1) THEN delta.data[i] ELSE EmptyPage]
  BY <1>4 DEF Extended
<1> HIDE DEF n, d1
<1>8. /\ d1 \in Seq(Contents) /\ Len(d1) = n
      /\ \A i \in 1..(n - 1) : d1[i] = delta.data[i]
      /\ d1[n] = EmptyPage
  <2>1. d1 \in [1..n -> Contents]
    BY <1>5, <1>6, <1>7
  <2>2. d1 \in Seq(Contents) /\ Len(d1) = n
    BY <1>2, <2>1
  <2>3. \A i \in 1..(n - 1) : i \in 1..n
    BY <1>2
  <2>4. n \in 1..n /\ n \notin 1..(n - 1)
    BY <1>2
  <2> QED BY <1>6, <2>2, <2>3, <2>4
<1>9. delta' \in Delta /\ delta'.alloc = a1 /\ delta'.data = d1
  BY <1>1, <1>2, <1>3, <1>8 DEF Delta
<1>10. NoRepeats(a1)
  <2> SUFFICES ASSUME NEW i \in 1..n, NEW j \in 1..n, a1[i] = a1[j] PROVE i = j
    BY <1>2 DEF NoRepeats
  <2>1. ASSUME NEW k \in 1..(n - 1) PROVE a1[k] # pg
    BY <1>2, <2>1 DEF Mapped, alloc
  <2>2. CASE i = n \/ j = n
    BY <1>2, <2>1, <2>2
  <2>3. CASE i # n /\ j # n
    <3>1. i \in 1..(n - 1) /\ j \in 1..(n - 1)
      BY <1>2, <2>3
    <3> QED BY <1>1, <1>2, <3>1 DEF NoRepeats
  <2> QED BY <2>2, <2>3
<1>11. ASSUME NEW pg2 \in AnyPage PROVE FileOK(W, pg2, "stalled")'
  <2>1. FileOK(W, pg2, "stalled")
    BY <1>1
  <2>2. ~Mapped(a1, pg2) => ~Mapped(alloc, pg2)
    BY <1>2 DEF Mapped
  <2>3. ASSUME NEW i \in 1..n, a1[i] = pg2
        PROVE  /\ pg2 \in W =>
                    IF d1[i] = EmptyPage THEN main[pg2] = stored[pg2] ELSE d1[i] = stored[pg2]
               /\ d1[i] = EmptyPage \/ d1[i].ver >= 1
    <3>1. CASE i = n
      <4>1. ~Mapped(alloc, pg2)
        BY <1>2, <2>3, <3>1
      <4> QED BY <1>8, <2>1, <3>1, <4>1 DEF FileOK
    <3>2. CASE i # n
      <4>1. i \in 1..(n - 1)
        BY <1>2, <3>2
      <4>2. i \in DOMAIN alloc /\ alloc[i] = pg2 /\ d1[i] = delta.data[i]
        BY <1>2, <1>8, <2>3, <4>1
      <4> QED BY <2>1, <4>2 DEF FileOK, alloc
    <3> QED BY <3>1, <3>2
  <2>4. /\ pg2 \in W /\ ~Mapped(a1, pg2) => main[pg2] = stored[pg2]
        /\ main[pg2].ver >= 1 /\ stored[pg2].ver >= 1
    BY <2>1, <2>2 DEF FileOK
  <2> QED BY <1>2, <1>9, <2>3, <2>4 DEF FileOK
<1>12. Len(d1) = Len(a1)
  BY <1>2, <1>8
<1>13. HeaderCopies(a1, d1)
  <2> SUFFICES ASSUME NEW i \in 1..n, a1[i] = Header
               PROVE  \/ d1[i] = EmptyPage
                      \/ d1[i].st = main[Header].st /\ d1[i].scn = main[Header].scn
    BY <1>2 DEF HeaderCopies
  <2>1. CASE i = n
    BY <1>8, <2>1
  <2>2. CASE i # n
    <3>1. i \in 1..(n - 1)
      BY <1>2, <2>2
    <3>2. i \in DOMAIN alloc /\ alloc[i] = Header /\ d1[i] = delta.data[i]
      BY <1>2, <1>8, <3>1
    <3> QED BY <3>2 DEF HeaderCopies, alloc
  <2> QED BY <2>1, <2>2
<1> QED BY <1>9, <1>10, <1>11, <1>12, <1>13 DEF Files, HeaderCopies

\* The step of CCH_mark that allocates a page of the delta keeps the invariant.
LEMMA StepMarkGrown ==
    ASSUME NEW W, Classic, IInv(W), NEW c \in Client, th[c].pc = "have", Marks(c),
           buf[Home[c]][th[c].page].nbak, ~buf[Home[c]][th[c].page].half, ~th[c].wait,
           NEW pg \in AnyPage, pg = th[c].page, NEW L, Finds(c, pg, L, 0),
           NEW G, Grows(c, pg, L[Home[c]], G), bm[Home[c]].state = "stalled",
           NEW n \in Nat, NEW j, j = findPageIndex(G[Home[c]], pg),
           MarksAt(c, pg, n, j, G)
    PROVE  IInv(W)'
<1>0. /\ bm' = G
      /\ buf' = [buf EXCEPT ![Home[c]][pg] = MarkedBuffer(Home[c], pg, n, j)]
      /\ th' = [th EXCEPT ![c].pc = "marked"]
      /\ UNCHANGED <<ast, endLock, main, stored, snap, changes, calls, deaths>>
  BY DEF MarksAt
<1> USE <1>0
<1> DEFINE t == th[c]
           b == bm[Home[c]]
           f == buf[Home[c]]
           st == main[Header].st
           scn == main[Header].scn
<1>a. PICK g1 : g1 = MarkedBuffer(Home[c], pg, n, j)
  OBVIOUS
<1>b. PICK t1 : t1 = [t EXCEPT !.pc = "marked"]
  OBVIOUS
<1>c. PICK f1 : f1 = [f EXCEPT ![pg] = g1]
  OBVIOUS
<1>d. PICK e : e = G[Home[c]]
  OBVIOUS
<1>f. PICK a1 : a1 = Append(delta.alloc, pg)
  OBVIOUS
<1>1. /\ b.stateLock # LCK_none /\ b.state = st /\ b.scn = scn /\ t.op \in {"write", "merge"}
      /\ st = "stalled"
  BY MarksKnown
<1>2. /\ SameState(b, L[Home[c]]) /\ ~Mapped(delta.alloc, pg) /\ Ready(L[Home[c]])
      /\ L[Home[c]].allocLock \in {LCK_read, b.allocLock}
  <2>1. Trusts(W, c, pg)
    BY <1>1 DEF Trusts
  <2> QED BY <1>1, <2>1, FindsPage
<1>3. /\ G \in [Process -> Manager] /\ SameState(L[Home[c]], e)
      /\ e.loaded /\ e.table = a1 /\ e.allocLock # LCK_none
      /\ \A d \in Client \ {c} :
           /\ Kept(bm[Home[d]], G[Home[d]])
           /\ TableOK(th[d], G[Home[d]], st, scn, delta.alloc)
           /\ G[Home[d]].allocLock = LCK_none
           /\ G[Home[d]].allocIsValid =>
                bm[Home[d]].allocIsValid /\ bm[Home[d]].allocLock = LCK_none
      /\ delta'.alloc = a1
      /\ delta' = [delta EXCEPT !.alloc = Append(delta.alloc, pg),
                                !.data = Extended(@, Len(delta.alloc) + 1)]
  <2>a. PICK k : k = L[Home[c]]
    OBVIOUS
  <2> HIDE <1>0
  <2>1. /\ Ready(k) /\ k.allocLock \in {LCK_read, bm[Home[c]].allocLock}
        /\ Grows(c, pg, k, G) /\ ~Mapped(delta.alloc, pg)
    BY <1>2, <2>a
  <2>2. GrownTo(c, pg, k, G)
    BY <2>1, GrownFields
  <2> QED BY <1>d, <1>f, <2>a, <2>2 DEF GrownTo
<1>22. \A d \in Client : ~Torn1(d) /\ th[d].pc # "hwrite"
  <2> SUFFICES ASSUME NEW d \in Client PROVE th[d].pc # "hwrite"
    BY DEF Torn1
  <2>1. CASE d # c
    <3>1. th[d].pc = "hwrite" => bm[Home[d]].stateLock = LCK_write
      BY OfClient DEF LockOK
    <3> QED BY <1>1, <2>1, <3>1 DEF IInv, Exclusive
  <2> QED BY <2>1
<1>23. HeaderCopies(delta.alloc, delta.data)
  BY <1>22 DEF IInv, HeaderStored, HeaderCopies
<1>4. Files(W)' /\ delta' \in Delta /\ HeaderCopies(delta'.alloc, delta'.data)
  BY <1>1, <1>2, <1>3, <1>23, GrownFiles
<1>5. delta.alloc \in Seq(AnyPage) /\ a1 \in Seq(AnyPage) /\ NoRepeats(a1)
  BY <1>3, <1>4 DEF IInv, Types, Delta, Files
<1>g. PICK m : m = Len(delta.alloc) + 1
  OBVIOUS
<1>6. /\ DOMAIN a1 = 1..m /\ a1[m] = pg /\ m \in Nat \ {0}
      /\ \A i \in DOMAIN delta.alloc : i \in DOMAIN a1 /\ a1[i] = delta.alloc[i]
      /\ \A s \in Seq(AnyPage) : Prefix(s, delta.alloc) => Prefix(s, a1)
  <2>a. PICK a0 : a0 = delta.alloc
    OBVIOUS
  <2>1. a0 \in Seq(AnyPage) /\ a1 = Append(a0, pg) /\ m = Len(a0) + 1
    BY <1>f, <1>g, <1>5, <2>a
  <2> HIDE <1>0
  <2>2. /\ DOMAIN a1 = 1..m /\ a1[m] = pg /\ m \in Nat \ {0}
        /\ \A i \in DOMAIN a0 : i \in DOMAIN a1 /\ a1[i] = a0[i]
    BY <2>1, AppendFields
  <2>3. ASSUME NEW s \in Seq(AnyPage), Prefix(s, a0) PROVE Prefix(s, a1)
    BY <2>1, <2>3, AppendFields
  <2> QED BY <2>a, <2>2, <2>3
<1>7. e \in Manager /\ SameState(b, e)
  BY <1>d, <1>2, <1>3, OneThread DEF SameState
<1>8. j \in Nat /\ j # 0 /\ j \in DOMAIN a1 /\ a1[j] = pg
  <2>1. Prefix(e.table, a1)
    BY <1>3, <1>5 DEF Prefix
  <2>2. Mapped(a1, pg)
    BY <1>6 DEF Mapped
  <2> QED BY <1>d, <1>3, <1>5, <1>7, <2>1, <2>2, FoundFields
<1>9. Marked(W, c, pg, j, t1, e, f1)
  BY <1>a, <1>b, <1>c, <1>7, <1>8, MarkedPage
<1>10. /\ th' = [th EXCEPT ![c] = t1] /\ buf' = [buf EXCEPT ![Home[c]] = f1]
       /\ bm'[Home[c]] = e
  BY <1>a, <1>b, <1>c, <1>d
<1>11. /\ th'[c] = t1 /\ \A d \in Client \ {c} : th'[d] = th[d]
       /\ buf'[Home[c]] = f1 /\ \A d \in Client \ {c} : buf'[Home[d]] = buf[Home[d]]
  BY <1>10, OneThread DEF IInv, Types
<1>12. Types'
  <2>1. t1 \in Thread /\ f1 \in [AnyPage -> Buffer]
    BY <1>9 DEF Marked
  <2>2. th' \in [Client -> Thread]
    BY <1>10, <2>1 DEF IInv, Types
  <2>4. buf' \in [Process -> [AnyPage -> Buffer]]
    BY <1>10, <2>1, OneThread DEF IInv, Types
  <2>3. bm' \in [Process -> Manager]
    BY <1>3
  <2> QED BY <1>4, <2>2, <2>3, <2>4 DEF IInv, Types
<1>13. Elsewhere(c)
  BY <1>3, <1>11 DEF Elsewhere
<1>14. \A d \in Client : th[d].pc # "hwrite"
  BY <1>22
<1>15. ShowsTable(W, t1, e, f1, a1)
  <2>1. HeaderOK(t1, e, f1[Header], st, scn, a1)
    BY <1>9 DEF Marked, HeaderOK
  <2>2. TableOK(t1, e, st, scn, a1)
    <3>1. Prefix(e.table, a1)
      BY <1>3, <1>5 DEF Prefix
    <3> QED BY <1>1, <1>3, <1>5, <3>1 DEF TableOK
  <2>3. ASSUME NEW pg2 \in AnyPage PROVE DiffOK(W, f1[pg2], pg2, st, a1)
    <3>1. CASE pg2 = pg
      <4>1. f1[pg].diff = j
        BY <1>9 DEF Marked
      <4> QED BY <1>1, <1>8, <3>1, <4>1 DEF DiffOK
    <3>2. CASE pg2 # pg
      <4>1. f1[pg2] = f[pg2]
        BY <1>9, <3>2 DEF Marked
      <4>2. DiffOK(W, f[pg2], pg2, st, delta.alloc)
        BY DEF IInv, Buffers
      <4> QED BY <1>1, <1>6, <4>1, <4>2 DEF DiffOK
    <3> QED BY <3>1, <3>2
  <2> QED BY <1>9, <2>1, <2>2, <2>3 DEF Marked, ShowsTable
<1>16. OthersTable(W, c, a1)
  <2> SUFFICES ASSUME NEW d \in Client \ {c}
               PROVE  /\ HeaderOK(th[d], bm[Home[d]], buf[Home[d]][Header], st, scn, a1)
                      /\ TableOK(th[d], bm'[Home[d]], st, scn, a1)
                      /\ \A pg2 \in AnyPage : DiffOK(W, buf[Home[d]][pg2], pg2, st, a1)
    BY DEF OthersTable
  <2>1. HeaderOK(th[d], bm[Home[d]], buf[Home[d]][Header], st, scn, a1)
    BY <1>14, OfClient DEF HeaderOK
  <2>2. TableOK(th[d], bm'[Home[d]], st, scn, a1)
    <3> DEFINE k == G[Home[d]]
               b0 == bm[Home[d]]
    <3>1. /\ TableOK(th[d], k, st, scn, delta.alloc) /\ TableOK(th[d], b0, st, scn, delta.alloc)
          /\ Kept(b0, k) /\ k.allocLock = LCK_none
          /\ k.allocIsValid => b0.allocIsValid /\ b0.allocLock = LCK_none
          /\ k.table \in Seq(AnyPage)
      BY <1>3, OfClient, OneThread DEF Manager
    <3> HIDE DEF k, b0
    <3>2. Recent(k, st, scn) => Recent(b0, st, scn)
      BY <3>1 DEF Recent, Kept
    <3>3. Recent(k, st, scn) => ~k.allocIsValid
      BY <1>1, <3>1, <3>2 DEF TableOK
    <3>4. TableOK(th[d], k, st, scn, a1)
      BY <1>1, <1>6, <3>1, <3>3 DEF TableOK
    <3> QED BY <3>4 DEF k
  <2>3. ASSUME NEW pg2 \in AnyPage PROVE DiffOK(W, buf[Home[d]][pg2], pg2, st, a1)
    <3>1. DiffOK(W, buf[Home[d]][pg2], pg2, st, delta.alloc)
      BY DEF IInv, Buffers
    <3> QED BY <1>1, <1>6, <3>1 DEF DiffOK
  <2> QED BY <2>1, <2>2, <2>3
<1>17. OwnLocks(c)
  <2> SUFFICES ASSUME NEW d \in Client \ {c}
               PROVE  /\ e.stateLock = LCK_write => bm[Home[d]].stateLock = LCK_none
                      /\ bm[Home[d]].stateLock = LCK_write => e.stateLock = LCK_none
                      /\ \A pg2 \in AnyPage : ~Clash(f1[pg2].lock, buf[Home[d]][pg2].lock)
    BY <1>d, <1>11 DEF OwnLocks
  <2>1. \A pg2 \in AnyPage : f1[pg2].lock = f[pg2].lock
    BY <1>9 DEF Marked
  <2> QED BY <1>7, <2>1 DEF SameState, IInv, Exclusive
<1>18. \A d, k \in Client : d # k /\ bm'[Home[d]].allocLock = LCK_write =>
          bm'[Home[k]].allocLock = LCK_none
  <2>1. LCK_none # LCK_write
    BY DEF LCK_none, LCK_write
  <2> QED BY <1>3, <2>1
<1>19. EndLocked'
  BY <1>9, <1>10, <1>11 DEF IInv, EndLocked, Types, Marked
<1>20. Merging(W)'
  <2> SUFFICES ASSUME NEW d \in Client PROVE MergeOK(W, d)'
    BY DEF Merging
  <2>1. th'[d].op # "merge"
    <3>1. th[d].op # "merge"
      BY <1>1, OfClient DEF KnownOK
    <3>2. CASE d = c
      BY <1>9, <1>11, <3>1, <3>2 DEF Marked
    <3>3. CASE d # c
      BY <1>11, <3>1, <3>3
    <3> QED BY <3>2, <3>3
  <2>2. main'[Header].st = "stalled"
    BY <1>1
  <2> QED BY <2>1, <2>2 DEF MergeOK, Going
<1>21. \A d \in Client : ~Torn1(d)
  BY <1>22
<1> QED BY <1>3, <1>4, <1>10, <1>11, <1>12, <1>13, <1>15, <1>16, <1>17, <1>18, <1>19, <1>20,
           <1>21, DeltaStep

\* CCH_mark keeps the invariant.
LEMMA StepMark ==
    ASSUME NEW W, Classic, IInv(W), NEW c \in Client, CCH_mark(c), Trusts(W, c, th[c].page)
    PROVE  IInv(W)'
<1>a. PICK pg \in AnyPage : pg = th[c].page
  BY OfClient DEF Thread
<1>b. PICK n \in Nat : n = IF th[c].op = "write" THEN 1 ELSE 0
  OBVIOUS
<1>c. PICK L : L = IF bm[Home[c]].state = "normal" THEN bm
                   ELSE getPageIndex(Home[c], bm[Home[c]], pg)
  OBVIOUS
<1>d. PICK i : i = IF bm[Home[c]].state = "normal" THEN 0 ELSE findPageIndex(L[Home[c]], pg)
  OBVIOUS
<1>e. PICK G : G = allocateDifferencePage(Home[c], L[Home[c]], pg)
  OBVIOUS
<1>f. PICK j : j = findPageIndex(G[Home[c]], pg)
  OBVIOUS
<1>1. /\ th[c].pc = "have" /\ Marks(c) /\ ~th[c].wait
      /\ buf[Home[c]][th[c].page].nbak /\ ~buf[Home[c]][th[c].page].half
  BY DEF CCH_mark
<1>2. Finds(c, pg, L, i)
  BY <1>c, <1>d DEF Finds
<1>3. \/ /\ bm[Home[c]].state # "stalled" \/ i # 0
         /\ MarksAt(c, pg, n, i, L) /\ UNCHANGED delta
      \/ /\ bm[Home[c]].state = "stalled" /\ i = 0
         /\ MarksAt(c, pg, n, j, G)
         /\ delta' = [delta EXCEPT !.alloc = G[Home[c]].table,
                                   !.data = Extended(@, Len(G[Home[c]].table))]
  BY <1>a, <1>b, <1>c, <1>d, <1>e, <1>f DEF CCH_mark, MarksAt, bounds
<1>4. CASE /\ bm[Home[c]].state # "stalled" \/ i # 0
           /\ MarksAt(c, pg, n, i, L) /\ UNCHANGED delta
  BY <1>a, <1>1, <1>2, <1>4, StepMarkFound
<1>5. CASE /\ bm[Home[c]].state = "stalled" /\ i = 0
           /\ MarksAt(c, pg, n, j, G)
           /\ delta' = [delta EXCEPT !.alloc = G[Home[c]].table,
                                     !.data = Extended(@, Len(G[Home[c]].table))]
  <2>1. Grows(c, pg, L[Home[c]], G)
    BY <1>e, <1>5 DEF Grows
  <2>2. Finds(c, pg, L, 0)
    BY <1>2, <1>5
  <2> QED BY <1>a, <1>f, <1>1, <1>5, <2>1, <2>2, StepMarkGrown
<1> QED BY <1>3, <1>4, <1>5

\* A thread with a StateWriteGuard is alone: the other processes do not have
\* stateLock, and no dirty page.
LEMMA WriterAlone ==
    ASSUME NEW W, Classic, IInv(W), NEW c \in Client, th[c].pc \in {"guarded", "hwrite", "leave"},
           NEW d \in Client \ {c}
    PROVE  /\ bm[Home[c]].stateLock = LCK_write /\ bm[Home[d]].stateLock = LCK_none
           /\ th[d].pc \notin {"guarded", "hwrite", "leave"}
           /\ bm[Home[d]].state = "unknown"
           /\ \A pg \in AnyPage :
                 /\ ~buf[Home[d]][pg].dirty /\ ~buf[Home[d]][pg].half
                 /\ buf[Home[d]][pg].diff = 0
           /\ ~Torn1(d)
<1>1. LockOK(th[c], bm[Home[c]]) /\ LockOK(th[d], bm[Home[d]])
  BY OfClient
<1>2. bm[Home[c]].stateLock = LCK_write
  BY <1>1 DEF LockOK
<1>3. bm[Home[d]].stateLock = LCK_none
  BY <1>2 DEF IInv, Exclusive
<1>4. /\ th[d].pc \notin {"guarded", "hwrite", "leave"}
      /\ bm[Home[d]].state = "unknown"
  BY <1>1, <1>3 DEF LockOK, LCK_none, LCK_write
<1>5. ASSUME NEW pg \in AnyPage
      PROVE  /\ ~buf[Home[d]][pg].dirty /\ ~buf[Home[d]][pg].half
             /\ buf[Home[d]][pg].diff = 0
  <2>1. BufferOK(th[d], bm[Home[d]], pg, buf[Home[d]][pg])
    BY OfClient DEF PageOK
  <2> QED BY <1>3, <1>4, <2>1 DEF BufferOK
<1>6. ~Torn1(d)
  BY <1>4 DEF Torn1
<1> QED BY <1>2, <1>3, <1>4, <1>5, <1>6

\* In the normal state a thread with a StateWriteGuard makes or removes the
\* delta: the table it has is empty, and nobody looks at it.
LEMMA EmptiesDelta ==
    ASSUME NEW W, Classic, IInv(W), NEW c \in Client, th[c].pc \in {"guarded", "hwrite"},
           main[Header].st = "normal", NEW t1 \in Thread, NEW b1 \in Manager,
           NEW f1 \in [AnyPage -> Buffer],
           th' = [th EXCEPT ![c] = t1], bm' = [bm EXCEPT ![Home[c]] = b1],
           buf' = [buf EXCEPT ![Home[c]] = f1],
           delta' \in Delta, delta'.alloc = <<>>, delta'.data = <<>>,
           UNCHANGED <<main, stored, snap>>, OtherTypes', endLock' \in Process \cup {Nobody},
           ShowsTable(W, t1, b1, f1, <<>>), b1.master = bm[Home[c]].master,
           b1.stateLock = bm[Home[c]].stateLock,
           b1.allocLock \in {LCK_none, bm[Home[c]].allocLock},
           \A pg \in AnyPage : f1[pg].lock = buf[Home[c]][pg].lock,
           ~Torn1(c), t1.op # "merge", EndLocked'
    PROVE  IInv(W)'
<1>1. /\ th'[c] = t1 /\ bm'[Home[c]] = b1 /\ buf'[Home[c]] = f1
      /\ \A d \in Client \ {c} : /\ th'[d] = th[d] /\ bm'[Home[d]] = bm[Home[d]]
                                 /\ buf'[Home[d]] = buf[Home[d]]
  BY OneThread DEF IInv, Types
<1>2. Types'
  <2>1. /\ th' \in [Client -> Thread] /\ bm' \in [Process -> Manager]
        /\ buf' \in [Process -> [AnyPage -> Buffer]]
    BY OneThread DEF IInv, Types
  <2> QED BY <2>1 DEF IInv, Types, OtherTypes
<1>3. Elsewhere(c)
  BY <1>1 DEF Elsewhere, Kept
<1>4. ShowsTable(W, th'[c], bm'[Home[c]], buf'[Home[c]], delta'.alloc)
  BY <1>1
<1>5. OthersTable(W, c, delta'.alloc)
  <2> SUFFICES ASSUME NEW d \in Client \ {c}
               PROVE  /\ HeaderOK(th[d], bm[Home[d]], buf[Home[d]][Header], "normal",
                                  main[Header].scn, <<>>)
                      /\ TableOK(th[d], bm[Home[d]], "normal", main[Header].scn, <<>>)
                      /\ \A pg \in AnyPage : DiffOK(W, buf[Home[d]][pg], pg, "normal", <<>>)
    BY <1>1 DEF OthersTable
  <2>1. th[d].pc # "hwrite"
    BY WriterAlone
  <2>2. HeaderOK(th[d], bm[Home[d]], buf[Home[d]][Header], "normal", main[Header].scn, <<>>)
    BY <2>1, OfClient DEF HeaderOK
  <2>3. TableOK(th[d], bm[Home[d]], "normal", main[Header].scn, <<>>)
    BY OfClient DEF TableOK, Recent
  <2>4. ASSUME NEW pg \in AnyPage PROVE DiffOK(W, buf[Home[d]][pg], pg, "normal", <<>>)
    BY WriterAlone DEF DiffOK
  <2> QED BY <2>2, <2>3, <2>4
<1>6. OwnLocks(c)
  <2> SUFFICES ASSUME NEW d \in Client \ {c}
               PROVE  /\ b1.stateLock = LCK_write => bm[Home[d]].stateLock = LCK_none
                      /\ bm[Home[d]].stateLock = LCK_write => b1.stateLock = LCK_none
                      /\ \A pg \in AnyPage : ~Clash(f1[pg].lock, buf[Home[d]][pg].lock)
    BY <1>1 DEF OwnLocks
  <2> QED BY DEF IInv, Exclusive
<1>7. ASSUME NEW d \in Client, NEW k \in Client, d # k, bm'[Home[d]].allocLock = LCK_write
      PROVE  bm'[Home[k]].allocLock = LCK_none
  <2>1. /\ bm'[Home[d]].allocLock \in {LCK_none, bm[Home[d]].allocLock}
        /\ bm'[Home[k]].allocLock \in {LCK_none, bm[Home[k]].allocLock}
    BY <1>1
  <2>2. bm[Home[d]].allocLock = LCK_write
    BY <1>7, <2>1 DEF LCK_none, LCK_write
  <2> QED BY <1>7, <2>1, <2>2 DEF IInv, Exclusive
<1>8. ASSUME NEW d \in Client PROVE ~Torn1(d)
  BY WriterAlone
<1>9. Files(W)'
  <2>1. NoRepeats(<<>>) /\ Len(<<>>) = Len(<<>>)
    BY DEF NoRepeats
  <2>2. \A pg \in AnyPage : FileOK(W, pg, "normal")'
    BY DEF IInv, Files, FileOK
  <2> QED BY <2>1, <2>2 DEF Files
<1>11. HeaderCopies(<<>>, <<>>)
  BY DEF HeaderCopies
<1>10. Merging(W)'
  <2> SUFFICES ASSUME NEW d \in Client PROVE MergeOK(W, d)'
    BY DEF Merging
  <2>1. th'[d].op # "merge"
    <3>1. th[d].op = "merge" => main[Header].st = "merge"
      BY OfClient DEF KnownOK
    <3> QED BY <1>1, <3>1
  <2> QED BY <2>1 DEF MergeOK, Going
<1> QED BY <1>2, <1>3, <1>4, <1>5, <1>6, <1>7, <1>8, <1>9, <1>10, <1>11, DeltaStep

\* CreatesDelta keeps the invariant.
LEMMA StepCreatesDelta ==
    ASSUME NEW W, Classic, IInv(W), NEW c \in Client, CreatesDelta(c)
    PROVE  IInv(W)'
<1> DEFINE t == th[c]
           b == bm[Home[c]]
           f == buf[Home[c]]
           g == f[Header]
           st == main[Header].st
           scn == main[Header].scn
<1>0. /\ t \in Thread /\ b \in Manager /\ f \in [AnyPage -> Buffer]
      /\ Shape(t) /\ LockOK(t, b) /\ PageOK(t, b, f) /\ KnownOK(t, b, st, scn)
      /\ HeaderOK(t, b, g, st, scn, delta.alloc)
      /\ TableOK(t, b, st, scn, delta.alloc) /\ Header \in AnyPage
  BY OfClient
<1>1. /\ t.pc = "guarded" /\ t.op = "begin" /\ b.state = "normal"
      /\ delta' = [NoDelta EXCEPT !.exists = TRUE]
      /\ UNCHANGED <<ast, endLock, main, stored, snap, changes, calls, deaths>>
  BY DEF CreatesDelta, bounds
<1>2. /\ b.stateLock = LCK_write /\ b.scn = scn /\ st = "normal" /\ ~t.guard /\ ~t.wait
      /\ t.page = Header /\ scn \in Nat
  <2>1. b.stateLock = LCK_write /\ ~t.guard /\ ~t.wait /\ t.page = Header
    BY <1>0, <1>1 DEF LockOK, Shape, Guarding
  <2> QED BY <1>0, <1>1, <2>1, HeaderFields DEF KnownOK, LCK_none, LCK_write
<1>3. ~b.loaded /\ b.table = <<>> /\ b.allocLock = LCK_none
  BY <1>0, <1>1, <1>2 DEF TableOK, Manager
<1>4. \A pg \in AnyPage : ~f[pg].nbak /\ ~f[pg].dirty /\ ~f[pg].half /\ f[pg].diff = 0
  BY <1>0, <1>1, GuardedPages DEF Guarding
<1>5. delta' \in Delta /\ delta'.alloc = <<>> /\ delta'.data = <<>>
  <2>1. <<>> \in Seq(AnyPage) /\ <<>> \in Seq(Contents)
    OBVIOUS
  <2>2. delta' = [exists |-> TRUE, alloc |-> <<>>, data |-> <<>>]
    BY <1>1 DEF NoDelta
  <2> QED BY <2>1, <2>2 DEF Delta
<1>6. OtherTypes' /\ endLock' \in Process \cup {Nobody} /\ ~Torn1(c)
  BY <1>1 DEF IInv, Types, OtherTypes, Torn1
<1>7. g.lock = LCK_write /\ g.valid /\ CacheOK(W, g, Header, stored[Header])
      /\ g.page.st = st /\ g.page.scn = scn
  <2>1. BufferOK(t, b, Header, g)
    BY <1>0 DEF PageOK
  <2>2. g.lock = LCK_write /\ g.valid
    BY <1>1, <1>2, <2>1 DEF BufferOK, Using, Guarding
  <2> QED BY <1>0, <1>1, <2>2 DEF IInv, Buffers, HeaderOK
<1> DEFINE Opened(s) == [b EXCEPT !.open = TRUE, !.state = s]
           t1(pc) == [t EXCEPT !.pc = pc]
<1>8. ASSUME NEW s \in {"normal", "unknown"}
      PROVE  /\ Opened(s) \in Manager /\ Opened(s).state = s /\ Opened(s).open
             /\ Opened(s).scn = scn /\ ~Opened(s).loaded /\ Opened(s).table = <<>>
             /\ Opened(s).allocLock = LCK_none /\ Opened(s).master = b.master
             /\ Opened(s).stateLock = LCK_write /\ Opened(s).blocking = b.blocking
  BY <1>0, <1>2, <1>3 DEF Manager, State
<1>9. ASSUME NEW pc \in {"leave", "hwrite"}
      PROVE  /\ t1(pc) \in Thread /\ t1(pc).pc = pc /\ t1(pc).op = "begin"
             /\ t1(pc).wait = t.wait /\ t1(pc).page = t.page /\ t1(pc).guard = t.guard
             /\ t1(pc).left = t.left
  BY <1>0, <1>1 DEF Thread, PC
<1>10. ASSUME NEW b1 \in Manager, NEW t2 \in Thread, b1.table = <<>>, ~b1.loaded,
              b1.allocLock = LCK_none
       PROVE  TableOK(t2, b1, st, scn, <<>>)
  BY <1>2, <1>10 DEF TableOK, NoRepeats, Recent
<1>11. CASE /\ bm' \in {[bm EXCEPT ![Home[c]].open = TRUE],
                        [[bm EXCEPT ![Home[c]].open = TRUE] EXCEPT ![Home[c]].state = "unknown"]}
            /\ th' = [th EXCEPT ![c].pc = "leave"]
            /\ UNCHANGED buf
  <2>1. PICK s \in {"normal", "unknown"} : bm' = [bm EXCEPT ![Home[c]] = Opened(s)]
    <3>1. CASE bm' = [bm EXCEPT ![Home[c]].open = TRUE]
      <4>1. [b EXCEPT !.open = TRUE] = Opened("normal")
        BY <1>0, <1>1 DEF Manager
      <4> QED BY <3>1, <4>1
    <3>2. CASE bm' = [[bm EXCEPT ![Home[c]].open = TRUE] EXCEPT ![Home[c]].state = "unknown"]
      BY <3>2, OneThread DEF IInv, Types
    <3> QED BY <1>11, <3>1, <3>2
  <2>a. PICK u : u = t1("leave")
    OBVIOUS
  <2>b. PICK b1 : b1 = Opened(s)
    OBVIOUS
  <2>2. th' = [th EXCEPT ![c] = u] /\ bm' = [bm EXCEPT ![Home[c]] = b1]
    BY <1>11, <2>1, <2>a, <2>b
  <2>3. /\ b1 \in Manager /\ b1.state = s /\ b1.open
        /\ b1.scn = scn /\ ~b1.loaded /\ b1.table = <<>>
        /\ b1.allocLock = LCK_none /\ b1.master = b.master
        /\ b1.stateLock = LCK_write /\ b1.blocking = b.blocking
    BY <1>8, <2>b
  <2>4. /\ u \in Thread /\ u.pc = "leave" /\ u.op = "begin"
        /\ u.wait = t.wait /\ u.page = t.page /\ u.guard = t.guard /\ u.left = t.left
    BY <1>9, <2>a
  <2> HIDE DEF Opened, t1
  <2>5. Shape(u)
    BY <1>2, <2>4 DEF Shape, Guarding, GuardOp
  <2>6. LockOK(u, b1)
    BY <1>0, <1>1, <1>2, <2>3, <2>4 DEF LockOK, Guarding, MasterOp, GuardOp, LCK_none, LCK_write
  <2>7. KnownOK(u, b1, st, scn)
    BY <1>2, <2>3, <2>4 DEF KnownOK
  <2>8. PageOK(u, b1, f)
    <3> SUFFICES ASSUME NEW pg \in AnyPage PROVE BufferOK(u, b1, pg, f[pg])
      BY DEF PageOK
    <3>1. CASE pg = Header
      <4>1. BufferOK(u, b1, Header, g)
        BY <1>0, <1>2, <1>4, <1>7, <2>4 DEF BufferOK, Using, Guarding, LCK_none, LCK_write
      <4> QED BY <3>1, <4>1
    <3>2. CASE pg # Header
      BY <1>0, <1>2, <1>4, <2>4, <3>2, ClearPage DEF PageOK
    <3> QED BY <3>1, <3>2
  <2>9. HeaderOK(u, b1, g, st, scn, <<>>)
    BY <1>7, <2>4 DEF HeaderOK
  <2>10. ShowsTable(W, u, b1, f, <<>>)
    <3>1. \A pg \in AnyPage : DiffOK(W, f[pg], pg, st, <<>>)
      BY <1>4 DEF DiffOK
    <3>2. \A pg \in AnyPage : CacheOK(W, f[pg], pg, stored[pg]) /\ StampOK(f[pg], pg, scn)
      BY DEF IInv, Buffers
    <3> QED BY <1>10, <2>3, <2>4, <2>5, <2>6, <2>7, <2>8, <2>9, <3>1, <3>2 DEF ShowsTable
  <2>11. buf' = [buf EXCEPT ![Home[c]] = f]
    BY <1>11, OneThread DEF IInv, Types
  <2>12. EndLocked'
    BY <1>1, <2>2, <2>4 DEF IInv, EndLocked, Types, EndOp
  <2>13. b1.master = bm[Home[c]].master /\ b1.stateLock = bm[Home[c]].stateLock
    BY <1>2, <2>3
  <2> HIDE DEF t, b, g, st, scn
  <2> QED BY <1>0, <1>1, <1>2, <1>5, <1>6, <2>2, <2>3, <2>4, <2>10, <2>11, <2>12, <2>13,
             EmptiesDelta DEF t, st
<1>12. CASE /\ bm' = [bm EXCEPT ![Home[c]].open = TRUE]
            /\ buf' = [buf EXCEPT ![Home[c]][Header] =
                         MarkedHeader(Home[c], "stalled", @.page.scn + 1, 0)]
            /\ th' = [th EXCEPT ![c].pc = "hwrite"]
  <2>a. PICK u : u = t1("hwrite")
    OBVIOUS
  <2>b. PICK b1 : b1 = Opened("normal")
    OBVIOUS
  <2>c. PICK g1 : g1 = MarkedHeader(Home[c], "stalled", g.page.scn + 1, 0)
    OBVIOUS
  <2>d. PICK f1 : f1 = [f EXCEPT ![Header] = g1]
    OBVIOUS
  <2>2. /\ th' = [th EXCEPT ![c] = u] /\ bm' = [bm EXCEPT ![Home[c]] = b1]
        /\ buf' = [buf EXCEPT ![Home[c]] = f1]
    <3>1. [b EXCEPT !.open = TRUE] = Opened("normal")
      BY <1>0, <1>1 DEF Manager
    <3> QED BY <1>12, <2>a, <2>b, <2>c, <2>d, <3>1
  <2>3. /\ b1 \in Manager /\ b1.state = "normal" /\ b1.open
        /\ b1.scn = scn /\ ~b1.loaded /\ b1.table = <<>>
        /\ b1.allocLock = LCK_none /\ b1.master = b.master
        /\ b1.stateLock = LCK_write /\ b1.blocking = b.blocking
    BY <1>8, <2>b
  <2>4. /\ u \in Thread /\ u.pc = "hwrite" /\ u.op = "begin"
        /\ u.wait = t.wait /\ u.page = t.page /\ u.guard = t.guard /\ u.left = t.left
    BY <1>9, <2>a
  <2> HIDE DEF Opened, t1
  <2>13. /\ g1 \in Buffer /\ g1.dirty /\ g1.diff = 0
         /\ g1.lock = g.lock /\ g1.valid = g.valid /\ g1.nbak = g.nbak /\ g1.half = g.half
         /\ g1.page.st = "stalled" /\ g1.page.scn = scn + 1 /\ g1.page.ver = g.page.ver
    <3>1. 0 \in Nat /\ scn + 1 \in Nat /\ "stalled" \in {"normal", "stalled", "merge"}
      BY <1>2
    <3>2. g1 = MarkedHeader(Home[c], "stalled", scn + 1, 0)
      BY <1>7, <2>c
    <3> HIDE DEF g, scn
    <3> QED BY <3>1, <3>2, MarkedFields DEF g
  <2>14. /\ f1 \in [AnyPage -> Buffer] /\ f1[Header] = g1
         /\ \A pg \in AnyPage \ {Header} : f1[pg] = f[pg]
    BY <1>0, <2>13, <2>d
  <2>5. Shape(u)
    BY <1>2, <2>4 DEF Shape, Guarding, GuardOp
  <2>6. LockOK(u, b1)
    BY <1>0, <1>1, <1>2, <2>3, <2>4 DEF LockOK, Guarding, MasterOp, GuardOp, LCK_none, LCK_write
  <2>7. KnownOK(u, b1, st, scn)
    BY <2>4 DEF KnownOK
  <2>8. PageOK(u, b1, f1)
    <3> SUFFICES ASSUME NEW pg \in AnyPage PROVE BufferOK(u, b1, pg, f1[pg])
      BY DEF PageOK
    <3>1. CASE pg = Header
      <4>1. g.lock = LCK_write /\ g.valid /\ ~g1.nbak /\ ~g1.half
        BY <1>0, <1>4, <1>7, <2>13
      <4>2. BufferOK(u, b1, Header, g1)
        BY <1>2, <2>4, <2>13, <4>1 DEF BufferOK, Using, Guarding, LCK_none, LCK_write
      <4> QED BY <2>14, <3>1, <4>2
    <3>2. CASE pg # Header
      BY <1>0, <1>2, <1>4, <2>4, <2>14, <3>2, ClearPage DEF PageOK
    <3> QED BY <3>1, <3>2
  <2>9. HeaderOK(u, b1, f1[Header], st, scn, <<>>)
    BY <1>2, <2>3, <2>4, <2>13, <2>14 DEF HeaderOK
  <2>10. ShowsTable(W, u, b1, f1, <<>>)
    <3>1. ASSUME NEW pg \in AnyPage
          PROVE  /\ DiffOK(W, f1[pg], pg, st, <<>>)
                 /\ CacheOK(W, f1[pg], pg, stored[pg]) /\ StampOK(f1[pg], pg, scn)
      <4>1. CASE pg = Header
        <5>1. ~g1.nbak /\ ~g1.half /\ g1.page.ver >= 1
          BY <1>0, <1>4, <1>7, <2>13 DEF CacheOK
        <5> QED BY <2>13, <2>14, <4>1, <5>1 DEF DiffOK, CacheOK, StampOK
      <4>2. CASE pg # Header
        <5>1. CacheOK(W, f[pg], pg, stored[pg]) /\ StampOK(f[pg], pg, scn)
          BY DEF IInv, Buffers
        <5> QED BY <1>4, <2>14, <4>2, <5>1 DEF DiffOK
      <4> QED BY <4>1, <4>2
    <3> QED BY <1>10, <2>3, <2>4, <2>5, <2>6, <2>7, <2>8, <2>9, <3>1 DEF ShowsTable
  <2>12. EndLocked'
    BY <1>1, <2>2, <2>4 DEF IInv, EndLocked, Types, EndOp
  <2>15. b1.master = bm[Home[c]].master /\ b1.stateLock = bm[Home[c]].stateLock
    BY <1>2, <2>3
  <2>16. \A pg \in AnyPage : f1[pg].lock = buf[Home[c]][pg].lock
    BY <2>13, <2>14
  <2> HIDE DEF t, b, f, g, st, scn
  <2> QED BY <1>1, <1>2, <1>5, <1>6, <2>2, <2>3, <2>4, <2>10, <2>12, <2>14, <2>15, <2>16,
             EmptiesDelta DEF t, st
<1> QED BY <1>11, <1>12 DEF CreatesDelta

\* Finishes keeps the invariant.
LEMMA StepFinishes ==
    ASSUME NEW W, Classic, IInv(W), NEW c \in Client, Finishes(c)
    PROVE  IInv(W)'
<1> DEFINE t == th[c]
           b == bm[Home[c]]
           f == buf[Home[c]]
           g == f[Header]
           st == main[Header].st
           scn == main[Header].scn
<1>0. /\ t \in Thread /\ b \in Manager /\ f \in [AnyPage -> Buffer]
      /\ Shape(t) /\ LockOK(t, b) /\ PageOK(t, b, f)
      /\ HeaderOK(t, b, g, st, scn, delta.alloc) /\ Header \in AnyPage
  BY OfClient
<1>1. /\ t.pc = "hwrite" /\ t.op = "finish" /\ ~g.dirty
      /\ UNCHANGED <<ast, buf, main, stored, snap, changes, calls, deaths>>
      /\ delta' = NoDelta /\ endLock' = Nobody
  BY DEF Finishes, bounds
<1>a. PICK t1 : t1 = [t EXCEPT !.pc = "leave"]
  OBVIOUS
<1>b. PICK v \in BOOLEAN : v <=> b.allocIsValid /\ ~(b.allocLock # LCK_none)
  OBVIOUS
<1>c. PICK b1 : b1 = [b EXCEPT !.loaded = FALSE, !.table = <<>>,
                               !.allocIsValid = @ /\ ~(b.allocLock # LCK_none),
                               !.allocLock = LCK_none, !.open = FALSE]
  OBVIOUS
<1>2. th' = [th EXCEPT ![c] = t1] /\ bm' = [bm EXCEPT ![Home[c]] = b1]
  BY <1>a, <1>c, OneThread DEF Finishes, IInv, Types
<1>3. /\ b.stateLock = LCK_write /\ ~t.guard /\ ~t.wait /\ t.page = Header
      /\ b.state = "normal" /\ st = "normal" /\ b.scn = scn
      /\ g.page.st = "normal" /\ g.page.scn = scn
  BY <1>0, <1>1 DEF LockOK, Shape, Guarding, HeaderOK
<1>4. \A pg \in AnyPage : ~f[pg].nbak /\ ~f[pg].dirty /\ ~f[pg].half /\ f[pg].diff = 0
  <2> SUFFICES ASSUME NEW pg \in AnyPage
               PROVE  ~f[pg].nbak /\ ~f[pg].dirty /\ ~f[pg].half /\ f[pg].diff = 0
    OBVIOUS
  <2>1. CASE pg = Header
    <3>1. BufferOK(t, b, Header, g) /\ ~g.nbak
      BY <1>0, <1>1, GuardedPages DEF PageOK, Guarding
    <3>2. ~g.half /\ g.diff = 0
      BY <1>1, <3>1 DEF BufferOK
    <3> QED BY <1>1, <2>1, <3>1, <3>2
  <2>2. CASE pg # Header
    BY <1>0, <1>1, <2>2, GuardedPages DEF Guarding
  <2> QED BY <2>1, <2>2
<1>5. /\ t1 \in Thread /\ t1.pc = "leave" /\ t1.op = "finish" /\ t1.wait = t.wait
      /\ t1.page = t.page /\ t1.guard = t.guard /\ t1.left = t.left
  BY <1>0, <1>1, <1>a DEF Thread, PC
<1>6. /\ b1 \in Manager /\ b1.state = "normal" /\ b1.scn = scn
      /\ ~b1.loaded /\ b1.table = <<>> /\ b1.allocLock = LCK_none
      /\ b1.master = b.master /\ b1.stateLock = LCK_write /\ b1.blocking = b.blocking
  <2>1. b1 = [b EXCEPT !.loaded = FALSE, !.table = <<>>, !.allocIsValid = v,
                       !.allocLock = LCK_none, !.open = FALSE]
    <3>1. (b.allocIsValid /\ ~(b.allocLock # LCK_none)) = v
      BY <1>0, <1>b DEF Manager
    <3> QED BY <1>c, <3>1
  <2>2. <<>> \in Seq(AnyPage)
    OBVIOUS
  <2> QED BY <1>0, <1>3, <2>1, <2>2 DEF Manager, Level
<1>7. Shape(t1)
  BY <1>3, <1>5 DEF Shape, Guarding, GuardOp
<1>8. LockOK(t1, b1)
  BY <1>0, <1>1, <1>3, <1>5, <1>6 DEF LockOK, Guarding, MasterOp, GuardOp, LCK_none, LCK_write
<1>9. KnownOK(t1, b1, st, scn)
  BY <1>3, <1>5, <1>6, HeaderFields DEF KnownOK
<1>10. PageOK(t1, b1, f)
  <2> SUFFICES ASSUME NEW pg \in AnyPage PROVE BufferOK(t1, b1, pg, f[pg])
    BY DEF PageOK
  <2>1. CASE pg = Header
    <3>1. BufferOK(t, b, Header, g)
      BY <1>0 DEF PageOK
    <3>2. g.lock = LCK_write /\ g.valid /\ ~g.nbak /\ ~g.dirty /\ ~g.half /\ g.diff = 0
      BY <1>0, <1>1, <1>3, <1>4, <3>1 DEF BufferOK, Using, Guarding
    <3>3. BufferOK(t1, b1, Header, g)
      BY <1>3, <1>5, <3>2 DEF BufferOK, Using, Guarding, LCK_none, LCK_write
    <3> QED BY <2>1, <3>3
  <2>2. CASE pg # Header
    BY <1>0, <1>3, <1>4, <1>5, <2>2, ClearPage DEF PageOK
  <2> QED BY <2>1, <2>2
<1>11. HeaderOK(t1, b1, g, st, scn, <<>>)
  BY <1>3, <1>5 DEF HeaderOK
<1>12. TableOK(t1, b1, st, scn, <<>>)
  BY <1>6 DEF TableOK, NoRepeats, Recent
<1>13. ShowsTable(W, t1, b1, f, <<>>)
  <2>1. \A pg \in AnyPage : DiffOK(W, f[pg], pg, st, <<>>)
    BY <1>4 DEF DiffOK
  <2>2. \A pg \in AnyPage : CacheOK(W, f[pg], pg, stored[pg]) /\ StampOK(f[pg], pg, scn)
    BY DEF IInv, Buffers
  <2> QED BY <1>7, <1>8, <1>9, <1>10, <1>11, <1>12, <2>1, <2>2 DEF ShowsTable
<1>14. buf' = [buf EXCEPT ![Home[c]] = f]
  BY <1>1, OneThread DEF IInv, Types
<1>15. EndLocked'
  <2> SUFFICES ASSUME NEW d \in Client, th'[d].op \in EndOp, th'[d].pc # "leave"
               PROVE  FALSE
    BY DEF EndLocked
  <2>1. d # c
    BY <1>2, <1>5 DEF IInv, Types
  <2>2. th'[d] = th[d]
    BY <1>2, <2>1 DEF IInv, Types
  <2>3. endLock = Home[d] /\ endLock = Home[c]
    BY <1>1, <2>2 DEF IInv, EndLocked, EndOp
  <2> QED BY <2>1, <2>3, OneThread
<1>16. OtherTypes' /\ endLock' \in Process \cup {Nobody} /\ ~Torn1(c)
  BY <1>0, <1>1, <1>4 DEF IInv, Types, OtherTypes, Torn1
<1>17. delta' \in Delta /\ delta'.alloc = <<>> /\ delta'.data = <<>>
  BY <1>1 DEF NoDelta, Delta
<1>18. b1.master = bm[Home[c]].master /\ b1.stateLock = bm[Home[c]].stateLock
  BY <1>3, <1>6
<1>19. f \in [AnyPage -> Buffer] /\ \A pg \in AnyPage : f[pg].lock = buf[Home[c]][pg].lock
  BY <1>0
<1> HIDE DEF b, f, g, scn
<1> QED BY <1>1, <1>2, <1>3, <1>5, <1>6, <1>13, <1>14, <1>15, <1>16, <1>17, <1>18, <1>19,
           EmptiesDelta

-----------------------------------------------------------------------------
(* write_page. *)

\* Page pg of the process of thread c has been written, or half of it; b1 and
\* f1 are its manager and buffers then.
Written(c, pg, b1, f1) ==
    /\ bm' = [bm EXCEPT ![Home[c]] = b1] /\ buf' = [buf EXCEPT ![Home[c]] = f1]
    /\ UNCHANGED <<th, endLock, snap, changes, calls, deaths>>
    /\ ast' \in [Process -> Handler]
    /\ main' \in [AnyPage -> Contents] /\ stored' \in [AnyPage -> Contents]
    /\ delta' \in Delta
    /\ \A pg2 \in AnyPage \ {pg} :
          main'[pg2] = main[pg2] /\ stored'[pg2] = stored[pg2] /\ f1[pg2] = buf[Home[c]][pg2]
    /\ b1 \in Manager /\ f1 \in [AnyPage -> Buffer]
    /\ SameTable(bm[Home[c]], b1) /\ b1.master = bm[Home[c]].master
    /\ b1.stateLock \in {LCK_none, bm[Home[c]].stateLock}
    /\ f1[pg].lock = buf[Home[c]][pg].lock

\* The others do not have the page.
LEMMA WrittenFields ==
    ASSUME NEW W, Classic, IInv(W), NEW c \in Client, NEW pg \in AnyPage, NEW b1, NEW f1,
           Written(c, pg, b1, f1), buf[Home[c]][pg].lock = LCK_write
    PROVE  /\ Types' /\ Exclusive' /\ EndLocked'
           /\ bm'[Home[c]] = b1 /\ buf'[Home[c]] = f1
           /\ \A d \in Client \ {c} :
                /\ bm'[Home[d]] = bm[Home[d]] /\ buf'[Home[d]] = buf[Home[d]]
                /\ buf[Home[d]][pg] = NoBuffer
                /\ \A pg2 \in AnyPage : CacheOK(W, buf[Home[d]][pg2], pg2, stored'[pg2])
<1>1. /\ bm' = [bm EXCEPT ![Home[c]] = b1] /\ buf' = [buf EXCEPT ![Home[c]] = f1]
      /\ UNCHANGED <<th, endLock, snap, changes, calls, deaths>>
      /\ ast' \in [Process -> Handler]
      /\ main' \in [AnyPage -> Contents] /\ stored' \in [AnyPage -> Contents]
      /\ delta' \in Delta
      /\ \A pg2 \in AnyPage \ {pg} : /\ stored'[pg2] = stored[pg2]
                                     /\ f1[pg2] = buf[Home[c]][pg2]
      /\ b1 \in Manager /\ f1 \in [AnyPage -> Buffer]
      /\ b1.allocLock = bm[Home[c]].allocLock /\ b1.master = bm[Home[c]].master
      /\ b1.stateLock \in {LCK_none, bm[Home[c]].stateLock}
      /\ \A pg2 \in AnyPage : f1[pg2].lock = buf[Home[c]][pg2].lock
  BY DEF Written, SameTable
<1>2. Types'
  <2>1. bm' \in [Process -> Manager] /\ buf' \in [Process -> [AnyPage -> Buffer]]
    BY <1>1, OneThread DEF IInv, Types
  <2> QED BY <1>1, <2>1 DEF IInv, Types
<1>3. /\ bm'[Home[c]] = b1 /\ buf'[Home[c]] = f1
      /\ \A d \in Client \ {c} : bm'[Home[d]] = bm[Home[d]] /\ buf'[Home[d]] = buf[Home[d]]
  BY <1>1, OneThread DEF IInv, Types
<1>4. ASSUME NEW d \in Client \ {c}
      PROVE  /\ buf[Home[d]][pg] = NoBuffer
             /\ \A pg2 \in AnyPage : CacheOK(W, buf[Home[d]][pg2], pg2, stored'[pg2])
  <2>1. ~Clash(LCK_write, buf[Home[d]][pg].lock)
    BY DEF IInv, Exclusive
  <2>2. buf[Home[d]][pg].lock = LCK_none
    BY <2>1 DEF Clash, LCK_write, LCK_none
  <2>3. buf[Home[d]][pg] = NoBuffer
    BY <2>2, OfClient DEF PageOK, BufferOK
  <2>4. ASSUME NEW pg2 \in AnyPage PROVE CacheOK(W, buf[Home[d]][pg2], pg2, stored'[pg2])
    <3>1. CASE pg2 = pg
      BY <2>3, <3>1, NoBufferFields DEF CacheOK
    <3>2. CASE pg2 # pg
      BY <1>1, <3>2 DEF IInv, Buffers
    <3> QED BY <3>1, <3>2
  <2> QED BY <2>3, <2>4
<1>5. Elsewhere(c)
  BY <1>1, <1>3 DEF Elsewhere, Kept
<1>6. OwnLocks(c)
  <2> SUFFICES ASSUME NEW d \in Client \ {c}
               PROVE  /\ b1.stateLock = LCK_write => bm[Home[d]].stateLock = LCK_none
                      /\ bm[Home[d]].stateLock = LCK_write => b1.stateLock = LCK_none
                      /\ \A pg2 \in AnyPage : ~Clash(f1[pg2].lock, buf[Home[d]][pg2].lock)
    BY <1>3 DEF OwnLocks
  <2> QED BY <1>1 DEF IInv, Exclusive, LCK_none, LCK_write
<1>7. \A d \in Client : bm'[Home[d]].allocLock = bm[Home[d]].allocLock
  BY <1>1, <1>3
<1>8. Exclusive'
  BY <1>5, <1>6, <1>7, ExclusiveStep DEF IInv, Exclusive
<1>9. EndLocked'
  BY <1>1 DEF IInv, EndLocked
<1> QED BY <1>2, <1>3, <1>4, <1>8, <1>9

\* The page is in the main file, or half written, in the merge state.
LEMMA WrittenMerging ==
    ASSUME NEW W, Classic, IInv(W), NEW c \in Client, NEW pg \in AnyPage, NEW b1, NEW f1,
           Written(c, pg, b1, f1), buf[Home[c]][pg].lock = LCK_write,
           delta'.alloc = delta.alloc,
           main'[Header].st = main[Header].st, main'[Header].scn = main[Header].scn,
           main[Header].st = "merge" => InMain(W, pg)',
           th[c].pc # "hwrite" \/ f1[Header].dirty
    PROVE  Merging(W)'
<1>1. /\ th' = th
      /\ \A pg2 \in AnyPage \ {pg} :
            main'[pg2] = main[pg2] /\ stored'[pg2] = stored[pg2] /\ f1[pg2] = buf[Home[c]][pg2]
  BY DEF Written
<1>2. /\ buf'[Home[c]] = f1
      /\ \A d \in Client \ {c} : buf'[Home[d]] = buf[Home[d]]
  BY WrittenFields
<1>3. ASSUME NEW pg2 \in AnyPage \ {pg}
      PROVE  /\ InMain(W, pg2) => InMain(W, pg2)'
             /\ \A d \in Client : buf'[Home[d]][pg2] = buf[Home[d]][pg2]
             /\ stored'[pg2] = stored[pg2]
  BY <1>1, <1>2, <1>3 DEF InMain, Halved
<1> SUFFICES ASSUME NEW d \in Client PROVE MergeOK(W, d)'
  BY DEF Merging
<1>4. MergeOK(W, d)
  BY DEF IInv, Merging
<1>5. Active(d)' => Active(d)
  <2>1. CASE d = c
    BY <1>1, <1>2, <2>1 DEF Active
  <2>2. CASE d # c
    BY <1>1, <1>2, <2>2 DEF Active
  <2> QED BY <2>1, <2>2
<1>6. Going(d)' => Going(d)
  BY <1>1 DEF Going
<1>7. th[d].op = "merge" => main[Header].st = "merge"
  BY OfClient DEF KnownOK
<1>8. Going(d) => main[Header].st = "merge"
  BY <1>7 DEF Going
<1>9. ASSUME Active(d)', main'[Header].st = "merge", NEW pg2 \in AnyPage,
             stored'[pg2].scn = main'[Header].scn
      PROVE  InMain(W, pg2)'
  BY <1>3, <1>4, <1>5, <1>9 DEF MergeOK
<1>10. ASSUME Going(d)', NEW pg2 \in AnyPage, Mapped(delta'.alloc, pg2),
              th'[d].op = "merge" => pg2 \notin th'[d].left
       PROVE  InMain(W, pg2)' \/ buf'[Home[d]][pg2].dirty
  BY <1>1, <1>3, <1>4, <1>6, <1>8, <1>10 DEF MergeOK
<1>11. ASSUME th'[d].op = "merge", th'[d].pc = "release", NEW pg2 \in AnyPage,
              pg2 = th'[d].page
       PROVE  InMain(W, pg2)' \/ buf'[Home[d]][pg2].dirty
  BY <1>1, <1>3, <1>4, <1>7, <1>11 DEF MergeOK
<1>12. PICK pg3 \in AnyPage : pg3 = th'[d].page
  BY <1>1, OfClient DEF Thread
<1>13. th'[d].op = "merge" /\ th'[d].pc = "release" =>
          (th'[d].page \in W => \/ main'[th'[d].page] = stored'[th'[d].page]
                                \/ \E k \in Client : buf'[Home[k]][th'[d].page].half)
          \/ buf'[Home[d]][th'[d].page].dirty
  BY <1>11, <1>12 DEF InMain, Halved
<1> QED BY <1>9, <1>10, <1>13 DEF MergeOK, InMain, Halved

\* A page is written, and the backup state stays as it is.
LEMMA WriteStep ==
    ASSUME NEW W, Classic, IInv(W), NEW c \in Client, NEW pg \in AnyPage, NEW b1, NEW f1,
           Written(c, pg, b1, f1), buf[Home[c]][pg].lock = LCK_write,
           delta'.alloc = delta.alloc,
           main'[Header].st = main[Header].st, main'[Header].scn = main[Header].scn,
           main[Header].st = "merge" => InMain(W, pg)',
           th[c].pc # "hwrite" \/ f1[Header].dirty,
           LockOK(th[c], b1), KnownOK(th[c], b1, main[Header].st, main[Header].scn),
           PageOK(th[c], b1, f1),
           HeaderOK(th[c], b1, f1[Header], main[Header].st, main[Header].scn, delta.alloc),
           \A pg2 \in AnyPage :
              /\ DiffOK(W, f1[pg2], pg2, main[Header].st, delta.alloc)
              /\ CacheOK(W, f1[pg2], pg2, stored'[pg2])
              /\ StampOK(f1[pg2], pg2, main[Header].scn),
           HeaderStored', Files(W)', Numbers'
    PROVE  IInv(W)'
<1>1. th' = th
  BY DEF Written
<1>2. /\ Types' /\ Exclusive' /\ EndLocked'
      /\ bm'[Home[c]] = b1 /\ buf'[Home[c]] = f1
      /\ \A d \in Client \ {c} :
           /\ bm'[Home[d]] = bm[Home[d]] /\ buf'[Home[d]] = buf[Home[d]]
           /\ \A pg2 \in AnyPage : CacheOK(W, buf[Home[d]][pg2], pg2, stored'[pg2])
  BY WrittenFields
<1>3. Merging(W)'
  BY WrittenMerging
<1>4. TableOK(th[c], b1, main[Header].st, main[Header].scn, delta.alloc)
  BY OfClient DEF Written, SameTable, TableOK, Recent
<1>5. ASSUME NEW d \in Client
      PROVE  /\ Shape(th'[d])
             /\ LockOK(th'[d], bm'[Home[d]])
             /\ KnownOK(th'[d], bm'[Home[d]], main'[Header].st, main'[Header].scn)
             /\ PageOK(th'[d], bm'[Home[d]], buf'[Home[d]])
             /\ HeaderOK(th'[d], bm'[Home[d]], buf'[Home[d]][Header],
                         main'[Header].st, main'[Header].scn, delta'.alloc)
             /\ TableOK(th'[d], bm'[Home[d]], main'[Header].st, main'[Header].scn, delta'.alloc)
             /\ \A pg2 \in AnyPage :
                  /\ DiffOK(W, buf'[Home[d]][pg2], pg2, main'[Header].st, delta'.alloc)
                  /\ CacheOK(W, buf'[Home[d]][pg2], pg2, stored'[pg2])
                  /\ StampOK(buf'[Home[d]][pg2], pg2, main'[Header].scn)
  <2>1. CASE d = c
    BY <1>1, <1>2, <1>4, <2>1, OfClient
  <2>2. CASE d # c
    BY <1>1, <1>2, <2>2, OfClient DEF IInv, Buffers
  <2> QED BY <2>1, <2>2
<1>6. Clients' /\ Headers' /\ Tables' /\ Buffers(W)'
  BY <1>5 DEF Clients, Headers, Tables, Buffers
<1> QED BY <1>2, <1>3, <1>6 DEF IInv

\* A page that has the state locked is dirty: its process knows the state.
LEMMA DirtyKnown ==
    ASSUME NEW W, Classic, IInv(W), NEW c \in Client, NEW pg \in AnyPage,
           buf[Home[c]][pg].dirty, buf[Home[c]][pg].nbak
    PROVE  /\ th[c].pc \notin Guarding /\ th[c].pc # "mlock" /\ ~th[c].wait
           /\ bm[Home[c]].stateLock # LCK_none
           /\ bm[Home[c]].state = main[Header].st /\ bm[Home[c]].scn = main[Header].scn
           /\ buf[Home[c]][pg].lock = LCK_write /\ buf[Home[c]][pg].valid
           /\ buf[Home[c]][pg].page.ver >= 1
           /\ buf[Home[c]][pg].half => buf[Home[c]][pg].page = stored[pg]
           /\ pg # Header => buf[Home[c]][pg].page.scn = main[Header].scn
           /\ pg = Header => /\ buf[Home[c]][pg].page.scn = main[Header].scn
                             /\ buf[Home[c]][pg].page.st = main[Header].st
<1> DEFINE t == th[c]
           b == bm[Home[c]]
           g == buf[Home[c]][pg]
<1>1. /\ BufferOK(t, b, pg, g) /\ LockOK(t, b)
      /\ KnownOK(t, b, main[Header].st, main[Header].scn)
      /\ HeaderOK(t, b, buf[Home[c]][Header], main[Header].st, main[Header].scn, delta.alloc)
  BY OfClient DEF PageOK
<1>2. CacheOK(W, g, pg, stored[pg]) /\ StampOK(g, pg, main[Header].scn)
  BY DEF IInv, Buffers
<1>3. g.dirty /\ g.nbak
  OBVIOUS
<1> HIDE DEF g
<1>4. t.pc \notin Guarding /\ t.pc # "mlock" /\ b.stateLock # LCK_none
  BY <1>1, <1>3 DEF BufferOK
<1>5. ~t.wait
  BY <1>1, <1>4 DEF LockOK
<1>6. b.state = main[Header].st /\ b.scn = main[Header].scn
  BY <1>1, <1>4 DEF KnownOK, Guarding
<1>7. g.lock = LCK_write /\ g.valid
  BY <1>1, <1>3 DEF BufferOK
<1>8. /\ g.page.ver >= 1 /\ (g.half => g.page = stored[pg])
      /\ pg # Header => g.page.scn = main[Header].scn
  BY <1>2, <1>3, <1>7 DEF CacheOK, StampOK
<1>9. pg = Header => g.page.scn = main[Header].scn /\ g.page.st = main[Header].st
  BY <1>1, <1>4, <1>7 DEF HeaderOK, Guarding, g
<1> QED BY <1>4, <1>5, <1>6, <1>7, <1>8, <1>9 DEF g

\* Its release of localStateLock may release stateLock, if nobody else reads.
LEMMA PageUnlocked ==
    ASSUME Classic, NEW c \in Client, NEW pg \in AnyPage, NEW b \in Manager, NEW e,
           e = unlockStateRead(Home[c], b, LocalReaders(Home[c]) \ {pg})
    PROVE  /\ e \in Manager /\ SameTable(b, e) /\ e.master = b.master
           /\ \/ Kept(b, e)
              \/ /\ ~th[c].guard
                 /\ \A pg2 \in AnyPage : pg2 # pg => ~buf[Home[c]][pg2].nbak
                 /\ e.stateLock = LCK_none /\ e.state = "unknown" /\ ~e.open /\ ~e.blocking
<1> DEFINE r == LocalReaders(Home[c]) \ {pg}
<1>1. r = {} <=> ~th[c].guard /\ \A pg2 \in AnyPage : pg2 # pg => ~buf[Home[c]][pg2].nbak
  BY TheReaders
<1>2. e = unlockStateRead(Home[c], b, r)
  OBVIOUS
<1> HIDE DEF r
<1>3. /\ e \in Manager /\ SameTable(b, e) /\ e.master = b.master
      /\ \/ Kept(b, e)
         \/ /\ r = {} /\ th[c].pc \notin Guarding
            /\ e.stateLock = LCK_none /\ e.state = "unknown"
            /\ ~e.open /\ ~e.blocking
  BY <1>2, UnlockFields, Zenon
<1> QED BY <1>1, <1>3

\* The end of the write of such a page: what the process shows of itself.
CleanShows(c, pg, b1, f1) ==
    /\ LockOK(th[c], b1) /\ KnownOK(th[c], b1, main[Header].st, main[Header].scn)
    /\ PageOK(th[c], b1, f1)
    /\ HeaderOK(th[c], b1, f1[Header], main[Header].st, main[Header].scn, delta.alloc)
    /\ ~f1[pg].dirty /\ ~f1[pg].nbak /\ f1[pg].diff = 0 /\ ~f1[pg].half
    /\ f1[pg].valid /\ f1[pg].page = buf[Home[c]][pg].page

\* After that end the process shows what it must.
LEMMA CleanFields ==
    ASSUME NEW W, Classic, IInv(W), NEW c \in Client, NEW pg \in AnyPage,
           buf[Home[c]][pg].dirty, buf[Home[c]][pg].nbak,
           ~(th[c].page = pg /\ th[c].pc = "marked"), Clean(Home[c], pg),
           UNCHANGED <<th, endLock, snap, changes, calls, deaths>>,
           main' \in [AnyPage -> Contents], stored' \in [AnyPage -> Contents],
           delta' \in Delta,
           \A pg2 \in AnyPage \ {pg} : main'[pg2] = main[pg2] /\ stored'[pg2] = stored[pg2],
           NEW b1, b1 = bm'[Home[c]], NEW f1, f1 = buf'[Home[c]]
    PROVE  Written(c, pg, b1, f1) /\ CleanShows(c, pg, b1, f1)
<1> DEFINE t == th[c]
           b == bm[Home[c]]
           f == buf[Home[c]]
           g == f[pg]
           g1 == [g EXCEPT !.dirty = FALSE, !.nbak = FALSE, !.diff = 0, !.half = FALSE]
<1>0. /\ t \in Thread /\ b \in Manager /\ f \in [AnyPage -> Buffer]
      /\ Shape(t) /\ LockOK(t, b) /\ PageOK(t, b, f)
      /\ KnownOK(t, b, main[Header].st, main[Header].scn)
      /\ HeaderOK(t, b, f[Header], main[Header].st, main[Header].scn, delta.alloc)
      /\ Home[c] \in Process
  BY OfClient, OneThread
<1>1. /\ t.pc \notin Guarding /\ t.pc # "mlock" /\ ~t.wait
      /\ b.stateLock # LCK_none /\ b.scn = main[Header].scn /\ g.lock = LCK_write /\ g.valid
      /\ pg = Header => g.page.scn = main[Header].scn /\ g.page.st = main[Header].st
  BY DirtyKnown
<1>2. PICK e : e = unlockStateRead(Home[c], b, LocalReaders(Home[c]) \ {pg})
  OBVIOUS
<1>3. buf' = [buf EXCEPT ![Home[c]] = [f EXCEPT ![pg] = g1]]
  <2>1. buf' = [buf EXCEPT ![Home[c]][pg].dirty = FALSE, ![Home[c]][pg].nbak = FALSE,
                           ![Home[c]][pg].diff = 0, ![Home[c]][pg].half = FALSE]
    BY DEF Clean
  <2> QED BY <1>0, <2>1 DEF IInv, Types
<1>4. bm' = [bm EXCEPT ![Home[c]] = e]
  BY <1>2 DEF Clean
<1>5. f1 = [f EXCEPT ![pg] = g1] /\ b1 = e
  BY <1>0, <1>3, <1>4 DEF IInv, Types
<1>6. g \in Buffer /\ BufferOK(t, b, pg, g)
  BY <1>0 DEF PageOK
<1>7. /\ g1 \in Buffer /\ ~g1.dirty /\ ~g1.nbak /\ g1.diff = 0 /\ ~g1.half
      /\ g1.lock = g.lock /\ g1.valid = g.valid /\ g1.page = g.page
  BY <1>6 DEF Buffer
<1> HIDE DEF g1
<1>8. /\ f1 \in [AnyPage -> Buffer] /\ f1[pg] = g1
      /\ \A pg2 \in AnyPage \ {pg} : f1[pg2] = f[pg2]
  BY <1>0, <1>5, <1>7
<1>9. ast' \in [Process -> Handler]
  <2>1. ast' = [ast EXCEPT ![Home[c]].todo = @ \ {pg}]
    BY DEF Clean
  <2>2. ast \in [Process -> Handler] /\ ast[Home[c]] \in Handler
    BY <1>0 DEF IInv, Types
  <2>3. ast[Home[c]].todo \ {pg} \in SUBSET AnyPage
    BY <2>2 DEF Handler
  <2>4. [ast[Home[c]] EXCEPT !.todo = @ \ {pg}] \in Handler
    BY <2>2, <2>3 DEF Handler
  <2> QED BY <1>0, <2>1, <2>2, <2>4
<1>10. /\ b1 \in Manager /\ SameTable(b, b1) /\ b1.master = b.master
       /\ \/ Kept(b, b1)
          \/ /\ ~t.guard
             /\ \A pg2 \in AnyPage : pg2 # pg => ~f[pg2].nbak
             /\ b1.stateLock = LCK_none /\ b1.state = "unknown" /\ ~b1.open /\ ~b1.blocking
  <2>a. PICK k \in Manager : k = b
    BY <1>0
  <2>1. b1 = unlockStateRead(Home[c], k, LocalReaders(Home[c]) \ {pg})
    BY <1>2, <1>5, <2>a
  <2> HIDE DEF b
  <2> QED BY <2>a, <2>1, PageUnlocked
<1>11. b1.stateLock \in {LCK_none, b.stateLock}
  BY <1>10 DEF Kept
<1>12. Written(c, pg, b1, f1)
  BY <1>3, <1>4, <1>5, <1>7, <1>8, <1>9, <1>10, <1>11 DEF Written
<1>13. HeaderOK(t, b1, f1[Header], main[Header].st, main[Header].scn, delta.alloc)
  <2>1. t.pc # "hwrite"
    BY <1>1 DEF Guarding
  <2>2. f1[Header].valid => f1[Header].page.st = main[Header].st
                            /\ f1[Header].page.scn = main[Header].scn
    <3>1. CASE pg = Header
      BY <1>1, <1>7, <1>8, <3>1
    <3>2. CASE pg # Header
      BY <1>0, <1>8, <2>1, <3>2, OfClient DEF HeaderOK
    <3> QED BY <3>1, <3>2
  <2> QED BY <2>1, <2>2 DEF HeaderOK
<1>14. t.op = "merge" => t.guard
  BY <1>0, <1>1 DEF Shape
<1>15. LockOK(t, b1)
  <2>1. CASE Kept(b, b1)
    BY <1>0, <2>1, KeptOK
  <2>2. CASE ~Kept(b, b1)
    BY <1>0, <1>1, <1>10, <1>14, <2>2 DEF LockOK, Guarding
  <2> QED BY <2>1, <2>2
<1>16. KnownOK(t, b1, main[Header].st, main[Header].scn)
  <2>1. CASE Kept(b, b1)
    BY <1>0, <2>1, KeptOK
  <2>2. CASE ~Kept(b, b1)
    BY <1>0, <1>1, <1>10, <1>14, <2>2 DEF KnownOK, SameTable
  <2> QED BY <2>1, <2>2
<1>17. PageOK(t, b1, f1)
  <2> SUFFICES ASSUME NEW pg2 \in AnyPage PROVE BufferOK(t, b1, pg2, f1[pg2])
    BY DEF PageOK
  <2>0. b1.scn = b.scn
    BY <1>10 DEF SameTable
  <2>1. CASE pg2 = pg
    <3> HIDE DEF g
    <3>1. ~(t.page = pg /\ t.pc = "marked")
      OBVIOUS
    <3>2. BufferOK(t, b1, pg, g1)
      BY <1>1, <1>6, <1>7, <3>1 DEF BufferOK, LCK_none, LCK_write
    <3> QED BY <1>8, <2>1, <3>2
  <2>2. CASE pg2 # pg
    <3> DEFINE k == f[pg2]
    <3>1. BufferOK(t, b, pg2, k) /\ f1[pg2] = k
      BY <1>0, <1>8, <2>2 DEF PageOK
    <3>2. Kept(b, b1) \/ ~k.nbak
      BY <1>10, <2>2
    <3> HIDE DEF k
    <3>3. CASE Kept(b, b1)
      BY <2>0, <3>1, <3>3 DEF BufferOK, Kept
    <3>4. CASE ~k.nbak
      BY <1>1, <2>0, <3>1, <3>4 DEF BufferOK, Guarding
    <3> QED BY <3>1, <3>2, <3>3, <3>4
  <2> QED BY <2>1, <2>2
<1>18. CleanShows(c, pg, b1, f1)
  BY <1>1, <1>7, <1>8, <1>13, <1>15, <1>16, <1>17 DEF CleanShows
<1> QED BY <1>12, <1>18

\* The delta holds page in the place of page pg, and all else as before.
DeltaTakes(pg, page) ==
    \A j \in DOMAIN delta.alloc :
        delta'.data[j] = IF delta.alloc[j] = pg THEN page ELSE delta.data[j]

\* The files after a page has been written to the delta, ...
LEMMA DeltaWritten ==
    ASSUME NEW W, IInv(W), main[Header].st # "normal", NEW pg \in AnyPage,
           NEW page \in Contents, page.ver >= 1,
           NEW i \in DOMAIN delta.alloc, delta.alloc[i] = pg, UNCHANGED main,
           delta' = [delta EXCEPT !.data[i] = page], stored' = [stored EXCEPT ![pg] = page]
    PROVE  /\ Files(W)' /\ delta' \in Delta /\ stored' \in [AnyPage -> Contents]
           /\ delta'.alloc = delta.alloc /\ stored'[pg] = page
           /\ \A pg2 \in AnyPage \ {pg} : stored'[pg2] = stored[pg2]
           /\ DeltaTakes(pg, page)
<1> DEFINE alloc == delta.alloc
           data == delta.data
           d1 == [data EXCEPT ![i] = page]
<1>1. /\ delta \in Delta /\ alloc \in Seq(AnyPage) /\ data \in Seq(Contents)
      /\ Len(data) = Len(alloc) /\ NoRepeats(alloc) /\ stored \in [AnyPage -> Contents]
      /\ \A pg2 \in AnyPage : FileOK(W, pg2, main[Header].st)
  BY DEF IInv, Types, Delta, Files
<1>2. /\ d1 \in Seq(Contents) /\ Len(d1) = Len(data) /\ DOMAIN data = DOMAIN alloc
      /\ d1[i] = page /\ \A j \in DOMAIN alloc : j # i => d1[j] = data[j]
  BY <1>1
<1>3. /\ delta' \in Delta /\ delta'.alloc = alloc /\ delta'.data = d1
  <2>1. delta' = [delta EXCEPT !.data = d1]
    BY <1>1 DEF Delta
  <2> HIDE DEF d1
  <2> QED BY <1>1, <1>2, <2>1 DEF Delta
<1>4. /\ stored' \in [AnyPage -> Contents] /\ stored'[pg] = page
      /\ \A pg2 \in AnyPage \ {pg} : stored'[pg2] = stored[pg2]
  BY <1>1
<1>7. \A j \in DOMAIN alloc : d1[j] = IF alloc[j] = pg THEN page ELSE data[j]
  <2>1. \A j \in DOMAIN alloc : alloc[j] = pg => j = i
    BY <1>1 DEF NoRepeats
  <2> HIDE DEF d1
  <2> QED BY <1>2, <2>1
<1> HIDE DEF d1, data
<1>5. page # EmptyPage
  BY DEF EmptyPage
<1>6. ASSUME NEW pg2 \in AnyPage PROVE FileOK(W, pg2, main[Header].st)'
  <2>1. FileOK(W, pg2, main[Header].st)
    BY <1>1
  <2>2. CASE pg2 = pg
    <3>1. Mapped(alloc, pg)
      BY DEF Mapped
    <3>2. \A j \in DOMAIN alloc : alloc[j] = pg => j = i
      BY <1>1 DEF NoRepeats
    <3> QED BY <1>2, <1>3, <1>4, <1>5, <2>1, <2>2, <3>1, <3>2 DEF FileOK
  <2>3. CASE pg2 # pg
    <3>1. \A j \in DOMAIN alloc : alloc[j] = pg2 => d1[j] = data[j]
      BY <1>2, <2>3
    <3> QED BY <1>3, <1>4, <2>1, <2>3, <3>1 DEF FileOK, data
  <2> QED BY <2>2, <2>3
<1> QED BY <1>1, <1>2, <1>3, <1>4, <1>6, <1>7 DEF Files, DeltaTakes, data

\* ... and after it has been written to the main file.
LEMMA MainWritten ==
    ASSUME NEW W, IInv(W), NEW pg \in AnyPage, NEW page \in Contents, page.ver >= 1,
           UNCHANGED delta,
           main' = [main EXCEPT ![pg] = page], stored' = [stored EXCEPT ![pg] = page],
           main'[Header].st = main[Header].st,
           pg \in W /\ main[Header].st # "normal" /\ Mapped(delta.alloc, pg)
              => page = stored[pg]
    PROVE  /\ Files(W)' /\ main' \in [AnyPage -> Contents] /\ stored' \in [AnyPage -> Contents]
           /\ main'[pg] = page /\ stored'[pg] = page
           /\ \A pg2 \in AnyPage \ {pg} : main'[pg2] = main[pg2] /\ stored'[pg2] = stored[pg2]
<1>1. /\ main \in [AnyPage -> Contents] /\ stored \in [AnyPage -> Contents]
      /\ NoRepeats(delta.alloc) /\ Len(delta.data) = Len(delta.alloc)
      /\ \A pg2 \in AnyPage : FileOK(W, pg2, main[Header].st)
  BY DEF IInv, Types, Files
<1>2. /\ main' \in [AnyPage -> Contents] /\ stored' \in [AnyPage -> Contents]
      /\ main'[pg] = page /\ stored'[pg] = page
      /\ \A pg2 \in AnyPage \ {pg} : main'[pg2] = main[pg2] /\ stored'[pg2] = stored[pg2]
  BY <1>1
<1>3. ASSUME NEW pg2 \in AnyPage PROVE FileOK(W, pg2, main[Header].st)'
  <2>1. FileOK(W, pg2, main[Header].st)
    BY <1>1
  <2>2. CASE pg2 = pg
    BY <1>2, <2>1, <2>2 DEF FileOK, Mapped
  <2>3. CASE pg2 # pg
    BY <1>2, <2>1, <2>3 DEF FileOK
  <2> QED BY <2>2, <2>3
<1> QED BY <1>1, <1>2, <1>3 DEF Files

\* What is stored of the header page after a write of page pg.
LEMMA WrittenHeader ==
    ASSUME NEW W, Classic, IInv(W), NEW c \in Client, NEW pg \in AnyPage, NEW b1, NEW f1,
           Written(c, pg, b1, f1), buf[Home[c]][pg].lock = LCK_write,
           main'[Header].st = main[Header].st, main'[Header].scn = main[Header].scn,
           delta'.alloc = delta.alloc,
           \A j \in DOMAIN delta.alloc :
              \/ delta'.data[j] = delta.data[j]
              \/ delta.alloc[j] = pg /\ delta'.data[j] = stored'[pg],
           pg = Header => /\ th[c].pc # "hwrite"
                          /\ stored'[Header].st = main[Header].st
                          /\ stored'[Header].scn = main[Header].scn
    PROVE  HeaderStored'
<1>1. CASE pg = Header
  <2>1. ASSUME NEW d \in Client PROVE ~Torn1(d)
    <3>1. CASE d = c
      BY <1>1, <3>1 DEF Torn1
    <3>2. CASE d # c
      <4>1. buf[Home[d]][Header] = NoBuffer
        BY <1>1, <3>2, WrittenFields
      <4> QED BY <4>1, NoBufferFields DEF Torn1
    <3> QED BY <3>1, <3>2
  <2>2. ASSUME NEW j \in DOMAIN delta.alloc, main[Header].st # "normal",
               delta.alloc[j] = Header
        PROVE  \/ delta'.data[j] = EmptyPage
               \/ /\ delta'.data[j].st = main[Header].st
                  /\ delta'.data[j].scn = main[Header].scn
    <3>1. CASE delta'.data[j] = delta.data[j]
      BY <2>1, <2>2, <3>1 DEF IInv, HeaderStored
    <3>2. CASE delta'.data[j] = stored'[pg]
      BY <1>1, <3>2
    <3> QED BY <3>1, <3>2
  <2> QED BY <1>1, <2>2 DEF HeaderStored
<1>2. CASE pg # Header
  <2>1. /\ th' = th /\ stored'[Header] = stored[Header]
        /\ f1[Header] = buf[Home[c]][Header]
    BY <1>2, OfClient DEF Written
  <2>2. \A d \in Client : buf'[Home[d]][Header] = buf[Home[d]][Header]
    BY <2>1, WrittenFields
  <2>3. \A d \in Client : Torn1(d) => Torn1(d)'
    BY <2>1, <2>2 DEF Torn1
  <2>4. \A j \in DOMAIN delta.alloc :
           delta.alloc[j] = Header => delta'.data[j] = delta.data[j]
    BY <1>2
  <2> QED BY <2>1, <2>3, <2>4 DEF IInv, HeaderStored
<1> QED BY <1>1, <1>2

\* The SCNs after a write of page pg.
LEMMA WrittenNumbers ==
    ASSUME NEW W, IInv(W), NEW pg \in AnyPage, UNCHANGED snap,
           main'[Header].scn = main[Header].scn, main'[Header].st = main[Header].st,
           pg # Header =>
             /\ stored'[pg].scn = main[Header].scn
             /\ \/ main'[pg] = main[pg]
                \/ main[Header].st # "stalled" /\ main'[pg].scn = main[Header].scn,
           \A pg2 \in AnyPage \ {pg} : main'[pg2] = main[pg2] /\ stored'[pg2] = stored[pg2]
    PROVE  Numbers'
<1>1. snap.scn \in Nat /\ main[Header].scn \in Nat
  BY HeaderFields DEF IInv, Types, Snap
<1> SUFFICES ASSUME NEW pg2 \in Page
             PROVE  /\ main'[pg2].scn <= main[Header].scn /\ stored'[pg2].scn <= main[Header].scn
                    /\ main[Header].st = "stalled" => main'[pg2].scn < main[Header].scn
                    /\ main'[pg2].ver # snap.ver[pg2] => main'[pg2].scn > snap.scn
  BY DEF IInv, Numbers
<1>2. pg2 \in AnyPage /\ pg2 # Header
  BY NBConstants DEF AnyPage
<1>3. /\ main[pg2].scn <= main[Header].scn /\ stored[pg2].scn <= main[Header].scn
      /\ main[Header].st = "stalled" => main[pg2].scn < main[Header].scn
      /\ main[pg2].ver # snap.ver[pg2] => main[pg2].scn > snap.scn
      /\ snap.scn < main[Header].scn
  BY DEF IInv, Numbers
<1>4. CASE pg2 = pg
  BY <1>1, <1>2, <1>3, <1>4
<1>5. CASE pg2 # pg
  BY <1>2, <1>3, <1>5
<1> QED BY <1>4, <1>5

\* A page with the state locked is written to the delta only.
LEMMA StepWriteStalled ==
    ASSUME NEW W, Classic, IInv(W), NEW c \in Client, NEW pg \in AnyPage,
           buf[Home[c]][pg].dirty, buf[Home[c]][pg].nbak,
           ~(th[c].page = pg /\ th[c].pc = "marked"),
           bm[Home[c]].state = "stalled", buf[Home[c]][pg].diff # 0,
           delta' = [delta EXCEPT !.data[buf[Home[c]][pg].diff] = buf[Home[c]][pg].page],
           stored' = [stored EXCEPT ![pg] = buf[Home[c]][pg].page],
           Clean(Home[c], pg), UNCHANGED <<main, th, endLock, snap, changes, calls, deaths>>
    PROVE  IInv(W)'
<1>a. PICK i : i = buf[Home[c]][pg].diff
  OBVIOUS
<1>b. PICK page : page = buf[Home[c]][pg].page
  OBVIOUS
<1>c. PICK b1 : b1 = bm'[Home[c]]
  OBVIOUS
<1>d. PICK f1 : f1 = buf'[Home[c]]
  OBVIOUS
<1>1. /\ th[c].pc \notin Guarding /\ main[Header].st = "stalled"
      /\ buf[Home[c]][pg].lock = LCK_write /\ page.ver >= 1
      /\ pg # Header => page.scn = main[Header].scn
      /\ pg = Header => page.scn = main[Header].scn /\ page.st = main[Header].st
  BY <1>b, DirtyKnown
<1>2. page \in Contents
  BY <1>b, OfClient DEF Buffer
<1>3. i \in DOMAIN delta.alloc /\ delta.alloc[i] = pg
  BY <1>a DEF IInv, Buffers, DiffOK
<1>4. /\ Files(W)' /\ delta' \in Delta /\ stored' \in [AnyPage -> Contents]
      /\ delta'.alloc = delta.alloc /\ stored'[pg] = page
      /\ \A pg2 \in AnyPage \ {pg} : stored'[pg2] = stored[pg2]
      /\ DeltaTakes(pg, page)
  BY <1>a, <1>b, <1>1, <1>2, <1>3, DeltaWritten
<1>5. Written(c, pg, b1, f1) /\ CleanShows(c, pg, b1, f1)
  BY <1>c, <1>d, <1>4, CleanFields DEF IInv, Types
<1>6. HeaderStored'
  BY <1>1, <1>4, <1>5, WrittenHeader DEF Guarding, DeltaTakes
<1>7. Numbers'
  BY <1>1, <1>4, WrittenNumbers
<1>8. ASSUME NEW pg2 \in AnyPage
      PROVE  /\ DiffOK(W, f1[pg2], pg2, main[Header].st, delta.alloc)
             /\ CacheOK(W, f1[pg2], pg2, stored'[pg2])
             /\ StampOK(f1[pg2], pg2, main[Header].scn)
  <2>1. CASE pg2 = pg
    BY <1>b, <1>1, <1>4, <1>5, <2>1 DEF CleanShows, DiffOK, CacheOK, StampOK
  <2>2. CASE pg2 # pg
    BY <1>4, <1>5, <2>2 DEF Written, IInv, Buffers
  <2> QED BY <2>1, <2>2
<1>9. th[c].pc # "hwrite"
  BY <1>1 DEF Guarding
<1>10. /\ LockOK(th[c], b1) /\ KnownOK(th[c], b1, main[Header].st, main[Header].scn)
       /\ PageOK(th[c], b1, f1)
       /\ HeaderOK(th[c], b1, f1[Header], main[Header].st, main[Header].scn, delta.alloc)
  BY <1>5 DEF CleanShows
<1> QED BY <1>1, <1>4, <1>5, <1>6, <1>7, <1>8, <1>9, <1>10, WriteStep

\* A page with the state locked is written to the main file.
LEMMA StepWriteMain ==
    ASSUME NEW W, Classic, IInv(W), NEW c \in Client, NEW pg \in AnyPage,
           buf[Home[c]][pg].dirty, buf[Home[c]][pg].nbak,
           ~(th[c].page = pg /\ th[c].pc = "marked"),
           bm[Home[c]].state # "stalled",
           bm[Home[c]].state = "merge" /\ buf[Home[c]][pg].diff # 0 => buf[Home[c]][pg].half,
           main' = [main EXCEPT ![pg] = buf[Home[c]][pg].page],
           stored' = [stored EXCEPT ![pg] = buf[Home[c]][pg].page],
           Clean(Home[c], pg), UNCHANGED <<delta, th, endLock, snap, changes, calls, deaths>>
    PROVE  IInv(W)'
<1>b. PICK page : page = buf[Home[c]][pg].page
  OBVIOUS
<1>c. PICK b1 : b1 = bm'[Home[c]]
  OBVIOUS
<1>d. PICK f1 : f1 = buf'[Home[c]]
  OBVIOUS
<1>1. /\ th[c].pc \notin Guarding /\ bm[Home[c]].state = main[Header].st
      /\ buf[Home[c]][pg].lock = LCK_write /\ page.ver >= 1
      /\ pg # Header => page.scn = main[Header].scn
      /\ pg = Header => page.scn = main[Header].scn /\ page.st = main[Header].st
      /\ buf[Home[c]][pg].half => page = stored[pg]
  BY <1>b, DirtyKnown
<1>2. page \in Contents
  BY <1>b, OfClient DEF Buffer
<1>3. pg \in W /\ main[Header].st # "normal" /\ Mapped(delta.alloc, pg) => page = stored[pg]
  <2>1. pg \in W /\ main[Header].st = "merge" /\ Mapped(delta.alloc, pg)
           => buf[Home[c]][pg].diff # 0
    BY DEF IInv, Buffers, DiffOK
  <2> QED BY <1>1, <2>1, HeaderFields
<1>4. main'[Header].st = main[Header].st /\ main'[Header].scn = main[Header].scn
  BY <1>b, <1>1, OfClient DEF IInv, Types
<1>5. /\ Files(W)' /\ main' \in [AnyPage -> Contents] /\ stored' \in [AnyPage -> Contents]
      /\ main'[pg] = page /\ stored'[pg] = page
      /\ \A pg2 \in AnyPage \ {pg} : main'[pg2] = main[pg2] /\ stored'[pg2] = stored[pg2]
  BY <1>b, <1>1, <1>2, <1>3, <1>4, MainWritten
<1>6. Written(c, pg, b1, f1) /\ CleanShows(c, pg, b1, f1)
  BY <1>c, <1>d, <1>5, CleanFields DEF IInv, Types
<1>7. HeaderStored'
  BY <1>1, <1>4, <1>5, <1>6, WrittenHeader DEF Guarding
<1>8. Numbers'
  BY <1>1, <1>4, <1>5, WrittenNumbers
<1>9. ASSUME NEW pg2 \in AnyPage
      PROVE  /\ DiffOK(W, f1[pg2], pg2, main[Header].st, delta.alloc)
             /\ CacheOK(W, f1[pg2], pg2, stored'[pg2])
             /\ StampOK(f1[pg2], pg2, main[Header].scn)
  <2>1. CASE pg2 = pg
    BY <1>b, <1>1, <1>5, <1>6, <2>1 DEF CleanShows, DiffOK, CacheOK, StampOK
  <2>2. CASE pg2 # pg
    BY <1>5, <1>6, <2>2 DEF Written, IInv, Buffers
  <2> QED BY <2>1, <2>2
<1>10. th[c].pc # "hwrite" /\ InMain(W, pg)' /\ delta'.alloc = delta.alloc
  BY <1>1, <1>5 DEF Guarding, InMain
<1>11. /\ LockOK(th[c], b1) /\ KnownOK(th[c], b1, main[Header].st, main[Header].scn)
       /\ PageOK(th[c], b1, f1)
       /\ HeaderOK(th[c], b1, f1[Header], main[Header].st, main[Header].scn, delta.alloc)
  BY <1>6 DEF CleanShows
<1> QED BY <1>1, <1>4, <1>5, <1>6, <1>7, <1>8, <1>9, <1>10, <1>11, WriteStep

\* A page of the delta is written there first, in the merge state; this may be
\* the header page with which endBackup changes the state.
LEMMA StepWriteHalf ==
    ASSUME NEW W, Classic, IInv(W), NEW c \in Client, NEW pg \in AnyPage,
           buf[Home[c]][pg].dirty, bm[Home[c]].state = "merge", buf[Home[c]][pg].diff # 0,
           delta' = [delta EXCEPT !.data[buf[Home[c]][pg].diff] = buf[Home[c]][pg].page],
           stored' = [stored EXCEPT ![pg] = buf[Home[c]][pg].page],
           buf' = [buf EXCEPT ![Home[c]][pg].half = TRUE],
           UNCHANGED <<bm, ast, main, th, endLock, snap, changes, calls, deaths>>
    PROVE  IInv(W)'
<1> DEFINE t == th[c]
           b == bm[Home[c]]
           f == buf[Home[c]]
           g == f[pg]
           g1 == [g EXCEPT !.half = TRUE]
<1>0. /\ t \in Thread /\ b \in Manager /\ f \in [AnyPage -> Buffer]
      /\ Shape(t) /\ LockOK(t, b) /\ PageOK(t, b, f)
      /\ KnownOK(t, b, main[Header].st, main[Header].scn)
      /\ HeaderOK(t, b, f[Header], main[Header].st, main[Header].scn, delta.alloc)
      /\ Home[c] \in Process /\ Header \in AnyPage
  BY OfClient, OneThread
<1>a. PICK i : i = g.diff
  OBVIOUS
<1>b. PICK page : page = g.page
  OBVIOUS
<1>c. PICK f1 : f1 = [f EXCEPT ![pg] = g1]
  OBVIOUS
<1>1. g \in Buffer /\ BufferOK(t, b, pg, g) /\ CacheOK(W, g, pg, stored[pg])
      /\ StampOK(g, pg, main[Header].scn) /\ DiffOK(W, g, pg, main[Header].st, delta.alloc)
  BY <1>0 DEF PageOK, IInv, Buffers
<1>2. /\ g1 \in Buffer /\ g1.half /\ g1.lock = g.lock /\ g1.valid = g.valid
      /\ g1.dirty = g.dirty /\ g1.nbak = g.nbak /\ g1.diff = g.diff /\ g1.page = g.page
  BY <1>1 DEF Buffer
<1>3. /\ g.dirty /\ g.diff # 0 /\ g.valid /\ g.lock = LCK_write /\ page.ver >= 1
      /\ pg # Header => g.page.scn = main[Header].scn
      /\ main[Header].st # "normal" /\ i \in DOMAIN delta.alloc /\ delta.alloc[i] = pg
      /\ page \in Contents
  <2>1. g.dirty /\ g.diff # 0
    OBVIOUS
  <2>2. g.valid /\ g.lock = LCK_write
    BY <1>1, <2>1 DEF BufferOK
  <2>3. page.ver >= 1 /\ page \in Contents
    BY <1>b, <1>1, <2>2 DEF CacheOK, Buffer
  <2> QED BY <1>a, <1>1, <2>1, <2>2, <2>3 DEF StampOK, DiffOK
<1>4. /\ Files(W)' /\ delta' \in Delta /\ stored' \in [AnyPage -> Contents]
      /\ delta'.alloc = delta.alloc /\ stored'[pg] = page
      /\ \A pg2 \in AnyPage \ {pg} : stored'[pg2] = stored[pg2]
      /\ DeltaTakes(pg, page)
  BY <1>a, <1>b, <1>3, DeltaWritten
<1>5. buf' = [buf EXCEPT ![Home[c]] = f1]
  BY <1>c
<1> HIDE DEF g1
<1>6. /\ f1 \in [AnyPage -> Buffer] /\ f1[pg] = g1
      /\ \A pg2 \in AnyPage \ {pg} : f1[pg2] = f[pg2]
  BY <1>0, <1>2, <1>c
<1>7. Written(c, pg, b, f1)
  <2>1. bm' = [bm EXCEPT ![Home[c]] = b] /\ SameTable(b, b)
    BY DEF IInv, Types, SameTable
  <2> QED BY <1>0, <1>2, <1>4, <1>5, <1>6, <2>1 DEF Written, IInv, Types
<1>8. PageOK(t, b, f1)
  <2> SUFFICES ASSUME NEW pg2 \in AnyPage PROVE BufferOK(t, b, pg2, f1[pg2])
    BY DEF PageOK
  <2>1. CASE pg2 = pg
    <3> HIDE DEF g
    <3>1. b.state = "merge"
      OBVIOUS
    <3>2. BufferOK(t, b, pg, g1)
      BY <1>1, <1>2, <1>3, <3>1 DEF BufferOK, LCK_none, LCK_write
    <3> QED BY <1>6, <2>1, <3>2
  <2>2. CASE pg2 # pg
    BY <1>0, <1>6, <2>2 DEF PageOK
  <2> QED BY <2>1, <2>2
<1>9. /\ f1[Header].valid = f[Header].valid /\ f1[Header].dirty = f[Header].dirty
      /\ f1[Header].diff = f[Header].diff /\ f1[Header].page = f[Header].page
  <2>1. CASE pg = Header
    BY <1>2, <1>6, <2>1
  <2>2. CASE pg # Header
    BY <1>0, <1>6, <2>2
  <2> QED BY <2>1, <2>2
<1>10. HeaderOK(t, b, f1[Header], main[Header].st, main[Header].scn, delta.alloc)
  BY <1>0, <1>9 DEF HeaderOK
<1>11. ASSUME NEW pg2 \in AnyPage
       PROVE  /\ DiffOK(W, f1[pg2], pg2, main[Header].st, delta.alloc)
              /\ CacheOK(W, f1[pg2], pg2, stored'[pg2])
              /\ StampOK(f1[pg2], pg2, main[Header].scn)
  <2>1. CASE pg2 = pg
    <3> HIDE DEF g
    <3>1. /\ DiffOK(W, g1, pg, main[Header].st, delta.alloc)
          /\ CacheOK(W, g1, pg, page) /\ StampOK(g1, pg, main[Header].scn)
      BY <1>b, <1>1, <1>2, <1>3 DEF DiffOK, CacheOK, StampOK
    <3> QED BY <1>4, <1>6, <2>1, <3>1
  <2>2. CASE pg2 # pg
    BY <1>4, <1>6, <2>2 DEF IInv, Buffers
  <2> QED BY <2>1, <2>2
<1>12. buf'[Home[c]][pg].half /\ Halved(pg)'
  <2>1. buf'[Home[c]] = f1
    BY <1>0, <1>5 DEF IInv, Types
  <2>2. buf'[Home[c]][pg].half
    BY <1>2, <1>6, <2>1
  <2> QED BY <2>2 DEF Halved
<1>13. InMain(W, pg)'
  BY <1>12 DEF InMain
<1>14. CASE g.nbak
  <2>1. /\ t.pc \notin Guarding
        /\ pg = Header => g.page.scn = main[Header].scn /\ g.page.st = main[Header].st
    BY <1>14, DirtyKnown
  <2>2. HeaderStored'
    BY <1>b, <1>3, <1>4, <1>7, <2>1, WrittenHeader DEF Guarding, DeltaTakes
  <2>3. Numbers'
    BY <1>b, <1>3, <1>4, WrittenNumbers
  <2>4. t.pc # "hwrite"
    BY <2>1 DEF Guarding
  <2> QED BY <1>0, <1>3, <1>4, <1>7, <1>8, <1>10, <1>11, <1>13, <2>2, <2>3, <2>4, WriteStep
<1>15. CASE ~g.nbak
  <2>1. pg = Header /\ t.pc = "hwrite"
    BY <1>1, <1>3, <1>15 DEF BufferOK
  <2>2. HeaderStored'
    <3>1. Torn1(c)'
      BY <1>7, <1>12, <2>1 DEF Torn1, Written
    <3> QED BY <1>4, <2>1, <3>1 DEF HeaderStored, DeltaTakes
  <2>3. Numbers'
    BY <1>4, <2>1, WrittenNumbers
  <2>4. f1[Header].dirty
    BY <1>3, <1>9, <2>1
  <2> QED BY <1>0, <1>3, <1>4, <1>7, <1>8, <1>10, <1>11, <1>13, <2>2, <2>3, <2>4, WriteStep
<1> QED BY <1>14, <1>15

\* The write of the header page under a StateWriteGuard: what changes.
StateWritten(c, st1, scn1) ==
    /\ main'[Header] = buf[Home[c]][Header].page /\ stored'[Header] = main'[Header]
    /\ \A pg \in AnyPage \ {Header} : main'[pg] = main[pg] /\ stored'[pg] = stored[pg]
    /\ st1 = main'[Header].st /\ scn1 = main'[Header].scn
    /\ UNCHANGED <<delta, th, snap>>

\* The SCN goes up by one, and the state takes its next value.
LEMMA NextState ==
    ASSUME NEW W, Classic, IInv(W), NEW c \in Client, th[c].pc = "hwrite",
           buf[Home[c]][Header].dirty, NEW st1, NEW scn1, StateWritten(c, st1, scn1)
    PROVE  /\ scn1 = main[Header].scn + 1 /\ scn1 \in Nat
           /\ \/ th[c].op = "begin" /\ main[Header].st = "normal" /\ st1 = "stalled"
                 /\ bm[Home[c]].scn = main[Header].scn
              \/ th[c].op \in {"end", "recover"} /\ main[Header].st # "normal"
                 /\ st1 = "merge" /\ bm[Home[c]].scn = scn1
              \/ th[c].op = "finish" /\ main[Header].st = "merge" /\ st1 = "normal"
                 /\ bm[Home[c]].scn = scn1
<1>1. /\ Shape(th[c]) /\ main[Header].scn \in Nat /\ bm[Home[c]].scn \in Nat
      /\ HeaderOK(th[c], bm[Home[c]], buf[Home[c]][Header], main[Header].st,
                  main[Header].scn, delta.alloc)
  BY OfClient, HeaderFields DEF Manager
<1>2. th[c].op \in GuardOp
  BY <1>1 DEF Shape
<1> QED BY <1>1, <1>2 DEF HeaderOK, GuardOp, StateWritten

\* The files when the state has changed: the delta is empty, or the merge has
\* put everything into the main file.
LEMMA StateFiles ==
    ASSUME NEW W, Classic, IInv(W), NEW c \in Client, th[c].pc = "hwrite",
           buf[Home[c]][Header].dirty, NEW st1, NEW scn1, StateWritten(c, st1, scn1),
           bm[Home[c]].state = "merge" /\ buf[Home[c]][Header].diff # 0
              => buf[Home[c]][Header].half
    PROVE  Files(W)'
<1> DEFINE t == th[c]
           b == bm[Home[c]]
           h == buf[Home[c]][Header]
           st == main[Header].st
<1>1. /\ NoRepeats(delta.alloc) /\ Len(delta.data) = Len(delta.alloc)
      /\ \A pg \in AnyPage : FileOK(W, pg, st)
  BY DEF IInv, Files
<1>2. /\ main'[Header] = h.page /\ stored'[Header] = h.page /\ st1 = main'[Header].st
      /\ \A pg \in AnyPage \ {Header} : main'[pg] = main[pg] /\ stored'[pg] = stored[pg]
      /\ delta' = delta
  BY DEF StateWritten
<1>3. \/ t.op = "begin" /\ st = "normal" /\ st1 = "stalled"
      \/ t.op \in {"end", "recover"} /\ st # "normal" /\ st1 = "merge"
      \/ t.op = "finish" /\ st = "merge" /\ st1 = "normal"
  BY NextState
<1>4. /\ HeaderOK(t, b, h, st, main[Header].scn, delta.alloc) /\ PageOK(t, b, buf[Home[c]])
      /\ CacheOK(W, h, Header, stored[Header]) /\ BufferOK(t, b, Header, h) /\ Header \in AnyPage
  BY OfClient DEF IInv, Buffers, PageOK
<1>5. h.page.ver >= 1
  BY <1>4 DEF CacheOK, BufferOK
<1> HIDE DEF t, b, h, st
<1>6. CASE t.op = "begin" /\ st = "normal" /\ st1 = "stalled"
  <2>1. delta.alloc = <<>>
    BY <1>4, <1>6 DEF HeaderOK, t
  <2>2. ASSUME NEW pg \in AnyPage PROVE FileOK(W, pg, st1)'
    <3>1. DOMAIN delta.alloc = {}
      BY <2>1
    <3>2. /\ pg \in W => main'[pg] = stored'[pg]
          /\ main'[pg].ver >= 1 /\ stored'[pg].ver >= 1
      <4>1. CASE pg = Header
        BY <1>2, <1>5, <4>1
      <4>2. CASE pg # Header
        BY <1>1, <1>2, <1>6, <4>2 DEF FileOK
      <4> QED BY <4>1, <4>2
    <3> QED BY <1>2, <3>1, <3>2 DEF FileOK
  <2> QED BY <1>1, <1>2, <2>2 DEF Files
<1>7. CASE t.op \in {"end", "recover"} /\ st # "normal" /\ st1 = "merge"
  <2>0. st1 # "normal"
    BY <1>7
  <2>1. Mapped(delta.alloc, Header) => h.page = stored[Header]
    <3>1. b.state = "merge" /\ (Mapped(delta.alloc, Header) => h.diff # 0)
      BY <1>4, <1>7 DEF HeaderOK, t, h
    <3> QED BY <1>4, <3>1 DEF CacheOK, b, h
  <2>2. ASSUME NEW pg \in AnyPage PROVE FileOK(W, pg, st1)'
    <3>1. FileOK(W, pg, st)
      BY <1>1
    <3>2. CASE pg = Header
      BY <1>2, <1>4, <1>5, <1>7, <2>0, <2>1, <3>1, <3>2 DEF FileOK, Mapped
    <3>3. CASE pg # Header
      BY <1>2, <1>7, <2>0, <3>1, <3>3 DEF FileOK
    <3> QED BY <3>2, <3>3
  <2> QED BY <1>1, <1>2, <2>2 DEF Files
<1>8. CASE t.op = "finish" /\ st = "merge" /\ st1 = "normal"
  <2>1. Going(c) /\ th[c].op # "merge"
    BY <1>8 DEF Going, t, st
  <2>2. ASSUME NEW pg \in AnyPage, pg # Header, pg \in W PROVE main[pg] = stored[pg]
    <3>1. ~buf[Home[c]][pg].dirty /\ ~Halved(pg)
      <4>1. ~buf[Home[c]][pg].dirty /\ ~buf[Home[c]][pg].half
        BY <1>4, <2>2, GuardedPages DEF Guarding, t
      <4>2. \A d \in Client \ {c} : ~buf[Home[d]][pg].half
        BY WriterAlone
      <4> QED BY <4>1, <4>2 DEF Halved
    <3>2. Mapped(delta.alloc, pg) => InMain(W, pg) \/ buf[Home[c]][pg].dirty
      BY <2>1 DEF IInv, Merging, MergeOK
    <3>3. ~Mapped(delta.alloc, pg) => main[pg] = stored[pg]
      BY <1>1, <2>2 DEF FileOK
    <3> QED BY <2>2, <3>1, <3>2, <3>3 DEF InMain
  <2>3. ASSUME NEW pg \in AnyPage PROVE FileOK(W, pg, st1)'
    <3>1. /\ pg \in W => main'[pg] = stored'[pg]
          /\ main'[pg].ver >= 1 /\ stored'[pg].ver >= 1
      <4>1. CASE pg = Header
        BY <1>2, <1>5, <4>1
      <4>2. CASE pg # Header
        BY <1>1, <1>2, <2>2, <4>2 DEF FileOK
      <4> QED BY <4>1, <4>2
    <3>2. \A i \in DOMAIN delta.alloc : delta.alloc[i] = pg =>
             delta.data[i] = EmptyPage \/ delta.data[i].ver >= 1
      BY <1>1 DEF FileOK
    <3> QED BY <1>2, <1>8, <3>1, <3>2 DEF FileOK
  <2> QED BY <1>1, <1>2, <2>3 DEF Files
<1> QED BY <1>3, <1>6, <1>7, <1>8

\* What the others show when the header page has been written.
LEMMA StateOthers ==
    ASSUME NEW W, Classic, IInv(W), NEW c \in Client, th[c].pc = "hwrite",
           buf[Home[c]][Header].dirty, NEW st1, NEW scn1, StateWritten(c, st1, scn1),
           NEW d \in Client \ {c}
    PROVE  /\ KnownOK(th[d], bm[Home[d]], st1, scn1)
           /\ HeaderOK(th[d], bm[Home[d]], buf[Home[d]][Header], st1, scn1, delta.alloc)
           /\ TableOK(th[d], bm[Home[d]], st1, scn1, delta.alloc)
           /\ \A pg \in AnyPage : /\ DiffOK(W, buf[Home[d]][pg], pg, st1, delta.alloc)
                                  /\ StampOK(buf[Home[d]][pg], pg, scn1)
           /\ th[d].pc # "hwrite" /\ th[d].op # "merge"
           /\ th[d].op = "finish" => th[d].pc = "leave"
<1> DEFINE t == th[d]
           b == bm[Home[d]]
           st == main[Header].st
           scn == main[Header].scn
<1>0. /\ Shape(t) /\ LockOK(t, b) /\ KnownOK(t, b, st, scn)
      /\ TableOK(t, b, st, scn, delta.alloc)
      /\ b.scn \in Nat /\ scn \in Nat /\ PageOK(th[c], bm[Home[c]], buf[Home[c]])
      /\ Shape(th[c]) /\ LockOK(th[c], bm[Home[c]]) /\ Header \in AnyPage
      /\ PageOK(t, b, buf[Home[d]])
  BY OfClient, HeaderFields DEF Manager
<1>1. /\ scn1 = scn + 1 /\ scn1 \in Nat
      /\ \/ st = "normal" /\ st1 = "stalled"
         \/ st # "normal" /\ st1 \in {"merge", "normal"}
  BY NextState
<1>2. /\ b.stateLock = LCK_none /\ t.pc \notin {"guarded", "hwrite", "leave"}
      /\ \A pg \in AnyPage : ~buf[Home[d]][pg].dirty /\ buf[Home[d]][pg].diff = 0
  BY WriterAlone
<1>3. th[c].op \in EndOp => t.op \notin EndOp
  <2>1. th[c].op \in EndOp => endLock = Home[c]
    BY DEF IInv, EndLocked
  <2>2. t.op \in EndOp => endLock = Home[d]
    BY <1>2 DEF IInv, EndLocked
  <2> QED BY <2>1, <2>2, OneThread
<1>4. t.op # "merge" /\ t.op # "finish"
  <2>1. CASE th[c].op \in EndOp
    BY <1>3, <2>1 DEF EndOp
  <2>2. CASE th[c].op \notin EndOp
    <3>1. st = "normal"
      BY <2>2, NextState DEF EndOp
    <3> QED BY <1>0, <1>2, <3>1 DEF KnownOK
  <2> QED BY <2>1, <2>2
<1>5. buf[Home[d]][Header] = NoBuffer
  <2>1. buf[Home[c]][Header].lock = LCK_write
    BY <1>0 DEF PageOK, BufferOK
  <2>2. ~Clash(LCK_write, buf[Home[d]][Header].lock)
    BY <1>0, <2>1 DEF IInv, Exclusive
  <2>3. buf[Home[d]][Header].lock = LCK_none
    BY <2>2 DEF Clash, LCK_write, LCK_none
  <2> QED BY <1>0, <2>3 DEF PageOK, BufferOK
<1>12. ~(t.page = Header /\ t.pc \in Using)
  BY <1>0, <1>5, NoBufferFields DEF PageOK, BufferOK
<1> HIDE DEF t, b, st, scn
<1>6. b.scn <= scn
  BY <1>0, <1>2 DEF KnownOK
<1>7. ~(t.pc = "rdisk" /\ ~t.wait)
  <2>1. t.pc = "rdisk" /\ t.op \in GuardOp => t.page = Header
    BY <1>0 DEF Shape
  <2> QED BY <1>0, <1>2, <1>12, <2>1 DEF Shape, LockOK, Using
<1>8. KnownOK(t, b, st1, scn1)
  BY <1>0, <1>1, <1>2, <1>4, <1>6, <1>7 DEF KnownOK
<1>9. HeaderOK(t, b, buf[Home[d]][Header], st1, scn1, delta.alloc)
  BY <1>2, <1>5, NoBufferFields DEF HeaderOK
<1>10. TableOK(t, b, st1, scn1, delta.alloc)
  <2>1. Recent(b, st1, scn1) => st # "normal" /\ st1 = "merge" /\ Recent(b, st, scn)
    BY <1>0, <1>1, <1>2, <1>6 DEF Recent, TableOK
  <2>2. b.scn < scn1
    BY <1>0, <1>1, <1>6
  <2> QED BY <1>0, <2>1, <2>2 DEF TableOK
<1>11. \A pg \in AnyPage : /\ DiffOK(W, buf[Home[d]][pg], pg, st1, delta.alloc)
                           /\ StampOK(buf[Home[d]][pg], pg, scn1)
  BY <1>2 DEF DiffOK, StampOK
<1> QED BY <1>2, <1>4, <1>8, <1>9, <1>10, <1>11 DEF t, b

\* What the thread shows that has written it; g1 is the buffer then.
LEMMA StateOwn ==
    ASSUME NEW W, Classic, IInv(W), NEW c \in Client, th[c].pc = "hwrite",
           buf[Home[c]][Header].dirty, NEW st1, NEW scn1, StateWritten(c, st1, scn1),
           NEW g1, g1.lock = buf[Home[c]][Header].lock, g1.valid = buf[Home[c]][Header].valid,
           g1.page = buf[Home[c]][Header].page, ~g1.dirty, ~g1.nbak, ~g1.half, g1.diff = 0
    PROVE  /\ KnownOK(th[c], bm[Home[c]], st1, scn1)
           /\ HeaderOK(th[c], bm[Home[c]], g1, st1, scn1, delta.alloc)
           /\ TableOK(th[c], bm[Home[c]], st1, scn1, delta.alloc)
           /\ BufferOK(th[c], bm[Home[c]], Header, g1)
           /\ g1.valid /\ g1.page.ver >= 1
<1> DEFINE t == th[c]
           b == bm[Home[c]]
           h == buf[Home[c]][Header]
           st == main[Header].st
           scn == main[Header].scn
<1>0. /\ Shape(t) /\ LockOK(t, b) /\ HeaderOK(t, b, h, st, scn, delta.alloc)
      /\ TableOK(t, b, st, scn, delta.alloc) /\ BufferOK(t, b, Header, h)
      /\ CacheOK(W, h, Header, stored[Header]) /\ b.scn \in Nat /\ scn \in Nat
  BY OfClient, HeaderFields DEF PageOK, IInv, Buffers, Manager
<1>1. /\ scn1 = scn + 1
      /\ \/ t.op = "begin" /\ st = "normal" /\ st1 = "stalled" /\ b.scn = scn
         \/ t.op \in {"end", "recover"} /\ st # "normal" /\ st1 = "merge" /\ b.scn = scn1
         \/ t.op = "finish" /\ st = "merge" /\ st1 = "normal" /\ b.scn = scn1
  BY NextState
<1>2. h.page.st = st1 /\ h.page.scn = scn1
  BY DEF StateWritten
<1>3. /\ g1.lock = h.lock /\ g1.valid = h.valid /\ g1.page = h.page
      /\ t.pc = "hwrite" /\ h.dirty
  OBVIOUS
<1>4. t.page = Header
  BY <1>0, <1>3 DEF Shape, Guarding
<1> HIDE DEF t, b, h, st, scn
<1>5. h.valid /\ h.lock = LCK_write /\ h.page.ver >= 1
  BY <1>0, <1>3 DEF BufferOK, CacheOK
<1>6. KnownOK(t, b, st1, scn1)
  BY <1>1, <1>3 DEF KnownOK
<1>7. HeaderOK(t, b, g1, st1, scn1, delta.alloc)
  BY <1>0, <1>1, <1>2, <1>3 DEF HeaderOK
<1>8. TableOK(t, b, st1, scn1, delta.alloc)
  <2>1. Recent(b, st1, scn1) => st1 = "merge" /\ Recent(b, st, scn)
    <3>1. CASE t.op = "begin"
      BY <1>0, <1>3, <3>1 DEF HeaderOK, Recent
    <3>2. CASE t.op # "begin"
      BY <1>0, <1>1, <3>2 DEF Recent
    <3> QED BY <3>1, <3>2
  <2> QED BY <1>0, <1>3, <2>1 DEF TableOK
<1>9. BufferOK(t, b, Header, g1)
  BY <1>3, <1>4, <1>5 DEF BufferOK, Using, Guarding, LCK_none, LCK_write
<1> QED BY <1>3, <1>5, <1>6, <1>7, <1>8, <1>9 DEF t, b

\* Page by page, the merge has done what it had.
LEMMA StateMerging ==
    ASSUME NEW W, Classic, IInv(W), NEW c \in Client, th[c].pc = "hwrite",
           buf[Home[c]][Header].dirty, NEW st1, NEW scn1, StateWritten(c, st1, scn1),
           bm[Home[c]].state = "merge" /\ buf[Home[c]][Header].diff # 0
              => buf[Home[c]][Header].half,
           \A d \in Client, pg \in AnyPage : pg # Header => buf'[Home[d]][pg] = buf[Home[d]][pg]
    PROVE  Merging(W)' /\ Numbers' /\ HeaderStored'
<1>1. /\ main'[Header].st = st1 /\ main'[Header].scn = scn1 /\ stored'[Header] = main'[Header]
      /\ \A pg \in AnyPage \ {Header} : main'[pg] = main[pg] /\ stored'[pg] = stored[pg]
      /\ UNCHANGED <<delta, th, snap>>
  BY DEF StateWritten
<1>2. /\ scn1 = main[Header].scn + 1 /\ main[Header].scn \in Nat
      /\ \/ th[c].op = "begin" /\ st1 = "stalled"
         \/ th[c].op \in {"end", "recover"} /\ st1 = "merge"
         \/ th[c].op = "finish" /\ st1 = "normal"
  BY NextState, HeaderFields
<1>3. ASSUME NEW pg \in Page
      PROVE  /\ pg \in AnyPage \ {Header} /\ main[pg].scn \in Nat /\ stored[pg].scn \in Nat
             /\ main[pg].scn <= main[Header].scn /\ stored[pg].scn <= main[Header].scn
             /\ main[pg].ver # snap.ver[pg] => main[pg].scn > snap.scn
  <2>1. pg \in AnyPage \ {Header}
    BY NBConstants DEF AnyPage
  <2>2. main[pg] \in Contents /\ stored[pg] \in Contents
    BY <2>1 DEF IInv, Types
  <2> QED BY <2>1, <2>2 DEF Contents, IInv, Numbers
<1>4. Numbers'
  <2>1. snap.scn < scn1
    BY <1>2 DEF IInv, Numbers, Types, Snap
  <2> QED BY <1>1, <1>2, <1>3, <2>1 DEF Numbers
<1>5. HeaderStored'
  <2> SUFFICES ASSUME NEW i \in DOMAIN delta.alloc, st1 # "normal", delta.alloc[i] = Header
               PROVE  delta.data[i].st = st1 /\ delta.data[i].scn = scn1
    BY <1>1 DEF HeaderStored
  <2>1. /\ HeaderOK(th[c], bm[Home[c]], buf[Home[c]][Header], main[Header].st,
                    main[Header].scn, delta.alloc)
        /\ CacheOK(W, buf[Home[c]][Header], Header, stored[Header])
    BY OfClient DEF IInv, Buffers
  <2>2. Mapped(delta.alloc, Header) /\ DOMAIN delta.alloc # {}
    BY DEF Mapped
  <2>3. th[c].op # "begin"
    BY <2>1, <2>2 DEF HeaderOK
  <2>4. th[c].op \in {"end", "recover"}
    BY <1>2, <2>3
  <2>5. buf[Home[c]][Header].half
    BY <2>1, <2>2, <2>4 DEF HeaderOK
  <2>6. buf[Home[c]][Header].page = stored[Header]
    BY <2>1, <2>5 DEF CacheOK
  <2>7. stored[Header].st = st1 /\ stored[Header].scn = scn1
    BY <1>1, <2>6 DEF StateWritten
  <2>8. stored[Header].scn # main[Header].scn
    BY <1>2, <2>7
  <2> QED BY <2>7, <2>8 DEF IInv, HeaderStored
<1>6. ASSUME NEW d \in Client PROVE MergeOK(W, d)'
  <2>1. CASE d = c
    <3>1. ASSUME Active(c)', st1 = "merge", NEW pg \in AnyPage, stored'[pg].scn = scn1
          PROVE  InMain(W, pg)'
      <4>1. CASE pg = Header
        BY <1>1, <4>1 DEF InMain
      <4>2. CASE pg # Header
        <5>1. pg \in Page
          BY <4>2 DEF AnyPage
        <5> QED BY <1>1, <1>2, <1>3, <3>1, <5>1
      <4> QED BY <4>1, <4>2
    <3>2. th'[c].op # "merge" /\ ~Going(c)'
      BY <1>1, <1>2 DEF Going
    <3> QED BY <1>1, <2>1, <3>1, <3>2 DEF MergeOK
  <2>2. CASE d # c
    <3>1. /\ th[d].pc # "hwrite" /\ th[d].op # "merge"
          /\ th[d].op = "finish" => th[d].pc = "leave"
      BY <2>2, StateOthers
    <3>2. th'[d].op # "merge" /\ ~Active(d)' /\ ~Going(d)'
      BY <1>1, <3>1 DEF Active, Going
    <3> QED BY <3>2 DEF MergeOK
  <2> QED BY <2>1, <2>2
<1> QED BY <1>4, <1>5, <1>6 DEF Merging

\* The header page is written to the main file: the state changes.
LEMMA StepWriteHeader ==
    ASSUME NEW W, Classic, IInv(W), NEW c \in Client, th[c].pc = "hwrite",
           buf[Home[c]][Header].dirty,
           bm[Home[c]].state = "merge" /\ buf[Home[c]][Header].diff # 0
              => buf[Home[c]][Header].half,
           main' = [main EXCEPT ![Header] = buf[Home[c]][Header].page],
           stored' = [stored EXCEPT ![Header] = buf[Home[c]][Header].page],
           Clean(Home[c], Header),
           UNCHANGED <<delta, th, endLock, snap, changes, calls, deaths>>
    PROVE  IInv(W)'
<1> DEFINE t == th[c]
           b == bm[Home[c]]
           f == buf[Home[c]]
           g == f[Header]
           g1 == [g EXCEPT !.dirty = FALSE, !.nbak = FALSE, !.diff = 0, !.half = FALSE]
<1>0. /\ t \in Thread /\ b \in Manager /\ f \in [AnyPage -> Buffer]
      /\ Shape(t) /\ LockOK(t, b) /\ PageOK(t, b, f)
      /\ Home[c] \in Process /\ Header \in AnyPage /\ t.pc = "hwrite"
      /\ main \in [AnyPage -> Contents] /\ stored \in [AnyPage -> Contents]
  BY OfClient, OneThread DEF IInv, Types
<1>a. PICK page : page = g.page
  OBVIOUS
<1>b. PICK f1 : f1 = [f EXCEPT ![Header] = g1]
  OBVIOUS
<1>c. PICK st1 : st1 = page.st
  OBVIOUS
<1>d. PICK scn1 : scn1 = page.scn
  OBVIOUS
<1>1. g \in Buffer /\ BufferOK(t, b, Header, g) /\ ~g.nbak /\ g.dirty /\ page \in Contents
  BY <1>0, <1>a, GuardedPages DEF PageOK, Guarding, Buffer
<1>2. g.lock = LCK_write
  BY <1>1 DEF BufferOK
<1>3. /\ g1 \in Buffer /\ ~g1.dirty /\ ~g1.nbak /\ g1.diff = 0 /\ ~g1.half
      /\ g1.lock = g.lock /\ g1.valid = g.valid /\ g1.page = g.page
  BY <1>1 DEF Buffer
<1>4. buf' = [buf EXCEPT ![Home[c]] = f1]
  <2>1. buf' = [buf EXCEPT ![Home[c]][Header].dirty = FALSE,
                           ![Home[c]][Header].nbak = FALSE,
                           ![Home[c]][Header].diff = 0, ![Home[c]][Header].half = FALSE]
    BY DEF Clean
  <2> QED BY <1>0, <1>b, <2>1 DEF IInv, Types
<1> HIDE DEF g1
<1>5. /\ f1 \in [AnyPage -> Buffer] /\ f1[Header] = g1
      /\ \A pg \in AnyPage \ {Header} : f1[pg] = f[pg]
  BY <1>0, <1>3, <1>b
<1>6. ast' \in [Process -> Handler]
  <2>1. ast' = [ast EXCEPT ![Home[c]].todo = @ \ {Header}]
    BY DEF Clean
  <2>2. ast \in [Process -> Handler] /\ ast[Home[c]] \in Handler
    BY <1>0 DEF IInv, Types
  <2>3. ast[Home[c]].todo \ {Header} \in SUBSET AnyPage
    BY <2>2 DEF Handler
  <2>4. [ast[Home[c]] EXCEPT !.todo = @ \ {Header}] \in Handler
    BY <2>2, <2>3 DEF Handler
  <2> QED BY <1>0, <2>1, <2>2, <2>4
<1>7. /\ main' \in [AnyPage -> Contents] /\ stored' \in [AnyPage -> Contents]
      /\ main'[Header] = page /\ stored'[Header] = page
      /\ \A pg \in AnyPage \ {Header} : main'[pg] = main[pg] /\ stored'[pg] = stored[pg]
  BY <1>0, <1>1, <1>a
<1>8. StateWritten(c, st1, scn1)
  BY <1>7, <1>a, <1>c, <1>d DEF StateWritten
<1>9. Written(c, Header, b, f1)
  <2>1. bm' = [bm EXCEPT ![Home[c]] = b]
    BY <1>1 DEF Clean, IInv, Types
  <2>2. SameTable(b, b) /\ delta' \in Delta
    BY DEF SameTable, IInv, Types
  <2> QED BY <1>0, <1>3, <1>4, <1>5, <1>6, <1>7, <2>1, <2>2 DEF Written
<1>10. /\ Types' /\ Exclusive' /\ EndLocked'
       /\ bm'[Home[c]] = b /\ buf'[Home[c]] = f1
       /\ \A d \in Client \ {c} :
            /\ bm'[Home[d]] = bm[Home[d]] /\ buf'[Home[d]] = buf[Home[d]]
            /\ \A pg \in AnyPage : CacheOK(W, buf[Home[d]][pg], pg, stored'[pg])
  BY <1>0, <1>2, <1>9, WrittenFields
<1>11. Files(W)'
  BY <1>0, <1>1, <1>8, StateFiles
<1>12. Merging(W)' /\ Numbers' /\ HeaderStored'
  <2>1. \A d \in Client, pg \in AnyPage : pg # Header => buf'[Home[d]][pg] = buf[Home[d]][pg]
    BY <1>5, <1>10
  <2> QED BY <1>0, <1>1, <1>8, <2>1, StateMerging
<1>13. /\ KnownOK(t, b, st1, scn1)
       /\ HeaderOK(t, b, g1, st1, scn1, delta.alloc)
       /\ TableOK(t, b, st1, scn1, delta.alloc)
       /\ BufferOK(t, b, Header, g1) /\ g1.valid /\ g1.page.ver >= 1
  BY <1>0, <1>1, <1>3, <1>8, StateOwn
<1>14. PageOK(t, b, f1)
  <2> SUFFICES ASSUME NEW pg \in AnyPage PROVE BufferOK(t, b, pg, f1[pg])
    BY DEF PageOK
  <2>1. CASE pg = Header
    BY <1>5, <1>13, <2>1
  <2>2. CASE pg # Header
    BY <1>0, <1>5, <2>2 DEF PageOK
  <2> QED BY <2>1, <2>2
<1>15. ASSUME NEW pg \in AnyPage
       PROVE  /\ DiffOK(W, f1[pg], pg, st1, delta.alloc)
              /\ CacheOK(W, f1[pg], pg, stored'[pg]) /\ StampOK(f1[pg], pg, scn1)
  <2>1. CASE pg = Header
    <3>1. /\ DiffOK(W, g1, Header, st1, delta.alloc)
          /\ CacheOK(W, g1, Header, page) /\ StampOK(g1, Header, scn1)
      BY <1>3, <1>13, <1>a DEF DiffOK, CacheOK, StampOK
    <3> QED BY <1>5, <1>7, <2>1, <3>1
  <2>2. CASE pg # Header
    <3>1. ~f[pg].dirty /\ f[pg].diff = 0
      BY <1>0, <2>2, GuardedPages DEF Guarding
    <3>2. CacheOK(W, f[pg], pg, stored[pg])
      BY DEF IInv, Buffers
    <3>3. f1[pg] = f[pg] /\ stored'[pg] = stored[pg]
      BY <1>5, <1>7, <2>2
    <3>4. DiffOK(W, f[pg], pg, st1, delta.alloc) /\ StampOK(f[pg], pg, scn1)
      BY <3>1 DEF DiffOK, StampOK
    <3> QED BY <3>2, <3>3, <3>4
  <2> QED BY <2>1, <2>2
<1>16. th' = th /\ delta' = delta /\ main'[Header].st = st1 /\ main'[Header].scn = scn1
  BY <1>7, <1>c, <1>d
<1>17. ASSUME NEW d \in Client
       PROVE  /\ Shape(th'[d])
              /\ LockOK(th'[d], bm'[Home[d]])
              /\ KnownOK(th'[d], bm'[Home[d]], main'[Header].st, main'[Header].scn)
              /\ PageOK(th'[d], bm'[Home[d]], buf'[Home[d]])
              /\ HeaderOK(th'[d], bm'[Home[d]], buf'[Home[d]][Header],
                          main'[Header].st, main'[Header].scn, delta'.alloc)
              /\ TableOK(th'[d], bm'[Home[d]], main'[Header].st, main'[Header].scn,
                         delta'.alloc)
              /\ \A pg \in AnyPage :
                   /\ DiffOK(W, buf'[Home[d]][pg], pg, main'[Header].st, delta'.alloc)
                   /\ CacheOK(W, buf'[Home[d]][pg], pg, stored'[pg])
                   /\ StampOK(buf'[Home[d]][pg], pg, main'[Header].scn)
  <2>1. CASE d = c
    BY <1>0, <1>5, <1>10, <1>13, <1>14, <1>15, <1>16, <2>1
  <2>2. CASE d # c
    <3>1. /\ Shape(th[d]) /\ LockOK(th[d], bm[Home[d]])
          /\ PageOK(th[d], bm[Home[d]], buf[Home[d]])
      BY OfClient
    <3>2. /\ KnownOK(th[d], bm[Home[d]], st1, scn1)
          /\ HeaderOK(th[d], bm[Home[d]], buf[Home[d]][Header], st1, scn1, delta.alloc)
          /\ TableOK(th[d], bm[Home[d]], st1, scn1, delta.alloc)
          /\ \A pg \in AnyPage : /\ DiffOK(W, buf[Home[d]][pg], pg, st1, delta.alloc)
                                 /\ StampOK(buf[Home[d]][pg], pg, scn1)
      BY <1>0, <1>1, <1>8, <2>2, StateOthers
    <3> QED BY <1>10, <1>16, <2>2, <3>1, <3>2
  <2> QED BY <2>1, <2>2
<1>18. Clients' /\ Headers' /\ Tables' /\ Buffers(W)'
  BY <1>17 DEF Clients, Headers, Tables, Buffers
<1> QED BY <1>10, <1>11, <1>12, <1>18 DEF IInv

\* A page that is dirty without the state locked is the header page.
LEMMA DirtyHeader ==
    ASSUME NEW W, Classic, IInv(W), NEW c \in Client, NEW pg \in AnyPage,
           buf[Home[c]][pg].dirty, ~buf[Home[c]][pg].nbak
    PROVE  pg = Header /\ th[c].pc = "hwrite" /\ bm[Home[c]].state \in {"normal", "merge"}
<1>1. /\ BufferOK(th[c], bm[Home[c]], pg, buf[Home[c]][pg]) /\ Shape(th[c])
      /\ HeaderOK(th[c], bm[Home[c]], buf[Home[c]][Header], main[Header].st,
                  main[Header].scn, delta.alloc)
  BY OfClient DEF PageOK
<1>2. pg = Header /\ th[c].pc = "hwrite"
  BY <1>1 DEF BufferOK
<1>3. th[c].op \in GuardOp
  BY <1>1, <1>2 DEF Shape
<1> QED BY <1>1, <1>2, <1>3 DEF HeaderOK, GuardOp

\* write_page keeps the invariant.
LEMMA StepWritePage ==
    ASSUME NEW W, Classic, IInv(W), NEW p \in Process, NEW pg \in AnyPage, write_page(p, pg)
    PROVE  IInv(W)'
<1>0. PICK c \in Client : Home[c] = p
  BY OneThread
<1>1. /\ buf[Home[c]][pg].dirty /\ ~(th[c].page = pg /\ th[c].pc = "marked")
      /\ UNCHANGED <<th, endLock, snap, changes, calls, deaths>>
  BY <1>0 DEF write_page, bounds, Threads
<1>2. CASE /\ bm[Home[c]].state = "stalled" /\ buf[Home[c]][pg].diff # 0
           /\ delta' = [delta EXCEPT !.data[buf[Home[c]][pg].diff] = buf[Home[c]][pg].page]
           /\ stored' = [stored EXCEPT ![pg] = buf[Home[c]][pg].page]
           /\ Clean(Home[c], pg) /\ UNCHANGED main
  <2>1. buf[Home[c]][pg].nbak
    BY <1>1, <1>2, DirtyHeader
  <2> QED BY <1>1, <1>2, <2>1, StepWriteStalled
<1>3. CASE /\ bm[Home[c]].state = "merge" /\ buf[Home[c]][pg].diff # 0
           /\ delta' = [delta EXCEPT !.data[buf[Home[c]][pg].diff] = buf[Home[c]][pg].page]
           /\ stored' = [stored EXCEPT ![pg] = buf[Home[c]][pg].page]
           /\ buf' = [buf EXCEPT ![Home[c]][pg].half = TRUE] /\ UNCHANGED <<bm, ast, main>>
  BY <1>1, <1>3, StepWriteHalf
<1>4. CASE /\ bm[Home[c]].state # "stalled"
           /\ bm[Home[c]].state = "merge" /\ buf[Home[c]][pg].diff # 0
                => buf[Home[c]][pg].half
           /\ main' = [main EXCEPT ![pg] = buf[Home[c]][pg].page]
           /\ stored' = [stored EXCEPT ![pg] = buf[Home[c]][pg].page]
           /\ Clean(Home[c], pg) /\ UNCHANGED delta
  <2>1. CASE buf[Home[c]][pg].nbak
    BY <1>1, <1>4, <2>1, StepWriteMain
  <2>2. CASE ~buf[Home[c]][pg].nbak
    <3>1. pg = Header /\ th[c].pc = "hwrite"
      BY <1>1, <2>2, DirtyHeader
    <3> QED BY <1>1, <1>4, <3>1, StepWriteHeader
  <2> QED BY <2>1, <2>2
<1> QED BY <1>0, <1>2, <1>3, <1>4 DEF write_page

-----------------------------------------------------------------------------
(* The death of a process. *)

\* A process that dies while another one is at a merge takes no page that it
\* has half written with it, but for those that it tears.
LEMMA OthersHalved ==
    ASSUME NEW W, Classic, IInv(W), NEW c \in Client, Dies(Home[c]), th[c].pc # "dead",
           NEW d \in Client, d # c, th[d].op \in EndOp, th[d].pc # "leave",
           NEW pg \in AnyPage, pg \in W => ~Tears(pg), InMain(W, pg)
    PROVE  InMain(W, pg)'
<1>1. endLock = Home[d] /\ endLock \notin {Home[c], Nobody}
  BY OneThread, NBConstants DEF IInv, EndLocked
<1>2. /\ UNCHANGED <<main, stored>>
      /\ buf' = [buf EXCEPT ![Home[c]] = [pg2 \in AnyPage |-> NoBuffer]]
      /\ th' = [k \in Client |-> IF Home[k] = Home[c] THEN [Idle EXCEPT !.pc = "dead"]
                                ELSE th[k]]
  BY DEF Dies, files
<1>3. th'[c].pc = "dead"
  BY <1>2 DEF Idle
<1>4. pg \in W => ~buf[Home[c]][pg].half
  BY <1>1, <1>3 DEF Tears
<1>5. ASSUME pg \in W, NEW k \in Client, buf[Home[k]][pg].half
      PROVE  buf'[Home[k]][pg].half
  <2>1. Home[k] # Home[c]
    BY <1>4, <1>5
  <2> QED BY <1>2, <1>5, <2>1, OneThread DEF IInv, Types
<1> QED BY <1>2, <1>5 DEF InMain, Halved

\* What a process is that has died.
LEMMA DeadFields ==
    ASSUME NEW W, IInv(W), NEW t1, t1 = [Idle EXCEPT !.pc = "dead"]
    PROVE  /\ t1 \in Thread /\ t1.pc = "dead" /\ t1.op = "none"
           /\ NewBM \in Manager /\ ~NewBM.loaded /\ NewBM.allocLock = LCK_none
           /\ NewBM.stateLock = LCK_none /\ ~NewBM.master
           /\ Shape(t1) /\ LockOK(t1, NewBM)
           /\ KnownOK(t1, NewBM, main[Header].st, main[Header].scn)
           /\ \A pg \in AnyPage : BufferOK(t1, NewBM, pg, NoBuffer)
           /\ HeaderOK(t1, NewBM, NoBuffer, main[Header].st, main[Header].scn, delta.alloc)
           /\ TableOK(t1, NewBM, main[Header].st, main[Header].scn, delta.alloc)
           /\ NoAst \in Handler
<1>1. /\ t1 \in Thread /\ t1.pc = "dead" /\ t1.op = "none" /\ t1.page = Header
      /\ ~t1.guard /\ ~t1.wait /\ t1.left = {}
  BY IdleFields DEF Thread, PC
<1>2. <<>> \in Seq(AnyPage)
  OBVIOUS
<1>3. /\ NewBM \in Manager /\ ~NewBM.loaded /\ NewBM.allocLock = LCK_none
      /\ NewBM.stateLock = LCK_none /\ ~NewBM.master /\ ~NewBM.blocking /\ ~NewBM.open
      /\ NewBM.state = "unknown" /\ NewBM.scn = 0 /\ NewBM.table = <<>>
  BY <1>2 DEF NewBM, Manager, State, Level
<1>4. Shape(t1)
  BY <1>1 DEF Shape, Guarding, GuardOp
<1>5. LockOK(t1, NewBM)
  BY <1>1, <1>3 DEF LockOK, MasterOp, Guarding
<1>6. KnownOK(t1, NewBM, main[Header].st, main[Header].scn)
  BY <1>1, <1>3, HeaderFields DEF KnownOK
<1>7. ASSUME NEW pg \in AnyPage PROVE BufferOK(t1, NewBM, pg, NoBuffer)
  BY <1>1, NoBufferFields DEF BufferOK, Using, Guarding
<1>8. HeaderOK(t1, NewBM, NoBuffer, main[Header].st, main[Header].scn, delta.alloc)
  BY <1>1, NoBufferFields DEF HeaderOK
<1>9. TableOK(t1, NewBM, main[Header].st, main[Header].scn, delta.alloc)
  BY <1>3 DEF TableOK, NoRepeats, Recent
<1>10. NoAst \in Handler
  BY DEF NoAst, Handler
<1> QED BY <1>1, <1>3, <1>4, <1>5, <1>6, <1>7, <1>8, <1>9, <1>10

\* The death of a process keeps the invariant.
LEMMA StepDies ==
    ASSUME NEW W, Classic, IInv(W), NEW c \in Client, NEW p, p = Home[c], Dies(p),
           th[c].pc # "dead", HeaderWhole, \A pg \in W : ~Tears(pg)
    PROVE  IInv(W)'
<1>1. p \in Process
  BY OneThread
<1>2. PICK t1 : t1 = [Idle EXCEPT !.pc = "dead"]
  OBVIOUS
<1>3. PICK f1 : f1 = [pg \in AnyPage |-> NoBuffer]
  OBVIOUS
<1>4. /\ bm' = [bm EXCEPT ![p] = NewBM] /\ ast' = [ast EXCEPT ![p] = NoAst]
      /\ buf' = [buf EXCEPT ![p] = f1]
      /\ th' = [d \in Client |-> IF Home[d] = p THEN t1 ELSE th[d]]
      /\ endLock' = (IF endLock = p THEN Nobody ELSE endLock)
      /\ UNCHANGED <<main, delta, stored, snap, changes, calls>>
      /\ deaths < MaxDeaths /\ deaths' = deaths + 1
  BY <1>2, <1>3 DEF Dies, files
<1>5. /\ t1 \in Thread /\ t1.pc = "dead" /\ t1.op = "none"
      /\ NewBM \in Manager /\ ~NewBM.loaded /\ NewBM.allocLock = LCK_none
      /\ NewBM.stateLock = LCK_none /\ ~NewBM.master
      /\ Shape(t1) /\ LockOK(t1, NewBM)
      /\ KnownOK(t1, NewBM, main[Header].st, main[Header].scn)
      /\ \A pg \in AnyPage : BufferOK(t1, NewBM, pg, NoBuffer)
      /\ HeaderOK(t1, NewBM, NoBuffer, main[Header].st, main[Header].scn, delta.alloc)
      /\ TableOK(t1, NewBM, main[Header].st, main[Header].scn, delta.alloc)
      /\ NoAst \in Handler
  BY <1>2, DeadFields
<1>6. f1 \in [AnyPage -> Buffer] /\ \A pg \in AnyPage : f1[pg] = NoBuffer
  BY <1>3, NoBufferFields
<1>7. Types'
  <2>1. th' \in [Client -> Thread]
    BY <1>4, <1>5 DEF IInv, Types
  <2>2. /\ bm' \in [Process -> Manager] /\ ast' \in [Process -> Handler]
        /\ buf' \in [Process -> [AnyPage -> Buffer]]
    BY <1>4, <1>5, <1>6 DEF IInv, Types
  <2>3. deaths' \in 0..MaxDeaths
    BY <1>4, NBConstants DEF IInv, Types
  <2>4. endLock' \in Process \cup {Nobody}
    BY <1>4 DEF IInv, Types
  <2> QED BY <1>4, <2>1, <2>2, <2>3, <2>4 DEF IInv, Types
<1>8. /\ th'[c] = t1 /\ bm'[Home[c]] = NewBM /\ buf'[Home[c]] = f1
      /\ \A d \in Client \ {c} : /\ Home[d] # p /\ th'[d] = th[d]
                                 /\ bm'[Home[d]] = bm[Home[d]] /\ buf'[Home[d]] = buf[Home[d]]
  <2>1. \A d \in Client \ {c} : Home[d] # p /\ Home[d] \in Process
    BY <1>1, OneThread
  <2> QED BY <1>1, <1>4, <2>1 DEF IInv, Types
<1>9. ASSUME NEW d \in Client
      PROVE  /\ Shape(th'[d])
             /\ LockOK(th'[d], bm'[Home[d]])
             /\ KnownOK(th'[d], bm'[Home[d]], main'[Header].st, main'[Header].scn)
             /\ PageOK(th'[d], bm'[Home[d]], buf'[Home[d]])
             /\ HeaderOK(th'[d], bm'[Home[d]], buf'[Home[d]][Header],
                         main'[Header].st, main'[Header].scn, delta'.alloc)
             /\ TableOK(th'[d], bm'[Home[d]], main'[Header].st, main'[Header].scn,
                        delta'.alloc)
             /\ \A pg \in AnyPage :
                  /\ DiffOK(W, buf'[Home[d]][pg], pg, main'[Header].st, delta'.alloc)
                  /\ CacheOK(W, buf'[Home[d]][pg], pg, stored'[pg])
                  /\ StampOK(buf'[Home[d]][pg], pg, main'[Header].scn)
  <2>1. CASE d = c
    <3>1. PageOK(t1, NewBM, f1)
      BY <1>5, <1>6 DEF PageOK
    <3>2. ASSUME NEW pg \in AnyPage
          PROVE  /\ DiffOK(W, NoBuffer, pg, main[Header].st, delta.alloc)
                 /\ CacheOK(W, NoBuffer, pg, stored[pg]) /\ StampOK(NoBuffer, pg, main[Header].scn)
      BY NoBufferFields DEF DiffOK, CacheOK, StampOK
    <3>3. f1[Header] = NoBuffer
      BY <1>6, OfClient
    <3> QED BY <1>4, <1>5, <1>6, <1>8, <2>1, <3>1, <3>2, <3>3
  <2>2. CASE d # c
    BY <1>4, <1>8, <2>2, OfClient DEF IInv, Buffers
  <2> QED BY <2>1, <2>2
<1>10. Clients' /\ Headers' /\ Tables' /\ Buffers(W)'
  BY <1>9 DEF Clients, Headers, Tables, Buffers
<1>11. Exclusive'
  <2>1. Elsewhere(c)
    BY <1>8 DEF Elsewhere, Kept
  <2>2. OwnLocks(c)
    BY <1>5, <1>6, <1>8, NoBufferFields DEF OwnLocks, Clash, LCK_none, LCK_write
  <2>3. \A d, k \in Client : d # k /\ bm'[Home[d]].allocLock = LCK_write =>
           bm'[Home[k]].allocLock = LCK_none
    BY <1>5, <1>8 DEF IInv, Exclusive, LCK_none, LCK_write
  <2> QED BY <2>1, <2>2, <2>3, ExclusiveStep
<1>12. EndLocked'
  BY <1>4, <1>5, <1>8 DEF IInv, EndLocked, EndOp
<1>13. HeaderStored'
  <2>1. CASE \E k \in Client : Torn1(k)
    <3>1. PICK k \in Client : Torn1(k)
      BY <2>1
    <3>2. k # c
      BY <1>5, <1>8, <3>1 DEF HeaderWhole
    <3>3. Torn1(k)'
      BY <1>8, <3>1, <3>2 DEF Torn1
    <3> QED BY <1>4, <3>3 DEF IInv, HeaderStored
  <2>2. CASE ~\E k \in Client : Torn1(k)
    BY <1>4, <2>2 DEF IInv, HeaderStored
  <2> QED BY <2>1, <2>2
<1>14. Files(W)'
  BY <1>4 DEF IInv, Files, FileOK
<1>15. Numbers'
  BY <1>4 DEF IInv, Numbers
<1>16. ASSUME NEW d \in Client PROVE MergeOK(W, d)'
  <2>1. CASE d = c
    <3>1. ~Active(c)' /\ ~Going(c)' /\ th'[c].op # "merge"
      BY <1>5, <1>8 DEF Active, Going
    <3> QED BY <2>1, <3>1 DEF MergeOK
  <2>2. CASE d # c
    <3>1. th'[d] = th[d] /\ buf'[Home[d]] = buf[Home[d]] /\ Home[d] # p
      BY <1>8, <2>2
    <3>2. MergeOK(W, d)
      BY DEF IInv, Merging
    <3>3. /\ Active(d)' => Active(d)
          /\ Going(d)' => Going(d)
      BY <1>4, <3>1 DEF Active, Going
    <3>4. Active(d) \/ Going(d) => th[d].op \in EndOp /\ th[d].pc # "leave"
      <4>1. th[d].op = "merge" => th[d].pc # "leave"
        BY OfClient DEF Shape
      <4> QED BY <4>1 DEF Active, Going, EndOp
    <3>5. ASSUME th[d].op \in EndOp /\ th[d].pc # "leave", NEW pg \in AnyPage, InMain(W, pg)
          PROVE  InMain(W, pg)'
      BY <2>2, <3>5, OthersHalved
    <3>6. ASSUME Active(d)', main'[Header].st = "merge", NEW pg \in AnyPage,
                 stored'[pg].scn = main'[Header].scn
          PROVE  InMain(W, pg)'
      BY <1>4, <3>2, <3>3, <3>4, <3>5, <3>6 DEF MergeOK
    <3>7. ASSUME Going(d)', NEW pg \in AnyPage, Mapped(delta'.alloc, pg),
                 th'[d].op = "merge" => pg \notin th'[d].left
          PROVE  InMain(W, pg)' \/ buf'[Home[d]][pg].dirty
      BY <1>4, <3>1, <3>2, <3>3, <3>4, <3>5, <3>7 DEF MergeOK
    <3>8. PICK pg3 \in AnyPage : pg3 = th[d].page
      BY OfClient DEF Thread
    <3>9. th[d].op = "merge" /\ th[d].pc = "release" => InMain(W, pg3)' \/ buf'[Home[d]][pg3].dirty
      BY <3>1, <3>2, <3>5, <3>8 DEF MergeOK, EndOp
    <3>10. th'[d].op = "merge" /\ th'[d].pc = "release" =>
              (th'[d].page \in W => \/ main'[th'[d].page] = stored'[th'[d].page]
                                    \/ \E k \in Client : buf'[Home[k]][th'[d].page].half)
              \/ buf'[Home[d]][th'[d].page].dirty
      BY <3>1, <3>8, <3>9 DEF InMain, Halved
    <3> QED BY <3>6, <3>7, <3>10 DEF MergeOK, InMain, Halved
  <2> QED BY <2>1, <2>2
<1> QED BY <1>7, <1>10, <1>11, <1>12, <1>13, <1>14, <1>15, <1>16 DEF IInv, Merging

-----------------------------------------------------------------------------
(* The invariant. *)

\* At the start nobody has anything.
LEMMA InitInvariant ==
    ASSUME NEW W, Classic, Init
    PROVE  IInv(W)
<1>1. PICK b1 : b1 = [NewBM EXCEPT !.scn = 1]
  OBVIOUS
<1>2. /\ bm = [p \in Process |-> b1] /\ ast = [p \in Process |-> NoAst]
      /\ buf = [p \in Process |-> [pg \in AnyPage |-> NoBuffer]]
      /\ th = [c \in Client |-> Idle] /\ endLock = Nobody
      /\ main = [pg \in AnyPage |-> NewPage] /\ delta = NoDelta
      /\ stored = [pg \in AnyPage |-> NewPage]
      /\ snap = [scn |-> 0, ver |-> [pg \in AnyPage |-> 1]]
      /\ changes = 0 /\ calls = 0 /\ deaths = 0
  BY <1>1 DEF Init
<1>3. /\ Idle \in Thread
      /\ Idle.pc = "idle" /\ Idle.op = "none" /\ Idle.page = Header
      /\ ~Idle.guard /\ ~Idle.wait /\ Idle.left = {} /\ Shape(Idle)
  BY IdleFields
<1>4. /\ b1 \in Manager /\ ~b1.loaded /\ b1.allocLock = LCK_none
      /\ b1.stateLock = LCK_none /\ ~b1.master /\ ~b1.blocking /\ ~b1.open
      /\ b1.state = "unknown" /\ b1.scn = 1 /\ b1.table = <<>>
  <2>1. <<>> \in Seq(AnyPage)
    OBVIOUS
  <2> QED BY <1>1, <2>1 DEF NewBM, Manager, State, Level
<1>5. NoAst \in Handler
  BY DEF NoAst, Handler
<1>6. NewPage \in Contents /\ NewPage.ver = 1 /\ NewPage.scn = 1 /\ NewPage.st = "normal"
  BY DEF NewPage, Contents, State
<1>7. /\ NoDelta \in Delta /\ NoDelta.alloc = <<>> /\ NoDelta.data = <<>>
  <2>1. <<>> \in Seq(AnyPage) /\ <<>> \in Seq(Contents)
    OBVIOUS
  <2> QED BY <2>1 DEF NoDelta, Delta
<1>8. Header \in AnyPage /\ \A c \in Client : Home[c] \in Process
  BY NBConstants DEF AnyPage
<1>9. main[Header].st = "normal" /\ main[Header].scn = 1
  BY <1>2, <1>6, <1>8
<1>10. snap \in Snap /\ snap.scn = 0 /\ \A pg \in AnyPage : snap.ver[pg] = 1
  BY <1>2 DEF Snap
<1>11. Types
  BY <1>2, <1>3, <1>4, <1>5, <1>6, <1>7, <1>10, NoBufferFields, NBConstants DEF Types
<1>12. \A c \in Client : /\ th[c] = Idle /\ bm[Home[c]] = b1
                         /\ \A pg \in AnyPage : buf[Home[c]][pg] = NoBuffer
  BY <1>2, <1>8
<1>13. Clients
  <2>1. LockOK(Idle, b1)
    BY <1>3, <1>4 DEF LockOK, MasterOp, Guarding
  <2>2. KnownOK(Idle, b1, main[Header].st, main[Header].scn)
    BY <1>3, <1>4, <1>9 DEF KnownOK
  <2>3. \A pg \in AnyPage : BufferOK(Idle, b1, pg, NoBuffer)
    BY <1>3, NoBufferFields DEF BufferOK, Using, Guarding
  <2>4. \A c \in Client : PageOK(Idle, b1, buf[Home[c]])
    BY <1>12, <2>3 DEF PageOK
  <2> QED BY <1>3, <1>12, <2>1, <2>2, <2>4 DEF Clients
<1>14. Headers
  <2>1. HeaderOK(Idle, b1, NoBuffer, main[Header].st, main[Header].scn, delta.alloc)
    BY <1>3, NoBufferFields DEF HeaderOK
  <2> QED BY <1>8, <1>12, <2>1 DEF Headers
<1>15. Tables
  <2>1. TableOK(Idle, b1, main[Header].st, main[Header].scn, delta.alloc)
    BY <1>4 DEF TableOK, NoRepeats, Recent
  <2> QED BY <1>12, <2>1 DEF Tables
<1>16. Buffers(W)
  BY <1>12, NoBufferFields DEF Buffers, DiffOK, CacheOK, StampOK
<1>17. Exclusive
  BY <1>4, <1>12, NoBufferFields DEF Exclusive, Clash, LCK_none, LCK_write
<1>18. EndLocked
  BY <1>3, <1>12 DEF EndLocked, EndOp
<1>19. HeaderStored
  BY <1>2, <1>7, <1>8 DEF HeaderStored
<1>20. Files(W)
  BY <1>2, <1>6, <1>7, <1>9 DEF Files, FileOK, NoRepeats, Mapped
<1>21. Merging(W)
  BY <1>3, <1>12 DEF Merging, MergeOK, Active, Going
<1>22. Numbers
  BY <1>2, <1>6, <1>9, <1>10 DEF Numbers, AnyPage
<1> QED BY <1>11, <1>13, <1>14, <1>15, <1>16, <1>17, <1>18, <1>19, <1>20, <1>21, <1>22 DEF IInv

\* The invariant looks at nothing but the variables.
LEMMA Stutters ==
    ASSUME NEW W, IInv(W), UNCHANGED vars
    PROVE  IInv(W)'
<1>1. UNCHANGED <<bm, ast, buf, th, endLock, main, delta, stored, snap,
                  changes, calls, deaths>>
  BY DEF vars, files, bounds
<1>2. Types'
  BY <1>1 DEF IInv, Types
<1>3. Clients' /\ Headers' /\ Tables' /\ Buffers(W)'
  BY <1>1 DEF IInv, Clients, Headers, Tables, Buffers
<1>4. Exclusive' /\ EndLocked'
  BY <1>1 DEF IInv, Exclusive, EndLocked
<1>5. HeaderStored' /\ Numbers'
  BY <1>1 DEF IInv, HeaderStored, Torn1, Numbers
<1>6. Files(W)'
  BY <1>1 DEF IInv, Files, FileOK
<1>7. Merging(W)'
  BY <1>1 DEF IInv, Merging, MergeOK, Active, Going, InMain, Halved
<1> QED BY <1>2, <1>3, <1>4, <1>5, <1>6, <1>7 DEF IInv

\* The steps of a thread.
LEMMA StepThread ==
    ASSUME NEW W, Classic, IInv(W), NEW c \in Client, ThreadNext(c),
           HeaderWhole, \A p \in Process : ~GivesUp(p),
           \A pg \in W : ~Tears(pg) /\ ~Misled(pg)
    PROVE  IInv(W)'
<1>1. Home[c] \in Process /\ th[c] \in Thread /\ Shape(th[c])
  BY OneThread, OfClient
<1>2. CASE StateDenied(c)
  <2>1. th[c].wait /\ Dies(Home[c])
    BY <1>2 DEF StateDenied, Cycle
  <2>2. th[c].pc # "dead"
    BY <1>1, <2>1 DEF Shape
  <2> QED BY <2>1, <2>2, StepDies
<1>3. CASE FetchFails(c)
  BY <1>3, StepDies DEF FetchFails
<1>8. CASE CCH_fetch_page(c) \/ CCH_mark(c)
  <2>1. Trusts(W, c, th[c].page)
    BY <1>1, <1>8 DEF Trusts, Misled
  <2> QED BY <1>8, <2>1, StepFetchPage, StepMark
<1>4. CASE \/ lockStateRead(c) \/ StateRead(c) \/ FetchLock(c)
           \/ MarkLocks(c) \/ CCH_release(c)
  BY <1>1, <1>4, StepLockStateRead, StepStateRead, StepFetchLock, StepMarkLocks, StepRelease
<1>5. CASE \/ FlushDone(c) \/ BeginsWrite(c) \/ StateWrite(c) \/ LeavesWrite(c)
           \/ BeginRefused(c) \/ CreatesDelta(c) \/ Stalled(c)
  BY <1>5, StepFlushDone, StepBeginsWrite, StepStateWrite, StepLeavesWrite,
     StepBeginRefused, StepCreatesDelta, StepStalled
<1>6. CASE \/ ChecksState(c) \/ EndRefused(c) \/ MarksMerge(c) \/ MergeStarts(c)
           \/ MergeNext(c) \/ MergeDone(c) \/ MarksNormal(c) \/ Finishes(c)
  BY <1>6, StepChecksState, StepEndRefused, StepMarksMerge, StepMergeStarts,
     StepMergeNext, StepMergeDone, StepMarksNormal, StepFinishes
<1>7. CASE Restart(c) \/ initializeAlloc(c) \/ PageDenied(c)
  BY <1>7, StepRestart, StepInitializeAlloc, StepPageDenied
<1> QED BY <1>2, <1>3, <1>4, <1>5, <1>6, <1>7, <1>8 DEF ThreadNext

\* The requests of a thread.
LEMMA StepRequests ==
    ASSUME NEW W, Classic, IInv(W), NEW c \in Client, Requests(c)
    PROVE  IInv(W)'
<1>1. Reads[c] \subseteq AnyPage /\ Changes[c] \subseteq AnyPage
  BY NBConstants
<1>2. CASE \E pg \in Reads[c] : StartsRead(c, pg)
  BY <1>1, <1>2, StepStarts
<1>3. CASE \E pg \in Changes[c] : StartsWrite(c, pg)
  BY <1>1, <1>3, StepStarts
<1>4. CASE beginBackup(c) \/ endBackup(c)
  BY <1>4, StepBeginBackup, StepEndBackup
<1> QED BY <1>2, <1>3, <1>4 DEF Requests

\* The steps of a process that are nobody's.
LEMMA StepProcess ==
    ASSUME NEW W, Classic, IInv(W), NEW p \in Process, ProcessNext(p), ~GivesUp(p)
    PROVE  IInv(W)'
<1>1. CASE AstCalled(p) \/ AstFlushes(p) \/ AstFlushed(p)
  BY <1>1, StepAstFlags
<1>2. CASE AstOfMaster(p)
  BY <1>2, StepAstOfMaster
<1>3. CASE AstTries(p)
  BY <1>3, StepAstTries
<1>4. ASSUME NEW pg \in AnyPage, write_page(p, pg) PROVE IInv(W)'
  BY <1>4, StepWritePage
<1>5. ASSUME NEW pg \in AnyPage, PageAst(p, pg) PROVE IInv(W)'
  BY <1>5, StepPageAst
<1> QED BY <1>1, <1>2, <1>3, <1>4, <1>5 DEF ProcessNext

\* The step leaves the state to who uses it: no process dies between the writes
\* of the header page to the delta and to the main file (cch.cpp:4867-4886), and
\* no AST of a master gives stateLock up in use (nbak.cpp:104).  Nothing in the
\* code forbids these steps; they are all that the properties of the state need.
KeepsState == HeaderWhole /\ \A p \in Process : ~GivesUp(p)

\* It does no harm to the pages of W: none of them is torn by a death, or
\* looked up in a table that was dropped.
Spares(W) == \A pg \in W : ~Tears(pg) /\ ~Misled(pg)

\* Every such step keeps the invariant.
LEMMA NextInvariant ==
    ASSUME NEW W, Classic, IInv(W), [Next]_vars, [KeepsState]_vars, [Spares(W)]_vars
    PROVE  IInv(W)'
<1>1. CASE UNCHANGED vars
  BY <1>1, Stutters
<1>2. CASE /\ Next /\ HeaderWhole /\ \A p \in Process : ~GivesUp(p)
           /\ \A pg \in W : ~Tears(pg) /\ ~Misled(pg)
  <2>1. ASSUME NEW c \in Client, ThreadNext(c) PROVE IInv(W)'
    BY <1>2, <2>1, StepThread
  <2>2. ASSUME NEW c \in Client, Requests(c) PROVE IInv(W)'
    BY <2>2, StepRequests
  <2>3. ASSUME NEW p \in Process, ProcessNext(p) PROVE IInv(W)'
    BY <1>2, <2>3, StepProcess
  <2>4. ASSUME NEW p \in Process, Death(p) PROVE IInv(W)'
    <3>1. PICK c \in Client : Home[c] = p
      BY OneThread
    <3>2. th[c].pc # "dead" /\ Dies(p)
      BY <2>4, <3>1 DEF Death, Threads
    <3> QED BY <1>2, <3>1, <3>2, StepDies
  <2> QED BY <1>2, <2>1, <2>2, <2>3, <2>4 DEF Next
<1> QED BY <1>1, <1>2 DEF KeepsState, Spares

\* IInv(W) holds up to the first step that is not such a one, for any W.
THEOREM Invariance ==
    ASSUME NEW W, Classic
    PROVE  Spec /\ [][KeepsState]_vars /\ [][Spares(W)]_vars => []IInv(W)
<1>1. Init => IInv(W)
  BY InitInvariant
<1>2. IInv(W) /\ [Next]_vars /\ [KeepsState]_vars /\ [Spares(W)]_vars => IInv(W)'
  BY NextInvariant
<1> QED BY <1>1, <1>2, PTL DEF Spec

\* What it says of the backup state and the tables needs no page to be spared.
THEOREM StateInvariance ==
    ASSUME Classic
    PROVE  Spec /\ [][KeepsState]_vars => []IInv({})
<1>1. Init => IInv({})
  BY InitInvariant
<1>2. IInv({}) /\ [Next]_vars /\ [KeepsState]_vars => IInv({})'
  <2>1. [Spares({})]_vars
    BY DEF Spares
  <2> QED BY <2>1, NextInvariant
<1> QED BY <1>1, <1>2, PTL DEF Spec

-----------------------------------------------------------------------------
(* The state and the tables. *)

\* The types follow, and that no table names a page twice.
LEMMA TypesOfInvariant ==
    ASSUME NEW W, Classic, IInv(W)
    PROVE  TypeOK
<1>1. ASSUME NEW p \in Process PROVE NoRepeats(bm[p].table)
  <2>1. PICK c \in Client : Home[c] = p
    BY OneThread
  <2> QED BY <2>1, OfClient DEF TableOK
<1>2. NoRepeats(delta.alloc) /\ Len(delta.data) = Len(delta.alloc)
  BY DEF IInv, Files
<1>3. Types
  BY DEF IInv
<1> QED BY <1>1, <1>2, <1>3 DEF TypeOK, Types, Manager, Handler, Buffer, Thread, Op, Delta, Snap

\* TypeOK, with what actualizeAlloc raises a bugcheck on, holds up to the
\* first step in which a process dies between the writes of the header page or
\* the AST of a master gives stateLock up in use.
THEOREM TypeCorrect ==
    ASSUME Classic
    PROVE  Spec /\ [][KeepsState]_vars => []TypeOK
<1>1. IInv({}) => TypeOK
  BY TypesOfInvariant
<1> QED BY <1>1, StateInvariance, PTL

\* Who reads or has changed a page under stateLock knows the state.
LEMMA KnownOfInvariant ==
    ASSUME NEW W, Classic, IInv(W)
    PROVE  StateKnown
<1> SUFFICES ASSUME NEW p \in Process, ~bm[p].master,
                    \/ \E c \in Threads(p) : th[c].guard /\ ~th[c].wait
                    \/ \E pg \in AnyPage : buf[p][pg].dirty /\ buf[p][pg].nbak
             PROVE  /\ bm[p].state = main[Header].st /\ bm[p].scn = main[Header].scn
                    /\ bm[p].open \/ bm[p].state = "normal"
  BY DEF StateKnown
<1>1. PICK c \in Client : Home[c] = p /\ Threads(p) = {c}
  BY OneThread
<1>2. /\ Shape(th[c]) /\ LockOK(th[c], bm[p])
      /\ KnownOK(th[c], bm[p], main[Header].st, main[Header].scn)
  BY <1>1, OfClient
<1>3. bm[p].stateLock # LCK_none /\ th[c].pc \notin {"hwrite", "leave"}
  <2>1. CASE th[c].guard /\ ~th[c].wait
    <3>1. th[c].op \notin MasterOp /\ th[c].pc # "leave"
      BY <1>2 DEF LockOK
    <3>2. th[c].op \notin GuardOp
      BY <3>1 DEF MasterOp, GuardOp
    <3> QED BY <1>2, <2>1, <3>1, <3>2 DEF LockOK, Shape
  <2>2. CASE \E pg \in AnyPage : buf[p][pg].dirty /\ buf[p][pg].nbak
    BY <1>1, <2>2, DirtyKnown DEF Guarding
  <2> QED BY <1>1, <2>1, <2>2
<1> QED BY <1>2, <1>3 DEF KnownOK

\* StateKnown, the assertions of CCH_fetch_page, CCH_mark and write_page,
\* holds up to the first such step, with any number of threads at BEGIN and END
\* BACKUP at a time and whatever becomes of the pages.
THEOREM AlwaysKnown ==
    ASSUME Classic
    PROVE  Spec /\ [][KeepsState]_vars => []StateKnown
<1>1. IInv({}) => StateKnown
  BY KnownOfInvariant
<1> QED BY <1>1, StateInvariance, PTL

\* Who has allocLock and knows the state has the table of the delta.
LEMMA CurrentOfInvariant ==
    ASSUME NEW W, Classic, IInv(W)
    PROVE  TableCurrent
<1> SUFFICES ASSUME NEW p \in Process, bm[p].allocLock # LCK_none,
                    bm[p].state \in {"stalled", "merge"}
             PROVE  bm[p].loaded /\ bm[p].table = delta.alloc
  BY DEF TableCurrent
<1>1. PICK c \in Client : Home[c] = p
  BY OneThread
<1>2. PICK t : t = th[c]
  OBVIOUS
<1>3. PICK b \in Manager : b = bm[p]
  BY <1>1, OfClient
<1>4. /\ Shape(t) /\ LockOK(t, b)
      /\ KnownOK(t, b, main[Header].st, main[Header].scn)
      /\ HeaderOK(t, b, buf[p][Header], main[Header].st, main[Header].scn, delta.alloc)
      /\ TableOK(t, b, main[Header].st, main[Header].scn, delta.alloc)
      /\ main[Header].scn \in Nat /\ b.scn \in Nat
  BY <1>1, <1>2, <1>3, OfClient, HeaderFields DEF Manager
<1>5. b.stateLock # LCK_none
  BY <1>3, <1>4 DEF LockOK
<1>6. b.loaded
  BY <1>3, <1>4 DEF TableOK
<1>7. main[Header].st # "normal" /\ main[Header].scn <= b.scn + 1
  <2>1. CASE t.pc # "hwrite"
    BY <1>3, <1>4, <1>5, <2>1 DEF KnownOK
  <2>2. CASE t.pc = "hwrite"
    <3>1. t.op \in {"end", "recover"}
      BY <1>3, <1>4, <2>2 DEF HeaderOK, Shape, GuardOp
    <3> QED BY <1>4, <2>2, <3>1 DEF HeaderOK
  <2> QED BY <2>1, <2>2
<1> QED BY <1>3, <1>4, <1>6, <1>7 DEF TableOK, Recent

\* TableCurrent: up to the first such step, a process that has allocLock and
\* knows the state has the whole table.
THEOREM TablesCurrent ==
    ASSUME Classic
    PROVE  Spec /\ [][KeepsState]_vars => []TableCurrent
<1>1. IInv({}) => TableCurrent
  BY CurrentOfInvariant
<1> QED BY <1>1, StateInvariance, PTL

\* IncrementalSees: up to the first such step, the SCN of every changed page
\* is above that of the last backup, and below that of the one under way.
THEOREM IncrementalBackup ==
    ASSUME Classic
    PROVE  Spec /\ [][KeepsState]_vars => []IncrementalSees
<1>1. IInv({}) => IncrementalSees
  BY DEF IInv, Numbers, IncrementalSees
<1> QED BY <1>1, StateInvariance, PTL

\* A page of the main file is written by write_page only, and not while the
\* process knows that the state is stalled.
LEMMA FrozenStep ==
    ASSUME NEW W, Classic, IInv(W), [Next]_vars, main[Header].st = "stalled", NEW pg \in Page
    PROVE  main'[pg] = main[pg]
<1>0. pg \in AnyPage /\ pg # Header
  BY NBConstants DEF AnyPage
<1>1. ASSUME NEW p \in Process, NEW pg2 \in AnyPage, write_page(p, pg2)
      PROVE  main'[pg] = main[pg]
  <2>1. CASE UNCHANGED main
    BY <2>1
  <2>2. CASE bm[p].state # "stalled" /\ main' = [main EXCEPT ![pg2] = buf[p][pg2].page]
    <3>1. PICK c \in Client : Home[c] = p
      BY OneThread
    <3>2. buf[Home[c]][pg2].dirty
      BY <1>1, <3>1 DEF write_page
    <3>3. ~buf[Home[c]][pg2].nbak
      BY <2>2, <3>1, <3>2, DirtyKnown
    <3>4. pg2 = Header
      BY <3>2, <3>3, DirtyHeader
    <3> QED BY <1>0, <2>2, <3>4 DEF IInv, Types
  <2> QED BY <1>1, <2>1, <2>2 DEF write_page
<1>2. ASSUME NEW p \in Process, Dies(p) PROVE main' = main
  BY <1>2 DEF Dies, files
<1>3. ASSUME NEW p \in Process, ProcessNext(p) PROVE main'[pg] = main[pg]
  <2>1. CASE AstCalled(p) \/ AstFlushes(p) \/ AstFlushed(p) \/ AstTries(p) \/ AstOfMaster(p)
    BY <2>1 DEF AstCalled, AstFlushes, AstFlushed, AstTries, AstOfMaster, files
  <2>2. CASE \E pg2 \in AnyPage : PageAst(p, pg2)
    BY <2>2 DEF PageAst, files
  <2> QED BY <1>1, <1>3, <2>1, <2>2 DEF ProcessNext
<1>4. ASSUME NEW c \in Client, Requests(c) PROVE main' = main
  BY <1>4 DEF Requests, StartsRead, StartsWrite, beginBackup, endBackup, files
<1>5. ASSUME NEW c \in Client, ThreadNext(c) PROVE main' = main
  <2>1. CASE StateDenied(c) \/ FetchFails(c)
    BY <1>2, <2>1, OneThread DEF StateDenied, FetchFails
  <2>2. CASE \/ lockStateRead(c) \/ StateRead(c) \/ FetchLock(c) \/ CCH_fetch_page(c)
             \/ MarkLocks(c) \/ CCH_mark(c) \/ CCH_release(c)
    BY <2>2 DEF lockStateRead, StateRead, FetchLock, CCH_fetch_page, MarkLocks, CCH_mark,
       CCH_release, files
  <2>3. CASE \/ FlushDone(c) \/ BeginsWrite(c) \/ StateWrite(c) \/ LeavesWrite(c)
             \/ BeginRefused(c) \/ CreatesDelta(c) \/ Stalled(c)
    BY <2>3 DEF FlushDone, BeginsWrite, StateWrite, LeavesWrite, BeginRefused,
       CreatesDelta, Stalled, files
  <2>4. CASE \/ ChecksState(c) \/ EndRefused(c) \/ MarksMerge(c) \/ MergeStarts(c)
             \/ MergeNext(c) \/ MergeDone(c) \/ MarksNormal(c) \/ Finishes(c)
    BY <2>4 DEF ChecksState, EndRefused, MarksMerge, MergeStarts, MergeNext, MergeDone,
       MarksNormal, Finishes, files
  <2>5. CASE Restart(c) \/ initializeAlloc(c) \/ PageDenied(c)
    BY <2>5 DEF Restart, initializeAlloc, PageDenied, files
  <2> QED BY <1>5, <2>1, <2>2, <2>3, <2>4, <2>5 DEF ThreadNext
<1>6. UNCHANGED vars => main' = main
  BY DEF vars, files
<1>7. Next => main'[pg] = main[pg]
  BY <1>2, <1>3, <1>4, <1>5 DEF Next, Death
<1> QED BY <1>6, <1>7

\* MainFrozen: up to the first such step, the main file stays as it is while
\* its header says stalled.
THEOREM StaysFrozen ==
    ASSUME Classic
    PROVE  Spec /\ [][KeepsState]_vars => MainFrozen
<1>1. IInv({}) /\ [Next]_vars =>
        [main[Header].st = "stalled" => \A pg \in Page : main'[pg] = main[pg]]_vars
  BY FrozenStep
<1> QED BY <1>1, StateInvariance, PTL DEF Spec, MainFrozen

-----------------------------------------------------------------------------
(* The pages. *)

\* A clean buffer of page pg holds its last version, in every process.
FreshPage(pg) ==
    \A p \in Process : buf[p][pg].valid /\ ~buf[p][pg].dirty => buf[p][pg].page = stored[pg]

\* Who opens the files finds the last version of page pg.
FoundPage(pg) == DiskPage(pg) = stored[pg]

\* So it is for every page that nobody has done harm to.
LEMMA PagesOfInvariant ==
    ASSUME NEW W, Classic, IInv(W), NEW pg \in AnyPage, pg \in W
    PROVE  FreshPage(pg) /\ FoundPage(pg)
<1>1. FreshPage(pg)
  <2> SUFFICES ASSUME NEW p \in Process, buf[p][pg].valid, ~buf[p][pg].dirty
               PROVE  buf[p][pg].page = stored[pg]
    BY DEF FreshPage
  <2>1. PICK c \in Client : Home[c] = p
    BY OneThread
  <2> QED BY <2>1 DEF IInv, Buffers, CacheOK
<1>2. FoundPage(pg)
  <2>1. FileOK(W, pg, main[Header].st) /\ Len(delta.data) = Len(delta.alloc)
    BY DEF IInv, Files
  <2>2. delta.alloc \in Seq(AnyPage) /\ delta.data \in Seq(Contents)
    BY DEF IInv, Types, Delta
  <2>3. CASE main[Header].st = "normal" \/ ~Mapped(delta.alloc, pg)
    <3>1. main[Header].st = "normal" \/ DiskIndex(pg) = 0
      BY <2>3 DEF DiskIndex, Mapped
    <3>2. main[pg] = stored[pg]
      BY <2>1, <2>3 DEF FileOK
    <3> QED BY <3>1, <3>2 DEF DiskPage, FoundPage
  <2>4. CASE main[Header].st # "normal" /\ Mapped(delta.alloc, pg)
    <3>1. PICK i : i = DiskIndex(pg)
      OBVIOUS
    <3>2. i \in DOMAIN delta.alloc /\ delta.alloc[i] = pg
      BY <2>4, <3>1 DEF DiskIndex, Mapped
    <3>3. i # 0 /\ DeltaPage(i) = delta.data[i]
      BY <2>1, <2>2, <3>2 DEF DeltaPage
    <3>4. IF delta.data[i] = EmptyPage THEN main[pg] = stored[pg]
          ELSE delta.data[i] = stored[pg]
      BY <2>1, <2>4, <3>2 DEF FileOK
    <3> QED BY <2>4, <3>1, <3>3, <3>4 DEF DiskPage, FoundPage
  <2> QED BY <2>3, <2>4
<1> QED BY <1>1, <1>2

\* The harm that a page comes to stays with it: the death of a process between
\* the two writes of one page, or a look at a table that was dropped, costs no
\* other page a version, in memory or on disk.
THEOREM HarmContained ==
    ASSUME Classic, NEW W \in SUBSET AnyPage
    PROVE  Spec /\ [][KeepsState]_vars /\ [][Spares(W)]_vars
              => [](\A pg \in W : FreshPage(pg) /\ FoundPage(pg))
<1>1. IInv(W) => \A pg \in W : FreshPage(pg) /\ FoundPage(pg)
  BY PagesOfInvariant
<1> QED BY <1>1, Invariance, PTL

\* Fresh: no process reads a version of a page that another one, or the merge,
\* has replaced, up to the first step in which a page is torn or misled, or the
\* state is not kept.
THEOREM ReadsFresh ==
    ASSUME Classic
    PROVE  Spec /\ [][KeepsState]_vars /\ [][Spares(AnyPage)]_vars => []Fresh
<1>1. Init => IInv(AnyPage)
  BY InitInvariant
<1>2. IInv(AnyPage) /\ [Next]_vars /\ [KeepsState]_vars /\ [Spares(AnyPage)]_vars
         => IInv(AnyPage)'
  BY NextInvariant
<1>3. IInv(AnyPage) => Fresh
  BY PagesOfInvariant DEF FreshPage, Fresh
<1> QED BY <1>1, <1>2, <1>3, PTL DEF Spec

\* Recoverable: up to the first such step, the files hold the last version
\* written of every page, in the delta or in the main file.
THEOREM AlwaysRecoverable ==
    ASSUME Classic
    PROVE  Spec /\ [][KeepsState]_vars /\ [][Spares(AnyPage)]_vars => []Recoverable
<1>1. Init => IInv(AnyPage)
  BY InitInvariant
<1>2. IInv(AnyPage) /\ [Next]_vars /\ [KeepsState]_vars /\ [Spares(AnyPage)]_vars
         => IInv(AnyPage)'
  BY NextInvariant
<1>3. IInv(AnyPage) => Recoverable
  BY PagesOfInvariant DEF FoundPage, Recoverable
<1> QED BY <1>1, <1>2, <1>3, PTL DEF Spec

=============================================================================
