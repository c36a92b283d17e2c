------------------------------ MODULE LmdbPages ------------------------------
(***************************************************************************)
(* The pages of an LMDB environment (vendors/ocaml-lmdb/src/mdb.c): how    *)
(* the write transaction allocates, copies, spills, frees and flushes      *)
(* them, how the free list is saved, how a commit reaches the disk, and    *)
(* what a power failure leaves.                                            *)
(*                                                                         *)
(* The main DB is a root page over one leaf page for each key that is      *)
(* present; a big value has two contiguous overflow pages of its own.  The *)
(* free DB is one page of records, from the id of a transaction to the     *)
(* pages it freed.  (The shape of larger trees is LmdbTree's subject.)     *)
(* A value is a number modulo 3, one more than the value it replaces, so   *)
(* that the versions a reader, the writer and the disk hold all differ.    *)
(* Registering a reader is one step here; LmdbReaders opens it up.         *)
(***************************************************************************)
EXTENDS Integers, Sequences, FiniteSets, FiniteSetsExt, SequencesExt

CONSTANTS
    Key,            \* keys of the main DB
    BigKey,         \* those that may be given a value of two pages
    Reader,         \* read-only transactions
    MDB_IDL_UM_MAX, \* capacity of a dirty list
    MaxPg,          \* me_maxpg: page numbers are below
    MaxTxn,         \* bound: transaction ids
    MaxOps,         \* bound: operations of write transactions
    MaxFaults,      \* bound: aborts and power failures
    MaxReads,       \* bound: read-only transactions
    Depth,          \* bound: write transactions nested in one another
    NOMETASYNC,     \* whether MDB_NOMETASYNC is set, as src/lib_storage does
    Made            \* ids of the commits the environment starts with

VARIABLES
    db,         \* the write transaction, the environment and the page cache
    may,        \* per page, the contents a power failure may leave
    meta,       \* the two meta pages
    maymeta,    \* per meta page, the contents a power failure may leave
    mti,        \* mti_txnid, the id of the last commit
    pc,         \* where the writer is in mdb_txn_commit
    readers,    \* per reader, <<>> or <<the meta page it copied>>
    left        \* how many operations, faults and reads may still happen

vars == <<db, may, meta, maymeta, mti, pc, readers, left>>

Pgno == 2..(MaxPg - 1)
P_INVALID == 0
NoRec == {P_INVALID}
Ids == 1..MaxTxn

Blank == [kind |-> "none", kids |-> [k \in Key |-> P_INVALID], val |-> 0,
          ov |-> P_INVALID, recs |-> [i \in Ids |-> NoRec]]
RootPage == [Blank EXCEPT !.kind = "root"]
LeafPage == [Blank EXCEPT !.kind = "leaf"]
OvPage(v) == [Blank EXCEPT !.kind = "overflow", !.val = v]
FreePage == [Blank EXCEPT !.kind = "free"]

NoTxn == [dirty |-> <<>>, flagged |-> {}, loose |-> <<>>, room |-> MDB_IDL_UM_MAX,
          free |-> {}, spill |-> {}, spills |-> FALSE, next |-> 2,
          main |-> P_INVALID, fre |-> P_INVALID, dbdirty |-> {}, error |-> FALSE]

-----------------------------------------------------------------------------
\* Finding pages.

\* The transaction and its ancestors.
Chain(s) == <<s.t>> \o s.up

\* mdb_page_get: the level of the transaction that dirtied or spilled page
\* p, 0 when none did.
Level(s, p) ==
    LET In == {i \in DOMAIN Chain(s) :
                  p \in Chain(s)[i].spill \cup DOMAIN Chain(s)[i].dirty}
    IN IF In = {} THEN 0 ELSE Min(In)

IsDirty(s, p) == Level(s, p) # 0 /\ p \notin Chain(s)[Level(s, p)].spill

mdb_page_get(s, p) == IF IsDirty(s, p) THEN Chain(s)[Level(s, p)].dirty[p]
                                       ELSE s.file[p]

-----------------------------------------------------------------------------
\* Allocating and releasing pages.

Fail(s, rc) == [s EXCEPT !.err = rc, !.t.error = TRUE]

Put(f, p, c) == [q \in DOMAIN f \cup {p} |-> IF q = p THEN c ELSE f[q]]
Without(f, P) == [q \in DOMAIN f \ P |-> f[q]]

\* mdb_page_dirty: a page that was not in the dirty list takes a place in it.
mdb_page_dirty(s, p, c) ==
    [s EXCEPT !.t.dirty = Put(@, p, c), !.t.room = @ - 1]

\* The contents of a page that is in the dirty list.
Write(s, p, c) == [s EXCEPT !.t.dirty = Put(@, p, c)]

\* mdb_midl_append on mt_free_pgs; a page already there would be freed twice.
FreePages(s, P) ==
    [s EXCEPT !.t.free = @ \cup P,
              !.err = IF P \cap s.t.free # {} THEN "freed twice" ELSE @]

\* mdb_midl_xmerge into me_pghead.
Merge(s, P) ==
    [s EXCEPT !.pghead = @ \cup P, !.has = TRUE,
              !.err = IF P \cap s.pghead # {} THEN "merged twice" ELSE @]

\* Faulty variant of mdb_find_oldest: the reader table is not looked at.
OldestUnpinned(s) == s.id - 1

\* The oldest snapshot in use: no page it holds may be written.
mdb_find_oldest(s) == Min({s.id - 1} \cup s.pins)

\* me_pgoldest is looked up again when a record seems too recent.
Refreshed(s, last) ==
    IF s.oldest <= last THEN [s EXCEPT !.oldest = mdb_find_oldest(s)] ELSE s

Runs(P, num) == {p \in P : \A i \in 1..(num - 1) : p + i \in P}

Recs(s) == IF s.t.fre = P_INVALID THEN [i \in Ids |-> NoRec]
                                  ELSE mdb_page_get(s, s.t.fre).recs

\* mdb_page_alloc's loop: fetch records of the free DB older than every
\* snapshot in use until me_pghead has a run of num pages, or has had enough
\* pages, but no run, more than retry times.
RECURSIVE Fetch(_, _, _, _)
FetchRecord(s, num, id, retry) ==
    IF s.oldest <= id THEN s
    ELSE Fetch([Merge(s, Recs(s)[id]) EXCEPT !.pglast = id], num, id, retry)
FetchAfter(s, num, last, retry) ==
    LET found == {i \in Ids : i > last /\ Recs(s)[i] # NoRec}
    IN IF s.oldest <= last + 1 \/ found = {} THEN s
       ELSE FetchRecord(Refreshed(s, Min(found)), num, Min(found), retry)
Fetch(s, num, last, retry) ==
    LET many == Cardinality(s.pghead) >= num
    IN IF Runs(s.pghead, num) # {} \/ (many /\ retry = 0) THEN s
       ELSE FetchAfter(Refreshed(s, last + 1), num, last, IF many THEN retry - 1 ELSE retry)

\* A loose page, else the lowest run of reclaimed pages, else new pages at
\* the end of the map.
TakeRun(s, num, p) ==
    mdb_page_dirty([s EXCEPT !.np = p, !.pghead = @ \ (p..(p + num - 1))], p, Blank)
TakeNew(s, num) ==
    IF s.t.next + num >= MaxPg THEN Fail(s, "MAP_FULL")
    ELSE [mdb_page_dirty([s EXCEPT !.np = s.t.next], s.t.next, Blank) EXCEPT !.t.next = @ + num]
Take(s, num) ==
    LET runs == Runs(s.pghead, num)
    IN IF runs # {} THEN TakeRun(s, num, Min(runs)) ELSE TakeNew(s, num)
mdb_page_alloc(s, num) ==
    IF num = 1 /\ s.t.loose # <<>>
    THEN [s EXCEPT !.np = Head(s.t.loose), !.t.loose = Tail(@),
                   !.t.flagged = @ \ {Head(s.t.loose)}]
    ELSE IF s.t.room = 0 THEN Fail(s, "TXN_FULL")
    ELSE Take(Fetch(s, num, s.pglast, 60 * num), num)

\* A page the transaction dirtied itself is kept for reuse, another freed.
mdb_page_loose(s, p) ==
    IF IsDirty(s, p) /\ (s.up = <<>> \/ p \in DOMAIN s.t.dirty)
    THEN [s EXCEPT !.t.loose = <<p>> \o @, !.t.flagged = @ \cup {p}]
    ELSE FreePages(s, {p})

\* Faulty variant of mdb_ovpage_free: the place in the dirty list is not
\* given back.
OvpageFreeRoomLost(s, p) ==
    LET gone == IF IsDirty(s, p)
                THEN [s EXCEPT !.t.dirty = Without(@, {p})]
                ELSE [s EXCEPT !.t.spill = @ \ {p}]
    IN IF s.has /\ s.up = <<>> /\ (IsDirty(s, p) \/ p \in s.t.spill)
       THEN Merge(gone, {p, p + 1})
       ELSE FreePages(s, {p, p + 1})

\* Overflow pages go back to me_pghead when the outermost transaction took
\* them, else to the pages it frees.
mdb_ovpage_free(s, p) ==
    LET gone == IF IsDirty(s, p)
                THEN [s EXCEPT !.t.dirty = Without(@, {p}), !.t.room = @ + 1]
                ELSE [s EXCEPT !.t.spill = @ \ {p}]
    IN IF s.has /\ s.up = <<>> /\ (IsDirty(s, p) \/ p \in s.t.spill)
       THEN Merge(gone, {p, p + 1})
       ELSE FreePages(s, {p, p + 1})

-----------------------------------------------------------------------------
\* Copying and spilling pages.

\* mdb_page_unspill of a page some level spilled.
mdb_page_unspill(s, p) ==
    IF s.t.room = 0 THEN [s EXCEPT !.err = "TXN_FULL"]
    ELSE mdb_page_dirty([s EXCEPT !.t.spill = @ \ {p}, !.np = p], p, s.file[p])

Spilled(s, p) == \E i \in DOMAIN Chain(s) : p \in Chain(s)[i].spill

\* mdb_page_touch: after it np is a page of this transaction with p's
\* contents.
FailIfFull(s) == IF s.err = "ok" THEN s ELSE Fail(s, s.err)
CopyPage(s, p, c) == IF s.err # "ok" THEN s ELSE FreePages(Write(s, s.np, c), {p})
mdb_page_touch(s, p) ==
    IF ~IsDirty(s, p)
    THEN IF s.t.spills /\ Spilled(s, p) THEN FailIfFull(mdb_page_unspill(s, p))
         ELSE CopyPage(mdb_page_alloc(s, 1), p, mdb_page_get(s, p))
    ELSE IF s.up # <<>> /\ p \notin DOMAIN s.t.dirty
    THEN [Write(s, p, mdb_page_get(s, p)) EXCEPT !.np = p]
    ELSE [s EXCEPT !.np = p]

\* pwrite of a page: two pages for an overflow page.
Extent(c, p) == IF c.kind = "overflow" THEN {p, p + 1} ELSE {p}

\* mdb_page_flush of the dirty pages P.
mdb_page_flush(s, P) ==
    LET covered == UNION {Extent(s.t.dirty[p], p) : p \in P}
        from(q) == IF q \in P THEN q ELSE q - 1
    IN [s EXCEPT !.file = [q \in DOMAIN @ |->
                              IF q \in covered THEN s.t.dirty[from(q)] ELSE @[q]],
                 !.t.dirty = Without(@, P),
                 !.t.room = @ + Cardinality(P)]

\* mdb_pages_xkeep: pages of the cursor and roots of DBs created here.
mdb_pages_xkeep(s, path) ==
    path \cup (IF "main" \in s.t.dbdirty THEN {s.t.main} ELSE {})
         \cup (IF "fre" \in s.t.dbdirty THEN {s.t.fre} ELSE {})

\* The pages out are written and remembered as spilled.
SpillOut(s, out) == [mdb_page_flush(s, out) EXCEPT !.t.spill = @ \cup out, !.t.spills = TRUE]

Highest(n, P) == {p \in P : Cardinality({q \in P : q > p}) < n}

\* Faulty variant of mdb_page_spill: loose pages are spilled too.
PageSpillLoose(s, depth, size, path) ==
    LET need == 2 * (depth + size)
    IN IF s.t.room > need THEN s
       ELSE SpillOut(s, Highest(Max({need, MDB_IDL_UM_MAX \div 8}),
                                DOMAIN s.t.dirty \ mdb_pages_xkeep(s, path)))

\* mdb_page_spill before an operation on a tree of depth pages that stores
\* size pages: when the dirty list may not have room for it, its highest
\* pages are written to the file.
mdb_page_spill(s, depth, size, path) ==
    LET need == 2 * (depth + size)
        parents == UNION {s.up[i].spill : i \in DOMAIN s.up}
        free == DOMAIN s.t.dirty
                   \ (s.t.flagged \cup mdb_pages_xkeep(s, path) \cup parents)
    IN IF s.t.room > need THEN s
       ELSE SpillOut(s, Highest(Max({need, MDB_IDL_UM_MAX \div 8}), free))

-----------------------------------------------------------------------------
\* Operations on the main DB.

Then(s, Op(_)) == IF s.err = "ok" THEN Op(s) ELSE s

Path(s, k) == IF s.t.main = P_INVALID THEN {}
              ELSE {s.t.main, mdb_page_get(s, s.t.main).kids[k]}

MainDepth(s) == IF s.t.main = P_INVALID THEN 0 ELSE 2

\* mdb_page_new of a root page, or mdb_page_touch of the one there is.
TouchRoot(s) ==
    LET n == mdb_page_alloc(s, 1)
        r == mdb_page_touch(s, s.t.main)
    IN IF s.t.main = P_INVALID
       THEN Then(n, LAMBDA x : [Write(x, x.np, RootPage) EXCEPT
                                    !.t.main = x.np, !.t.dbdirty = @ \cup {"main"}])
       ELSE Then(r, LAMBDA x : [x EXCEPT !.t.main = x.np])

SetKid(s, k, p) ==
    Write(s, s.t.main, [s.t.dirty[s.t.main] EXCEPT !.kids[k] = p])

\* The leaf page of key k, copied or new, writable and linked to the root.
TouchLeaf(s, k) ==
    LET leaf == s.t.dirty[s.t.main].kids[k]
        n == mdb_page_alloc(s, 1)
        l == mdb_page_touch(s, leaf)
    IN IF leaf = P_INVALID
       THEN Then(n, LAMBDA x : SetKid(Write(x, x.np, LeafPage), k, x.np))
       ELSE Then(l, LAMBDA x : SetKid(x, k, x.np))

\* mdb_node_add of value v, on new overflow pages when it is big.
mdb_node_add(s, p, v, big) ==
    LET o == mdb_page_alloc(s, 2)
    IN IF big
       THEN Then(o, LAMBDA x : Write(Write(x, x.np, OvPage(v)), p,
                                     [x.t.dirty[p] EXCEPT !.ov = x.np, !.val = 0]))
       ELSE Write(s, p, [s.t.dirty[p] EXCEPT !.ov = P_INVALID, !.val = v])

\* mdb_cursor_put's overwrite of the value in leaf page p: overflow pages
\* of this transaction, spilled or of an ancestor included, are reused in
\* place, others are freed.
StoreValue(s, p, v, big) ==
    LET ov == s.t.dirty[p].ov
        u == mdb_page_unspill(s, ov)
    IN IF ov = P_INVALID THEN mdb_node_add(s, p, v, big)
       ELSE IF IsDirty(s, ov) THEN Write(s, ov, OvPage(v))
       ELSE IF Level(s, ov) # 0 THEN Then(u, LAMBDA x : Write(x, ov, OvPage(v)))
       ELSE Then(mdb_ovpage_free(s, ov), LAMBDA x : mdb_node_add(x, p, v, big))

mdb_put(s, k, v, big) ==
    LET s1 == mdb_page_spill(s, MainDepth(s), IF big THEN 2 ELSE 1, Path(s, k))
        s2 == Then(s1, TouchRoot)
        s3 == Then(s2, LAMBDA x : TouchLeaf(x, k))
    IN Then(s3, LAMBDA x : StoreValue(x, x.t.dirty[x.t.main].kids[k], v, big))

\* mdb_cursor_del0 and mdb_rebalance of an emptied leaf: its page is loose,
\* and an empty root page is freed.
Unlink(s, k) ==
    LET root == s.t.dirty[s.t.main]
        l == mdb_page_loose(SetKid(s, k, P_INVALID), root.kids[k])
    IN IF \A j \in Key \ {k} : root.kids[j] = P_INVALID
       THEN FreePages([l EXCEPT !.t.main = P_INVALID], {s.t.main})
       ELSE l

\* mdb_cursor_del of a key that is present.
mdb_del(s, k) ==
    LET s1 == mdb_page_spill(s, MainDepth(s), 0, Path(s, k))
        s2 == Then(s1, TouchRoot)
        s3 == Then(s2, LAMBDA x : TouchLeaf(x, k))
        freed(x) == LET ov == x.t.dirty[x.t.dirty[x.t.main].kids[k]].ov
                    IN IF ov = P_INVALID THEN x ELSE mdb_ovpage_free(x, ov)
    IN Then(Then(s3, freed), LAMBDA x : Unlink(x, k))

-----------------------------------------------------------------------------
\* Saving the free list.

FreePath(s) == IF s.t.fre = P_INVALID THEN {} ELSE {s.t.fre}

TouchFree(s) ==
    IF s.t.fre = P_INVALID THEN s
    ELSE Then(mdb_page_touch(s, s.t.fre), LAMBDA x : [x EXCEPT !.t.fre = x.np])

SetRec(s, id, P) == Write(s, s.t.fre, [s.t.dirty[s.t.fre] EXCEPT !.recs[id] = P])

\* mdb_cursor_put on the free DB.
NewFree(s) == [Write(s, s.np, FreePage) EXCEPT !.t.fre = s.np, !.t.dbdirty = @ \cup {"fre"}]
WritableFree(s) ==
    IF s.t.fre = P_INVALID THEN Then(mdb_page_alloc(s, 1), NewFree) ELSE TouchFree(s)
PutRec(s, id, P) ==
    Then(WritableFree(mdb_page_spill(s, Cardinality(FreePath(s)), 1, FreePath(s))),
         LAMBDA x : SetRec(x, id, P))

\* mdb_cursor_del on the free DB; the page of an empty tree is freed.
DelRec(s, id) ==
    LET s1 == mdb_page_spill(s, 1, 0, FreePath(s))
        empty(x) == \A i \in Ids : x.t.dirty[x.t.fre].recs[i] = NoRec
    IN Then(Then(TouchFree(s1), LAMBDA x : SetRec(x, id, NoRec)),
            LAMBDA x : IF empty(x)
                       THEN FreePages([x EXCEPT !.t.fre = P_INVALID], {x.t.fre})
                       ELSE x)

\* The record of the pages this transaction freed is written again while
\* writing it frees more.
RECURSIVE SaveFreed(_)
SaveMore(s, free) == IF s.err = "ok" /\ s.t.free # free THEN SaveFreed(s) ELSE s
SaveFreed(s) == SaveMore(PutRec(s, s.id, s.t.free), s.t.free)

\* mdb_freelist_save's loop.  Records whose pages are in me_pghead are
\* deleted, the freed pages saved, and a record of room pages is reserved
\* under key head for me_pghead and the loose pages, until nothing changes.
RECURSIVE SaveLoop(_, _, _, _, _, _)
SavedFreed(s, pglast, head, room, more) ==
    SaveLoop(s, pglast, Cardinality(s.t.free), head, room, more)
SaveLoop(s, pglast, freecnt, head, room, more) ==
    LET recs == {i \in Ids : Recs(s)[i] # NoRec}
        id == Min(recs)
        len == Cardinality(s.pghead) + Len(s.t.loose)
    IN IF s.err # "ok" THEN s
       ELSE IF pglast < s.pglast
       THEN IF recs = {} \/ id > s.pglast THEN [s EXCEPT !.err = "no record"]
            ELSE SaveLoop(DelRec(s, id), id, freecnt, id, 0, more)
       ELSE IF freecnt < Cardinality(s.t.free)
       THEN SavedFreed(Then(IF freecnt = 0 THEN TouchFree(s) ELSE s, SaveFreed),
                       pglast, head, room, more)
       ELSE IF room = len \/ (room > len /\ more = 0)
       THEN [s EXCEPT !.np = head, !.reserved = room]
       ELSE SaveLoop(PutRec(s, head, {}), pglast, freecnt, head, len,
                     IF room > len THEN more - 1 ELSE more)

\* The reserved record is filled with the lowest pages, all of them when it
\* has the room.
FillReserved(s) ==
    LET P == {p \in s.pghead :
                 Cardinality({q \in s.pghead : q < p}) < s.reserved}
    IN IF s.pghead = {} THEN s ELSE PutRec(s, s.np, P)

\* Faulty variant of mdb_freelist_save: loose pages are forgotten.
FreelistSaveLossy(s) ==
    Then(SaveLoop(IF s.has THEN TouchFree(s) ELSE s, 0, 0, 0, 0, 1), FillReserved)

\* Loose pages are freed if me_pghead was never used, else join it.
FreeLoose(s) == [FreePages(s, ToSet(s.t.loose)) EXCEPT !.t.loose = <<>>]
MergeLoose(s) ==
    IF s.t.loose = <<>> THEN s ELSE [Merge(s, ToSet(s.t.loose)) EXCEPT !.t.loose = <<>>]
mdb_freelist_save(s) ==
    Then(Then(SaveLoop(IF s.has THEN TouchFree(s) ELSE FreeLoose(s), 0, 0, 0, 0, 1), MergeLoose),
         FillReserved)

-----------------------------------------------------------------------------
\* Transactions.

NoMeta == [id |-> 0, main |-> P_INVALID, fre |-> P_INVALID, last |-> 1]

\* mdb_env_init_meta: two meta pages of an empty environment.
NoDb == [id |-> 0, t |-> NoTxn, up |-> <<>>, saved |-> <<>>, has |-> FALSE,
         pghead |-> {}, pglast |-> 0, oldest |-> 0, np |-> 0, reserved |-> 0,
         pins |-> {}, err |-> "ok", file |-> [p \in Pgno |-> Blank]]

\* mdb_txn_end of the outermost transaction.
Ended(s) == [s EXCEPT !.t = NoTxn, !.up = <<>>, !.saved = <<>>, !.has = FALSE,
                      !.pghead = {}, !.pglast = 0, !.id = 0]

\* mdb_txn_renew0 of a write transaction that follows meta page m.
Begun(s, m) ==
    [s EXCEPT !.id = m.id + 1,
              !.t = [NoTxn EXCEPT !.next = m.last + 1, !.main = m.main, !.fre = m.fre]]

\* mdb_txn_commit up to and including mdb_page_flush.
Flushed(s) ==
    Then(mdb_freelist_save(s),
         LAMBDA f : [mdb_page_flush(f, DOMAIN f.t.dirty \ f.t.flagged) EXCEPT
                        !.has = FALSE, !.pghead = {}])

\* The meta page mdb_env_write_meta writes.
NewMeta(s) == [id |-> s.id, main |-> s.t.main, fre |-> s.t.fre, last |-> s.t.next - 1]

\* The environment after Made commits that each store every key.
RECURSIVE StoreAll(_, _, _)
StoreAll(s, K, v) ==
    IF K = {} THEN s
    ELSE LET k == CHOOSE k \in K : TRUE
         IN StoreAll(mdb_put(s, k, v, k \in BigKey), K \ {k}, v)

RECURSIVE Prepared(_)
PreparedMeta(f, m, n) == [s |-> Ended(f), m |-> [m EXCEPT ![n % 2] = NewMeta(f)]]
PreparedOn(p, n) ==
    PreparedMeta(Flushed(StoreAll(Begun(p.s, p.m[(n - 1) % 2]), Key, (n % 3) + 1)), p.m, n)
Prepared(n) ==
    IF n = 0 THEN [s |-> NoDb, m |-> [i \in 0..1 |-> NoMeta]] ELSE PreparedOn(Prepared(n - 1), n)

Init ==
    \E start \in {Prepared(Made)} :
       /\ db = [start.s EXCEPT !.np = 0, !.reserved = 0]
       /\ may = [p \in Pgno |-> {db.file[p]}]
       /\ meta = start.m
       /\ maymeta = [i \in 0..1 |-> {meta[i]}]
       /\ mti = Made
       /\ pc = "idle"
       /\ readers = [r \in Reader |-> <<>>]
       /\ left = [ops |-> MaxOps, faults |-> MaxFaults, reads |-> MaxReads]

Spend(what) == left[what] > 0 /\ left' = [left EXCEPT ![what] = @ - 1]

\* What the pages under root hold, read with the operator get.
Corrupt == 9
Value(get(_), leaf) ==
    IF leaf.kind # "leaf" THEN Corrupt
    ELSE IF leaf.ov = P_INVALID THEN leaf.val
    ELSE IF get(leaf.ov) # get(leaf.ov + 1) THEN Corrupt
    ELSE get(leaf.ov).val
Content(get(_), root) ==
    [k \in Key |-> IF root = P_INVALID THEN 0
                   ELSE IF get(root).kind # "root" THEN Corrupt
                   ELSE IF get(root).kids[k] = P_INVALID THEN 0
                   ELSE Value(get, get(get(root).kids[k]))]

\* What transaction i of the chain sees; its overflow pages are dirty or
\* spilled as a whole.
View(s, i) ==
    LET x == [s EXCEPT !.t = Chain(s)[i], !.up = SubSeq(Chain(s), i + 1, Len(Chain(s)))]
        get(p) == IF ~IsDirty(x, p) /\ p > 2 /\ IsDirty(x, p - 1)
                     /\ mdb_page_get(x, p - 1).kind = "overflow"
                  THEN mdb_page_get(x, p - 1) ELSE mdb_page_get(x, p)
    IN Content(get, x.t.main)

Now == [db EXCEPT !.pins = {readers[r][1].id : r \in {q \in Reader : readers[q] # <<>>}}]

\* The end of a call: what it wrote to the page cache may reach the disk,
\* and errors the caller is told of are not remembered.
Told == {"ok", "TXN_FULL", "MAP_FULL"}
Return(s) ==
    /\ db' = [s EXCEPT !.pins = {}, !.np = 0, !.reserved = 0,
                       !.err = IF @ \in Told THEN "ok" ELSE @]
    /\ may' = [p \in Pgno |-> may[p] \cup {s.file[p]}]

\* mdb_txn_renew0 of the write transaction.
Begin ==
    /\ pc = "idle"
    /\ db' = Begun(db, meta[mti % 2])
    /\ pc' = "run"
    /\ UNCHANGED <<may, meta, maymeta, mti, readers, left>>

Operate(s) ==
    /\ pc = "run" /\ ~db.t.error /\ db.id <= MaxTxn
    /\ \E x \in {s} : Return(x)
    /\ Spend("ops")
    /\ UNCHANGED <<meta, maymeta, mti, pc, readers>>

OpPut(k, big) ==
    /\ big => k \in BigKey
    /\ Operate(mdb_put(Now, k, (View(db, 1)[k] % 3) + 1, big))

OpDel(k) == View(db, 1)[k] # 0 /\ Operate(mdb_del(Now, k))

\* mdb_txn_begin with a parent saves me_pgstate.
BeginNested ==
    /\ pc = "run" /\ ~db.t.error /\ left.ops > 0 /\ Len(db.up) + 1 < Depth
    /\ db' = [db EXCEPT
                !.t = [@ EXCEPT !.dirty = <<>>, !.flagged = {}, !.loose = <<>>,
                                !.free = {}, !.spill = {}],
                !.up = <<db.t>> \o @,
                !.saved = <<[has |-> db.has, pghead |-> db.pghead,
                             pglast |-> db.pglast]>> \o @]
    /\ UNCHANGED <<may, meta, maymeta, mti, pc, readers, left>>

\* mdb_txn_end of a nested transaction.
AbortedNested(s) ==
    [s EXCEPT !.t = Head(s.up), !.up = Tail(@), !.saved = Tail(@),
              !.has = Head(s.saved).has, !.pghead = Head(s.saved).pghead,
              !.pglast = Head(s.saved).pglast]

\* Faulty variant of MergedNested: pages the nested transaction spilled stay
\* in its parent's dirty list.
MergedNestedUnspilled(s) ==
    LET t == s.t
        par == Head(s.up)
        merged == [p \in DOMAIN par.dirty \cup DOMAIN t.dirty |->
                      IF p \in DOMAIN t.dirty THEN t.dirty[p] ELSE par.dirty[p]]
        len == IF Tail(s.up) # <<>> THEN Cardinality(DOMAIN merged) ELSE MDB_IDL_UM_MAX - t.room
    IN [FreePages([s EXCEPT !.t = par], t.free) EXCEPT
           !.t.next = t.next, !.t.main = t.main, !.t.fre = t.fre,
           !.t.dbdirty = t.dbdirty, !.t.spills = t.spills,
           !.t.dirty = merged, !.t.room = t.room,
           !.t.flagged = @ \cup t.flagged,
           !.t.spill = (@ \ DOMAIN t.dirty) \cup t.spill,
           !.t.loose = @ \o t.loose,
           !.up = Tail(@), !.saved = Tail(@),
           !.err = IF Cardinality(DOMAIN merged) # len THEN "i # x" ELSE @]

\* mdb_txn_commit of a nested transaction: the parent's dirty list becomes
\* the merge of the two, of the length dirty_room says if it is outermost.
MergedNested(s) ==
    LET t == s.t
        par == Head(s.up)
        old == Without(par.dirty, t.spill)
        merged == [p \in DOMAIN old \cup DOMAIN t.dirty |->
                      IF p \in DOMAIN t.dirty THEN t.dirty[p] ELSE old[p]]
        len == IF Tail(s.up) # <<>> THEN Cardinality(DOMAIN merged) ELSE MDB_IDL_UM_MAX - t.room
    IN [FreePages([s EXCEPT !.t = par], t.free) EXCEPT
           !.t.next = t.next, !.t.main = t.main, !.t.fre = t.fre,
           !.t.dbdirty = t.dbdirty, !.t.spills = t.spills,
           !.t.dirty = merged, !.t.room = t.room,
           !.t.flagged = (@ \ t.spill) \cup t.flagged,
           !.t.spill = (@ \ DOMAIN t.dirty) \cup t.spill,
           !.t.loose = @ \o t.loose,
           !.up = Tail(@), !.saved = Tail(@),
           !.err = IF Cardinality(DOMAIN merged) # len THEN "i # x" ELSE @]

CommitNested ==
    /\ pc = "run" /\ db.up # <<>>
    /\ Return(IF db.t.error
              THEN [AbortedNested(db) EXCEPT !.t.error = TRUE]
              ELSE MergedNested(db))
    /\ UNCHANGED <<meta, maymeta, mti, pc, readers, left>>

AbortNested ==
    /\ pc = "run" /\ db.up # <<>>
    /\ Return(AbortedNested(db))
    /\ UNCHANGED <<meta, maymeta, mti, pc, readers, left>>

\* mdb_txn_abort, a commit that fails, or the death of the process: nothing
\* but the page cache survives.
Abort ==
    /\ pc \in {"run", "flushed", "synced"}
    /\ Return(Ended(db))
    /\ pc' = "idle"
    /\ Spend("faults")
    /\ UNCHANGED <<meta, maymeta, mti, readers>>

\* mdb_txn_commit of a transaction that failed aborts it.
CommitFailed ==
    /\ pc = "run" /\ db.up = <<>> /\ db.t.error
    /\ Return(Ended(db))
    /\ pc' = "idle"
    /\ UNCHANGED <<meta, maymeta, mti, readers, left>>

\* mdb_txn_commit with nothing to write.
CommitEmpty ==
    /\ pc = "run" /\ db.up = <<>> /\ ~db.t.error
    /\ db.t.dirty = <<>> /\ ~db.t.spills
    /\ Return(Ended(db))
    /\ pc' = "idle"
    /\ UNCHANGED <<meta, maymeta, mti, readers, left>>

\* mdb_txn_commit up to mdb_page_flush.  A failure to write leaves all,
\* some or none of the pages written: here all.
CommitFlush ==
    /\ pc = "run" /\ db.up = <<>> /\ ~db.t.error
    /\ db.t.dirty # <<>> \/ db.t.spills
    /\ \E s \in {Flushed(Now)} :
          IF s.err = "ok" THEN Return(s) /\ pc' = "flushed"
                          ELSE Return(Ended(s)) /\ pc' = "idle"
    /\ UNCHANGED <<meta, maymeta, mti, readers, left>>

\* mdb_env_sync0: fdatasync of data and of meta pages.
mdb_env_sync0 ==
    /\ pc = "flushed"
    /\ may' = [p \in Pgno |-> {db.file[p]}]
    /\ maymeta' = [i \in 0..1 |-> {meta[i]}]
    /\ pc' = "synced"
    /\ UNCHANGED <<db, meta, mti, readers, left>>

\* mdb_env_write_meta, and the end of the commit.
mdb_env_write_meta ==
    LET i == db.id % 2
        new == NewMeta(db)
    IN /\ pc = "synced"
       /\ meta' = [meta EXCEPT ![i] = new]
       /\ maymeta' = [maymeta EXCEPT ![i] = {new} \cup IF NOMETASYNC THEN @ ELSE {}]
       /\ mti' = db.id
       /\ db' = Ended(db)
       /\ pc' = "idle"
       /\ UNCHANGED <<may, readers, left>>

\* The write fails, and so perhaps does the write that restores the old id:
\* MDB_FATAL_ERROR, no further transaction of this process, and there is no
\* other one.
WriteMetaFails ==
    LET i == db.id % 2
        new == NewMeta(db)
        mixed == [new EXCEPT !.id = meta[i].id, !.last = meta[i].last]
    IN /\ pc = "synced"
       /\ \E m \in {new, mixed} : meta' = [meta EXCEPT ![i] = m]
       /\ maymeta' = [maymeta EXCEPT ![i] = @ \cup {new, mixed}]
       /\ db' = Ended(db)
       /\ pc' = "fatal"
       /\ Spend("faults")
       /\ UNCHANGED <<may, mti, readers>>

-----------------------------------------------------------------------------
\* Readers and power failures.

BeginRead(r) ==
    /\ readers[r] = <<>> /\ pc # "fatal"
    /\ readers' = [readers EXCEPT ![r] = <<meta[mti % 2]>>]
    /\ Spend("reads")
    /\ UNCHANGED <<db, may, meta, maymeta, mti, pc>>

EndRead(r) ==
    /\ readers[r] # <<>>
    /\ readers' = [readers EXCEPT ![r] = <<>>]
    /\ UNCHANGED <<db, may, meta, maymeta, mti, pc, left>>

mdb_env_pick_meta(m) == IF m[0].id < m[1].id THEN m[1] ELSE m[0]

\* A page that may have several contents after a power failure is none that
\* recovery may rely on.
OnDisk(cs) == IF Cardinality(cs) = 1 THEN CHOOSE c \in cs : TRUE ELSE Blank

\* Power failure and mdb_env_open: each meta page is one of those that may
\* be on disk, and the newer counts.
PowerFailure ==
    /\ pc # "idle" \/ \E i \in 0..1 : Cardinality(maymeta[i]) > 1
    /\ \E m0 \in maymeta[0], m1 \in maymeta[1] :
          /\ meta' = [i \in 0..1 |-> IF i = 0 THEN m0 ELSE m1]
          /\ mti' = mdb_env_pick_meta(meta').id
    /\ maymeta' = [i \in 0..1 |-> {meta'[i]}]
    /\ db' = [Ended(db) EXCEPT !.file = [p \in Pgno |-> OnDisk(may[p])], !.oldest = 0]
    /\ may' = [p \in Pgno |-> {OnDisk(may[p])}]
    /\ pc' = "idle"
    /\ readers' = [r \in Reader |-> <<>>]
    /\ IF pc = "fatal" THEN UNCHANGED left ELSE Spend("faults")

Next ==
    \/ Begin \/ BeginNested \/ CommitNested \/ AbortNested
    \/ \E k \in Key, big \in BOOLEAN : OpPut(k, big)
    \/ \E k \in Key : OpDel(k)
    \/ Abort \/ CommitFailed \/ CommitEmpty \/ CommitFlush \/ mdb_env_sync0
    \/ mdb_env_write_meta \/ WriteMetaFails \/ PowerFailure
    \/ \E r \in Reader : BeginRead(r) \/ EndRead(r)

Spec == Init /\ [][Next]_vars

-----------------------------------------------------------------------------
\* The state components have their types.
TypeOK ==
    /\ db.id \in 0..(MaxTxn + 1) /\ mti \in 0..MaxTxn
    /\ pc \in {"idle", "run", "flushed", "synced", "fatal"}
    /\ \A i \in DOMAIN Chain(db) :
          LET t == Chain(db)[i]
          IN /\ DOMAIN t.dirty \cup t.spill \cup t.free \cup ToSet(t.loose) \subseteq Pgno
             /\ t.room \in 0..MDB_IDL_UM_MAX /\ t.next \in 2..MaxPg
             /\ t.flagged \subseteq DOMAIN t.dirty
    /\ db.pghead \subseteq Pgno
    /\ \A p \in Pgno : db.file[p] \in may[p]

\* The pages of the snapshot of meta page m: those of the main DB, the free
\* DB's, and those its records list.
MainPages(m) ==
    LET root == db.file[m.main]
        kids == {root.kids[k] : k \in Key} \ {P_INVALID}
    IN IF m.main = P_INVALID THEN {}
       ELSE {m.main} \cup kids
            \cup UNION {IF db.file[p].ov = P_INVALID THEN {}
                        ELSE {db.file[p].ov, db.file[p].ov + 1} : p \in kids}
FreeDbPages(m) == {m.fre} \ {P_INVALID}
Listed(m, i) == IF m.fre = P_INVALID THEN {} ELSE db.file[m.fre].recs[i] \ NoRec

\* "Each non-metapage up to mm_last_pg is reachable exactly once in the
\* snapshot: either used by a database or listed in a freeDB record"
\* (mdb.c:964): no commit, whatever was spilled, nested, freed or reused
\* before it, loses a page or lists one that is in use.
PageAccounting ==
    LET m == meta[mti % 2]
        parts == <<MainPages(m), FreeDbPages(m)>> \o [i \in Ids |-> Listed(m, i)]
        total == FoldSeq(LAMBDA P, n : Cardinality(P) + n, 0, parts)
    IN /\ UNION ToSet(parts) = 2..m.last
       /\ total = m.last - 1

\* mt_dirty_room is exact: it counts the pages dirty in the transaction or
\* in an ancestor once each, though pages move between dirty lists, spill
\* lists and the free lists (else the dirty list of MDB_IDL_UM_MAX entries
\* overflows, or a commit merges the wrong number of entries).
RoomExact ==
    \A i \in DOMAIN Chain(db) :
        LET dirty == UNION {DOMAIN Chain(db)[j].dirty : j \in i..Len(Chain(db))}
            own == Chain(db)[i]
            copies == UNION {DOMAIN Chain(db)[j].dirty : j \in (i+1)..Len(Chain(db))}
                         \cap own.spill
        IN own.room = MDB_IDL_UM_MAX - Cardinality(dirty \ copies)

\* The bookkeeping the code asserts or relies on: no page is freed or
\* reclaimed twice, mdb_freelist_save finds the records it has to delete,
\* and merging a nested transaction's dirty list ends where dirty_room says
\* (mdb_tassert(txn, i == x)); the lists stay within their bounds and mt_dirty_room
\* is exact.
AssertionsHold == TypeOK /\ db.err = "ok" /\ RoomExact

\* The maps that recovery may find: those of the newer of two meta pages
\* that may be on disk, read from pages whose contents on disk are certain.
Recoverable(cs, ms) ==
    LET get(p) == OnDisk(cs[p])
    IN {Content(get, mdb_env_pick_meta([i \in 0..1 |-> IF i = 0 THEN m0 ELSE m1]).main) :
           m0 \in ms[0], m1 \in ms[1]}

Work(s) ==
    [i \in DOMAIN Chain(s) |->
        IF Chain(s)[i].error THEN [k \in Key |-> -1] ELSE View(s, i)]

\* What the store's users see of the pages.
Seen(s, open, cs, m, ms, rs) ==
    LET get(p) == s.file[p]
    IN [current |-> Content(get, m.main),
        recoverable |-> Recoverable(cs, ms),
        work |-> IF open THEN Work(s) ELSE <<>>,
        view |-> [r \in Reader |-> IF rs[r] = <<>> THEN <<>>
                                   ELSE <<Content(get, rs[r][1].main)>>]]
=============================================================================
