------------------------------ MODULE LmdbTree ------------------------------
(***************************************************************************)
(* The B+tree of an LMDB database (vendors/ocaml-lmdb/src/mdb.c): cursors  *)
(* as stacks of pages and indexes, searching, touching, splitting, merging *)
(* and rebalancing pages, and keeping the other cursors of the transaction *)
(* where they were.  LmdbCursor adds the operations of the API.            *)
(*                                                                         *)
(* A page is named by its number; indexes count from 0 as in the code.     *)
(* Sizes are in units of a page of Pmax units.  The keys are numbers       *)
(* ordered as numbers; the key of the first node of a branch page is the   *)
(* empty key NoKey.  Databases with duplicates (MDB_DUPSORT), which        *)
(* src/lib_storage does not use, are left out.                             *)
(***************************************************************************)
EXTENDS Integers, Sequences, FiniteSets, FiniteSetsExt, SequencesExt

CONSTANTS
    KLen,           \* the sizes of the keys
    DLen,           \* the sizes of the values
    Pmax,           \* the room of an empty page
    CURSOR_STACK    \* the depth of a cursor's stack

Key == DOMAIN KLen
Val == DOMAIN DLen
NoKey == 0
P_INVALID == 0
FILL_THRESHOLD == 250

me_nodemax == Pmax \div 2
KeySize(k) == IF k = NoKey THEN 0 ELSE KLen[k]

\* A value too large for a node is on overflow pages.
IsBig(k, v) == KeySize(k) + DLen[v] > me_nodemax
mdb_leaf_size(k, v) == KeySize(k) + IF IsBig(k, v) THEN 1 ELSE DLen[v]
mdb_branch_size(k) == KeySize(k) + 1

-----------------------------------------------------------------------------
\* The state s of a database in a write transaction: its pages, its record
\* (root, depth, branch, leaf, over, entries), the page allocator (next,
\* free, loose, dirty), the cursors, and which of them are tracked.

\* n.p is the child of a branch node, or the overflow page of a leaf node.
NodeOf(k, v, p) == [k |-> k, v |-> v, p |-> p]

NumKeys(s, p) == Len(s.pg[p].nodes)
IsLeaf(s, p) == s.pg[p].kind = "leaf"
NodePtr(s, p, i) == s.pg[p].nodes[i + 1]

SizeOf(kind, n) == IF kind = "branch" THEN mdb_branch_size(n.k)
                   ELSE IF n.p # P_INVALID THEN KeySize(n.k) + 1
                   ELSE mdb_leaf_size(n.k, n.v)
Used(kind, nodes) ==
    LET upto[i \in 0..Len(nodes)] == IF i = 0 THEN 0 ELSE upto[i - 1] + SizeOf(kind, nodes[i])
    IN upto[Len(nodes)]
SizeLeft(s, p) == Pmax - Used(s.pg[p].kind, s.pg[p].nodes)
PageFill(s, p) == (1000 * (Pmax - SizeLeft(s, p))) \div Pmax

Top(s, c) == s.cur[c].top
PgAt(s, c, l) == s.cur[c].pg[l]
KiAt(s, c, l) == s.cur[c].ki[l]
Pg(s, c) == PgAt(s, c, Top(s, c))
Ki(s, c) == KiAt(s, c, Top(s, c))

Fail(s, rc) == [s EXCEPT !.err = rc]
Asserted(s, P) == IF P THEN s ELSE Fail(s, "assertion")
Then(s, Op(_)) == IF s.err = "ok" THEN Op(s) ELSE s

\* Only pages of this transaction are writable.
WriteNodes(s, p, nodes) ==
    IF p \in s.dirty THEN [s EXCEPT !.pg[p].nodes = nodes] ELSE Fail(s, "not writable")

Level == 0..(CURSOR_STACK - 1)

\* mdb_cursor_init.
mdb_cursor_init == [snum |-> 0, top |-> 0, pg |-> [l \in Level |-> P_INVALID],
                    ki |-> [l \in Level |-> 0], init |-> FALSE, eof |-> FALSE, del |-> FALSE]

\* mdb_cursor_copy: what is above the source's stack stays.
mdb_cursor_copy(src, dst) ==
    [src EXCEPT !.pg = [l \in Level |-> IF l < src.snum THEN src.pg[l] ELSE dst.pg[l]],
                !.ki = [l \in Level |-> IF l < src.snum THEN src.ki[l] ELSE dst.ki[l]]]

\* A temporary cursor of the code, a copy of cursor c.
Temporary(s) == Max({0} \cup {x \in DOMAIN s.cur : x \in Nat}) + 1
WithCursor(s, x, m) ==
    [s EXCEPT !.cur = [y \in DOMAIN s.cur \cup {x} |-> IF y = x THEN m ELSE s.cur[y]]]
Dropped(s, x) == [s EXCEPT !.cur = [y \in DOMAIN s.cur \ {x} |-> s.cur[y]], !.track = @ \ {x}]

Tracked(s, x) == [s EXCEPT !.track = @ \cup {x}]
Untracked(s, x) == [s EXCEPT !.track = @ \ {x}]

\* The loops over mt_cursors.
Adjust(s, skip, Upd(_)) ==
    [s EXCEPT !.cur = [x \in DOMAIN s.cur |->
                          IF x \in s.track \ skip THEN Upd(s.cur[x]) ELSE s.cur[x]]]

-----------------------------------------------------------------------------
\* Pages.

\* Loose pages first; reclaimed pages are LmdbPages' subject.
mdb_page_alloc(s) ==
    IF s.loose # <<>>
    THEN [s EXCEPT !.np = Head(s.loose), !.loose = Tail(@)]
    ELSE [s EXCEPT !.np = s.next, !.next = @ + 1, !.dirty = @ \cup {s.next}]

PutPage(s, p, kind, nodes) ==
    [s EXCEPT !.pg = [q \in DOMAIN s.pg \cup {p} |->
                         IF q = p THEN [kind |-> kind, nodes |-> nodes] ELSE s.pg[q]]]

PageNew(s, kind) ==
    [PutPage(s, s.np, kind, <<>>) EXCEPT
        !.branch = IF kind = "branch" THEN @ + 1 ELSE @,
        !.leaf = IF kind = "leaf" THEN @ + 1 ELSE @,
        !.over = IF kind = "overflow" THEN @ + 1 ELSE @]
mdb_page_new(s, kind) == PageNew(mdb_page_alloc(s), kind)

FreePages(s, P) == [s EXCEPT !.free = @ \cup P,
                             !.err = IF P \cap s.free # {} THEN "freed twice" ELSE @]

mdb_page_loose(s, p) ==
    IF p \in s.dirty THEN [s EXCEPT !.loose = <<p>> \o @] ELSE FreePages(s, {p})

\* The page on top of cursor c is copied to page s.np, and its parent and the
\* cursors that were on it follow.
CopyPage(s, c) ==
    LET m == s.cur[c]
        p == Pg(s, c)
        up == m.pg[m.top - 1]
        new == PutPage(s, s.np, s.pg[p].kind, s.pg[p].nodes)
        Upd(m3) == IF m3.snum >= m.snum /\ m3.pg[m.top] = p
                   THEN [m3 EXCEPT !.pg[m.top] = s.np] ELSE m3
        linked == IF m.top = 0 THEN [new EXCEPT !.root = s.np]
                  ELSE WriteNodes(new, up, [s.pg[up].nodes EXCEPT ![m.ki[m.top - 1] + 1].p = s.np])
    IN Adjust([linked EXCEPT !.cur[c].pg[m.top] = s.np], {c}, Upd)

\* The page on top of cursor c is made writable.
mdb_page_touch(s, c) ==
    IF Pg(s, c) \in s.dirty THEN s ELSE CopyPage(FreePages(mdb_page_alloc(s), {Pg(s, c)}), c)

\* mdb_cursor_touch: every page of the stack.
RECURSIVE TouchFrom(_, _, _)
TouchFrom(s, c, l) ==
    IF s.err # "ok" \/ l = s.cur[c].snum
    THEN [s EXCEPT !.cur[c].top = IF s.cur[c].snum = 0 THEN 0 ELSE s.cur[c].snum - 1]
    ELSE TouchFrom(mdb_page_touch([s EXCEPT !.cur[c].top = l], c), c, l + 1)
mdb_cursor_touch(s, c) == TouchFrom(s, c, 0)

\* Data too large for a node is put on an overflow page, unless it is there
\* already.
NeedsOverflow(kind, n) == kind = "leaf" /\ IsBig(n.k, n.v) /\ n.p = P_INVALID
AddNode(s, c, i, n) == WriteNodes(s, Pg(s, c), InsertAt(s.pg[Pg(s, c)].nodes, i + 1, n))
AddBig(s, c, i, n) == AddNode(s, c, i, [n EXCEPT !.p = s.np])

\* mdb_node_add at index i of the page on top.
mdb_node_add(s, c, i, n) ==
    LET kind == s.pg[Pg(s, c)].kind
    IN IF SizeOf(kind, n) > SizeLeft(s, Pg(s, c)) THEN Fail(s, "PAGE_FULL")
       ELSE IF NeedsOverflow(kind, n) THEN AddBig(mdb_page_new(s, "overflow"), c, i, n)
       ELSE AddNode(s, c, i, n)

mdb_node_del(s, c) ==
    Then(Asserted(s, Ki(s, c) < NumKeys(s, Pg(s, c))),
         LAMBDA x : WriteNodes(x, Pg(s, c), RemoveAt(s.pg[Pg(s, c)].nodes, Ki(s, c) + 1)))

-----------------------------------------------------------------------------
\* Cursors and searching.

mdb_cursor_pop(s, c) ==
    IF s.cur[c].snum = 0 THEN s
    ELSE IF s.cur[c].snum = 1 THEN [s EXCEPT !.cur[c].snum = 0, !.cur[c].init = FALSE]
    ELSE [s EXCEPT !.cur[c].snum = @ - 1, !.cur[c].top = @ - 1]

mdb_cursor_push(s, c, p) ==
    LET l == s.cur[c].snum
    IN IF l >= CURSOR_STACK THEN Fail(s, "CURSOR_FULL")
       ELSE [s EXCEPT !.cur[c].top = l, !.cur[c].snum = l + 1,
                      !.cur[c].pg[l] = p, !.cur[c].ki[l] = 0]

RECURSIVE Bisect(_, _, _, _, _, _)
Bisect(nodes, k, low, high, i, rc) ==
    LET mid == (low + high) \div 2
        key == nodes[mid + 1].k
    IN IF low > high THEN [i |-> i, rc |-> rc]
       ELSE IF k = key THEN [i |-> mid, rc |-> 0]
       ELSE IF k > key THEN Bisect(nodes, k, mid + 1, high, mid, 1)
       ELSE Bisect(nodes, k, low, mid - 1, mid, -1)

\* The index of the first node not below k in page p, and whether it is k.
mdb_node_search(s, p, k) ==
    LET r == Bisect(s.pg[p].nodes, k, IF IsLeaf(s, p) THEN 0 ELSE 1, NumKeys(s, p) - 1, 0, 0)
    IN [i |-> IF r.rc > 0 THEN r.i + 1 ELSE r.i, exact |-> r.rc = 0 /\ NumKeys(s, p) > 0]

\* mdb_page_search_root: down to the leaf for key k, or the first or last
\* one.  A cursor that is already on the last node keeps the page below.
RECURSIVE mdb_page_search_root(_, _, _, _)
mdb_page_search_root(s, c, k, how) ==
    LET p == Pg(s, c)
        l == Top(s, c)
        r == mdb_node_search(s, p, k)
        i == CASE how = "first" -> 0
               [] how = "last" -> NumKeys(s, p) - 1
               [] how = "key" -> IF r.i >= NumKeys(s, p) THEN NumKeys(s, p) - 1
                                 ELSE IF r.exact THEN r.i ELSE r.i - 1
        ready == how = "last" /\ s.cur[c].init /\ Ki(s, c) = i
        down == IF ready THEN [s EXCEPT !.cur[c].top = s.cur[c].snum, !.cur[c].snum = @ + 1]
                ELSE mdb_cursor_push([s EXCEPT !.cur[c].ki[l] = i], c, NodePtr(s, p, i).p)
    IN IF IsLeaf(s, p) THEN [s EXCEPT !.cur[c].init = TRUE, !.cur[c].eof = FALSE]
       ELSE Then(Asserted(s, NumKeys(s, p) > 1 /\ i >= 0),
                 LAMBDA x : Then(down, LAMBDA y : mdb_page_search_root(y, c, k, how)))

\* The lowest key under the branch page on top of cursor c, for callers
\* whose page is underfilled; c is left on that leaf.
mdb_page_search_lowest(s, c) ==
    mdb_page_search_root(mdb_cursor_push([s EXCEPT !.cur[c].ki[Top(s, c)] = 0], c,
                                         NodePtr(s, Pg(s, c), 0).p), c, NoKey, "first")

\* Errors of a search are answers (s.rc), not failures of the transaction.
mdb_page_search(s, c, k, how) ==
    IF s.root = P_INVALID THEN [s EXCEPT !.rc = "NOTFOUND"]
    ELSE mdb_page_search_root([s EXCEPT !.cur[c].pg[0] = s.root, !.cur[c].snum = 1,
                                        !.cur[c].top = 0, !.rc = "SUCCESS"], c, k, how)

\* The page on top is replaced by its sibling, if there is one: the parent's
\* index is stepped, or the parent is itself replaced by its sibling.
RECURSIVE mdb_cursor_sibling(_, _, _)
SiblingLast(s, c) == [s EXCEPT !.cur[c].ki[Top(s, c)] = NumKeys(s, Pg(s, c)) - 1]
SiblingPush(s, c, right) ==
    IF s.rc # "SUCCESS" THEN [s EXCEPT !.cur[c].top = @ + 1, !.cur[c].snum = @ + 1]
    ELSE IF right THEN mdb_cursor_push(s, c, NodePtr(s, Pg(s, c), Ki(s, c)).p)
    ELSE SiblingLast(mdb_cursor_push(s, c, NodePtr(s, Pg(s, c), Ki(s, c)).p), c)
SiblingStep(s, c, right) ==
    IF IF right THEN Ki(s, c) + 1 >= NumKeys(s, Pg(s, c)) ELSE Ki(s, c) = 0
    THEN mdb_cursor_sibling(s, c, right)
    ELSE [s EXCEPT !.rc = "SUCCESS", !.cur[c].ki[Top(s, c)] = IF right THEN @ + 1 ELSE @ - 1]
mdb_cursor_sibling(s, c, right) ==
    IF s.cur[c].snum < 2 THEN [s EXCEPT !.rc = "NOTFOUND"]
    ELSE SiblingPush(SiblingStep(mdb_cursor_pop(s, c), c, right), c, right)

-----------------------------------------------------------------------------
\* Splitting.

RECURSIVE mdb_page_split(_, _, _, _, _)

\* The key of the branch node under cursor c is replaced, by a split if the
\* page has no room for it.
mdb_update_key(s, c, k) ==
    LET p == Pg(s, c)
        n == NodePtr(s, p, Ki(s, c))
    IN IF KeySize(k) - KeySize(n.k) > SizeLeft(s, p)
       THEN Then(mdb_node_del(s, c),
                 LAMBDA x : mdb_page_split(x, c, [n EXCEPT !.k = k], FALSE, TRUE))
       ELSE WriteNodes(s, p, [s.pg[p].nodes EXCEPT ![Ki(s, c) + 1].k = k])

\* A root page that is split gets a parent, the new root s.np.
SplitRoot(s, c) ==
    LET m == s.cur[c]
    IN [WriteNodes(s, s.np, <<NodeOf(NoKey, 0, m.pg[0])>>) EXCEPT
           !.root = s.np, !.depth = @ + 1,
           !.cur[c].pg = [l \in Level |-> IF l = 0 THEN s.np
                                          ELSE IF l <= m.snum THEN m.pg[l - 1] ELSE m.pg[l]],
           !.cur[c].ki = [l \in Level |-> IF l = 0 THEN 0
                                          ELSE IF l <= m.snum THEN m.ki[l - 1] ELSE m.ki[l]],
           !.cur[c].snum = @ + 1, !.cur[c].top = @ + 1]

\* Where to split: at the middle, or, when the nodes are few or the new one is
\* large or the last, counting from the end the new node is nearest to, before
\* the first node that does not fit.
SplitPoint(kind, nodes, newindx, new) ==
    LET nkeys == Len(nodes)
        all == InsertAt(nodes, newindx + 1, new)
        half == (nkeys + 1) \div 2
        fromleft == newindx <= half \/ newindx >= nkeys
        limit == IF newindx >= nkeys THEN nkeys - 1
                 ELSE IF kind = "leaf" THEN half + 1 ELSE half
        leftfull == {i \in 0..limit : Used(kind, SubSeq(all, 1, i + 1)) > Pmax}
        rightfull == {i \in half..nkeys : Used(kind, SubSeq(all, i + 1, nkeys + 1)) > Pmax}
        seek == nkeys < 20 \/ Used(kind, <<new>>) > Pmax \div 16 \/ newindx >= nkeys
    IN IF ~seek THEN half
       ELSE IF fromleft THEN Min({limit} \cup leftfull)
       ELSE Max({half} \cup rightfull) + 1

\* After a split of the parent at level l, cursor c may be left behind on the
\* left one of the two parents; x is the code's cursor mn on the new page.
LeftOf(s, c) == IF s.rc = "SUCCESS" THEN s ELSE Fail(s, "PROBLEM")
FollowParent(s, c, x, l) ==
    LET mn == s.cur[x]
        follow == [s EXCEPT
            !.cur[c].pg = [i \in Level |-> IF i <= l THEN mn.pg[i] ELSE @[i]],
            !.cur[c].ki = [i \in Level |-> IF i < l THEN mn.ki[i]
                                           ELSE IF i = l THEN Max({mn.ki[l] - 1, 0}) ELSE @[i]]]
    IN IF mn.pg[l] = PgAt(s, c, l) \/ KiAt(s, c, l) < NumKeys(s, PgAt(s, c, l)) THEN s
       ELSE IF mn.ki[l] # 0 THEN follow
       ELSE LeftOf(mdb_cursor_sibling(follow, c, FALSE), c)

\* The right sibling rp is linked to the parent with key sep, by a split of
\* the parent if it is full.
AddSeparator(s, c, x, sep, rp) ==
    LET ptop == Top(s, c) - 1
        n == NodeOf(sep, 0, rp)
        lower == [s EXCEPT !.cur[x].snum = @ - 1, !.cur[x].top = @ - 1]
    IN IF SizeLeft(s, PgAt(s, x, ptop)) >= mdb_branch_size(sep)
       THEN [mdb_node_add(lower, x, KiAt(s, x, ptop), n) EXCEPT !.cur[x] = s.cur[x]]
       ELSE Then(Untracked(mdb_page_split(Tracked(lower, x), x, n, FALSE, FALSE), x),
                 LAMBDA y : FollowParent(y, c, x, Top(y, c) - 1))

\* The nodes from split_indx on, the new one included, go to page rp, and
\* cursor c to where the new node is.
PlaceCursor(s, c, x, mp, rp, at, newindx) ==
    LET l == Top(s, c)
        mn == s.cur[x]
        up == PgAt(s, c, l - 1)
        there == [s EXCEPT !.cur[c].pg[l] = rp, !.cur[c].ki[l] = newindx - at,
                           !.cur[c].ki[l - 1] = @ + 1]
    IN IF newindx < at THEN [s EXCEPT !.cur[c].pg[l] = mp, !.cur[c].ki[l] = newindx]
       ELSE IF mn.pg[l - 1] = up \/ KiAt(s, c, l - 1) + 1 < NumKeys(s, up) THEN there
       ELSE [there EXCEPT !.cur[c].pg = [i \in Level |-> IF i < l THEN mn.pg[i] ELSE @[i]],
                          !.cur[c].ki = [i \in Level |-> IF i < l THEN mn.ki[i] ELSE @[i]]]
Halves(s, mp, rp, left, right) ==
    IF Used(s.pg[mp].kind, left) > Pmax \/ Used(s.pg[mp].kind, right) > Pmax THEN Fail(s, "PAGE_FULL")
    ELSE WriteNodes(WriteNodes(s, mp, left), rp, right)
Bare(kind, nodes) == IF kind = "branch" THEN [nodes EXCEPT ![1].k = NoKey] ELSE nodes
SplitNodes(s, mp, rp, at, newindx, new) ==
    LET all == InsertAt(s.pg[mp].nodes, newindx + 1, new)
    IN Halves(s, mp, rp, Bare(s.pg[mp].kind, SubSeq(all, 1, at)),
              Bare(s.pg[mp].kind, SubSeq(all, at + 1, Len(all))))
SplitBig(s, mp, rp, at, newindx, new) == SplitNodes(s, mp, rp, at, newindx, [new EXCEPT !.p = s.np])
MoveNodes(s, c, x, mp, rp, at, newindx, new) ==
    Then(IF NeedsOverflow(s.pg[mp].kind, new)
         THEN SplitBig(mdb_page_new(s, "overflow"), mp, rp, at, newindx, new)
         ELSE SplitNodes(s, mp, rp, at, newindx, new),
         LAMBDA y : PlaceCursor(y, c, x, mp, rp, at, newindx))

\* With MDB_APPEND the new node is alone on page rp.
AppendNode(s, c, x, rp, new) ==
    LET l == Top(s, c)
        u == [s EXCEPT !.cur[c].pg[l] = rp,
                       !.cur[c].ki = [i \in Level |-> IF i < l THEN s.cur[x].ki[i]
                                                      ELSE IF i = l THEN 0
                                                      ELSE s.cur[c].ki[i]]]
    IN mdb_node_add(u, c, 0, new)

\* The other cursors on mp, and those on later children of its parent.
SplitAdjust(s, c, x, mp, rp, newindx, newroot, didsplit, replace) ==
    LET nkeys == NumKeys(s, mp)
        top == Top(s, c)
        mc == s.cur[c]
        mn == s.cur[x]
        raised(m) ==
            [m EXCEPT !.pg = [l \in Level |-> IF l = 0 THEN mc.pg[0]
                                              ELSE IF l <= newroot + 1 THEN m.pg[l - 1] ELSE m.pg[l]],
                      !.ki = [l \in Level |-> IF l = 0 THEN IF m.ki[0] >= nkeys THEN 1 ELSE 0
                                              ELSE IF l <= newroot + 1 THEN m.ki[l - 1] ELSE m.ki[l]],
                      !.snum = @ + 1, !.top = @ + 1]
        onpage(m) ==
            LET k == IF m.ki[top] >= newindx /\ ~replace THEN m.ki[top] + 1 ELSE m.ki[top]
            IN IF k < nkeys THEN [m EXCEPT !.ki[top] = k]
               ELSE [m EXCEPT
                       !.pg = [l \in Level |-> IF l < top THEN mn.pg[l]
                                               ELSE IF l = top THEN rp ELSE m.pg[l]],
                       !.ki = [l \in Level |-> IF l < top THEN mn.ki[l]
                                               ELSE IF l = top THEN k - nkeys ELSE m.ki[l]]]
        placed(m) ==
            IF m.top >= top /\ m.pg[top] = mp THEN onpage(m)
            ELSE IF /\ ~didsplit /\ m.top >= top - 1
                    /\ m.pg[top - 1] = mc.pg[top - 1] /\ m.ki[top - 1] >= mc.ki[top - 1]
                 THEN [m EXCEPT !.ki[top - 1] = @ + 1]
            ELSE m
        Upd(m) == IF ~m.init \/ (newroot > 0 /\ m.pg[0] # mp) THEN m
                  ELSE placed(IF newroot > 0 THEN raised(m) ELSE m)
    IN Adjust(s, {c}, Upd)

\* The new page rp is linked with key sep and the nodes are divided.
SplitPages(s, c, x, mp, rp, at, newindx, new, sep, append, newroot, replace) ==
    LET full == SizeLeft(s, PgAt(s, x, Top(s, c) - 1)) < mdb_branch_size(sep)
    IN Dropped(Then(Then(AddSeparator(s, c, x, sep, rp),
                         LAMBDA y : IF append THEN AppendNode(y, c, x, rp, new)
                                    ELSE MoveNodes(y, c, x, mp, rp, at, newindx, new)),
                    LAMBDA y : SplitAdjust(y, c, x, mp, rp, newindx, newroot, full, replace)), x)

\* mn is a cursor on the new page.
SplitWith(s, c, x, mp, rp, at, newindx, new, append, newroot, replace) ==
    LET l == Top(s, c)
        mn == [mdb_cursor_copy(s.cur[c], mdb_cursor_init) EXCEPT
                  !.pg[l] = rp, !.ki[l - 1] = @ + 1, !.ki[l] = IF append THEN 0 ELSE @]
        sep == IF append THEN new.k ELSE InsertAt(s.pg[mp].nodes, newindx + 1, new)[at + 1].k
    IN SplitPages(WithCursor(s, x, mn), c, x, mp, rp, at, newindx, new, sep, append, newroot, replace)

\* The new page is s.np.
SplitTo(s, c, mp, newindx, new, append, replace) ==
    SplitWith(IF Top(s, c) = 0 THEN SplitRoot(mdb_page_new(s, "branch"), c) ELSE s, c, Temporary(s),
              mp, s.np, SplitPoint(s.pg[mp].kind, s.pg[mp].nodes, newindx, new), newindx, new,
              append, IF Top(s, c) = 0 THEN s.depth ELSE 0, replace)

\* mdb_page_split: the page on top of cursor c is split and node new added.
mdb_page_split(s, c, new, append, replace) ==
    SplitTo(mdb_page_new(s, s.pg[Pg(s, c)].kind), c, Pg(s, c), Ki(s, c), new, append, replace)

-----------------------------------------------------------------------------
\* Moving and merging nodes.

RECURSIVE mdb_rebalance(_, _)

\* The lowest key below the page on top of cursor c.
FirstKey(s, c) == NodePtr(s, Pg(s, c), 0).k
LowestKey(s, c) == FirstKey(mdb_page_search_lowest(s, c), c)

\* The separator of cursor c's page in its parent becomes the page's first
\* key, and the first key of a branch page the empty key; mn is tracked.
ParentKey(s, c, x) ==
    LET mn == [mdb_cursor_copy(s.cur[c], mdb_cursor_init) EXCEPT !.snum = @ - 1, !.top = @ - 1]
    IN Dropped(mdb_update_key(Tracked(WithCursor(s, x, mn), x), x, FirstKey(s, c)), x)

\* Faulty variant of UpdateSeparator: the parent keeps the old key.
UpdateSeparatorNot(s, c) ==
    IF Ki(s, c) # 0 \/ IsLeaf(s, Pg(s, c)) THEN s ELSE mdb_update_key(s, c, NoKey)

UpdateSeparator(s, c) ==
    IF Ki(s, c) # 0 THEN s
    ELSE Then(IF KiAt(s, c, Top(s, c) - 1) = 0 THEN s ELSE ParentKey(s, c, Temporary(s)),
              LAMBDA y : IF IsLeaf(y, Pg(y, c)) THEN y ELSE mdb_update_key(y, c, NoKey))

\* Faulty variant of MoveAdjust: cursors on the moved node stay behind.
MoveAdjustBehind(s, a, b, fromleft) ==
    LET t == Top(s, a)
        Upd(m) == IF ~m.init \/ m.top < t THEN m
                  ELSE IF fromleft /\ m.pg[t] = Pg(s, b) /\ m.ki[t] >= Ki(s, b) THEN [m EXCEPT !.ki[t] = @ + 1]
                  ELSE IF ~fromleft /\ m.pg[t] = Pg(s, a) /\ m.ki[t] > 0 THEN [m EXCEPT !.ki[t] = @ - 1]
                  ELSE m
    IN Adjust(s, {a, b}, Upd)

\* The other cursors when the node under cursor a was moved to where b is.
MoveAdjust(s, a, b, fromleft) ==
    LET t == Top(s, a)
        mps == Pg(s, a)
        mpd == Pg(s, b)
        Moved(m, d) == [m EXCEPT !.pg[t] = mpd, !.ki[t] = Ki(s, b), !.ki[t - 1] = @ + d]
        Right(m) == IF m.pg[t] = mpd /\ m.ki[t] >= Ki(s, b) THEN [m EXCEPT !.ki[t] = @ + 1]
                    ELSE IF m.pg[t] = mps /\ m.ki[t] = Ki(s, a) THEN Moved(m, 1)
                    ELSE m
        Left(m) == IF m.pg[t] # mps THEN m
                   ELSE IF m.ki[t] = 0 THEN Moved(m, -1) ELSE [m EXCEPT !.ki[t] = @ - 1]
        Upd(m) == IF ~m.init \/ m.top < t THEN m ELSE IF fromleft THEN Right(m) ELSE Left(m)
    IN Adjust(s, {a, b}, Upd)

\* A branch page that gets a new first node needs the key of the old one.
GiveFirstKey(s, c, x) ==
    IF IsLeaf(s, Pg(s, c)) \/ Ki(s, c) # 0 THEN s
    ELSE Dropped(mdb_update_key(WithCursor(s, x, s.cur[c]), x, LowestKey(s, c)), x)

\* The node under cursor a, with its full key, is moved to where cursor b is.
FullNode(s, c) ==
    IF IsLeaf(s, Pg(s, c)) \/ Ki(s, c) # 0 THEN NodePtr(s, Pg(s, c), Ki(s, c))
    ELSE [NodePtr(s, Pg(s, c), 0) EXCEPT !.k = LowestKey(s, c)]
mdb_node_move(s, a, b, fromleft) ==
    Then(Then(Then(Then(Then(Then(
        mdb_page_touch(s, a),
        LAMBDA y : mdb_page_touch(y, b)),
        LAMBDA y : GiveFirstKey(y, b, Temporary(y))),
        LAMBDA y : mdb_node_add(y, b, Ki(y, b), FullNode(y, a))),
        LAMBDA y : MoveAdjust(mdb_node_del(y, a), a, b, fromleft)),
        LAMBDA y : UpdateSeparator(y, a)),
        LAMBDA y : UpdateSeparator(y, b))

\* Faulty variant of AppendAll: the first node is taken for the empty key of a
\* branch page.
AppendAllButFirst(s, a, b) ==
    WriteNodes(s, Pg(s, b), s.pg[Pg(s, b)].nodes \o Tail(s.pg[Pg(s, a)].nodes))

\* The nodes of cursor a's page are appended to cursor b's page.
AppendAll(s, a, b) ==
    LET kind == s.pg[Pg(s, a)].kind
        Merged(src) == IF Used(kind, s.pg[Pg(s, b)].nodes \o src) > Pmax THEN Fail(s, "PAGE_FULL")
                       ELSE WriteNodes(s, Pg(s, b), s.pg[Pg(s, b)].nodes \o src)
        src == s.pg[Pg(s, a)].nodes
    IN Merged(IF kind = "leaf" THEN src ELSE [src EXCEPT ![1].k = LowestKey(s, a)])

\* Cursor a's page, now empty, is unlinked from its parent and released.
Unlink(s, a) ==
    LET t == Top(s, a)
        released(y) == [mdb_page_loose(y, Pg(y, a)) EXCEPT
                           !.leaf = IF IsLeaf(y, Pg(y, a)) THEN @ - 1 ELSE @,
                           !.branch = IF IsLeaf(y, Pg(y, a)) THEN @ ELSE @ - 1]
    IN Then(Then(mdb_node_del([s EXCEPT !.cur[a].top = t - 1], a),
                 LAMBDA y : IF Ki(y, a) = 0 THEN mdb_update_key(y, a, NoKey) ELSE y),
            LAMBDA y : released([y EXCEPT !.cur[a].top = t]))

\* The other cursors when the nodes of a's page follow the nkeys of b's.
MergeAdjust(s, a, b, nkeys) ==
    LET t == Top(s, a)
        Upd(m) == IF m.snum < s.cur[a].snum THEN m
                  ELSE IF m.pg[t] = Pg(s, a)
                  THEN [m EXCEPT !.pg[t] = Pg(s, b), !.ki[t] = @ + nkeys, !.ki[t - 1] = KiAt(s, b, t - 1)]
                  ELSE IF m.pg[t - 1] = PgAt(s, a, t - 1) /\ m.ki[t - 1] > KiAt(s, a, t - 1)
                  THEN [m EXCEPT !.ki[t - 1] = @ - 1]
                  ELSE m
    IN Adjust(s, {a}, Upd)

\* Rebalancing the parent may have changed the depth.
Deeper(s, c, snum) == [s EXCEPT !.cur[c].snum = snum, !.cur[c].top = snum - 1]
RebalanceParent(s, c) ==
    LET Back(y) == Deeper(y, c, s.cur[c].snum + y.depth - s.depth)
    IN Back(mdb_rebalance(mdb_cursor_pop(s, c), c))

\* Cursor a's page is merged into cursor b's.
MergeTouched(s, a, b) ==
    Then(Then(Then(AppendAll(s, a, b),
                   LAMBDA y : Unlink(y, a)),
              LAMBDA y : MergeAdjust(y, a, b, NumKeys(s, Pg(s, b)))),
         LAMBDA y : RebalanceParent(y, b))
mdb_page_merge(s, a, b) == MergeTouched(mdb_page_touch(s, b), a, b)

-----------------------------------------------------------------------------
\* Rebalancing.

\* The last page of the tree is empty.
EmptyTree(s, c) ==
    LET mp == PgAt(s, c, 0)
        gone(m) == [m EXCEPT !.snum = 0, !.top = 0, !.init = FALSE]
        Upd(m) == IF m.init /\ m.pg[0] = mp THEN gone(m) ELSE m
        u == FreePages([s EXCEPT !.root = P_INVALID, !.depth = 0, !.leaf = 0], {mp})
    IN Adjust([u EXCEPT !.cur[c] = gone(@)], {c}, Upd)

\* The root has one child, which becomes the root.
CollapseRoot(s, c) ==
    LET mp == PgAt(s, c, 0)
        child == NodePtr(s, mp, 0).p
        d == s.depth - 1
        lower(m) == [m EXCEPT !.pg = [l \in Level |-> IF l < d THEN m.pg[l + 1] ELSE m.pg[l]],
                              !.ki = [l \in Level |-> IF l < d THEN m.ki[l + 1] ELSE m.ki[l]]]
        Upd(m) == IF m.init /\ m.pg[0] = mp
                  THEN [lower(m) EXCEPT !.snum = @ - 1, !.top = @ - 1] ELSE m
        u == FreePages([s EXCEPT !.root = child, !.depth = d, !.branch = @ - 1], {mp})
    IN Adjust([u EXCEPT !.cur[c] = [lower(@) EXCEPT !.pg[0] = child]], {c}, Upd)

\* Cursor c is put back on the node it was on.
Back(s, c, x, oldki) == Dropped([s EXCEPT !.cur[c].ki[Top(s, c)] = oldki], x)
NotAtEnd(s, c) == [s EXCEPT !.cur[c].eof = FALSE]
CopyOf(s, c, x) == [s EXCEPT !.cur[c] = mdb_cursor_copy(s.cur[x], @)]

\* A page that is too empty takes a node from its left neighbour q, or the
\* right one if it is the first, or is merged with it; x is on q.
MoveOrMerge(s, c, x, q, left, move, oldki) ==
    IF move THEN Back(mdb_node_move(s, x, c, left), c, x, IF left THEN oldki + 1 ELSE oldki)
    ELSE IF ~left THEN Back(NotAtEnd(mdb_page_merge(s, x, c), c), c, x, oldki)
    ELSE Back(NotAtEnd(CopyOf(Untracked(
                 mdb_page_merge(Tracked([s EXCEPT !.cur[x].ki[Top(s, c)] = @ + 1], x), c, x), x), c, x), c),
              c, x, oldki + NumKeys(s, q))
Neighbour(s, c, minkeys, thresh) ==
    LET t == Top(s, c)
        x == Temporary(s)
        left == KiAt(s, c, t - 1) # 0
        step == IF left THEN -1 ELSE 1
        q == NodePtr(s, PgAt(s, c, t - 1), KiAt(s, c, t - 1) + step).p
        mn == [mdb_cursor_copy(s.cur[c], mdb_cursor_init) EXCEPT
                  !.ki[t - 1] = @ + step, !.pg[t] = q,
                  !.ki[t] = IF left THEN NumKeys(s, q) - 1 ELSE 0]
    IN MoveOrMerge([WithCursor(s, x, mn) EXCEPT !.cur[c].ki[t] = IF left THEN 0 ELSE NumKeys(s, Pg(s, c))],
              c, x, q, left, PageFill(s, q) >= thresh /\ NumKeys(s, q) > minkeys, Ki(s, c))

mdb_rebalance(s, c) ==
    LET p == Pg(s, c)
        minkeys == IF IsLeaf(s, p) THEN 1 ELSE 2
        thresh == IF IsLeaf(s, p) THEN FILL_THRESHOLD ELSE 1
    IN IF PageFill(s, p) >= thresh /\ NumKeys(s, p) >= minkeys THEN s
       ELSE IF s.cur[c].snum < 2
       THEN IF NumKeys(s, p) = 0 THEN EmptyTree(s, c)
            ELSE IF ~IsLeaf(s, p) /\ NumKeys(s, p) = 1 THEN CollapseRoot(s, c)
            ELSE s
       ELSE Then(Asserted(s, NumKeys(s, PgAt(s, c, Top(s, c) - 1)) > 1),
                 LAMBDA y : Neighbour(y, c, minkeys, thresh))

-----------------------------------------------------------------------------
\* Deleting.

\* The other cursors when the node under cursor c is deleted.
DelAdjust(s, c) ==
    LET t == Top(s, c)
        Upd(m) == IF ~m.init \/ m.snum < s.cur[c].snum \/ m.pg[t] # Pg(s, c) THEN m
                  ELSE IF m.ki[t] = Ki(s, c) THEN [m EXCEPT !.del = TRUE]
                  ELSE IF m.ki[t] > Ki(s, c) THEN [m EXCEPT !.ki[t] = @ - 1]
                  ELSE m
    IN Adjust(s, {c}, Upd)

\* A cursor past the last node of the page goes to the next page.
PastPage(s, c) ==
    LET t == Top(s, c)
    IN {x \in s.track : LET m == s.cur[x]
                        IN m.init /\ m.snum >= s.cur[c].snum /\ m.pg[t] = Pg(s, c)
                           /\ m.ki[t] >= Ki(s, c) /\ m.ki[t] >= NumKeys(s, Pg(s, c))}
AtEnd(s, x) == IF s.rc = "NOTFOUND" THEN [s EXCEPT !.cur[x].eof = TRUE] ELSE s
StepPast(s, c) ==
    IF s.cur[c].snum = 0 THEN s
    ELSE [FoldSet(LAMBDA x, y : AtEnd(mdb_cursor_sibling(y, x, TRUE), x), s, PastPage(s, c)) EXCEPT
             !.cur[c].del = TRUE]

\* The node under cursor c is deleted; a cursor that was on it is on what
\* followed it, or past the end.
mdb_cursor_del0(s, c) ==
    Then(Then(DelAdjust([mdb_node_del(s, c) EXCEPT !.entries = @ - 1], c),
              LAMBDA y : mdb_rebalance(y, c)),
         LAMBDA y : StepPast(y, c))

\* mdb_drop0: level by level, from the lowest one that has to be read, the
\* pages below are freed; the leaves only while overflow pages are left.
RECURSIVE DropLevels(_, _, _)
FreeBelow(s, p) ==
    LET nodes == s.pg[p].nodes
        linked == {nodes[i].p : i \in 1..Len(nodes)} \ {P_INVALID}
    IN FreePages([s EXCEPT !.over = IF IsLeaf(s, p) THEN @ - Cardinality(linked) ELSE @], linked)
LevelUp(s, c, mx) ==
    [s EXCEPT !.cur[c].ki = [l \in Level |-> IF l < s.cur[c].snum \/ l = 0 THEN 0 ELSE @[l]],
              !.cur[c].pg = [l \in Level |-> IF 0 < l /\ l < s.cur[c].snum THEN mx.pg[l] ELSE @[l]]]
DropStep(s, c, mx) ==
    IF IsLeaf(s, Pg(s, c)) /\ s.over = 0 THEN DropLevels(LevelUp(mdb_cursor_pop(s, c), c, mx), c, mx)
    ELSE IF Top(s, c) = 0 THEN s
    ELSE LET Sibling(v) == IF v.rc = "SUCCESS" THEN v ELSE LevelUp(mdb_cursor_pop(v, c), c, mx)
         IN DropLevels(Sibling(mdb_cursor_sibling(
                          [s EXCEPT !.cur[c].ki[Top(s, c)] = NumKeys(s, Pg(s, c))], c, TRUE)), c, mx)
DropLevels(s, c, mx) ==
    IF s.cur[c].snum = 0 THEN s ELSE DropStep(FreeBelow(s, Pg(s, c)), c, mx)

DropFound(s, c) ==
    LET Tree(v) == FreePages(DropLevels(v, c, v.cur[c]), {s.root})
    IN IF s.rc # "SUCCESS" THEN s
       ELSE Tree(IF s.over = 0 THEN mdb_cursor_pop(s, c) ELSE s)
mdb_drop0(s, c) == DropFound(mdb_page_search(s, c, NoKey, "first"), c)
=============================================================================
