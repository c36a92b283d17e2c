----------------------------- MODULE LmdbCursor -----------------------------
(***************************************************************************)
(* The operations on a database of an LMDB write transaction               *)
(* (vendors/ocaml-lmdb/src/mdb.c): gets, puts and deletes, directly and    *)
(* through cursors that other operations must keep in place.  The trees    *)
(* are those of LmdbTree.  Beside the tree the model has what it should    *)
(* hold, and for every cursor the item it should be on.                    *)
(***************************************************************************)
EXTENDS LmdbTree

CONSTANTS
    Cursors,        \* the cursors the application opened
    Trees,          \* the initial databases: sequences of items put
    GetKeys,        \* the keys that cursors are set to
    DelKeys,        \* the keys that are deleted
    PutItems,       \* the items that are put
    MaxMods,        \* bound on the puts and deletes
    MaxGets         \* bound on the gets

VARIABLES
    s,              \* the database: see LmdbTree
    ref,            \* what it should hold: a function of some keys
    on,             \* where each cursor should be
    ans,            \* the last answer, and the right ones
    mods, gets      \* operations so far

vars == <<s, ref, on, ans, mods, gets>>

-----------------------------------------------------------------------------
\* Moving a cursor.  s.rc is the answer; "off page" is a read past the last
\* node of a page.

Answer(t, rc) == [t EXCEPT !.rc = rc]

\* The node under the cursor is read (mdb_node_read, MDB_GET_KEY).
ReadNode(t, c) ==
    IF Ki(t, c) < NumKeys(t, Pg(t, c)) THEN Answer(t, "SUCCESS") ELSE Fail(t, "off page")

\* The cursor is on the first or last page of the tree already if that is
\* the only one.
EndPage(t, c, how) ==
    IF ~t.cur[c].init \/ Top(t, c) > 0 THEN mdb_page_search(t, c, NoKey, how) ELSE Answer(t, "SUCCESS")

OnFirst(t, c) ==
    IF t.rc # "SUCCESS" THEN t
    ELSE ReadNode([t EXCEPT !.cur[c].init = TRUE, !.cur[c].eof = FALSE, !.cur[c].ki[Top(t, c)] = 0], c)
mdb_cursor_first(t, c) == OnFirst(EndPage(t, c, "first"), c)

OnLast(t, c) ==
    IF t.rc # "SUCCESS" THEN t
    ELSE ReadNode([t EXCEPT !.cur[c].init = TRUE, !.cur[c].eof = TRUE,
                            !.cur[c].ki[Top(t, c)] = NumKeys(t, Pg(t, c)) - 1], c)
mdb_cursor_last(t, c) == OnLast(EndPage(t, c, "last"), c)

\* C_DEL: the cursor is on the next item already.
NextPage(t, c) == IF t.rc = "SUCCESS" THEN ReadNode(t, c) ELSE [t EXCEPT !.cur[c].eof = TRUE]

\* Faulty variant of StepNext: C_DEL is ignored.
StepNextAnyway(t, c) ==
    IF Ki(t, c) + 1 < NumKeys(t, Pg(t, c))
    THEN ReadNode([t EXCEPT !.cur[c].ki[Top(t, c)] = @ + 1], c)
    ELSE NextPage(mdb_cursor_sibling(t, c, TRUE), c)

StepNext(t, c) ==
    IF t.cur[c].del THEN ReadNode([t EXCEPT !.cur[c].del = FALSE], c)
    ELSE IF Ki(t, c) + 1 < NumKeys(t, Pg(t, c))
    THEN ReadNode([t EXCEPT !.cur[c].ki[Top(t, c)] = @ + 1], c)
    ELSE NextPage(mdb_cursor_sibling(t, c, TRUE), c)
mdb_cursor_next(t, c) ==
    IF ~t.cur[c].init THEN mdb_cursor_first(t, c)
    ELSE IF t.cur[c].eof /\ Ki(t, c) >= NumKeys(t, Pg(t, c)) - 1 THEN Answer(t, "NOTFOUND")
    ELSE StepNext([t EXCEPT !.cur[c].eof = FALSE], c)

PrevPage(t, c) ==
    IF t.rc # "SUCCESS" THEN t
    ELSE ReadNode([t EXCEPT !.cur[c].ki[Top(t, c)] = NumKeys(t, Pg(t, c)) - 1], c)
StepPrev(t, c) ==
    IF Ki(t, c) # 0 THEN ReadNode([t EXCEPT !.cur[c].ki[Top(t, c)] = @ - 1], c)
    ELSE PrevPage(mdb_cursor_sibling(t, c, FALSE), c)
PrevFrom(t, c) ==
    IF t.rc # "SUCCESS" THEN t ELSE StepPrev([t EXCEPT !.cur[c].eof = FALSE, !.cur[c].del = FALSE], c)
PastLast(t, c) == IF t.rc # "SUCCESS" THEN t ELSE [t EXCEPT !.cur[c].ki[Top(t, c)] = @ + 1]
mdb_cursor_prev(t, c) ==
    PrevFrom(IF t.cur[c].init THEN Answer(t, "SUCCESS") ELSE PastLast(mdb_cursor_last(t, c), c), c)

\* mdb_cursor_set when the cursor is on a page already: decided there
\* ("found", "missing"), to be searched in the page, or in the tree.
OnPage(t, c, k) ==
    LET p == Pg(t, c)
        n == NumKeys(t, p)
        first == NodePtr(t, p, 0).k
        last == NodePtr(t, p, n - 1).k
        rightmost == \A l \in 0..(Top(t, c) - 1) : KiAt(t, c, l) >= NumKeys(t, PgAt(t, c, l)) - 1
    IN CASE ~t.cur[c].init                  -> [do |-> "tree", ki |-> 0]
         [] t.cur[c].init /\ n = 0          -> [do |-> "missing", ki |-> 0]
         [] t.cur[c].init /\ n > 0 ->
            IF k = first THEN [do |-> "found", ki |-> 0]
            ELSE IF k > first /\ n > 1 /\ k = last THEN [do |-> "found", ki |-> n - 1]
            ELSE IF k > first /\ n > 1 /\ k < last
            THEN IF Ki(t, c) < n /\ NodePtr(t, p, Ki(t, c)).k = k
                 THEN [do |-> "found", ki |-> Ki(t, c)] ELSE [do |-> "page", ki |-> Ki(t, c)]
            ELSE IF k > first /\ rightmost THEN [do |-> "missing", ki |-> n]
            ELSE IF Top(t, c) = 0 THEN [do |-> "lower", ki |-> 0]
            ELSE [do |-> "tree", ki |-> Ki(t, c)]

\* mdb_node_search in the cursor's page, which sets its index, and for
\* MDB_SET_RANGE the next page if all keys are lower.
SetHere(t, c) == ReadNode([t EXCEPT !.cur[c].init = TRUE, !.cur[c].eof = FALSE], c)
SetNext(t, c) == IF t.rc = "SUCCESS" THEN SetHere(t, c) ELSE [t EXCEPT !.cur[c].eof = TRUE]
SetFound(t, c, range, exact) ==
    IF ~range /\ ~exact THEN Answer(t, "NOTFOUND")
    ELSE IF Ki(t, c) < NumKeys(t, Pg(t, c)) THEN SetHere(t, c)
    ELSE SetNext(mdb_cursor_sibling(t, c, TRUE), c)
SetInPage(t, c, k, range) ==
    LET r == mdb_node_search(t, Pg(t, c), k)
    IN IF t.rc # "SUCCESS" THEN t
       ELSE SetFound([t EXCEPT !.cur[c].ki[Top(t, c)] = r.i], c, range, r.exact)

\* MDB_SET, or MDB_SET_RANGE if range; o is OnPage's decision.
SetBy(t, c, k, range, o) ==
    LET at == IF t.cur[c].init THEN [t EXCEPT !.cur[c].ki[Top(t, c)] = o.ki] ELSE t
        found == ReadNode([at EXCEPT !.cur[c].eof = FALSE], c)
    IN CASE o.do = "found"   -> found
         [] o.do = "missing" -> Answer(at, "NOTFOUND")
         [] o.do = "lower"   -> IF range THEN found ELSE Answer(at, "NOTFOUND")
         [] o.do = "page"    -> SetInPage(Answer([t EXCEPT !.cur[c].eof = FALSE], "SUCCESS"), c, k, range)
         [] o.do = "tree"    -> SetInPage(mdb_page_search(t, c, k, "key"), c, k, range)
mdb_cursor_set(t, c, k, range) == SetBy(t, c, k, range, OnPage(t, c, k))

GetCurrent(t, c) ==
    LET n == NumKeys(t, Pg(t, c))
    IN IF ~t.cur[c].init THEN Answer(t, "EINVAL")
       ELSE IF Ki(t, c) >= n
       THEN Answer([t EXCEPT !.cur[c].ki[Top(t, c)] = n], "NOTFOUND")
       ELSE Answer(t, "SUCCESS")

Undeleted(t, c) == [t EXCEPT !.cur[c].del = FALSE]
mdb_cursor_get(t, c, op, k) ==
    Undeleted(CASE op = "current" -> GetCurrent(t, c)
                [] op \in {"set", "range"} -> mdb_cursor_set(t, c, k, op = "range")
                [] op = "next"    -> mdb_cursor_next(t, c)
                [] op = "prev"    -> mdb_cursor_prev(t, c)
                [] op = "first"   -> mdb_cursor_first(t, c)
                [] op = "last"    -> mdb_cursor_last(t, c), c)

-----------------------------------------------------------------------------
\* Putting and deleting.

\* Where the new item goes, and in s.rc whether it is there already.
AfterLast(t, c, k) ==
    IF k > NodePtr(t, Pg(t, c), Ki(t, c)).k
    THEN Answer([t EXCEPT !.cur[c].ki[Top(t, c)] = @ + 1], "NOTFOUND")
    ELSE Answer(t, "KEYEXIST")
PutPosition(t, c, k, flag) ==
    IF flag = "current" THEN Answer(t, IF t.cur[c].init THEN "SUCCESS" ELSE "EINVAL")
    ELSE IF t.root = P_INVALID
    THEN Answer([t EXCEPT !.cur[c].snum = 0, !.cur[c].top = 0, !.cur[c].init = FALSE], "NO_ROOT")
    ELSE IF flag = "append" THEN AfterLast(mdb_cursor_last(t, c), c, k)
    ELSE mdb_cursor_set(t, c, k, FALSE)

\* A new root leaf, or the cursor's pages made writable.
RootLeaf(t, c) ==
    [mdb_cursor_push(t, c, t.np) EXCEPT !.root = t.np, !.depth = @ + 1, !.cur[c].init = TRUE]
PutPages(t, c) ==
    IF t.rc = "NO_ROOT" THEN RootLeaf(mdb_page_new(t, "leaf"), c) ELSE mdb_cursor_touch(t, c)

\* No reclaimed pages are at hand to add the page to.
mdb_ovpage_free(t, p) == FreePages([t EXCEPT !.over = @ - 1], {p})

\* The value of the node under the cursor is replaced in place if it can be;
\* otherwise the node is removed ("removed"), to be added again.
Overwrite(t, c, v) ==
    LET p == Pg(t, c)
        n == NodePtr(t, p, Ki(t, c))
        inplace == WriteNodes(t, p, [t.pg[p].nodes EXCEPT ![Ki(t, c) + 1].v = v])
        freed == IF n.p = P_INVALID THEN t ELSE mdb_ovpage_free(t, n.p)
    IN IF n.p \in t.dirty \/ (n.p = P_INVALID /\ DLen[n.v] = DLen[v])
       THEN Answer(inplace, "SUCCESS")
       ELSE Answer(mdb_node_del(freed, c), "removed")

\* The node is added where the cursor is, by a split if it does not fit, and
\* the other cursors on the page follow.
InsertNode(t, c, k, v, append, insert) ==
    LET n == NodeOf(k, v, P_INVALID)
        p == Pg(t, c)
        i == Top(t, c)
        Upd(m) == IF m.snum >= t.cur[c].snum /\ m.pg[i] = p /\ m.ki[i] >= Ki(t, c) /\ insert
                  THEN [m EXCEPT !.ki[i] = @ + 1] ELSE m
    IN IF SizeLeft(t, p) < mdb_leaf_size(k, v) THEN mdb_page_split(t, c, n, append, ~insert)
       ELSE Adjust(mdb_node_add(t, c, Ki(t, c), n), {c}, Upd)

Counted(t, c, insert) == [t EXCEPT !.rc = "SUCCESS",
                                   !.entries = IF insert THEN @ + 1 ELSE @,
                                   !.cur[c].init = IF insert THEN TRUE ELSE @]
PutNode(t, c, k, v, flag, insert) ==
    IF ~insert /\ t.rc = "SUCCESS" THEN t
    ELSE Then(t, LAMBDA y : Counted(InsertNode(y, c, k, v, flag = "append", insert), c, insert))
PutAt(t, c, k, v, flag) ==
    IF t.err # "ok" \/ t.rc \in {"EINVAL", "KEYEXIST"} THEN t
    ELSE IF flag = "nooverwrite" /\ t.rc = "SUCCESS" THEN Answer(t, "KEYEXIST")
    ELSE IF t.rc # "SUCCESS"
    THEN Then(PutPages(Undeleted(t, c), c), LAMBDA y : PutNode(y, c, k, v, flag, TRUE))
    ELSE Then(Then(PutPages(Undeleted(t, c), c), LAMBDA y : Overwrite(y, c, v)),
              LAMBDA y : PutNode(y, c, k, v, flag, FALSE))
mdb_cursor_put(t, c, k, v, flag) == PutAt(PutPosition(t, c, k, flag), c, k, v, flag)

DelData(t, c) ==
    LET n == NodePtr(t, Pg(t, c), Ki(t, c)) IN IF n.p = P_INVALID THEN t ELSE mdb_ovpage_free(t, n.p)
mdb_cursor_del(t, c) ==
    IF ~t.cur[c].init THEN Answer(t, "EINVAL")
    ELSE IF Ki(t, c) >= NumKeys(t, Pg(t, c)) THEN Answer(t, "NOTFOUND")
    ELSE Answer(Then(mdb_cursor_touch(t, c), LAMBDA y : mdb_cursor_del0(DelData(y, c), c)), "SUCCESS")

\* The operations on the database have a cursor of their own, x.
mdb_put(t, k, v, flag) ==
    LET x == Temporary(t)
    IN Dropped(mdb_cursor_put(Tracked(WithCursor(t, x, mdb_cursor_init), x), x, k, v, flag), x)

DelFound(t, x) == IF t.rc # "SUCCESS" THEN t ELSE mdb_cursor_del(Tracked(t, x), x)
mdb_del(t, k) ==
    LET x == Temporary(t)
    IN Dropped(DelFound(mdb_cursor_set(WithCursor(t, x, mdb_cursor_init), x, k, FALSE), x), x)

\* What a cursor's last get returned.
Got(t, c) ==
    LET n == NodePtr(t, Pg(t, c), Ki(t, c))
    IN IF t.err # "ok" THEN <<t.err>> ELSE IF t.rc # "SUCCESS" THEN <<t.rc>> ELSE <<n.k, n.v>>

mdb_get(t, k) ==
    LET x == Temporary(t) IN Got(mdb_cursor_set(WithCursor(t, x, mdb_cursor_init), x, k, FALSE), x)

\* mdb_drop without del.
mdb_drop(t) ==
    LET x == Temporary(t)
        u == mdb_drop0(Tracked(WithCursor(t, x, mdb_cursor_init), x), x)
        Upd(m) == [m EXCEPT !.init = FALSE, !.eof = FALSE]
    IN [Dropped(Adjust(u, {}, Upd), x) EXCEPT
           !.root = P_INVALID, !.depth = 0, !.branch = 0, !.leaf = 0, !.over = 0, !.entries = 0]

-----------------------------------------------------------------------------
\* What the database and its cursors should be.

NONE == 0                       \* on no item: not positioned yet
END == Max(Key) + 1             \* past the last item
LOST == -1                      \* anywhere: a set failed

Above(k) == Min({j \in DOMAIN ref : j > k} \cup {END})
Below(k) == Max({j \in DOMAIN ref : j < k} \cup {NONE})

\* The item that a get is for: NONE or END if there is no such item.
Target(c, op, k) ==
    LET o == on[c]
    IN CASE op = "first"   -> Above(NONE)
         [] op = "last"    -> Below(END)
         [] op = "set"     -> IF k \in DOMAIN ref THEN k ELSE NONE
         [] op = "range"   -> Above(k - 1)
         [] op = "current" -> o.at
         [] op = "next"    -> IF o.del THEN o.at ELSE Above(o.at)
         [] op = "prev"    -> IF o.at = NONE THEN Below(END) ELSE Below(o.at)

Right(c, op, k) ==
    LET r == Target(c, op, k)
    IN IF r \in DOMAIN ref THEN <<r, ref[r]>>
       ELSE IF op = "current" /\ r = NONE THEN <<"EINVAL">>
       ELSE <<"NOTFOUND">>

Placed(at, del) == [at |-> at, del |-> del]

\* Where the cursors are when item k is gone.
Without(k) ==
    LET rest == [j \in DOMAIN ref \ {k} |-> ref[j]]
    IN /\ ref' = rest
       /\ on' = [c \in Cursors |->
                    IF rest = <<>> THEN Placed(NONE, FALSE)
                    ELSE IF on[c].at = k THEN Placed(Above(k), TRUE)
                    ELSE on[c]]

With(k, v) == ref' = [j \in DOMAIN ref \cup {k} |-> IF j = k THEN v ELSE ref[j]]

-----------------------------------------------------------------------------
\* A database without pages, and the cursors of a new transaction.
Empty == [pg |-> <<>>, root |-> P_INVALID, depth |-> 0, branch |-> 0, leaf |-> 0, over |-> 0,
          entries |-> 0, next |-> 1, free |-> {}, loose |-> <<>>, dirty |-> {}, np |-> 0,
          rc |-> "SUCCESS", err |-> "ok", cur |-> [c \in Cursors |-> mdb_cursor_init],
          track |-> Cursors]

Linked(t, p) == LET nodes == t.pg[p].nodes IN {nodes[i].p : i \in 1..Len(nodes)} \ {P_INVALID}

RECURSIVE PagesFrom(_, _)
PagesFrom(t, P) ==
    IF P = {} THEN {} ELSE P \cup PagesFrom(t, UNION {Linked(t, p) : p \in P})
TreePages(t) == IF t.root = P_INVALID THEN {} ELSE PagesFrom(t, {t.root})

\* A transaction put the items and was committed; the next one begins.
Committed(items) ==
    LET t == FoldSeq(LAMBDA i, u : mdb_put(u, i[1], i[2], ""), Empty, items)
        kept == TreePages(t)
    IN [t EXCEPT !.pg = [p \in kept |-> t.pg[p]], !.dirty = {}, !.loose = <<>>,
                 !.free = (1..(t.next - 1)) \ kept]

Init ==
    \E items \in Trees : \E at \in [Cursors -> {items[i][1] : i \in 1..Len(items)} \cup {NONE}] :
       /\ s = FoldSet(LAMBDA c, t : IF at[c] = NONE THEN t ELSE mdb_cursor_get(t, c, "set", at[c]),
                      Committed(items), Cursors)
       /\ ref = [k \in {items[i][1] : i \in 1..Len(items)} |->
                    items[Max({i \in 1..Len(items) : items[i][1] = k})][2]]
       /\ on = [c \in Cursors |-> Placed(at[c], FALSE)]
       /\ ans = [got |-> <<>>, want |-> {<<>>}]
       /\ mods = 0 /\ gets = 0

\* An operation has ended: what it used for itself is forgotten.
Ended(t) == s' = [t EXCEPT !.rc = "SUCCESS", !.np = 0]

\* The answer was got and should have been one of want.
Answered(got, want) == ans' = [got |-> got, want |-> want]

\* A cursor that has seen the end (C_EOF) may say so again although an item
\* was added after it.
CursorGet(c, op, k) ==
    LET lost == on[c].at = LOST /\ op \in {"next", "prev", "current"}
        r == Target(c, op, k)
    IN /\ gets < MaxGets
       /\ gets' = gets + 1
       /\ \E t \in {mdb_cursor_get(s, c, op, k)} : \E got \in {Got(t, c)} :
             /\ Ended(t)
             /\ Answered(got, IF lost THEN {got}
                              ELSE {Right(c, op, k)}
                                   \cup IF op = "next" /\ s.cur[c].eof THEN {<<"NOTFOUND">>} ELSE {})
             /\ on' = [on EXCEPT ![c] =
                          IF Len(got) = 2 THEN Placed(got[1], FALSE)
                          ELSE IF op \in {"set", "range"} /\ t.cur[c].init THEN Placed(LOST, FALSE)
                          ELSE Placed(@.at, FALSE)]
       /\ UNCHANGED <<ref, mods>>

Get(k) ==
    /\ Answered(mdb_get(s, k), {IF k \in DOMAIN ref THEN <<k, ref[k]>> ELSE <<"NOTFOUND">>})
    /\ gets < MaxGets
    /\ gets' = gets + 1
    /\ UNCHANGED <<s, ref, on, mods>>

Modify == mods < MaxMods /\ mods' = mods + 1 /\ UNCHANGED gets

\* What a put answers, and what it does to the reference.
PutAnswer(k, flag) ==
    IF (flag = "append" /\ k < Above(k) /\ Below(END) >= k) \/ (flag = "nooverwrite" /\ k \in DOMAIN ref)
    THEN "KEYEXIST" ELSE "SUCCESS"
Stored(k, v, flag) == IF PutAnswer(k, flag) = "SUCCESS" THEN With(k, v) ELSE UNCHANGED ref

Put(k, v, flag) ==
    /\ Modify
    /\ \E t \in {mdb_put(s, k, v, flag)} : Ended(t) /\ Answered(<<t.rc>>, {<<PutAnswer(k, flag)>>})
    /\ Stored(k, v, flag)
    /\ UNCHANGED on

CursorPut(c, k, v, flag) ==
    /\ Modify
    /\ \E t \in {mdb_cursor_put(s, c, k, v, flag)} : Ended(t) /\ Answered(<<t.rc>>, {<<PutAnswer(k, flag)>>})
    /\ Stored(k, v, flag)
    /\ on' = [on EXCEPT ![c] = IF PutAnswer(k, flag) = "SUCCESS" THEN Placed(k, FALSE)
                               ELSE Placed(IF flag = "append" THEN Below(END) ELSE k, @.del)]

\* MDB_CURRENT, with the cursor's key.
PutCurrent(c, v) ==
    /\ on[c].at \in DOMAIN ref
    /\ Modify
    /\ \E t \in {mdb_cursor_put(s, c, on[c].at, v, "current")} :
          Ended(t) /\ Answered(<<t.rc>>, {<<"SUCCESS">>})
    /\ With(on[c].at, v)
    /\ on' = [on EXCEPT ![c].del = FALSE]

Del(k) ==
    /\ Modify
    /\ \E t \in {mdb_del(s, k)} :
          Ended(t) /\ Answered(<<t.rc>>, {<<IF k \in DOMAIN ref THEN "SUCCESS" ELSE "NOTFOUND">>})
    /\ IF k \in DOMAIN ref THEN Without(k) ELSE UNCHANGED <<ref, on>>

\* A cursor that is lost deletes the item it happens to be on.
CursorDel(c) ==
    LET item == IF on[c].at # LOST THEN on[c].at
                ELSE IF Ki(s, c) < NumKeys(s, Pg(s, c)) THEN NodePtr(s, Pg(s, c), Ki(s, c)).k
                ELSE END
    IN /\ Modify
       /\ \E t \in {mdb_cursor_del(s, c)} :
             Ended(t) /\ Answered(<<t.rc>>, {<<IF item \in DOMAIN ref THEN "SUCCESS"
                                             ELSE IF item = NONE THEN "EINVAL" ELSE "NOTFOUND">>})
       /\ IF item \in DOMAIN ref THEN Without(item) ELSE UNCHANGED <<ref, on>>

Drop ==
    /\ Modify
    /\ Ended(mdb_drop(s))
    /\ ref' = <<>>
    /\ on' = [c \in Cursors |-> Placed(NONE, FALSE)]
    /\ UNCHANGED ans

Next ==
    \/ \E c \in Cursors, op \in {"first", "last", "next", "prev", "current"} : CursorGet(c, op, NoKey)
    \/ \E c \in Cursors, op \in {"set", "range"}, k \in GetKeys : CursorGet(c, op, k)
    \/ \E k \in GetKeys : Get(k)
    \/ \E i \in PutItems : Put(i[1], i[2], i[3])
    \/ \E c \in Cursors, i \in PutItems : CursorPut(c, i[1], i[2], i[3])
    \/ \E c \in Cursors, v \in Val : PutCurrent(c, v)
    \/ \E k \in DelKeys : Del(k)
    \/ \E c \in Cursors : CursorDel(c)
    \/ Drop

Spec == Init /\ [][Next]_vars

-----------------------------------------------------------------------------
\* Properties.

\* Page p at level l and the pages below it are a search tree for the keys
\* from lo to below hi, in pages that hold their nodes.
RECURSIVE SoundPage(_, _, _, _, _)
SoundPage(t, p, l, lo, hi) ==
    LET nodes == t.pg[p].nodes
        n == Len(nodes)
        low(i) == IF t.pg[p].kind = "branch" /\ i = 1 THEN lo ELSE nodes[i].k
        high(i) == IF i = n THEN hi ELSE nodes[i + 1].k
    IN /\ t.pg[p].kind = IF l = t.depth - 1 THEN "leaf" ELSE "branch"
       /\ n >= IF t.pg[p].kind = "branch" THEN 2 ELSE 1
       /\ Used(t.pg[p].kind, nodes) <= Pmax
       /\ \A i \in 1..n : lo <= low(i) /\ low(i) < high(i)
       /\ t.pg[p].kind = "branch" =>
             nodes[1].k = NoKey /\ \A i \in 1..n : SoundPage(t, nodes[i].p, l + 1, low(i), high(i))

Kinds(t, kind) == Cardinality({p \in TreePages(t) : t.pg[p].kind = kind})
Leaves(t) == {p \in TreePages(t) : t.pg[p].kind = "leaf"}
Links(t) == FoldSet(LAMBDA p, n : n + Cardinality(Linked(t, p)), 0, TreePages(t))

\* The database is a balanced search tree of pages that
\* are each linked once, neither lost nor freed while in use, and its record
\* counts them; no operation failed on the way (a full page, an assertion, a
\* write to a page of the last transaction, a read past a page): splitting,
\* merging, moving and rebalancing keep the tree.
Balanced ==
    /\ s.err = "ok"
    /\ s.root # P_INVALID => SoundPage(s, s.root, 0, NoKey, END)
    /\ (s.root = P_INVALID) = (s.depth = 0)
    /\ s.branch = Kinds(s, "branch") /\ s.leaf = Kinds(s, "leaf") /\ s.over = Kinds(s, "overflow")
    /\ Links(s) = Max({0, Cardinality(TreePages(s)) - 1})
    /\ LET loose == {s.loose[i] : i \in 1..Len(s.loose)}
       IN /\ TreePages(s) \cup s.free \cup loose = 1..(s.next - 1)
          /\ TreePages(s) \cap (s.free \cup loose) = {} /\ s.free \cap loose = {}

\* It holds what was put and not deleted, with the last value.
ContentsExact ==
    /\ {<<n.k, n.v>> : n \in UNION {Range(s.pg[p].nodes) : p \in Leaves(s)}}
          = {<<k, ref[k]>> : k \in DOMAIN ref}
    /\ s.entries = Cardinality(DOMAIN ref)

\* After any operations of mdb_cursor_put, mdb_cursor_del and mdb_del the
\* database is a search tree of the items that should be in it.
TreeSound == Balanced /\ ContentsExact

\* Whatever is done through other cursors or directly, a cursor's stack is a
\* path from the root to a leaf and it stays on its item, or, when that item
\* is deleted, on the next one or past the end.
CursorsOnTrack ==
    \A c \in Cursors :
       LET m == s.cur[c] IN
       /\ m.init = (on[c].at # NONE)
       /\ m.init =>
             /\ m.snum = s.depth /\ m.top = s.depth - 1 /\ m.pg[0] = s.root
             /\ \A l \in 0..(m.top - 1) :
                   m.ki[l] < NumKeys(s, m.pg[l]) /\ NodePtr(s, m.pg[l], m.ki[l]).p = m.pg[l + 1]
             /\ m.ki[m.top] <= NumKeys(s, m.pg[m.top])
             /\ on[c].at \in Key =>
                   /\ m.ki[m.top] < NumKeys(s, m.pg[m.top])
                   /\ NodePtr(s, m.pg[m.top], m.ki[m.top]).k = on[c].at
             /\ on[c].at = END =>
                   /\ m.eof /\ m.ki[m.top] = NumKeys(s, m.pg[m.top])
                   /\ \A l \in 0..(m.top - 1) : m.ki[l] = NumKeys(s, m.pg[l]) - 1

\* Gets, puts and deletes answer what they should.
AnswersRight == ans.got \in ans.want
=============================================================================
