-------------------------------- MODULE Midl --------------------------------
(***************************************************************************)
(* The ID lists of LMDB (vendors/ocaml-lmdb/src/midl.c): the freed pages of *)
(* a transaction, the spilled pages, the reusable pages me_pghead and, as   *)
(* ID2L, the dirty pages.  A list is an array ids whose cell 0 holds the    *)
(* length and whose allocation alloc (ids[-1]) is the last cell there is.   *)
(* IDLs are kept in DESCENDING order and grow; an ID2L is ascending and     *)
(* has MDB_IDL_UM_MAX cells for good.                                       *)
(*                                                                          *)
(* A behaviour is one call, on a list its caller may pass, and the loop     *)
(* of the called function runs step by step over the function's variables.  *)
(***************************************************************************)
EXTENDS Integers, Sequences

CONSTANTS
    UM_MAX,     \* MDB_IDL_UM_MAX: the ids a fresh list has room for
    SMALL,      \* shortest stretch mdb_midl_sort partitions
    INT_BITS,   \* sizeof(int) * CHAR_BIT
    MAX_ID,     \* (MDB_ID)-1
    Calls       \* the calls: function, list and other arguments

VARIABLES
    call,               \* the call
    pc,                 \* where it is: the function's name, a loop, or "return"
    rc,                 \* the error code it returns
    alloc, ids,         \* the array
    base, cursor, val,  \* of the searches
    n,                  \* ids that remain to be searched or appended
    i, j, k,            \* cursors of the loops
    l, ir, istack,      \* the stretch mdb_midl_sort works on, and those put off
    a                   \* the id that is being moved or compared with

search_vars == <<base, cursor, val>>
sort_vars == <<l, ir, istack>>
vars == <<call, pc, rc, alloc, ids, search_vars, n, i, j, k, sort_vars, a>>

MDB_ID == 0 .. MAX_ID
ENOMEM == 12

\* The caller's list, in an array of size cells.
Array(size, list) ==
    [x \in 0 .. size |-> IF x = 0 THEN Len(list)
                         ELSE IF x <= Len(list) THEN list[x] ELSE 0]

Init ==
    /\ call \in Calls
    /\ pc = call.op /\ rc = 0
    /\ alloc = call.alloc /\ ids = Array(call.alloc, call.list)
    /\ base = 0 /\ cursor = 1 /\ val = 0 /\ n = 0
    /\ i = 0 /\ j = 0 /\ k = 0 /\ l = 1 /\ ir = 0 /\ istack = << >> /\ a = 0

Return(code) == pc' = "return" /\ rc' = code
Goto(label) == pc' = label /\ rc' = rc

-----------------------------------------------------------------------------
(* Searching *)

CMP(x, y) == IF x < y THEN -1 ELSE IF x > y THEN 1 ELSE 0

\* IDLs descend, ID2Ls ascend.
Compared(x) ==
    IF call.op = "mdb_midl_search" THEN CMP(x, call.id) ELSE CMP(call.id, x)

StartSearch ==
    /\ pc \in {"mdb_midl_search", "mdb_mid2l_search", "mdb_mid2l_insert"}
    /\ n' = ids[0]
    /\ Goto("search")
    /\ UNCHANGED <<call, alloc, ids, search_vars, i, j, k, sort_vars, a>>

\* mdb_mid2l_insert goes on with the position, the searches return it.
Searched == IF call.op = "mdb_mid2l_insert" THEN Goto("insert") ELSE Return(0)

Search ==
    LET pivot == n \div 2
        v == Compared(ids[base + pivot + 1])
    IN  /\ pc = "search" /\ 0 < n
        /\ cursor' = base + pivot + 1 /\ val' = v
        /\ n' = IF v < 0 THEN pivot ELSE IF v > 0 THEN n - (pivot + 1) ELSE n
        /\ base' = IF v > 0 THEN base + pivot + 1 ELSE base
        /\ IF v = 0 THEN Searched ELSE Goto("search")
        /\ UNCHANGED <<call, alloc, ids, i, j, k, sort_vars, a>>

SearchEnds ==
    /\ pc = "search" /\ n = 0
    /\ cursor' = IF val > 0 THEN cursor + 1 ELSE cursor
    /\ Searched
    /\ UNCHANGED <<call, alloc, ids, base, val, n, i, j, k, sort_vars, a>>

mdb_mid2l_insert ==
    /\ pc = "insert"
    /\ IF cursor < 1 THEN Return(-2) /\ UNCHANGED <<ids, i>>
       ELSE IF cursor <= ids[0] /\ ids[cursor] = call.id THEN Return(-1) /\ UNCHANGED <<ids, i>>
       ELSE IF ids[0] >= UM_MAX THEN Return(-2) /\ UNCHANGED <<ids, i>>
       ELSE /\ ids' = [ids EXCEPT ![0] = @ + 1]
            /\ i' = ids[0] + 1
            /\ Goto("shift")
    /\ UNCHANGED <<call, alloc, search_vars, n, j, k, sort_vars, a>>

Shift ==
    /\ pc = "shift"
    /\ IF i > cursor
       THEN ids' = [ids EXCEPT ![i] = ids[i - 1]] /\ i' = i - 1 /\ Goto("shift")
       ELSE ids' = [ids EXCEPT ![cursor] = call.id] /\ Return(0) /\ UNCHANGED i
    /\ UNCHANGED <<call, alloc, search_vars, n, j, k, sort_vars, a>>

mdb_mid2l_append ==
    /\ pc = "mdb_mid2l_append"
    /\ IF ids[0] >= UM_MAX THEN Return(-2) ELSE Goto("append")
    /\ UNCHANGED <<call, alloc, ids, search_vars, n, i, j, k, sort_vars, a>>

-----------------------------------------------------------------------------
(* Growing *)

Realloc(size) ==
    /\ alloc' = size
    /\ ids' = [x \in 0 .. size |-> IF x <= alloc THEN ids[x] ELSE 0]

mdb_midl_alloc ==
    /\ pc = "mdb_midl_alloc"
    /\ \/ Realloc(call.num) /\ Return(0)
       \/ UNCHANGED <<alloc, ids>> /\ Return(ENOMEM)
    /\ UNCHANGED <<call, search_vars, n, i, j, k, sort_vars, a>>

\* Called when the ids are no longer wanted: they may not fit any more.
mdb_midl_shrink ==
    /\ pc = "mdb_midl_shrink"
    /\ \/ alloc > UM_MAX /\ Realloc(UM_MAX)
       \/ UNCHANGED <<alloc, ids>>
    /\ Return(0)
    /\ UNCHANGED <<call, search_vars, n, i, j, k, sort_vars, a>>

\* A list that is too short is reallocated with size cells, or that fails;
\* then the call goes on at label.
Resized(short, size, label) ==
    \/ ~short /\ Goto(label) /\ UNCHANGED <<alloc, ids>>
    \/ short /\ Realloc(size) /\ Goto(label)
    \/ short /\ Return(ENOMEM) /\ UNCHANGED <<alloc, ids>>

\* mdb_midl_grow adds num cells.
mdb_midl_grow(short, num, label) == Resized(short, alloc + num, label)

mdb_midl_append ==
    /\ pc = "mdb_midl_append"
    /\ mdb_midl_grow(ids[0] >= alloc, UM_MAX, "append")
    /\ UNCHANGED <<call, search_vars, n, i, j, k, sort_vars, a>>

mdb_midl_append_list ==
    /\ pc = "mdb_midl_append_list"
    /\ mdb_midl_grow(ids[0] + Len(call.merge) >= alloc, Len(call.merge), "memcpy")
    /\ UNCHANGED <<call, search_vars, n, i, j, k, sort_vars, a>>

\* num | UM_MAX: all of the low bits are set, for UM_MAX is 2^k - 1.
OrUmMax(num) == num - (num % (UM_MAX + 1)) + UM_MAX

\* Fault: grows as mdb_midl_append does, whatever the range.
AppendRangeFixed ==
    /\ pc = "mdb_midl_append_range"
    /\ mdb_midl_grow(ids[0] + call.num > alloc, UM_MAX, "range")
    /\ n' = call.num /\ base' = ids[0] /\ a' = call.id
    /\ UNCHANGED <<call, cursor, val, i, j, k, sort_vars>>

mdb_midl_append_range ==
    /\ pc = "mdb_midl_append_range"
    /\ mdb_midl_grow(ids[0] + call.num > alloc, OrUmMax(call.num), "range")
    /\ n' = call.num /\ base' = ids[0] /\ a' = call.id
    /\ UNCHANGED <<call, cursor, val, i, j, k, sort_vars>>

\* Callers follow it by num calls of mdb_midl_xappend.
mdb_midl_need ==
    LET num == call.num + ids[0]
    IN  /\ pc = "mdb_midl_need"
        /\ Resized(num > alloc, 256 * ((num + num \div 4 + 258) \div 256) - 2, "xappend")
        /\ n' = call.num
        /\ UNCHANGED <<call, search_vars, i, j, k, sort_vars, a>>

\* The end of mdb_midl_append and of mdb_mid2l_append.
Append1 ==
    /\ pc = "append"
    /\ ids' = [ids EXCEPT ![0] = @ + 1, ![ids[0] + 1] = call.id]
    /\ Return(0)
    /\ UNCHANGED <<call, alloc, search_vars, n, i, j, k, sort_vars, a>>

AppendList ==
    LET len == ids[0]
        more == Len(call.merge)
    IN  /\ pc = "memcpy"
        /\ ids' = [x \in DOMAIN ids |-> IF x = 0 THEN len + more
                                        ELSE IF x \in len + 1 .. len + more
                                        THEN call.merge[x - len] ELSE ids[x]]
        /\ Return(0)
        /\ UNCHANGED <<call, alloc, search_vars, n, i, j, k, sort_vars, a>>

\* The ids come out in descending order.
AppendRange ==
    /\ pc = "range"
    /\ ids' = [ids EXCEPT ![0] = base + n]
    /\ Goto("fill")
    /\ UNCHANGED <<call, alloc, search_vars, n, i, j, k, sort_vars, a>>

Fill ==
    /\ pc = "fill"
    /\ IF n > 0
       THEN ids' = [ids EXCEPT ![base + n] = a] /\ n' = n - 1 /\ a' = a + 1 /\ Goto("fill")
       ELSE Return(0) /\ UNCHANGED <<ids, n, a>>
    /\ UNCHANGED <<call, alloc, search_vars, i, j, k, sort_vars>>

mdb_midl_xappend ==
    /\ pc = "xappend"
    /\ IF n > 0
       THEN /\ ids' = [ids EXCEPT ![0] = @ + 1, ![ids[0] + 1] = call.merge[call.num - n + 1]]
            /\ n' = n - 1
            /\ Goto("xappend")
       ELSE Return(0) /\ UNCHANGED <<ids, n>>
    /\ UNCHANGED <<call, alloc, search_vars, i, j, k, sort_vars, a>>

-----------------------------------------------------------------------------
(* Merging *)

\* Cell 0 holds (MDB_ID)-1, larger than any id, while the scan runs.
mdb_midl_xmerge ==
    /\ pc = "mdb_midl_xmerge"
    /\ i' = Len(call.merge) /\ j' = ids[0] /\ k' = ids[0] + Len(call.merge)
    /\ n' = ids[0] + Len(call.merge)
    /\ ids' = [ids EXCEPT ![0] = MAX_ID]
    /\ a' = ids'[ids[0]]
    /\ Goto("merge")
    /\ UNCHANGED <<call, alloc, search_vars, sort_vars>>

\* a is the code's old_id, n its total.
Merge ==
    /\ pc = "merge"
    /\ \/ /\ i > 0 /\ a < call.merge[i]
          /\ ids' = [ids EXCEPT ![k] = a]
          /\ k' = k - 1 /\ j' = j - 1 /\ a' = ids'[j - 1]
          /\ Goto("merge") /\ UNCHANGED i
       \/ /\ i > 0 /\ a >= call.merge[i]
          /\ ids' = [ids EXCEPT ![k] = call.merge[i]]
          /\ k' = k - 1 /\ i' = i - 1
          /\ Goto("merge") /\ UNCHANGED <<j, a>>
       \/ /\ i = 0
          /\ ids' = [ids EXCEPT ![0] = n]
          /\ Return(0) /\ UNCHANGED <<i, j, k, a>>
    /\ UNCHANGED <<call, alloc, search_vars, n, sort_vars>>

-----------------------------------------------------------------------------
(* Sorting: quicksort with an explicit stack, insertion sort below SMALL *)

mdb_midl_sort ==
    /\ pc = "mdb_midl_sort"
    /\ ir' = ids[0] /\ l' = 1 /\ istack' = << >>
    /\ Goto("sort")
    /\ UNCHANGED <<call, alloc, ids, search_vars, n, i, j, k, a>>

MIDL_SWAP(f, x, y) == [f EXCEPT ![x] = f[y], ![y] = f[x]]
SwapIfLess(f, x, y) == IF f[x] < f[y] THEN MIDL_SWAP(f, x, y) ELSE f

\* The median of the first, middle and last id is the pivot a, at l + 1.
Median(f) ==
    SwapIfLess(SwapIfLess(SwapIfLess(MIDL_SWAP(f, (l + ir) \div 2, l + 1), l, ir),
                          l + 1, ir), l, l + 1)

Stretch ==
    /\ pc = "sort"
    /\ IF ir - l < SMALL
       THEN j' = l + 1 /\ Goto("insertion") /\ UNCHANGED <<ids, i, k, a>>
       ELSE /\ k' = (l + ir) \div 2
            /\ ids' = Median(ids)
            /\ i' = l + 1 /\ j' = ir /\ a' = ids'[l + 1]
            /\ Goto("up")
    /\ UNCHANGED <<call, alloc, search_vars, n, sort_vars>>

Insertion ==
    /\ pc = "insertion"
    /\ \/ /\ j <= ir
          /\ a' = ids[j] /\ i' = j - 1
          /\ Goto("slide") /\ UNCHANGED sort_vars
       \/ /\ j > ir /\ istack = << >>
          /\ Return(0) /\ UNCHANGED <<a, i, sort_vars>>
       \/ /\ j > ir /\ istack # << >>
          /\ l' = istack[Len(istack)].l /\ ir' = istack[Len(istack)].ir
          /\ istack' = SubSeq(istack, 1, Len(istack) - 1)
          /\ Goto("sort") /\ UNCHANGED <<a, i>>
    /\ UNCHANGED <<call, alloc, ids, search_vars, n, j, k>>

\* The inner loop of the insertion sort runs down to cell 1, not to l.
Slide ==
    /\ pc = "slide"
    /\ IF i >= 1 /\ ids[i] < a
       THEN ids' = [ids EXCEPT ![i + 1] = ids[i]] /\ i' = i - 1 /\ Goto("slide") /\ UNCHANGED j
       ELSE ids' = [ids EXCEPT ![i + 1] = a] /\ j' = j + 1 /\ Goto("insertion") /\ UNCHANGED i
    /\ UNCHANGED <<call, alloc, search_vars, n, k, sort_vars, a>>

ScanUp ==
    /\ pc = "up"
    /\ i' = i + 1
    /\ Goto(IF ids[i + 1] > a THEN "up" ELSE "down")
    /\ UNCHANGED <<call, alloc, ids, search_vars, n, j, k, sort_vars, a>>

ScanDown ==
    /\ pc = "down"
    /\ j' = j - 1
    /\ Goto(IF ids[j - 1] < a THEN "down" ELSE "cross")
    /\ UNCHANGED <<call, alloc, ids, search_vars, n, i, k, sort_vars, a>>

Exchange ==
    /\ pc = "cross" /\ j >= i
    /\ ids' = MIDL_SWAP(ids, i, j)
    /\ Goto("up")
    /\ UNCHANGED <<call, alloc, search_vars, n, i, j, k, sort_vars, a>>

\* Fault: the shorter part is put off.
SplitShorter ==
    /\ pc = "cross" /\ j < i
    /\ ids' = [ids EXCEPT ![l + 1] = ids[j], ![j] = a]
    /\ IF ir - i + 1 < j - l
       THEN istack' = Append(istack, [l |-> i, ir |-> ir]) /\ ir' = j - 1 /\ UNCHANGED l
       ELSE istack' = Append(istack, [l |-> l, ir |-> j - 1]) /\ l' = i /\ UNCHANGED ir
    /\ Goto("sort")
    /\ UNCHANGED <<call, alloc, search_vars, n, i, j, k, a>>

\* The longer part is put off.
Split ==
    /\ pc = "cross" /\ j < i
    /\ ids' = [ids EXCEPT ![l + 1] = ids[j], ![j] = a]
    /\ IF ir - i + 1 >= j - l
       THEN istack' = Append(istack, [l |-> i, ir |-> ir]) /\ ir' = j - 1 /\ UNCHANGED l
       ELSE istack' = Append(istack, [l |-> l, ir |-> j - 1]) /\ l' = i /\ UNCHANGED ir
    /\ Goto("sort")
    /\ UNCHANGED <<call, alloc, search_vars, n, i, j, k, a>>

-----------------------------------------------------------------------------
Next ==
    \/ mdb_midl_alloc \/ mdb_midl_shrink
    \/ StartSearch \/ Search \/ SearchEnds \/ mdb_mid2l_insert \/ Shift \/ mdb_mid2l_append
    \/ mdb_midl_append \/ mdb_midl_append_list \/ mdb_midl_append_range \/ mdb_midl_need
    \/ Append1 \/ AppendList \/ AppendRange \/ Fill \/ mdb_midl_xappend
    \/ mdb_midl_xmerge \/ Merge
    \/ mdb_midl_sort \/ Stretch \/ Insertion \/ Slide \/ ScanUp \/ ScanDown \/ Exchange \/ Split

Spec == Init /\ [][Next]_vars

-----------------------------------------------------------------------------
(* What callers guarantee *)

Descending(f, len) == \A x, y \in 1 .. len : x < y => f[x] >= f[y]
Ascending(f, len) == \A x, y \in 1 .. len : x < y => f[x] < f[y]

Power2[d \in Nat] == IF d = 0 THEN 1 ELSE 2 * Power2[d - 1]

Ops == {"mdb_midl_search", "mdb_mid2l_search", "mdb_mid2l_insert", "mdb_mid2l_append",
        "mdb_midl_alloc", "mdb_midl_shrink", "mdb_midl_append", "mdb_midl_append_list",
        "mdb_midl_append_range", "mdb_midl_need", "mdb_midl_xmerge", "mdb_midl_sort"}

\* The list fits its array; the searches get a list in order, an ID2L has
\* UM_MAX cells, mdb_midl_xmerge gets two lists in order and room for both,
\* and mdb_midl_sort a list whose positions, and their sums, are ints.
Contract(c) ==
    /\ c \in [op : Ops, alloc : Nat, list : Seq(MDB_ID), id : MDB_ID, num : Nat,
               merge : Seq(MDB_ID)]
    /\ Len(c.list) <= c.alloc
    /\ c.op = "mdb_midl_alloc" => c.list = << >>
    /\ c.op = "mdb_midl_search" => Descending(c.list, Len(c.list))
    /\ c.op \in {"mdb_mid2l_search", "mdb_mid2l_insert"} => Ascending(c.list, Len(c.list))
    /\ c.op \in {"mdb_mid2l_insert", "mdb_mid2l_append"} => c.alloc = UM_MAX
    /\ c.op = "mdb_midl_need" => c.num = Len(c.merge)
    /\ c.op = "mdb_midl_xmerge" => /\ Descending(c.list, Len(c.list))
                                   /\ Descending(c.merge, Len(c.merge))
                                   /\ Len(c.list) + Len(c.merge) <= c.alloc
    /\ c.op = "mdb_midl_sort" => Len(c.list) < Power2[INT_BITS - 2]

ASSUME BoundsAssumption ==
    /\ UM_MAX \in Nat \ {0} /\ MAX_ID \in Nat
    /\ SMALL \in Nat /\ SMALL >= 2
    /\ INT_BITS \in Nat /\ INT_BITS >= 2

ASSUME CallsAssumption == \A c \in Calls : Contract(c)

-----------------------------------------------------------------------------
(* Properties *)

Was == call.list
Done(op) == pc = "return" /\ call.op = op

\* f holds the ids of g in some order.
Rearranged(f, g, len) ==
    \E p \in [1 .. len -> 1 .. len] :
        /\ \A x \in 1 .. len : f[x] = g[p[x]]
        /\ \A y \in 1 .. len : \E x \in 1 .. len : p[x] = y

\* ids holds the list f, of length len.
Holds(f, len) == ids[0] = len /\ \A x \in 1 .. len : ids[x] = f[x]

\* The cursor is where id is or, when it is nowhere, the first position whose
\* id is past it in the list's order.
Located ==
    \/ cursor \in 1 .. Len(Was) /\ Was[cursor] = call.id
    \/ /\ cursor \in 1 .. Len(Was) + 1
       /\ \A x \in 1 .. cursor - 1 : Compared(Was[x]) > 0
       /\ \A x \in cursor .. Len(Was) : Compared(Was[x]) < 0

\* mdb_midl_search and mdb_mid2l_search leave the list alone and return where
\* the id is, or the position that it would have in the list's order.
SearchesRight ==
    pc = "return" /\ call.op \in {"mdb_midl_search", "mdb_mid2l_search"} =>
        Holds(Was, Len(Was)) /\ Located

\* mdb_mid2l_insert puts the id into its place in the ascending list, and
\* leaves the list alone when the id is there (-1) or the list full (-2).
InsertRight ==
    Done("mdb_mid2l_insert") =>
        \/ rc = -1 /\ Holds(Was, Len(Was)) /\ \E x \in 1 .. Len(Was) : Was[x] = call.id
        \/ rc = -2 /\ Holds(Was, Len(Was)) /\ Len(Was) = UM_MAX
        \/ /\ rc = 0 /\ ids[0] = Len(Was) + 1
           /\ Ascending(ids, ids[0])
           /\ {ids[x] : x \in 1 .. ids[0]} = {Was[x] : x \in 1 .. Len(Was)} \cup {call.id}

\* The ids the call adds, in the order in which they follow the list.
Appended ==
    CASE call.op \in {"mdb_midl_append", "mdb_mid2l_append"} -> <<call.id>>
      [] call.op = "mdb_midl_append_range" -> [x \in 1 .. call.num |-> call.id + call.num - x]
      [] OTHER -> call.merge

\* The functions that append add exactly their ids behind the list's; when
\* there is no memory, or no room in an ID2L, the list is as it was.
AppendsRight ==
    pc = "return" /\ call.op \in {"mdb_midl_append", "mdb_mid2l_append", "mdb_midl_append_list",
                                  "mdb_midl_append_range", "mdb_midl_need"} =>
        IF rc = 0 THEN Holds(Was \o Appended, Len(Was) + Len(Appended))
        ELSE Holds(Was, Len(Was)) /\ (call.op = "mdb_mid2l_append" => Len(Was) = UM_MAX)

\* mdb_midl_xmerge leaves the ids of both lists, as often as they occurred, in
\* descending order, and a length where its delimiter was.
MergeRight ==
    Done("mdb_midl_xmerge") =>
        /\ ids[0] = Len(Was) + Len(call.merge)
        /\ Descending(ids, ids[0])
        /\ Rearranged(ids, Was \o call.merge, ids[0])

\* mdb_midl_sort leaves the ids there were, equal ones included, in descending
\* order.
SortRight ==
    Done("mdb_midl_sort") =>
        /\ ids[0] = Len(Was)
        /\ Descending(ids, ids[0])
        /\ Rearranged(ids, Was, ids[0])

\* The cells after the length that the next step reads or writes.
Touched ==
    CASE pc = "search" -> IF n > 0 THEN {base + n \div 2 + 1} ELSE {}
      [] pc = "insert" -> IF cursor <= ids[0] THEN {cursor} ELSE {}
      [] pc = "shift" -> IF i > cursor THEN {i, i - 1} ELSE {cursor}
      [] pc = "append" -> {ids[0] + 1}
      [] pc = "memcpy" -> ids[0] + 1 .. ids[0] + Len(call.merge)
      [] pc = "fill" -> IF n > 0 THEN {base + n} ELSE {}
      [] pc = "xappend" -> IF n > 0 THEN {ids[0] + 1} ELSE {}
      [] pc = "mdb_midl_xmerge" -> {ids[0]}
      [] pc = "merge" -> IF i = 0 THEN {} ELSE IF a < call.merge[i] THEN {k, j - 1} ELSE {k}
      [] pc = "sort" -> IF ir - l < SMALL THEN {} ELSE {l, l + 1, (l + ir) \div 2, ir}
      [] pc = "insertion" -> IF j <= ir THEN {j} ELSE {}
      [] pc = "slide" -> {i + 1} \cup (IF i >= 1 THEN {i} ELSE {})
      [] pc = "up" -> {i + 1}
      [] pc = "down" -> {j - 1}
      [] pc = "cross" -> {i, j, l + 1}
      [] OTHER -> {}

\* Lists stay within their arrays, and so does every access; the stretches
\* mdb_midl_sort puts off are at most the logarithm of the length, and fit
\* istack.
NeverOverruns ==
    /\ DOMAIN ids = 0 .. alloc
    /\ Touched \subseteq 0 .. alloc
    /\ pc = "return" /\ call.op # "mdb_midl_shrink" => ids[0] <= alloc
    /\ istack # << >> => Power2[Len(istack)] <= Len(Was)
    /\ 2 * Len(istack) < 2 * INT_BITS

\* What the functions of midl.c return is right, and they never read or write
\* outside of the array and the stack they have.
ListsRight ==
    /\ SearchesRight /\ InsertRight /\ AppendsRight /\ MergeRight /\ SortRight
    /\ NeverOverruns
=============================================================================
