---------------------------- MODULE MCAlgorithms ----------------------------
(***************************************************************************)
(* The sequential algorithms of the vendored C code: a behaviour is a call  *)
(* on an ID list of LMDB, which runs as Midl says, or a job of micro-ecc    *)
(* (UeccCases).                                                             *)
(***************************************************************************)
EXTENDS Midl, UeccCases

-----------------------------------------------------------------------------
(* Calls on ID lists *)

IDs == 1 .. 4
Lists(IDSet, lens) == UNION {[1 .. len -> IDSet] : len \in lens}
DescendingLists(lens) == {s \in Lists(IDs, lens) : Descending(s, Len(s))}
AscendingLists(lens) == {s \in Lists(IDs, lens) : Ascending(s, Len(s))}

Arguments(op, size, list, id, num, merge) ==
    [op |-> op, alloc |-> size, list |-> list, id |-> id, num |-> num, merge |-> merge]

\* All short lists with equal ids among them, and permutations of seven ids
\* that are partitioned more than once.
SortCalls ==
    {Arguments("mdb_midl_sort", 6, s, 0, 0, << >>) : s \in Lists(IDs, 0 .. 5)}
      \cup {Arguments("mdb_midl_sort", 8, s, 0, 0, << >>) :
               s \in {f \in Lists(1 .. 7, {7}) :
                         /\ f[1] \in {1, 7} /\ f[2] \in {2, 3}
                         /\ \A x, y \in 1 .. 7 : x # y => f[x] # f[y]}}

SearchCalls ==
    {Arguments("mdb_midl_search", 6, s, id, 0, << >>) : s \in DescendingLists(0 .. 4), id \in 0 .. 5}
      \cup {Arguments(op, UM_MAX, s, id, 0, << >>) :
               op \in {"mdb_mid2l_search", "mdb_mid2l_insert"},
               s \in AscendingLists(0 .. UM_MAX), id \in 0 .. 5}

MergeCalls ==
    {Arguments("mdb_midl_xmerge", 7, s, 0, 0, m) :
        s \in DescendingLists(0 .. 3), m \in DescendingLists(0 .. 3)}

\* Every length, allocation and number of ids around the limits.
GrowCalls ==
    {Arguments("mdb_mid2l_append", UM_MAX, s, 2, 0, << >>) : s \in Lists(IDs, 0 .. UM_MAX)}
      \cup {c \in {Arguments(op, size, [x \in 1 .. len |-> len - x], 3, num, [x \in 1 .. num |-> x]) :
                     op \in {"mdb_midl_alloc", "mdb_midl_shrink", "mdb_midl_append",
                             "mdb_midl_append_list", "mdb_midl_append_range", "mdb_midl_need"},
                     size \in 0 .. 5, len \in 0 .. 5, num \in 0 .. 7} : Contract(c)}

MCCalls == SortCalls \cup SearchCalls \cup MergeCalls \cup GrowCalls

-----------------------------------------------------------------------------
\* No list is at work.
NoCall ==
    /\ call = [op |-> "none"] /\ pc = "none" /\ rc = 0
    /\ alloc = 0 /\ ids = [x \in 0 .. 0 |-> 0]
    /\ base = 0 /\ cursor = 1 /\ val = 0 /\ n = 0
    /\ i = 0 /\ j = 0 /\ k = 0 /\ l = 1 /\ ir = 0 /\ istack = << >> /\ a = 0

MCInit ==
    \/ Init /\ job = NoJob /\ out = << >>
    \/ NoCall /\ JobInit

MCNext ==
    \/ Next /\ UNCHANGED job_vars
    \/ JobNext /\ UNCHANGED vars

MCSpec == MCInit /\ [][MCNext]_<<vars, job_vars>>
=============================================================================
