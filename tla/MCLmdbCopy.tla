----------------------------- MODULE MCLmdbCopy -----------------------------
(* Instances of LmdbCopy. *)
EXTENDS LmdbCopy, TLC

Page(kind, n, refs) == [kind |-> kind, n |-> n, refs |-> refs]
Leaf(refs) == Page("leaf", 1, refs)
Branch(kids) == Page("branch", 1, [i \in 1..Len(kids) |-> Ref("child", kids[i])])
Run(n) == Page("over", n, <<>>)
Plain == Ref("plain", P_INVALID)

\* Two levels of branch pages, an overflow run of three pages and one of a
\* single page, a sub-database with an overflow run, and an empty one; pages
\* 2, 14 and 15 are free or hold the free list.
Deep ==
    [pages |-> 3 :> Branch(<<4, 5>>) @@ 4 :> Branch(<<6, 7>>) @@ 5 :> Branch(<<8>>)
               @@ 6 :> Leaf(<<Plain, Ref("big", 9)>>) @@ 7 :> Leaf(<<Ref("sub", P_INVALID), Ref("sub", 12)>>)
               @@ 8 :> Leaf(<<Ref("big", 13), Plain>>)
               @@ 9 :> Run(3) @@ 12 :> Leaf(<<Ref("big", 16)>>) @@ 13 :> Run(1) @@ 16 :> Run(2),
     root |-> 3, next_pgno |-> 18, freecount |-> 3]

\* One leaf with two overflow runs, one after the other.
Flat ==
    [pages |-> 2 :> Leaf(<<Ref("big", 3), Ref("big", 5)>>) @@ 3 :> Run(2) @@ 5 :> Run(2),
     root |-> 2, next_pgno |-> 7, freecount |-> 0]

\* A page that is neither reachable nor free.
Leaking == [Flat EXCEPT !.next_pgno = 8]

Empty == [pages |-> <<>>, root |-> P_INVALID, next_pgno |-> 5, freecount |-> 3]

MCSources == {Deep, Flat, Leaking, Empty}
=============================================================================
