---------------------------- MODULE MCLmdbCursor ----------------------------
(***************************************************************************)
(* Small databases for LmdbCursor.  Pages of 12 units; keys of 1 and 3     *)
(* units, so that a new separator can be longer than the one it replaces;  *)
(* values that make nodes of a quarter to half a page, and one that needs  *)
(* an overflow page with a long key.                                       *)
(***************************************************************************)
EXTENDS LmdbCursor, TLC

CONSTANTS c1, c2
MCCursors == {c1, c2}
Alike == Permutations(MCCursors)

MCKLen == <<1, 3, 1, 3, 1, 3, 1, 3, 1>>
MCDLen == <<1, 3, 5>>
MCTrees == {<<<<1, 3>>, <<3, 3>>, <<4, 2>>, <<6, 2>>, <<7, 3>>, <<8, 3>>>>, <<<<5, 2>>>>}
MCGetKeys == {2, 5, 9}
MCDelKeys == 1..9
MCPutItems == {<<k, v, "">> : k \in {2, 5, 8}, v \in {1, 3}} \cup {<<9, 2, "append">>, <<4, 2, "nooverwrite">>}
=============================================================================
