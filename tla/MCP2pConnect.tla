--------------------------- MODULE MCP2pConnect ---------------------------
(* Small instances of P2pConnect.  Attempts, points and peers are           *)
(* interchangeable.                                                         *)
EXTENDS P2pConnect, TLC

Symmetry ==
    Permutations(Attempt) \cup Permutations(Point) \cup Permutations(Peer)

=============================================================================
