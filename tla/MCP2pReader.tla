---------------------------- MODULE MCP2pReader ----------------------------
(* Small instances of P2pReader.  Connections are interchangeable.           *)
EXTENDS P2pReader, TLC

Symmetry == Permutations(Conn)

=============================================================================
