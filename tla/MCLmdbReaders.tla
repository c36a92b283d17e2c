---------------------------- MODULE MCLmdbReaders ----------------------------
(***************************************************************************)
(* Model checking of LmdbReaders.                                          *)
(***************************************************************************)
EXTENDS LmdbReaders, TLC

CONSTANTS p1, p2, r1, r2

\* One read-only transaction in each process.
MCHome == (r1 :> p1) @@ (r2 :> p2)

\* The two processes are alike.
Swap == (p1 :> p2) @@ (p2 :> p1) @@ (r1 :> r2) @@ (r2 :> r1)
Alike == {Swap, [x \in DOMAIN Swap |-> x]}
=============================================================================
