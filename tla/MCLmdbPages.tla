----------------------------- MODULE MCLmdbPages -----------------------------
(***************************************************************************)
(* Model checking of LmdbPages, and of its implementing SnapshotStore.     *)
(* The refinement mapping is a function of the state that is costly to     *)
(* evaluate; the variable seen holds its value.                            *)
(***************************************************************************)
EXTENDS LmdbPages

VARIABLE seen

Open(p) == p \notin {"idle", "fatal"}

MCInit == Init /\ seen = Seen(db, FALSE, may, meta[mti % 2], maymeta, readers)
MCNext ==
    /\ Next
    /\ \E s \in {db'}, p \in {pc'}, cs \in {may'}, m \in {meta'[mti' % 2]},
          ms \in {maymeta'}, rs \in {readers'} :
             seen' = Seen(s, Open(p), cs, m, ms, rs)
MCSpec == MCInit /\ [][MCNext]_<<vars, seen>>

\* LMDB's pages implement the store: transactions nest and are atomic,
\* readers keep their snapshot while its pages are reused around it, and a
\* power failure at any point leaves the last commit (without
\* MDB_NOMETASYNC), or that or the one before.
Store == INSTANCE SnapshotStore WITH
    Val <- 0..3,
    current <- seen.current,
    recoverable <- seen.recoverable,
    work <- seen.work,
    view <- seen.view,
    sync <- ~NOMETASYNC

ImplementsStore == Store!Spec
=============================================================================
