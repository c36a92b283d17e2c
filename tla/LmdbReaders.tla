----------------------------- MODULE LmdbReaders -----------------------------
(***************************************************************************)
(* The lock file of an LMDB environment (vendors/ocaml-lmdb/src/mdb.c):    *)
(* the reader table, mti_txnid, the two robust mutexes, and the file lock  *)
(* under which processes open the environment.  Readers take snapshots     *)
(* without a lock the writer knows of; the writer scans their slots, one   *)
(* after the other, for the oldest snapshot in use, and reuses the pages   *)
(* older ones freed.  Processes open, close and die at any point.          *)
(*                                                                         *)
(* Only ids are kept of the meta pages: dbs is the commit whose DB records *)
(* a meta page holds, hdr the commit whose mm_last_pg and mm_txnid it      *)
(* holds.  A pwrite of a meta page is seen by readers of the map in two    *)
(* parts, in that order.                                                   *)
(***************************************************************************)
EXTENDS Integers, FiniteSets

CONSTANTS
    Proc,           \* processes
    Rtx,            \* read-only transactions (MDB_NOTLS: each its own slot)
    Home,           \* the process of each
    MaxReaders,     \* me_maxreaders
    MaxTxn,         \* bound: transaction ids
    DieExclusive    \* the stages of setting up the lock file a process may die in

None == "none"
Dead == "dead"
Idle == -1

ASSUME LmdbReadersAssumption ==
    /\ Home \in [Rtx -> Proc]
    /\ \A p \in Proc : p \notin Rtx /\ p \notin {None, Dead}
    /\ \A r \in Rtx : r \notin {None, Dead}
    /\ MaxReaders \in Nat \ {0} /\ MaxTxn \in Nat
    /\ DieExclusive \subseteq {"excl", "reset"}

Slot == 0..(MaxReaders - 1)

VARIABLES
    mti,            \* mti_txnid
    numreaders,     \* mti_numreaders
    pid,            \* per slot, mr_pid
    mrtxn,          \* per slot, mr_txnid
    rmutex, wmutex, \* owner of the mutex: a writer, a reader, None, or Dead
    dbs, hdr,       \* per meta page, the ids described above
    env,            \* per process, how far it is with mdb_env_open
    live,           \* processes whose pid lock is set
    oldest,         \* per process, me_pgoldest
    wpc, wtx,       \* per process, its write transaction and its id
    idx, acc,       \* per process, mdb_find_oldest's index and minimum
    rpc, slot, rt,  \* per reader, its progress, slot and mt_txnid
    snap, nxt,      \* per reader, the commits it copied dbs and hdr from
    cp, img         \* per reader, its mdb_env_copyfd0 and the meta page copied

shared == <<mti, numreaders, pid, mrtxn, rmutex, wmutex, dbs, hdr>>
copy == <<cp, img>>
readers == <<rpc, slot, rt, snap, nxt, copy>>
writers == <<wpc, wtx, idx, acc, oldest>>
vars == <<shared, env, live, readers, writers>>

\* The environment was closed cleanly after its creation.
Init ==
    /\ mti = 0 /\ numreaders = 0
    /\ pid = [s \in Slot |-> None] /\ mrtxn = [s \in Slot |-> 0]
    /\ rmutex = None /\ wmutex = None
    /\ dbs = [i \in 0..1 |-> 0] /\ hdr = [i \in 0..1 |-> 0]
    /\ env = [p \in Proc |-> "closed"] /\ live = {}
    /\ oldest = [p \in Proc |-> 0]
    /\ wpc = [p \in Proc |-> "idle"] /\ wtx = [p \in Proc |-> 0]
    /\ idx = [p \in Proc |-> 0] /\ acc = [p \in Proc |-> 0]
    /\ rpc = [r \in Rtx |-> "idle"] /\ slot = [r \in Rtx |-> 0]
    /\ rt = [r \in Rtx |-> 0] /\ snap = [r \in Rtx |-> 0] /\ nxt = [r \in Rtx |-> 0]
    /\ cp = [r \in Rtx |-> "no"] /\ img = [r \in Rtx |-> 0]

\* Faulty variant of mdb_env_pick_meta: the older page.
PickOlder == IF hdr[0] < hdr[1] THEN hdr[0] ELSE hdr[1]

\* mdb_env_pick_meta: the newer of the two meta pages.
mdb_env_pick_meta == IF hdr[0] < hdr[1] THEN hdr[1] ELSE hdr[0]

-----------------------------------------------------------------------------
\* Opening and closing.

Holds(p) == env[p] \in {"excl", "reset", "open"}

\* mdb_env_excl_lock: exclusive when nobody holds the lock file.
LockExclusive(p) ==
    /\ env[p] = "closed"
    /\ \A q \in Proc : ~Holds(q)
    /\ env' = [env EXCEPT ![p] = "excl"]
    /\ UNCHANGED <<shared, live, readers, writers>>

\* mdb_env_excl_lock, else: wait for a shared lock.
WaitShared(p) ==
    /\ env[p] = "closed"
    /\ \E q \in Proc : Holds(q)
    /\ env' = [env EXCEPT ![p] = "wait"]
    /\ UNCHANGED <<shared, live, readers, writers>>

LockShared(p) ==
    /\ env[p] = "wait"
    /\ \A q \in Proc : env[q] \notin {"excl", "reset"}
    /\ env' = [env EXCEPT ![p] = "open"]
    /\ UNCHANGED <<shared, live, readers, writers>>

\* mdb_env_setup_locks with the exclusive lock.
mdb_env_setup_locks(p) ==
    /\ env[p] = "excl"
    /\ mti' = 0 /\ numreaders' = 0
    /\ rmutex' = None /\ wmutex' = None
    /\ env' = [env EXCEPT ![p] = "reset"]
    /\ UNCHANGED <<pid, mrtxn, dbs, hdr, live, readers, writers>>

mdb_env_share_locks(p) ==
    /\ env[p] = "reset"
    /\ mti' = mdb_env_pick_meta
    /\ env' = [env EXCEPT ![p] = "open"]
    /\ UNCHANGED <<numreaders, pid, mrtxn, rmutex, wmutex, dbs, hdr, live,
                   readers, writers>>

\* The locals of a transaction are gone with it.
Mine(p, f, v) == [r \in Rtx |-> IF Home[r] = p THEN v ELSE f[r]]
Forget(p) ==
    /\ rpc' = Mine(p, rpc, "idle") /\ slot' = Mine(p, slot, 0) /\ rt' = Mine(p, rt, 0)
    /\ snap' = Mine(p, snap, 0) /\ nxt' = Mine(p, nxt, 0)
    /\ cp' = Mine(p, cp, "no") /\ img' = Mine(p, img, 0)

Quiet(p) ==
    /\ wpc[p] = "idle"
    /\ \A r \in Rtx : Home[r] = p => rpc[r] \in {"idle", "parked"} /\ cp[r] = "no"

\* mdb_env_close0: the slots of transactions that were reset are cleared.
mdb_env_close(p) ==
    /\ env[p] = "open" /\ Quiet(p)
    /\ pid' = [s \in Slot |-> IF s < numreaders /\ pid[s] = p THEN None ELSE pid[s]]
    /\ Forget(p)
    /\ env' = [env EXCEPT ![p] = "closed"]
    /\ live' = live \ {p}
    /\ oldest' = [oldest EXCEPT ![p] = 0]
    /\ UNCHANGED <<mti, numreaders, mrtxn, rmutex, wmutex, dbs, hdr, wpc, wtx, idx, acc>>

Threads(p) == {p} \cup {r \in Rtx : Home[r] = p}

\* The process dies: the system releases its file locks and marks its
\* mutexes.  (It is not killed inside a pwrite.)  It may be started again,
\* with the same pid.
Die(p) ==
    /\ env[p] \in {"wait", "open"} \cup DieExclusive
    /\ wpc[p] # "half"
    /\ env' = [env EXCEPT ![p] = "closed"]
    /\ live' = live \ {p}
    /\ rmutex' = IF rmutex \in Threads(p) THEN Dead ELSE rmutex
    /\ wmutex' = IF wmutex \in Threads(p) THEN Dead ELSE wmutex
    /\ Forget(p)
    /\ wpc' = [wpc EXCEPT ![p] = "idle"] /\ wtx' = [wtx EXCEPT ![p] = 0]
    /\ idx' = [idx EXCEPT ![p] = 0] /\ acc' = [acc EXCEPT ![p] = 0]
    /\ oldest' = [oldest EXCEPT ![p] = 0]
    /\ UNCHANGED <<mti, numreaders, pid, mrtxn, dbs, hdr>>

\* Faulty variant of mdb_reader_check0: the pid locks are not looked at.
ClearOthers(p) ==
    [s \in Slot |-> IF s < numreaders /\ pid[s] # p THEN None ELSE pid[s]]

\* The slots mdb_reader_check0 clears for process p: those of processes
\* whose pid lock is gone.
mdb_reader_check0(p) ==
    [s \in Slot |->
        IF s < numreaders /\ pid[s] # None /\ pid[s] # p /\ pid[s] \notin live
        THEN None ELSE pid[s]]

Available(mutex) == mutex \in {None, Dead}

\* Faulty variant of mdb_mutex_failed: mti_txnid is left as it is.
MutexFailedStale(p) ==
    /\ Available(rmutex)
    /\ mti' = mti
    /\ pid' = mdb_reader_check0(p)
    /\ rmutex' = None

\* mdb_mutex_failed on me_wmutex brings mti_txnid up to date and clears the
\* slots of the dead.
mdb_mutex_failed(p) ==
    /\ Available(rmutex)
    /\ mti' = mdb_env_pick_meta
    /\ pid' = mdb_reader_check0(p)
    /\ rmutex' = None

\* mdb_reader_check, with or without mdb_mutex_failed on me_rmutex.
mdb_reader_check(p) ==
    /\ env[p] = "open"
    /\ Available(rmutex)
    /\ pid' = mdb_reader_check0(p)
    /\ rmutex' = None
    /\ UNCHANGED <<mti, numreaders, mrtxn, wmutex, dbs, hdr, env, live, readers, writers>>

-----------------------------------------------------------------------------
\* Readers.

\* The first free slot below mti_numreaders, else the next one.
IsFreeSlot(p, s) ==
    /\ s \in 0..numreaders
    /\ p[s] = None \/ s = numreaders
    /\ \A i \in 0..(s - 1) : p[i] # None

\* mdb_txn_renew0 takes me_rmutex; after the death of its owner
\* mdb_mutex_failed clears the slots of the dead.  The slot is reset, then
\* published in mti_numreaders.
LockReaders(r) ==
    LET p == Home[r]
        table == IF rmutex = Dead THEN mdb_reader_check0(p) ELSE pid
    IN /\ env[p] = "open" /\ rpc[r] = "idle"
       /\ Available(rmutex)
       /\ live' = live \cup {p}
       /\ \/ \E s \in Slot :
                /\ IsFreeSlot(table, s)
                /\ pid' = [table EXCEPT ![s] = None]
                /\ mrtxn' = [mrtxn EXCEPT ![s] = Idle]
                /\ numreaders' = IF s = numreaders THEN s + 1 ELSE numreaders
                /\ slot' = [slot EXCEPT ![r] = s]
                /\ rmutex' = r
                /\ rpc' = [rpc EXCEPT ![r] = "claim"]
          \/ /\ numreaders = MaxReaders    \* MDB_READERS_FULL
             /\ \A s \in Slot : table[s] # None
             /\ pid' = table
             /\ rmutex' = None
             /\ UNCHANGED <<mrtxn, numreaders, slot, rpc>>
       /\ UNCHANGED <<mti, wmutex, dbs, hdr, env, rt, snap, nxt, copy, writers>>

ClaimSlot(r) ==
    /\ rpc[r] = "claim"
    /\ pid' = [pid EXCEPT ![slot[r]] = Home[r]]
    /\ rmutex' = None
    /\ rpc' = [rpc EXCEPT ![r] = "load"]
    /\ UNCHANGED <<mti, numreaders, mrtxn, wmutex, dbs, hdr, env, live, slot, rt, snap,
                   nxt, copy, writers>>

\* do r->mr_txnid = ti->mti_txnid; while (r->mr_txnid != ti->mti_txnid):
\* a load, a store, and a load to compare.
LoadTxnid(r) ==
    /\ rpc[r] = "load"
    /\ rt' = [rt EXCEPT ![r] = mti]
    /\ rpc' = [rpc EXCEPT ![r] = "store"]
    /\ UNCHANGED <<shared, env, live, slot, snap, nxt, copy, writers>>

StoreTxnid(r) ==
    /\ rpc[r] = "store"
    /\ mrtxn' = [mrtxn EXCEPT ![slot[r]] = rt[r]]
    /\ rpc' = [rpc EXCEPT ![r] = "check"]
    /\ UNCHANGED <<mti, numreaders, pid, rmutex, wmutex, dbs, hdr, env, live, slot, rt,
                   snap, nxt, copy, writers>>

\* Faulty variant of CheckTxnid: mti_txnid is not read again.
CheckTxnidOnce(r) ==
    /\ rpc[r] = "check"
    /\ rpc' = [rpc EXCEPT ![r] = "valid"]
    /\ UNCHANGED <<shared, env, live, slot, rt, snap, nxt, copy, writers>>

CheckTxnid(r) ==
    /\ rpc[r] = "check"
    /\ rpc' = [rpc EXCEPT ![r] = IF rt[r] = mti THEN "valid" ELSE "load"]
    /\ UNCHANGED <<shared, env, live, slot, rt, snap, nxt, copy, writers>>

\* Faulty variant of CopyDbs: the other meta page.
CopyDbsOther(r) ==
    /\ rpc[r] = "valid"
    /\ snap' = [snap EXCEPT ![r] = dbs[(rt[r] + 1) % 2]]
    /\ rpc' = [rpc EXCEPT ![r] = "copy"]
    /\ UNCHANGED <<shared, env, live, slot, rt, nxt, copy, writers>>

\* The DB records are copied from the meta page, then mm_last_pg.
CopyDbs(r) ==
    /\ rpc[r] = "valid"
    /\ snap' = [snap EXCEPT ![r] = dbs[rt[r] % 2]]
    /\ rpc' = [rpc EXCEPT ![r] = "copy"]
    /\ UNCHANGED <<shared, env, live, slot, rt, nxt, copy, writers>>

CopyLast(r) ==
    /\ rpc[r] = "copy"
    /\ nxt' = [nxt EXCEPT ![r] = hdr[rt[r] % 2]]
    /\ rpc' = [rpc EXCEPT ![r] = "active"]
    /\ UNCHANGED <<shared, env, live, slot, rt, snap, copy, writers>>

\* mdb_txn_end of a reader: the snapshot is given up, and by
\* mdb_txn_abort the slot too; mdb_txn_reset keeps it for mdb_txn_renew.
EndRead(r, next, copying) ==
    /\ mrtxn' = [mrtxn EXCEPT ![slot[r]] = Idle]
    /\ rpc' = [rpc EXCEPT ![r] = next] /\ rt' = [rt EXCEPT ![r] = 0]
    /\ snap' = [snap EXCEPT ![r] = 0] /\ nxt' = [nxt EXCEPT ![r] = 0]
    /\ cp' = [cp EXCEPT ![r] = copying] /\ img' = [img EXCEPT ![r] = 0]
    /\ UNCHANGED <<mti, numreaders, pid, rmutex, wmutex, dbs, hdr, env, live, slot, writers>>

mdb_txn_reset(r) == rpc[r] = "active" /\ cp[r] = "no" /\ EndRead(r, "parked", "no")

mdb_txn_abort(r) ==
    /\ rpc[r] \in {"active", "parked"} /\ cp[r] \in {"no", "pages"}
    /\ EndRead(r, "ending", "no")

mdb_txn_renew(r) ==
    /\ rpc[r] = "parked" /\ cp[r] = "no"
    /\ rpc' = [rpc EXCEPT ![r] = "load"]
    /\ UNCHANGED <<shared, env, live, slot, rt, snap, nxt, copy, writers>>

ReleaseSlot(r) ==
    /\ rpc[r] = "ending"
    /\ pid' = [pid EXCEPT ![slot[r]] = None]
    /\ rpc' = [rpc EXCEPT ![r] = "idle"] /\ slot' = [slot EXCEPT ![r] = 0]
    /\ UNCHANGED <<mti, numreaders, mrtxn, rmutex, wmutex, dbs, hdr, env, live, rt, snap,
                   nxt, copy, writers>>

-----------------------------------------------------------------------------
\* mdb_env_copyfd0 starts its read transaction again once it has blocked
\* writers, copies the meta pages, and then lets writers go on while it
\* copies the other pages.
StartCopy(r) == rpc[r] = "active" /\ cp[r] = "no" /\ EndRead(r, "parked", "wait")

\* Faulty variant of BlockWriters: the copy does not block writers.
BlockNobody(r) ==
    /\ rpc[r] = "parked" /\ cp[r] = "wait"
    /\ cp' = [cp EXCEPT ![r] = "locked"]
    /\ rpc' = [rpc EXCEPT ![r] = "load"]
    /\ UNCHANGED <<shared, env, live, slot, rt, snap, nxt, img, writers>>

BlockWriters(r) ==
    /\ rpc[r] = "parked" /\ cp[r] = "wait"
    /\ \/ wmutex = None /\ UNCHANGED <<mti, pid, rmutex>>
       \/ /\ wmutex = Dead /\ mdb_mutex_failed(Home[r])
    /\ wmutex' = r
    /\ cp' = [cp EXCEPT ![r] = "locked"]
    /\ rpc' = [rpc EXCEPT ![r] = "load"]
    /\ UNCHANGED <<numreaders, mrtxn, dbs, hdr, env, live, slot, rt, snap, nxt, img,
                   writers>>

CopyMetas(r) ==
    /\ rpc[r] = "active" /\ cp[r] = "locked"
    /\ img' = [img EXCEPT ![r] = mdb_env_pick_meta]
    /\ cp' = [cp EXCEPT ![r] = "pages"]
    /\ wmutex' = None
    /\ UNCHANGED <<mti, numreaders, pid, mrtxn, rmutex, dbs, hdr, env, live, rpc, slot, rt,
                   snap, nxt, writers>>

-----------------------------------------------------------------------------
\* The writer.

\* mdb_txn_renew0 of the write transaction.
LockWriter(p) ==
    /\ env[p] = "open" /\ wpc[p] = "idle"
    /\ \/ wmutex = None /\ UNCHANGED <<mti, pid, rmutex>>
       \/ wmutex = Dead /\ mdb_mutex_failed(p)
    /\ wmutex' = p
    /\ wtx' = [wtx EXCEPT ![p] = mti' + 1]
    /\ wpc' = [wpc EXCEPT ![p] = "run"]
    /\ UNCHANGED <<numreaders, mrtxn, dbs, hdr, env, live, readers, idx, acc, oldest>>

\* mdb_find_oldest, called by mdb_page_alloc.
StartScan(p) ==
    /\ wpc[p] = "run"
    /\ acc' = [acc EXCEPT ![p] = wtx[p] - 1]
    /\ idx' = [idx EXCEPT ![p] = numreaders]
    /\ wpc' = [wpc EXCEPT ![p] = "scan"]
    /\ UNCHANGED <<shared, env, live, readers, wtx, oldest>>

ScanSlot(p) ==
    LET s == idx[p] - 1
    IN /\ wpc[p] = "scan" /\ idx[p] > 0
       /\ acc' = [acc EXCEPT ![p] =
                    IF pid[s] # None /\ mrtxn[s] # Idle /\ mrtxn[s] < @
                    THEN mrtxn[s] ELSE @]
       /\ idx' = [idx EXCEPT ![p] = s]
       /\ UNCHANGED <<shared, env, live, readers, wpc, wtx, oldest>>

EndScan(p) ==
    /\ wpc[p] = "scan" /\ idx[p] = 0
    /\ oldest' = [oldest EXCEPT ![p] = acc[p]]
    /\ wpc' = [wpc EXCEPT ![p] = "run"] /\ acc' = [acc EXCEPT ![p] = 0]
    /\ UNCHANGED <<shared, env, live, readers, wtx, idx>>

\* mdb_env_write_meta: the two parts of the page, then mti_txnid.
WriteDbs(p) ==
    /\ wpc[p] = "run" /\ wtx[p] <= MaxTxn
    /\ dbs' = [dbs EXCEPT ![wtx[p] % 2] = wtx[p]]
    /\ wpc' = [wpc EXCEPT ![p] = "half"]
    /\ UNCHANGED <<mti, numreaders, pid, mrtxn, rmutex, wmutex, hdr, env, live, readers,
                   wtx, idx, acc, oldest>>

WriteHdr(p) ==
    /\ wpc[p] = "half"
    /\ hdr' = [hdr EXCEPT ![wtx[p] % 2] = wtx[p]]
    /\ wpc' = [wpc EXCEPT ![p] = "wrote"]
    /\ UNCHANGED <<mti, numreaders, pid, mrtxn, rmutex, wmutex, dbs, env, live, readers,
                   wtx, idx, acc, oldest>>

PublishTxnid(p) ==
    /\ wpc[p] = "wrote"
    /\ mti' = wtx[p]
    /\ wpc' = [wpc EXCEPT ![p] = "done"]
    /\ UNCHANGED <<numreaders, pid, mrtxn, rmutex, wmutex, dbs, hdr, env, live, readers,
                   wtx, idx, acc, oldest>>

\* mdb_txn_end of the write transaction, committed or aborted.
UnlockWriter(p) ==
    /\ wpc[p] \in {"run", "done"}
    /\ wmutex' = None
    /\ wpc' = [wpc EXCEPT ![p] = "idle"] /\ wtx' = [wtx EXCEPT ![p] = 0]
    /\ UNCHANGED <<mti, numreaders, pid, mrtxn, rmutex, dbs, hdr, env, live, readers,
                   idx, acc, oldest>>

Next ==
    \/ \E p \in Proc :
          \/ LockExclusive(p) \/ WaitShared(p) \/ LockShared(p)
          \/ mdb_env_setup_locks(p) \/ mdb_env_share_locks(p)
          \/ mdb_env_close(p) \/ Die(p) \/ mdb_reader_check(p)
          \/ LockWriter(p) \/ StartScan(p) \/ ScanSlot(p) \/ EndScan(p)
          \/ WriteDbs(p) \/ WriteHdr(p) \/ PublishTxnid(p) \/ UnlockWriter(p)
    \/ \E r \in Rtx :
          \/ LockReaders(r) \/ ClaimSlot(r)
          \/ LoadTxnid(r) \/ StoreTxnid(r) \/ CheckTxnid(r)
          \/ CopyDbs(r) \/ CopyLast(r)
          \/ mdb_txn_reset(r) \/ mdb_txn_abort(r) \/ mdb_txn_renew(r) \/ ReleaseSlot(r)
          \/ StartCopy(r) \/ BlockWriters(r) \/ CopyMetas(r)

Spec == Init /\ [][Next]_vars

-----------------------------------------------------------------------------
ReaderStates == {"idle", "claim", "load", "store", "check", "valid", "copy", "active",
                 "parked", "ending"}

\* The state components have their types.
TypeOK ==
    /\ mti \in Nat /\ numreaders \in 0..MaxReaders
    /\ pid \in [Slot -> Proc \cup {None}]
    /\ mrtxn \in [Slot -> Nat \cup {Idle}]
    /\ rmutex \in Rtx \cup {None, Dead} /\ wmutex \in Proc \cup Rtx \cup {None, Dead}
    /\ dbs \in [0..1 -> Nat] /\ hdr \in [0..1 -> Nat]
    /\ env \in [Proc -> {"closed", "wait", "excl", "reset", "open"}]
    /\ live \subseteq Proc
    /\ oldest \in [Proc -> Nat] /\ wtx \in [Proc -> Nat]
    /\ idx \in [Proc -> 0..MaxReaders] /\ acc \in [Proc -> Nat]
    /\ wpc \in [Proc -> {"idle", "run", "scan", "half", "wrote", "done"}]
    /\ rpc \in [Rtx -> ReaderStates] /\ slot \in [Rtx -> Slot]
    /\ rt \in [Rtx -> Nat] /\ snap \in [Rtx -> Nat] /\ nxt \in [Rtx -> Nat]
    /\ cp \in [Rtx -> {"no", "wait", "locked", "pages"}] /\ img \in [Rtx -> Nat]

Pinned(r) == rpc[r] \in {"valid", "copy", "active"}

\* The writer never takes a snapshot in use for an old one: whatever
\* happens while it scans the table without a lock, the oldest id any
\* process relies on is at most the id of every reader that passed the
\* check of mdb_txn_renew0.
PinRespected == \A r \in Rtx, p \in Proc : Pinned(r) => oldest[p] <= rt[r]

\* What a reader reads is never older than what it announced: the meta page
\* it copies, though two later commits may have rewritten it in the
\* meantime, holds its commit or a later one.
SnapshotFresh ==
    \A r \in Rtx : /\ rpc[r] \in {"copy", "active"} => rt[r] <= snap[r]
                   /\ rpc[r] = "active" => rt[r] <= nxt[r]

\* The newest meta page in a copy made by mdb_env_copyfd0 is that of the
\* snapshot its reader pins, whose pages stay as they are while they are
\* copied.
CopyPinned == \A r \in Rtx : cp[r] = "pages" => img[r] = rt[r] /\ snap[r] = rt[r]

\* What is read and what is copied belongs to the snapshot announced
\* (mdb_txn_renew0, mdb_env_copyfd0).
SnapshotsIntact == SnapshotFresh /\ CopyPinned

HoldsSlot(r) == rpc[r] \notin {"idle", "claim"}

\* A slot has one owner: clearing slots of dead processes, reusing them,
\* and publishing new ones never take a slot from a live reader or give it
\* to two, and every slot in use is among those the writer scans.
SlotsExclusive ==
    /\ \A r \in Rtx : HoldsSlot(r) => pid[slot[r]] = Home[r] /\ slot[r] < numreaders
    /\ \A r, q \in Rtx : rpc[r] # "idle" /\ rpc[q] # "idle" /\ slot[r] = slot[q] => r = q

\* "Keep mti_txnid updated, otherwise next writer can overwrite data which
\* latest meta page refers to" (mdb_mutex_failed): a write transaction
\* follows the newest meta page, whoever died, closed or opened before it.
WriterFollowsNewest ==
    \A p \in Proc : wpc[p] \in {"run", "scan"} => wtx[p] = mdb_env_pick_meta + 1

\* For a process that has the environment open mti_txnid never goes back.
TxnidGrows == [][(\E p \in Proc : env[p] = "open" /\ env'[p] = "open") => mti <= mti']_vars
=============================================================================
