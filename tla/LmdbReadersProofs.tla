------------------------- MODULE LmdbReadersProofs --------------------------
(***************************************************************************)
(* The inductive invariant of LmdbReaders and the safety theorems, for any *)
(* processes, read transactions and size of the reader table, as long as   *)
(* no process dies while it sets up the lock file.  One lemma for each     *)
(* conjunct of the invariant says that every step keeps it.                *)
(***************************************************************************)
EXTENDS LmdbReaders, TLAPS

Newest == mdb_env_pick_meta

\* Who may be in the environment, and what a process outside it left behind.
EnvInv ==
    /\ \A p, q \in Proc : env[p] \in {"excl", "reset"} /\ q # p => env[q] \in {"closed", "wait"}
    /\ \A p \in Proc : env[p] # "open" => wpc[p] = "idle" /\ oldest[p] = 0
    /\ \A r \in Rtx : rpc[r] # "idle" => env[Home[r]] = "open" /\ Home[r] \in live

\* Each mutex is held by the thread that is where the mutex is held.
MutexInv ==
    /\ \A p \in Proc : wpc[p] # "idle" <=> wmutex = p
    /\ \A r \in Rtx : cp[r] = "locked" <=> wmutex = r
    /\ \A r \in Rtx : rpc[r] = "claim" <=> rmutex = r
    /\ \A r \in Rtx : cp[r] = "wait" => rpc[r] = "parked"
    /\ \A r \in Rtx : cp[r] = "pages" => rpc[r] = "active"
    /\ \A r \in Rtx : cp[r] = "locked" => rpc[r] \in {"load", "store", "check", "valid", "copy", "active"}

\* Slots have one owner, and carry the id their reader announced.
SlotInv ==
    /\ \A r \in Rtx : rpc[r] # "idle" => slot[r] < numreaders
    /\ \A r \in Rtx : HoldsSlot(r) => pid[slot[r]] = Home[r]
    /\ \A r, q \in Rtx : rpc[r] # "idle" /\ rpc[q] # "idle" /\ slot[r] = slot[q] => r = q

Announced(r) == rpc[r] \in {"check", "valid", "copy", "active"}

PinInv ==
    /\ \A r \in Rtx : Announced(r) => mrtxn[slot[r]] = rt[r]
    /\ \A r \in Rtx : Announced(r) \/ rpc[r] = "store" => rt[r] <= mti
    /\ \A p \in Proc : oldest[p] <= mti
    /\ \A r \in Rtx, p \in Proc : Pinned(r) => oldest[p] <= rt[r]
    /\ \A p \in Proc : wpc[p] = "scan" => acc[p] <= mti
    /\ \A r \in Rtx, p \in Proc : wpc[p] = "scan" /\ Pinned(r) /\ idx[p] <= slot[r] => acc[p] <= rt[r]

\* The newest meta page holds its commit, the other one the commit before
\* or, while it is being written, the next.
MetaInv ==
    /\ hdr[Newest % 2] = Newest /\ dbs[Newest % 2] = Newest
    /\ Newest - 1 <= hdr[1 - (Newest % 2)]
    /\ Newest - 1 <= dbs[1 - (Newest % 2)]
    /\ \A p \in Proc : wpc[p] = "half" => dbs[wtx[p] % 2] = wtx[p]

\* mti_txnid is the newest commit but for the moment between the two
\* writes, and after a death in that moment.
TxnidInv ==
    /\ mti <= Newest
    /\ \/ \E p \in Proc : env[p] = "reset"
       \/ mti = Newest
       \/ mti = Newest - 1 /\ (wmutex = Dead \/ \E p \in Proc : wpc[p] = "wrote")
    /\ \A p \in Proc : wpc[p] \in {"run", "scan", "half", "wrote"} => wtx[p] = mti + 1
    /\ \A p \in Proc : wpc[p] \in {"run", "scan", "half"} => mti = Newest
    /\ \A p \in Proc : wpc[p] = "wrote" => wtx[p] = Newest
    /\ \A p \in Proc : wpc[p] = "done" => mti = Newest
    /\ \A r \in Rtx : cp[r] = "locked" => mti = Newest

\* What the readers copied.
CopyInv ==
    /\ SnapshotFresh
    /\ \A r \in Rtx : cp[r] = "locked" /\ (Announced(r) \/ rpc[r] = "store") => rt[r] = mti
    /\ \A r \in Rtx : cp[r] = "locked" /\ rpc[r] \in {"copy", "active"} => snap[r] = mti
    /\ CopyPinned

Inv == TypeOK /\ EnvInv /\ MutexInv /\ SlotInv /\ PinInv /\ MetaInv /\ TxnidInv /\ CopyInv

\* Remainders by two.
LEMMA Parity ==
    /\ \A n \in Nat : n % 2 \in 0..1 /\ (n + 1) % 2 = 1 - (n % 2)
    /\ \A n \in Nat : 1 - (n % 2) \in 0..1
  BY SMT

\* mdb_env_pick_meta returns an id of one of the pages, and none is newer.
LEMMA NewestFacts ==
    ASSUME TypeOK
    PROVE  /\ Newest \in Nat
           /\ \E i \in 0..1 : Newest = hdr[i]
           /\ \A i \in 0..1 : hdr[i] <= Newest
<1>1. hdr[0] \in Nat /\ hdr[1] \in Nat
  BY DEF TypeOK
<1> QED
  BY <1>1 DEF Newest, mdb_env_pick_meta

\* The slots are numbered from 0.
LEMMA SlotFacts ==
    /\ 0 \in Slot /\ 0 \in 0..MaxReaders
    /\ \A s \in Slot : s \in Nat /\ s \in 0..MaxReaders /\ s + 1 \in 0..MaxReaders
    /\ \A n \in 0..MaxReaders : n \in Nat /\ (n > 0 => n - 1 \in Slot)
  BY LmdbReadersAssumption DEF Slot

\* mdb_reader_check0 leaves the slots of live readers alone.
LEMMA CheckFacts ==
    ASSUME Inv, NEW p \in Proc
    PROVE  /\ mdb_reader_check0(p) \in [Slot -> Proc \cup {None}]
           /\ \A r \in Rtx : HoldsSlot(r) => mdb_reader_check0(p)[slot[r]] = Home[r]
<1>1. mdb_reader_check0(p) \in [Slot -> Proc \cup {None}]
  BY Zenon DEF Inv, TypeOK, mdb_reader_check0
<1>2. ASSUME NEW r \in Rtx, HoldsSlot(r) PROVE mdb_reader_check0(p)[slot[r]] = Home[r]
  <2>1. slot[r] \in Slot /\ pid[slot[r]] = Home[r] /\ Home[r] \in live
    BY <1>2, ZenonT(60) DEF Inv, TypeOK, SlotInv, EnvInv, HoldsSlot
  <2> QED
    BY <2>1, Zenon DEF mdb_reader_check0
<1> QED
  BY <1>1, <1>2, Zenon

\* Nothing runs while a process sets up the lock file.
LEMMA AloneFacts ==
    ASSUME Inv, NEW p \in Proc, env[p] \in {"excl", "reset"}
    PROVE  /\ \A q \in Proc : env[q] # "open" /\ wpc[q] = "idle" /\ oldest[q] = 0
           /\ \A r \in Rtx : rpc[r] = "idle" /\ cp[r] = "no"
<1>1. \A q \in Proc : env[q] # "open"
  BY Zenon DEF Inv, EnvInv
<1>2. \A r \in Rtx : rpc[r] = "idle"
  BY <1>1, LmdbReadersAssumption DEF Inv, EnvInv, TypeOK
<1>3. \A r \in Rtx : cp[r] = "no"
  BY <1>2, Zenon DEF Inv, MutexInv, TypeOK
<1> QED
  BY <1>1, <1>2, <1>3, Zenon DEF Inv, EnvInv

\* The slot LockReaders takes is nobody's.
LEMMA ClaimFacts ==
    ASSUME Inv, NEW r \in Rtx, LockReaders(r)
    PROVE  /\ rpc[r] = "idle" /\ rpc'[r] \in {"idle", "claim"}
           /\ \A q \in Rtx : q # r => rpc'[q] = rpc[q] /\ slot'[q] = slot[q]
           /\ \A q \in Rtx : rpc[q] # "idle" => mrtxn'[slot[q]] = mrtxn[slot[q]]
<1> DEFINE table == IF rmutex = Dead THEN mdb_reader_check0(Home[r]) ELSE pid
<1> USE LmdbReadersAssumption DEF Inv
<1>1. \A q \in Rtx : HoldsSlot(q) => table[slot[q]] = Home[q]
  BY CheckFacts, ZenonT(60) DEF SlotInv
<1>2. \A q \in Rtx : rpc[q] # "idle" => HoldsSlot(q) /\ slot[q] \in Slot
  BY DEF LockReaders, Available, MutexInv, HoldsSlot, TypeOK
<1>3. ASSUME NEW s \in Slot, IsFreeSlot(table, s), NEW q \in Rtx, rpc[q] # "idle"
      PROVE  slot[q] # s
  BY <1>1, <1>2, <1>3 DEF IsFreeSlot, SlotInv, TypeOK
<1>4. CASE UNCHANGED <<mrtxn, slot, rpc>>
  BY <1>4, Zenon DEF LockReaders
<1>5. ASSUME NEW s \in Slot, IsFreeSlot(table, s),
             mrtxn' = [mrtxn EXCEPT ![s] = Idle],
             slot' = [slot EXCEPT ![r] = s],
             rpc' = [rpc EXCEPT ![r] = "claim"]
      PROVE  /\ rpc'[r] = "claim"
             /\ \A q \in Rtx : q # r => rpc'[q] = rpc[q] /\ slot'[q] = slot[q]
             /\ \A q \in Rtx : rpc[q] # "idle" => mrtxn'[slot[q]] = mrtxn[slot[q]]
  BY <1>2, <1>3, <1>5, ZenonT(60) DEF TypeOK
<1> QED
  BY <1>4, <1>5, Zenon DEF LockReaders

\* One writer at a time.
LEMMA WriterFacts ==
    ASSUME Inv, NEW p \in Proc, wpc[p] # "idle"
    PROVE  /\ \A q \in Proc : q # p => wpc[q] = "idle"
           /\ \A r \in Rtx : cp[r] # "locked"
           /\ env[p] = "open" /\ wmutex = p
  BY LmdbReadersAssumption DEF Inv, MutexInv, EnvInv

\* The second part of the meta page makes it the newest.
LEMMA HdrFacts ==
    ASSUME Inv, NEW p \in Proc, WriteHdr(p)
    PROVE  wtx[p] = Newest + 1 /\ Newest' = Newest + 1
<1>1. wtx[p] = Newest + 1 /\ wtx[p] % 2 = 1 - (Newest % 2) /\ Newest \in Nat
  BY NewestFacts, Parity, Zenon DEF WriteHdr, TxnidInv, Inv
<1>2. Newest % 2 \in 0..1 /\ 1 - (Newest % 2) \in 0..1
  BY <1>1, Parity, Zenon
<1>3. hdr'[1 - (Newest % 2)] = Newest + 1 /\ hdr'[Newest % 2] = Newest
  BY <1>1, <1>2, Zenon DEF WriteHdr, TypeOK, MetaInv, Inv
<1> QED
  BY <1>1, <1>2, <1>3 DEF Newest, mdb_env_pick_meta

\* Whoever takes me_wmutex finds mti_txnid up to date, or brings it up to
\* date.
LEMMA TakeFacts ==
    ASSUME Inv, NEW p \in Proc, env[p] = "open",
           (wmutex = None /\ mti' = mti) \/ (wmutex = Dead /\ mti' = mdb_env_pick_meta)
    PROVE  /\ mti' = Newest
           /\ \A q \in Proc : wpc[q] = "idle"
           /\ \A r \in Rtx : cp[r] # "locked"
<1> USE LmdbReadersAssumption DEF Inv
<1>1. wmutex \notin Proc \cup Rtx
  BY Zenon DEF None, Dead
<1>2. \A q \in Proc : wpc[q] = "idle"
  BY <1>1, Zenon DEF MutexInv
<1>3. \A r \in Rtx : cp[r] # "locked"
  BY <1>1, Zenon DEF MutexInv
<1>4. \A q \in Proc : env[q] # "reset"
  BY Zenon DEF EnvInv
<1>5. mti' = Newest
  BY <1>2, <1>4, Zenon DEF TxnidInv, Newest, None, Dead
<1> QED
  BY <1>2, <1>3, <1>5, Zenon

\* A meta page holds the commit of its number or a later one.
LEMMA FreshFacts ==
    ASSUME Inv, NEW t \in Nat, t <= Newest
    PROVE  /\ t <= dbs[t % 2] /\ t <= hdr[t % 2]
           /\ t = Newest => dbs[t % 2] = t
<1>1. /\ Newest \in Nat /\ t % 2 \in 0..1 /\ Newest % 2 \in 0..1
      /\ \A i \in 0..1 : dbs[i] \in Nat /\ hdr[i] \in Nat
  BY NewestFacts, Parity, Zenon DEF Inv, TypeOK
<1>2. CASE t % 2 = Newest % 2
  BY <1>1, <1>2, Zenon DEF Inv, MetaInv
<1>3. CASE t % 2 = 1 - (Newest % 2) /\ t # Newest
  BY <1>1, <1>3 DEF Inv, MetaInv
<1> QED
  BY <1>1, <1>2, <1>3

\* Every step keeps the types.
LEMMA TypeStep == Inv /\ DieExclusive = {} /\ [Next]_vars => TypeOK'
<1> SUFFICES ASSUME Inv, DieExclusive = {}, [Next]_vars PROVE TypeOK'
  BY Zenon
<1> USE LmdbReadersAssumption DEF Inv, TypeOK
<1>1. ASSUME NEW p \in Proc, LockExclusive(p) PROVE TypeOK'
  BY <1>1, Zenon DEF LockExclusive, Holds, shared, readers, writers, copy, ReaderStates
<1>2. ASSUME NEW p \in Proc, WaitShared(p) PROVE TypeOK'
  BY <1>2, Zenon DEF WaitShared, Holds, shared, readers, writers, copy, ReaderStates
<1>3. ASSUME NEW p \in Proc, LockShared(p) PROVE TypeOK'
  BY <1>3, Zenon DEF LockShared, shared, readers, writers, copy, ReaderStates
<1>4. ASSUME NEW p \in Proc, mdb_env_setup_locks(p) PROVE TypeOK'
  <2>a. /\ mti' \in Nat /\ numreaders' \in 0..MaxReaders
        /\ pid' \in [Slot -> Proc \cup {None}]
        /\ mrtxn' \in [Slot -> Nat \cup {Idle}]
        /\ dbs' \in [0..1 -> Nat] /\ hdr' \in [0..1 -> Nat]
    BY <1>4, SlotFacts, Zenon DEF mdb_env_setup_locks, shared, readers, writers, copy, ReaderStates
  <2>b. rmutex' \in Rtx \cup {None, Dead} /\ wmutex' \in Proc \cup Rtx \cup {None, Dead}
    BY <1>4, Zenon DEF mdb_env_setup_locks, shared, readers, writers, copy, ReaderStates
  <2>c. /\ env' \in [Proc -> {"closed", "wait", "excl", "reset", "open"}]
        /\ live' \subseteq Proc
        /\ wpc' \in [Proc -> {"idle", "run", "scan", "half", "wrote", "done"}]
    BY <1>4, Zenon DEF mdb_env_setup_locks, shared, readers, writers, copy, ReaderStates
  <2>d. /\ oldest' \in [Proc -> Nat] /\ wtx' \in [Proc -> Nat]
        /\ idx' \in [Proc -> 0..MaxReaders] /\ acc' \in [Proc -> Nat]
    BY <1>4, SlotFacts, Zenon DEF mdb_env_setup_locks, shared, readers, writers, copy, ReaderStates
  <2>e. /\ rpc' \in [Rtx -> ReaderStates] /\ slot' \in [Rtx -> Slot]
        /\ cp' \in [Rtx -> {"no", "wait", "locked", "pages"}]
    BY <1>4, SlotFacts, Zenon DEF mdb_env_setup_locks, shared, readers, writers, copy, ReaderStates
  <2>f. /\ rt' \in [Rtx -> Nat] /\ snap' \in [Rtx -> Nat] /\ nxt' \in [Rtx -> Nat]
        /\ img' \in [Rtx -> Nat]
    BY <1>4, SlotFacts, Zenon DEF mdb_env_setup_locks, shared, readers, writers, copy, ReaderStates
  <2> QED
    BY <2>a, <2>b, <2>c, <2>d, <2>e, <2>f, Zenon
<1>5. ASSUME NEW p \in Proc, mdb_env_share_locks(p) PROVE TypeOK'
  <2>1. mdb_env_pick_meta \in Nat
    BY NewestFacts, Zenon DEF Newest, TypeOK
  <2>a. /\ mti' \in Nat /\ numreaders' \in 0..MaxReaders
        /\ pid' \in [Slot -> Proc \cup {None}]
        /\ mrtxn' \in [Slot -> Nat \cup {Idle}]
        /\ dbs' \in [0..1 -> Nat] /\ hdr' \in [0..1 -> Nat]
    BY <1>5, <2>1, Zenon DEF mdb_env_share_locks, shared, readers, writers, copy, ReaderStates
  <2>b. rmutex' \in Rtx \cup {None, Dead} /\ wmutex' \in Proc \cup Rtx \cup {None, Dead}
    BY <1>5, Zenon DEF mdb_env_share_locks, shared, readers, writers, copy, ReaderStates
  <2>c. /\ env' \in [Proc -> {"closed", "wait", "excl", "reset", "open"}]
        /\ live' \subseteq Proc
        /\ wpc' \in [Proc -> {"idle", "run", "scan", "half", "wrote", "done"}]
    BY <1>5, Zenon DEF mdb_env_share_locks, shared, readers, writers, copy, ReaderStates
  <2>d. /\ oldest' \in [Proc -> Nat] /\ wtx' \in [Proc -> Nat]
        /\ idx' \in [Proc -> 0..MaxReaders] /\ acc' \in [Proc -> Nat]
    BY <1>5, <2>1, Zenon DEF mdb_env_share_locks, shared, readers, writers, copy, ReaderStates
  <2>e. /\ rpc' \in [Rtx -> ReaderStates] /\ slot' \in [Rtx -> Slot]
        /\ cp' \in [Rtx -> {"no", "wait", "locked", "pages"}]
    BY <1>5, <2>1, Zenon DEF mdb_env_share_locks, shared, readers, writers, copy, ReaderStates
  <2>f. /\ rt' \in [Rtx -> Nat] /\ snap' \in [Rtx -> Nat] /\ nxt' \in [Rtx -> Nat]
        /\ img' \in [Rtx -> Nat]
    BY <1>5, <2>1, Zenon DEF mdb_env_share_locks, shared, readers, writers, copy, ReaderStates
  <2> QED
    BY <2>a, <2>b, <2>c, <2>d, <2>e, <2>f, Zenon
<1>6. ASSUME NEW p \in Proc, mdb_env_close(p) PROVE TypeOK'
  <2>a. /\ mti' \in Nat /\ numreaders' \in 0..MaxReaders
        /\ pid' \in [Slot -> Proc \cup {None}]
        /\ mrtxn' \in [Slot -> Nat \cup {Idle}]
        /\ dbs' \in [0..1 -> Nat] /\ hdr' \in [0..1 -> Nat]
    BY <1>6, SlotFacts, Zenon DEF mdb_env_close, Quiet, Forget, Mine, shared, readers, writers,
       copy, ReaderStates
  <2>b. rmutex' \in Rtx \cup {None, Dead} /\ wmutex' \in Proc \cup Rtx \cup {None, Dead}
    BY <1>6, Zenon DEF mdb_env_close, Quiet, Forget, Mine, shared, readers, writers, copy,
       ReaderStates
  <2>c. /\ env' \in [Proc -> {"closed", "wait", "excl", "reset", "open"}]
        /\ live' \subseteq Proc
        /\ wpc' \in [Proc -> {"idle", "run", "scan", "half", "wrote", "done"}]
    BY <1>6, Zenon DEF mdb_env_close, Quiet, Forget, Mine, shared, readers, writers, copy,
       ReaderStates
  <2>d. /\ oldest' \in [Proc -> Nat] /\ wtx' \in [Proc -> Nat]
        /\ idx' \in [Proc -> 0..MaxReaders] /\ acc' \in [Proc -> Nat]
    BY <1>6, SlotFacts, Zenon DEF mdb_env_close, Quiet, Forget, Mine, shared, readers, writers,
       copy, ReaderStates
  <2>e. /\ rpc' \in [Rtx -> ReaderStates] /\ slot' \in [Rtx -> Slot]
        /\ cp' \in [Rtx -> {"no", "wait", "locked", "pages"}]
    BY <1>6, SlotFacts, Zenon DEF mdb_env_close, Quiet, Forget, Mine, shared, readers, writers,
       copy, ReaderStates
  <2>f. /\ rt' \in [Rtx -> Nat] /\ snap' \in [Rtx -> Nat] /\ nxt' \in [Rtx -> Nat]
        /\ img' \in [Rtx -> Nat]
    BY <1>6, SlotFacts, Zenon DEF mdb_env_close, Quiet, Forget, Mine, shared, readers, writers,
       copy, ReaderStates
  <2> QED
    BY <2>a, <2>b, <2>c, <2>d, <2>e, <2>f, Zenon
<1>7. ASSUME NEW p \in Proc, Die(p) PROVE TypeOK'
  <2>a. /\ mti' \in Nat /\ numreaders' \in 0..MaxReaders
        /\ pid' \in [Slot -> Proc \cup {None}]
        /\ mrtxn' \in [Slot -> Nat \cup {Idle}]
        /\ dbs' \in [0..1 -> Nat] /\ hdr' \in [0..1 -> Nat]
    BY <1>7, SlotFacts, Zenon DEF Die, Forget, Mine, Threads, shared, readers, writers, copy,
       ReaderStates
  <2>b. rmutex' \in Rtx \cup {None, Dead} /\ wmutex' \in Proc \cup Rtx \cup {None, Dead}
    BY <1>7, Zenon DEF Die, Forget, Mine, Threads, shared, readers, writers, copy, ReaderStates
  <2>c. /\ env' \in [Proc -> {"closed", "wait", "excl", "reset", "open"}]
        /\ live' \subseteq Proc
        /\ wpc' \in [Proc -> {"idle", "run", "scan", "half", "wrote", "done"}]
    BY <1>7, Zenon DEF Die, Forget, Mine, Threads, shared, readers, writers, copy, ReaderStates
  <2>d. /\ oldest' \in [Proc -> Nat] /\ wtx' \in [Proc -> Nat]
        /\ idx' \in [Proc -> 0..MaxReaders] /\ acc' \in [Proc -> Nat]
    BY <1>7, SlotFacts, Zenon DEF Die, Forget, Mine, Threads, shared, readers, writers, copy,
       ReaderStates
  <2>e. /\ rpc' \in [Rtx -> ReaderStates] /\ slot' \in [Rtx -> Slot]
        /\ cp' \in [Rtx -> {"no", "wait", "locked", "pages"}]
    BY <1>7, SlotFacts, Zenon DEF Die, Forget, Mine, Threads, shared, readers, writers, copy,
       ReaderStates
  <2>f. /\ rt' \in [Rtx -> Nat] /\ snap' \in [Rtx -> Nat] /\ nxt' \in [Rtx -> Nat]
        /\ img' \in [Rtx -> Nat]
    BY <1>7, SlotFacts, Zenon DEF Die, Forget, Mine, Threads, shared, readers, writers, copy,
       ReaderStates
  <2> QED
    BY <2>a, <2>b, <2>c, <2>d, <2>e, <2>f, Zenon
<1>8. ASSUME NEW p \in Proc, mdb_reader_check(p) PROVE TypeOK'
  BY <1>8, Zenon DEF mdb_reader_check, Available, mdb_reader_check0, shared, readers, writers,
     copy, ReaderStates
<1>9. ASSUME NEW p \in Proc, LockWriter(p) PROVE TypeOK'
  <2>1. mdb_env_pick_meta \in Nat
    BY NewestFacts, Zenon DEF Newest, TypeOK
  <2>a. /\ mti' \in Nat /\ numreaders' \in 0..MaxReaders
        /\ pid' \in [Slot -> Proc \cup {None}]
        /\ mrtxn' \in [Slot -> Nat \cup {Idle}]
        /\ dbs' \in [0..1 -> Nat] /\ hdr' \in [0..1 -> Nat]
    BY <1>9, <2>1, ZenonT(60) DEF LockWriter, mdb_mutex_failed, Available, mdb_reader_check0, shared,
       readers, writers, copy, ReaderStates
  <2>b. rmutex' \in Rtx \cup {None, Dead} /\ wmutex' \in Proc \cup Rtx \cup {None, Dead}
    BY <1>9, Zenon DEF LockWriter, mdb_mutex_failed, Available, mdb_reader_check0, shared, readers,
       writers, copy, ReaderStates
  <2>c. /\ env' \in [Proc -> {"closed", "wait", "excl", "reset", "open"}]
        /\ live' \subseteq Proc
        /\ wpc' \in [Proc -> {"idle", "run", "scan", "half", "wrote", "done"}]
    BY <1>9, Zenon DEF LockWriter, mdb_mutex_failed, Available, mdb_reader_check0, shared, readers,
       writers, copy, ReaderStates
  <2>d. /\ oldest' \in [Proc -> Nat] /\ wtx' \in [Proc -> Nat]
        /\ idx' \in [Proc -> 0..MaxReaders] /\ acc' \in [Proc -> Nat]
    BY <1>9, <2>1 DEF LockWriter, mdb_mutex_failed, Available, mdb_reader_check0, shared,
       readers, writers, copy, ReaderStates
  <2>e. /\ rpc' \in [Rtx -> ReaderStates] /\ slot' \in [Rtx -> Slot]
        /\ cp' \in [Rtx -> {"no", "wait", "locked", "pages"}]
    BY <1>9, <2>1, Zenon DEF LockWriter, mdb_mutex_failed, Available, mdb_reader_check0, shared,
       readers, writers, copy, ReaderStates
  <2>f. /\ rt' \in [Rtx -> Nat] /\ snap' \in [Rtx -> Nat] /\ nxt' \in [Rtx -> Nat]
        /\ img' \in [Rtx -> Nat]
    BY <1>9, <2>1, Zenon DEF LockWriter, mdb_mutex_failed, Available, mdb_reader_check0, shared,
       readers, writers, copy, ReaderStates
  <2> QED
    BY <2>a, <2>b, <2>c, <2>d, <2>e, <2>f, Zenon
<1>10. ASSUME NEW p \in Proc, StartScan(p) PROVE TypeOK'
  <2>1. wtx[p] - 1 \in Nat
    BY <1>10 DEF StartScan, TxnidInv
  <2> QED
    BY <1>10, <2>1, Zenon DEF StartScan, shared, readers, writers, copy, ReaderStates
<1>11. ASSUME NEW p \in Proc, ScanSlot(p) PROVE TypeOK'
  <2>1. idx[p] - 1 \in Slot /\ idx[p] - 1 \in 0..MaxReaders
    BY <1>11, SlotFacts, Zenon DEF ScanSlot
  <2>2. mrtxn[idx[p] - 1] \in Nat \cup {Idle}
    BY <2>1, Zenon
  <2>3. acc' \in [Proc -> Nat] /\ idx' \in [Proc -> 0..MaxReaders]
    BY <1>11, <2>1, <2>2, Zenon DEF ScanSlot
  <2> QED
    BY <1>11, <2>3, Zenon DEF ScanSlot, shared, readers, writers, copy, ReaderStates
<1>12. ASSUME NEW p \in Proc, EndScan(p) PROVE TypeOK'
  BY <1>12, Zenon DEF EndScan, shared, readers, writers, copy, ReaderStates
<1>13. ASSUME NEW p \in Proc, WriteDbs(p) PROVE TypeOK'
  BY <1>13, Zenon DEF WriteDbs, shared, readers, writers, copy, ReaderStates
<1>14. ASSUME NEW p \in Proc, WriteHdr(p) PROVE TypeOK'
  BY <1>14, Zenon DEF WriteHdr, shared, readers, writers, copy, ReaderStates
<1>15. ASSUME NEW p \in Proc, PublishTxnid(p) PROVE TypeOK'
  BY <1>15, Zenon DEF PublishTxnid, shared, readers, writers, copy, ReaderStates
<1>16. ASSUME NEW p \in Proc, UnlockWriter(p) PROVE TypeOK'
  BY <1>16, Zenon DEF UnlockWriter, shared, readers, writers, copy, ReaderStates
<1>17. ASSUME NEW r \in Rtx, LockReaders(r) PROVE TypeOK'
  <2> DEFINE table == IF rmutex = Dead THEN mdb_reader_check0(Home[r]) ELSE pid
  <2>1. table \in [Slot -> Proc \cup {None}]
    BY CheckFacts, Zenon
  <2>2. UNCHANGED <<mti, wmutex, dbs, hdr, env, rt, snap, nxt, cp, img, wpc, wtx, idx, acc,
     oldest>>
    BY <1>17, Zenon DEF LockReaders, writers, copy
  <2>3. live' \subseteq Proc
    BY <1>17 DEF LockReaders
  <2>4. CASE pid' = table /\ rmutex' = None /\ UNCHANGED <<mrtxn, numreaders, slot, rpc>>
    BY <2>1, <2>2, <2>3, <2>4, Zenon
  <2>5. ASSUME NEW s \in Slot, IsFreeSlot(table, s),
               pid' = [table EXCEPT ![s] = None],
               mrtxn' = [mrtxn EXCEPT ![s] = Idle],
               numreaders' = IF s = numreaders THEN s + 1 ELSE numreaders,
               slot' = [slot EXCEPT ![r] = s],
               rmutex' = r,
               rpc' = [rpc EXCEPT ![r] = "claim"]
        PROVE  TypeOK'
    <3>1. numreaders' \in 0..MaxReaders
      BY <2>5, SlotFacts, Zenon
    <3>2. pid' \in [Slot -> Proc \cup {None}] /\ mrtxn' \in [Slot -> Nat \cup {Idle}]
      BY <2>1, <2>5, Zenon
    <3>3. slot' \in [Rtx -> Slot] /\ rpc' \in [Rtx -> ReaderStates]
      BY <2>5, Zenon DEF ReaderStates
    <3> QED
      BY <2>2, <2>3, <2>5, <3>1, <3>2, <3>3, Zenon
  <2> QED
    BY <1>17, <2>4, <2>5, Zenon DEF LockReaders
<1>18. ASSUME NEW r \in Rtx, ClaimSlot(r) PROVE TypeOK'
  BY <1>18, Zenon DEF ClaimSlot, shared, readers, writers, copy, ReaderStates
<1>19. ASSUME NEW r \in Rtx, LoadTxnid(r) PROVE TypeOK'
  BY <1>19, Zenon DEF LoadTxnid, shared, readers, writers, copy, ReaderStates
<1>20. ASSUME NEW r \in Rtx, StoreTxnid(r) PROVE TypeOK'
  BY <1>20, Zenon DEF StoreTxnid, shared, readers, writers, copy, ReaderStates
<1>21. ASSUME NEW r \in Rtx, CheckTxnid(r) PROVE TypeOK'
  BY <1>21, Zenon DEF CheckTxnid, shared, readers, writers, copy, ReaderStates
<1>22. ASSUME NEW r \in Rtx, CopyDbs(r) PROVE TypeOK'
  <2>1. rt[r] % 2 \in 0..1
    BY Parity, Zenon
  <2> QED
    BY <1>22, <2>1, Zenon DEF CopyDbs, shared, readers, writers, copy, ReaderStates
<1>23. ASSUME NEW r \in Rtx, CopyLast(r) PROVE TypeOK'
  <2>1. rt[r] % 2 \in 0..1
    BY Parity, Zenon
  <2> QED
    BY <1>23, <2>1, Zenon DEF CopyLast, shared, readers, writers, copy, ReaderStates
<1>24. ASSUME NEW r \in Rtx, mdb_txn_reset(r) PROVE TypeOK'
  BY <1>24, Zenon DEF mdb_txn_reset, EndRead, shared, readers, writers, copy, ReaderStates
<1>25. ASSUME NEW r \in Rtx, mdb_txn_abort(r) PROVE TypeOK'
  BY <1>25, Zenon DEF mdb_txn_abort, EndRead, shared, readers, writers, copy, ReaderStates
<1>26. ASSUME NEW r \in Rtx, mdb_txn_renew(r) PROVE TypeOK'
  BY <1>26, Zenon DEF mdb_txn_renew, shared, readers, writers, copy, ReaderStates
<1>27. ASSUME NEW r \in Rtx, ReleaseSlot(r) PROVE TypeOK'
  <2>a. /\ mti' \in Nat /\ numreaders' \in 0..MaxReaders
        /\ pid' \in [Slot -> Proc \cup {None}]
        /\ mrtxn' \in [Slot -> Nat \cup {Idle}]
        /\ dbs' \in [0..1 -> Nat] /\ hdr' \in [0..1 -> Nat]
    BY <1>27, SlotFacts, Zenon DEF ReleaseSlot, shared, readers, writers, copy, ReaderStates
  <2>b. rmutex' \in Rtx \cup {None, Dead} /\ wmutex' \in Proc \cup Rtx \cup {None, Dead}
    BY <1>27, Zenon DEF ReleaseSlot, shared, readers, writers, copy, ReaderStates
  <2>c. /\ env' \in [Proc -> {"closed", "wait", "excl", "reset", "open"}]
        /\ live' \subseteq Proc
        /\ wpc' \in [Proc -> {"idle", "run", "scan", "half", "wrote", "done"}]
    BY <1>27, Zenon DEF ReleaseSlot, shared, readers, writers, copy, ReaderStates
  <2>d. /\ oldest' \in [Proc -> Nat] /\ wtx' \in [Proc -> Nat]
        /\ idx' \in [Proc -> 0..MaxReaders] /\ acc' \in [Proc -> Nat]
    BY <1>27, SlotFacts, Zenon DEF ReleaseSlot, shared, readers, writers, copy, ReaderStates
  <2>e. /\ rpc' \in [Rtx -> ReaderStates] /\ slot' \in [Rtx -> Slot]
        /\ cp' \in [Rtx -> {"no", "wait", "locked", "pages"}]
    BY <1>27, SlotFacts, Zenon DEF ReleaseSlot, shared, readers, writers, copy, ReaderStates
  <2>f. /\ rt' \in [Rtx -> Nat] /\ snap' \in [Rtx -> Nat] /\ nxt' \in [Rtx -> Nat]
        /\ img' \in [Rtx -> Nat]
    BY <1>27, SlotFacts, Zenon DEF ReleaseSlot, shared, readers, writers, copy,
       ReaderStates
  <2> QED
    BY <2>a, <2>b, <2>c, <2>d, <2>e, <2>f, Zenon
<1>28. ASSUME NEW r \in Rtx, StartCopy(r) PROVE TypeOK'
  BY <1>28, Zenon DEF StartCopy, EndRead, shared, readers, writers, copy, ReaderStates
<1>29. ASSUME NEW r \in Rtx, BlockWriters(r) PROVE TypeOK'
  <2>1. mdb_env_pick_meta \in Nat
    BY NewestFacts, Zenon DEF Newest, TypeOK
  <2>a. /\ mti' \in Nat /\ numreaders' \in 0..MaxReaders
        /\ pid' \in [Slot -> Proc \cup {None}]
        /\ mrtxn' \in [Slot -> Nat \cup {Idle}]
        /\ dbs' \in [0..1 -> Nat] /\ hdr' \in [0..1 -> Nat]
    BY <1>29, <2>1, ZenonT(60) DEF BlockWriters, mdb_mutex_failed, Available,
       mdb_reader_check0, shared,
       readers, writers, copy, ReaderStates
  <2>b. rmutex' \in Rtx \cup {None, Dead} /\ wmutex' \in Proc \cup Rtx \cup {None, Dead}
    BY <1>29, Zenon DEF BlockWriters, mdb_mutex_failed, Available, mdb_reader_check0, shared,
       readers, writers, copy, ReaderStates
  <2>c. /\ env' \in [Proc -> {"closed", "wait", "excl", "reset", "open"}]
        /\ live' \subseteq Proc
        /\ wpc' \in [Proc -> {"idle", "run", "scan", "half", "wrote", "done"}]
    BY <1>29, Zenon DEF BlockWriters, mdb_mutex_failed, Available, mdb_reader_check0, shared,
       readers, writers, copy, ReaderStates
  <2>d. /\ oldest' \in [Proc -> Nat] /\ wtx' \in [Proc -> Nat]
        /\ idx' \in [Proc -> 0..MaxReaders] /\ acc' \in [Proc -> Nat]
    BY <1>29, <2>1, Zenon DEF BlockWriters, mdb_mutex_failed, Available, mdb_reader_check0, shared,
       readers, writers, copy, ReaderStates
  <2>e. /\ rpc' \in [Rtx -> ReaderStates] /\ slot' \in [Rtx -> Slot]
        /\ cp' \in [Rtx -> {"no", "wait", "locked", "pages"}]
    BY <1>29, <2>1, Zenon DEF BlockWriters, mdb_mutex_failed, Available, mdb_reader_check0, shared,
       readers, writers, copy, ReaderStates
  <2>f. /\ rt' \in [Rtx -> Nat] /\ snap' \in [Rtx -> Nat] /\ nxt' \in [Rtx -> Nat]
        /\ img' \in [Rtx -> Nat]
    <3>1. UNCHANGED <<rt, snap, nxt, img>>
      BY <1>29, Zenon DEF BlockWriters
    <3> QED
      BY <3>1, Zenon
  <2> QED
    BY <2>a, <2>b, <2>c, <2>d, <2>e, <2>f, Zenon
<1>30. ASSUME NEW r \in Rtx, CopyMetas(r) PROVE TypeOK'
  <2>1. mdb_env_pick_meta \in Nat
    BY NewestFacts, Zenon DEF Newest, TypeOK
  <2>a. /\ mti' \in Nat /\ numreaders' \in 0..MaxReaders
        /\ pid' \in [Slot -> Proc \cup {None}]
        /\ mrtxn' \in [Slot -> Nat \cup {Idle}]
        /\ dbs' \in [0..1 -> Nat] /\ hdr' \in [0..1 -> Nat]
    BY <1>30, <2>1, Zenon DEF CopyMetas, shared, readers, writers, copy, ReaderStates
  <2>b. rmutex' \in Rtx \cup {None, Dead} /\ wmutex' \in Proc \cup Rtx \cup {None, Dead}
    BY <1>30, Zenon DEF CopyMetas, shared, readers, writers, copy, ReaderStates
  <2>c. /\ env' \in [Proc -> {"closed", "wait", "excl", "reset", "open"}]
        /\ live' \subseteq Proc
        /\ wpc' \in [Proc -> {"idle", "run", "scan", "half", "wrote", "done"}]
    BY <1>30, Zenon DEF CopyMetas, shared, readers, writers, copy, ReaderStates
  <2>d. /\ oldest' \in [Proc -> Nat] /\ wtx' \in [Proc -> Nat]
        /\ idx' \in [Proc -> 0..MaxReaders] /\ acc' \in [Proc -> Nat]
    BY <1>30, <2>1, Zenon DEF CopyMetas, shared, readers, writers, copy, ReaderStates
  <2>e. /\ rpc' \in [Rtx -> ReaderStates] /\ slot' \in [Rtx -> Slot]
        /\ cp' \in [Rtx -> {"no", "wait", "locked", "pages"}]
    BY <1>30, <2>1, Zenon DEF CopyMetas, shared, readers, writers, copy, ReaderStates
  <2>f. /\ rt' \in [Rtx -> Nat] /\ snap' \in [Rtx -> Nat] /\ nxt' \in [Rtx -> Nat]
        /\ img' \in [Rtx -> Nat]
    <3>1. UNCHANGED <<rt, snap, nxt>> /\ img' = [img EXCEPT ![r] = mdb_env_pick_meta]
      BY <1>30, Zenon DEF CopyMetas
    <3> QED
      BY <2>1, <3>1, Zenon
  <2> QED
    BY <2>a, <2>b, <2>c, <2>d, <2>e, <2>f, Zenon
<1>31. CASE UNCHANGED vars
  BY <1>31, Zenon DEF vars, shared, readers, writers, copy, ReaderStates
<1> QED
  BY <1>1, <1>2, <1>3, <1>4, <1>5, <1>6, <1>7, <1>8, <1>9, <1>10, <1>11, <1>12, <1>13,
     <1>14, <1>15, <1>16, <1>17, <1>18, <1>19, <1>20, <1>21, <1>22, <1>23, <1>24, <1>25,
     <1>26, <1>27, <1>28, <1>29, <1>30, <1>31, ZenonT(60) DEF Next

\* A process sets up the lock file alone, and leaves nothing running.
LEMMA EnvStep == Inv /\ DieExclusive = {} /\ [Next]_vars => EnvInv'
<1> SUFFICES ASSUME Inv, DieExclusive = {}, [Next]_vars PROVE EnvInv'
  BY Zenon
<1> USE LmdbReadersAssumption DEF Inv
<1>1. ASSUME NEW p \in Proc, LockExclusive(p) PROVE EnvInv'
  BY <1>1 DEF LockExclusive, Holds, shared, readers, writers, copy, EnvInv, TypeOK
<1>2. ASSUME NEW p \in Proc, WaitShared(p) PROVE EnvInv'
  BY <1>2 DEF WaitShared, Holds, shared, readers, writers, copy, EnvInv, TypeOK
<1>3. ASSUME NEW p \in Proc, LockShared(p) PROVE EnvInv'
  BY <1>3 DEF LockShared, shared, readers, writers, copy, EnvInv, TypeOK
<1>4. ASSUME NEW p \in Proc, mdb_env_setup_locks(p) PROVE EnvInv'
  BY <1>4 DEF mdb_env_setup_locks, shared, readers, writers, copy, EnvInv, TypeOK
<1>5. ASSUME NEW p \in Proc, mdb_env_share_locks(p) PROVE EnvInv'
  BY <1>5, SMTT(40) DEF mdb_env_share_locks, shared, readers, writers, copy, EnvInv, TypeOK
<1>6. ASSUME NEW p \in Proc, mdb_env_close(p) PROVE EnvInv'
  BY <1>6, SMTT(40) DEF mdb_env_close, Quiet, Forget, Mine, shared, readers, writers, copy,
     EnvInv,
     TypeOK
<1>7. ASSUME NEW p \in Proc, Die(p) PROVE EnvInv'
  BY <1>7 DEF Die, Forget, Mine, Threads, shared, readers, writers, copy, EnvInv, TypeOK
<1>8. ASSUME NEW p \in Proc, LockWriter(p) PROVE EnvInv'
  BY <1>8 DEF LockWriter, mdb_mutex_failed, Available, mdb_reader_check0, shared, readers,
     writers, copy, EnvInv, TypeOK
<1>9. ASSUME NEW p \in Proc, StartScan(p) PROVE EnvInv'
  BY <1>9 DEF StartScan, shared, readers, writers, copy, EnvInv, TypeOK
<1>10. ASSUME NEW p \in Proc, EndScan(p) PROVE EnvInv'
  BY <1>10 DEF EndScan, shared, readers, writers, copy, EnvInv, TypeOK
<1>11. ASSUME NEW p \in Proc, WriteDbs(p) PROVE EnvInv'
  BY <1>11 DEF WriteDbs, shared, readers, writers, copy, EnvInv, TypeOK
<1>12. ASSUME NEW p \in Proc, WriteHdr(p) PROVE EnvInv'
  BY <1>12 DEF WriteHdr, shared, readers, writers, copy, EnvInv, TypeOK
<1>13. ASSUME NEW p \in Proc, PublishTxnid(p) PROVE EnvInv'
  BY <1>13, SMTT(40) DEF PublishTxnid, shared, readers, writers, copy, EnvInv, TypeOK
<1>14. ASSUME NEW p \in Proc, UnlockWriter(p) PROVE EnvInv'
  BY <1>14, SMTT(40) DEF UnlockWriter, shared, readers, writers, copy, EnvInv, TypeOK
<1>15. ASSUME NEW r \in Rtx, LockReaders(r) PROVE EnvInv'
  BY <1>15 DEF LockReaders, Available, mdb_reader_check0, IsFreeSlot, shared, readers,
     writers, copy, EnvInv, TypeOK
<1>16. ASSUME NEW r \in Rtx, ClaimSlot(r) PROVE EnvInv'
  BY <1>16 DEF ClaimSlot, shared, readers, writers, copy, EnvInv, TypeOK
<1>17. ASSUME NEW r \in Rtx, LoadTxnid(r) PROVE EnvInv'
  BY <1>17 DEF LoadTxnid, shared, readers, writers, copy, EnvInv, TypeOK
<1>18. ASSUME NEW r \in Rtx, StoreTxnid(r) PROVE EnvInv'
  BY <1>18 DEF StoreTxnid, shared, readers, writers, copy, EnvInv, TypeOK
<1>19. ASSUME NEW r \in Rtx, CheckTxnid(r) PROVE EnvInv'
  BY <1>19 DEF CheckTxnid, shared, readers, writers, copy, EnvInv, TypeOK
<1>20. ASSUME NEW r \in Rtx, CopyDbs(r) PROVE EnvInv'
  BY <1>20 DEF CopyDbs, shared, readers, writers, copy, EnvInv, TypeOK
<1>21. ASSUME NEW r \in Rtx, CopyLast(r) PROVE EnvInv'
  BY <1>21, SMTT(40) DEF CopyLast, shared, readers, writers, copy, EnvInv, TypeOK
<1>22. ASSUME NEW r \in Rtx, mdb_txn_reset(r) PROVE EnvInv'
  BY <1>22, SMTT(40) DEF mdb_txn_reset, EndRead, shared, readers, writers, copy, EnvInv,
     TypeOK
<1>23. ASSUME NEW r \in Rtx, mdb_txn_abort(r) PROVE EnvInv'
  BY <1>23 DEF mdb_txn_abort, EndRead, shared, readers, writers, copy, EnvInv, TypeOK
<1>24. ASSUME NEW r \in Rtx, mdb_txn_renew(r) PROVE EnvInv'
  BY <1>24 DEF mdb_txn_renew, shared, readers, writers, copy, EnvInv, TypeOK
<1>25. ASSUME NEW r \in Rtx, ReleaseSlot(r) PROVE EnvInv'
  BY <1>25 DEF ReleaseSlot, shared, readers, writers, copy, EnvInv, TypeOK
<1>26. ASSUME NEW r \in Rtx, StartCopy(r) PROVE EnvInv'
  BY <1>26 DEF StartCopy, EndRead, shared, readers, writers, copy, EnvInv, TypeOK
<1>27. ASSUME NEW r \in Rtx, BlockWriters(r) PROVE EnvInv'
  BY <1>27 DEF BlockWriters, mdb_mutex_failed, Available, mdb_reader_check0, shared,
     readers, writers, copy, EnvInv, TypeOK
<1>28. ASSUME NEW p \in Proc,
             mdb_reader_check(p) \/ ScanSlot(p)
      PROVE  EnvInv'
  <2>1. UNCHANGED <<env, wpc, oldest, rpc, live>>
    BY <1>28, Zenon DEF mdb_reader_check, ScanSlot, shared, readers, writers, copy
  <2> QED
    BY <2>1, Zenon DEF EnvInv
<1>29. ASSUME NEW r \in Rtx,
             CopyMetas(r)
      PROVE  EnvInv'
  <2>1. UNCHANGED <<env, wpc, oldest, rpc, live>>
    BY <1>29, Zenon DEF CopyMetas, shared, readers, writers, copy
  <2> QED
    BY <2>1, Zenon DEF EnvInv
<1>30. CASE UNCHANGED vars
  BY <1>30, Zenon DEF vars, shared, readers, writers, copy, EnvInv, TypeOK
<1> QED
  BY <1>1, <1>2, <1>3, <1>4, <1>5, <1>6, <1>7, <1>8, <1>9, <1>10, <1>11, <1>12, <1>13,
     <1>14, <1>15, <1>16, <1>17, <1>18, <1>19, <1>20, <1>21, <1>22, <1>23, <1>24, <1>25,
     <1>26, <1>27, <1>28, <1>29, <1>30, Zenon DEF Next

\* A writer that goes on within its transaction keeps the writer mutex.
LEMMA WriterMoves ==
    ASSUME Inv, NEW p \in Proc, NEW s, wpc[p] # "idle", s # "idle",
           wpc' = [wpc EXCEPT ![p] = s], UNCHANGED <<wmutex, cp, rpc, rmutex>>
    PROVE  MutexInv'
<1>1. wpc'[p] = s /\ \A q \in Proc : q # p => wpc'[q] = wpc[q]
  BY Zenon DEF Inv, TypeOK
<1>2. \A q \in Proc : wpc[q] # "idle" <=> wmutex = q
  BY Zenon DEF Inv, MutexInv
<1>3. \A q \in Proc : wpc'[q] # "idle" <=> wmutex' = q
  BY <1>1, <1>2, Zenon
<1> QED
  BY <1>3, Zenon DEF Inv, MutexInv

\* A reader that goes on outside the reader mutex keeps the mutexes as they
\* are.
LEMMA ReaderMoves ==
    ASSUME Inv, NEW r \in Rtx, NEW s, rpc[r] # "claim", s # "claim",
           \/ cp[r] = "no"
           \/ s \in {"load", "store", "check", "valid", "copy", "active"}
              /\ rpc[r] \notin {"parked", "active"},
           rpc' = [rpc EXCEPT ![r] = s], UNCHANGED <<wpc, wmutex, cp, rmutex>>
    PROVE  MutexInv'
<1>1. rpc'[r] = s /\ \A q \in Rtx : q # r => rpc'[q] = rpc[q]
  BY Zenon DEF Inv, TypeOK
<1>2. /\ \A q \in Rtx : rpc[q] = "claim" <=> rmutex = q
      /\ \A q \in Rtx : cp[q] = "wait" => rpc[q] = "parked"
      /\ \A q \in Rtx : cp[q] = "pages" => rpc[q] = "active"
      /\ \A q \in Rtx : cp[q] = "locked" =>
            rpc[q] \in {"load", "store", "check", "valid", "copy", "active"}
  BY Zenon DEF Inv, MutexInv
<1>3. cp[r] # "wait" /\ cp[r] # "pages"
  BY <1>2, Zenon
<1>4. cp[r] = "locked" => s \in {"load", "store", "check", "valid", "copy", "active"}
  BY Zenon
<1>5. \A q \in Rtx : rpc'[q] = "claim" <=> rmutex' = q
  BY <1>1, <1>2, Zenon
<1>6. /\ \A q \in Rtx : cp'[q] = "wait" => rpc'[q] = "parked"
      /\ \A q \in Rtx : cp'[q] = "pages" => rpc'[q] = "active"
  BY <1>1, <1>2, <1>3, Zenon
<1>7. \A q \in Rtx : cp'[q] = "locked" =>
          rpc'[q] \in {"load", "store", "check", "valid", "copy", "active"}
  BY <1>1, <1>2, <1>4, Zenon
<1> QED
  BY <1>5, <1>6, <1>7, ZenonT(60) DEF Inv, MutexInv

\* The mutexes are held where the code holds them.
LEMMA MutexStep == Inv /\ DieExclusive = {} /\ [Next]_vars => MutexInv'
<1> SUFFICES ASSUME Inv, DieExclusive = {}, [Next]_vars PROVE MutexInv'
  BY Zenon
<1> USE LmdbReadersAssumption DEF Inv
<1>1. ASSUME NEW p \in Proc, mdb_env_setup_locks(p) PROVE MutexInv'
  BY <1>1, AloneFacts, Zenon DEF mdb_env_setup_locks, shared, readers, writers, copy,
     MutexInv,
     TypeOK
<1>2. ASSUME NEW p \in Proc, mdb_env_close(p) PROVE MutexInv'
  BY <1>2, ZenonT(60) DEF mdb_env_close, Quiet, Forget, Mine, shared, readers, writers, copy,
     MutexInv,
     TypeOK
<1>3. ASSUME NEW p \in Proc, Die(p) PROVE MutexInv'
  BY <1>3, SMTT(30) DEF Die, Forget, Mine, Threads, shared, readers, writers, copy, MutexInv, TypeOK
<1>4. ASSUME NEW p \in Proc, mdb_reader_check(p) PROVE MutexInv'
  BY <1>4 DEF mdb_reader_check, Available, mdb_reader_check0, shared, readers, writers,
     copy, MutexInv, TypeOK
<1>5. ASSUME NEW p \in Proc, LockWriter(p) PROVE MutexInv'
  BY <1>5 DEF LockWriter, mdb_mutex_failed, Available, mdb_reader_check0, shared, readers,
     writers, copy, MutexInv, TypeOK
<1>6. ASSUME NEW p \in Proc, StartScan(p) PROVE MutexInv'
  <2>1. /\ wpc[p] = "run" /\ wpc' = [wpc EXCEPT ![p] = "scan"]
        /\ UNCHANGED <<wmutex, cp, rpc, rmutex>>
    BY <1>6, Zenon DEF StartScan, shared, readers, copy
  <2> QED
    BY <2>1, WriterMoves, Zenon
<1>7. ASSUME NEW p \in Proc, EndScan(p) PROVE MutexInv'
  <2>1. /\ wpc[p] = "scan" /\ wpc' = [wpc EXCEPT ![p] = "run"]
        /\ UNCHANGED <<wmutex, cp, rpc, rmutex>>
    BY <1>7, Zenon DEF EndScan, shared, readers, copy
  <2> QED
    BY <2>1, WriterMoves, Zenon
<1>8. ASSUME NEW p \in Proc, WriteDbs(p) PROVE MutexInv'
  <2>1. /\ wpc[p] = "run" /\ wpc' = [wpc EXCEPT ![p] = "half"]
        /\ UNCHANGED <<wmutex, cp, rpc, rmutex>>
    BY <1>8, Zenon DEF WriteDbs, readers, copy
  <2> QED
    BY <2>1, WriterMoves, Zenon
<1>9. ASSUME NEW p \in Proc, WriteHdr(p) PROVE MutexInv'
  <2>1. /\ wpc[p] = "half" /\ wpc' = [wpc EXCEPT ![p] = "wrote"]
        /\ UNCHANGED <<wmutex, cp, rpc, rmutex>>
    BY <1>9, Zenon DEF WriteHdr, readers, copy
  <2> QED
    BY <2>1, WriterMoves, Zenon
<1>10. ASSUME NEW p \in Proc, PublishTxnid(p) PROVE MutexInv'
  <2>1. /\ wpc[p] = "wrote" /\ wpc' = [wpc EXCEPT ![p] = "done"]
        /\ UNCHANGED <<wmutex, cp, rpc, rmutex>>
    BY <1>10, Zenon DEF PublishTxnid, readers, copy
  <2> QED
    BY <2>1, WriterMoves, Zenon
<1>11. ASSUME NEW p \in Proc, UnlockWriter(p) PROVE MutexInv'
  BY <1>11, SMTT(40) DEF UnlockWriter, shared, readers, writers, copy, MutexInv, TypeOK
<1>12. ASSUME NEW r \in Rtx, LockReaders(r) PROVE MutexInv'
  BY <1>12, SMTT(30) DEF LockReaders, Available, mdb_reader_check0, IsFreeSlot, shared, readers,
     writers, copy, MutexInv, TypeOK
<1>13. ASSUME NEW r \in Rtx, ClaimSlot(r) PROVE MutexInv'
  BY <1>13 DEF ClaimSlot, shared, readers, writers, copy, MutexInv, TypeOK
<1>14. ASSUME NEW r \in Rtx, LoadTxnid(r) PROVE MutexInv'
  <2>1. /\ rpc[r] = "load" /\ rpc' = [rpc EXCEPT ![r] = "store"]
        /\ UNCHANGED <<wpc, wmutex, cp, rmutex>>
    BY <1>14, Zenon DEF LoadTxnid, shared, copy, writers
  <2> QED
    BY <2>1, ReaderMoves, Zenon
<1>15. ASSUME NEW r \in Rtx, StoreTxnid(r) PROVE MutexInv'
  <2>1. /\ rpc[r] = "store" /\ rpc' = [rpc EXCEPT ![r] = "check"]
        /\ UNCHANGED <<wpc, wmutex, cp, rmutex>>
    BY <1>15, Zenon DEF StoreTxnid, copy, writers
  <2> QED
    BY <2>1, ReaderMoves, Zenon
<1>16. ASSUME NEW r \in Rtx, CheckTxnid(r) PROVE MutexInv'
  <2>1. /\ rpc[r] = "check" /\ UNCHANGED <<wpc, wmutex, cp, rmutex>>
        /\ rpc' = [rpc EXCEPT ![r] = IF rt[r] = mti THEN "valid" ELSE "load"]
    BY <1>16, Zenon DEF CheckTxnid, shared, copy, writers
  <2>2. CASE rt[r] = mti
    <3>1. rpc' = [rpc EXCEPT ![r] = "valid"]
      BY <2>1, <2>2, Zenon
    <3> QED
      BY <2>1, <3>1, ReaderMoves, Zenon
  <2>3. CASE rt[r] # mti
    <3>1. rpc' = [rpc EXCEPT ![r] = "load"]
      BY <2>1, <2>3, Zenon
    <3> QED
      BY <2>1, <3>1, ReaderMoves, Zenon
  <2> QED
    BY <2>2, <2>3, Zenon
<1>17. ASSUME NEW r \in Rtx, CopyDbs(r) PROVE MutexInv'
  <2>1. /\ rpc[r] = "valid" /\ rpc' = [rpc EXCEPT ![r] = "copy"]
        /\ UNCHANGED <<wpc, wmutex, cp, rmutex>>
    BY <1>17, Zenon DEF CopyDbs, shared, copy, writers
  <2> QED
    BY <2>1, ReaderMoves, Zenon
<1>18. ASSUME NEW r \in Rtx, CopyLast(r) PROVE MutexInv'
  <2>1. /\ rpc[r] = "copy" /\ rpc' = [rpc EXCEPT ![r] = "active"]
        /\ UNCHANGED <<wpc, wmutex, cp, rmutex>>
    BY <1>18, Zenon DEF CopyLast, shared, copy, writers
  <2> QED
    BY <2>1, ReaderMoves, Zenon
<1>19. ASSUME NEW r \in Rtx, mdb_txn_reset(r) PROVE MutexInv'
  BY <1>19 DEF mdb_txn_reset, EndRead, shared, readers, writers, copy, MutexInv, TypeOK
<1>20. ASSUME NEW r \in Rtx, mdb_txn_abort(r) PROVE MutexInv'
  BY <1>20 DEF mdb_txn_abort, EndRead, shared, readers, writers, copy, MutexInv, TypeOK
<1>21. ASSUME NEW r \in Rtx, mdb_txn_renew(r) PROVE MutexInv'
  <2>1. /\ rpc[r] = "parked" /\ cp[r] = "no" /\ rpc' = [rpc EXCEPT ![r] = "load"]
        /\ UNCHANGED <<wpc, wmutex, cp, rmutex>>
    BY <1>21, Zenon DEF mdb_txn_renew, shared, copy, writers
  <2> QED
    BY <2>1, ReaderMoves, Zenon
<1>22. ASSUME NEW r \in Rtx, ReleaseSlot(r) PROVE MutexInv'
  <2>1. /\ rpc[r] = "ending" /\ rpc' = [rpc EXCEPT ![r] = "idle"]
        /\ UNCHANGED <<wpc, wmutex, cp, rmutex>>
    BY <1>22, Zenon DEF ReleaseSlot, copy, writers
  <2>2. cp[r] \in {"no", "wait", "locked", "pages"}
    BY Zenon DEF TypeOK
  <2>3. cp[r] # "wait" /\ cp[r] # "pages" /\ cp[r] # "locked"
    BY <2>1, Zenon DEF MutexInv
  <2>4. cp[r] = "no"
    BY <2>2, <2>3, Zenon
  <2> QED
    BY <2>1, <2>4, ReaderMoves, Zenon
<1>23. ASSUME NEW r \in Rtx, StartCopy(r) PROVE MutexInv'
  BY <1>23, SMTT(40) DEF StartCopy, EndRead, shared, readers, writers, copy, MutexInv,
     TypeOK
<1>24. ASSUME NEW r \in Rtx, BlockWriters(r) PROVE MutexInv'
  BY <1>24 DEF BlockWriters, mdb_mutex_failed, Available, mdb_reader_check0, shared,
     readers, writers, copy, MutexInv, TypeOK
<1>25. ASSUME NEW r \in Rtx, CopyMetas(r) PROVE MutexInv'
  BY <1>25 DEF CopyMetas, shared, readers, writers, copy, MutexInv, TypeOK
<1>26. ASSUME NEW p \in Proc,
             \/ LockExclusive(p) \/ WaitShared(p) \/ LockShared(p) \/ mdb_env_share_locks(p)
             \/ ScanSlot(p)
      PROVE  MutexInv'
  <2>1. UNCHANGED <<wpc, wmutex, cp, rpc, rmutex>>
    BY <1>26, Zenon DEF LockExclusive, WaitShared, LockShared, mdb_env_share_locks,
       ScanSlot,
       shared, readers, writers, copy
  <2> QED
    BY <2>1, Zenon DEF MutexInv
<1>27. CASE UNCHANGED vars
  BY <1>27, Zenon DEF vars, shared, readers, writers, copy, MutexInv, TypeOK
<1> QED
  BY <1>1, <1>2, <1>3, <1>4, <1>5, <1>6, <1>7, <1>8, <1>9, <1>10, <1>11, <1>12, <1>13,
     <1>14, <1>15, <1>16, <1>17, <1>18, <1>19, <1>20, <1>21, <1>22, <1>23, <1>24, <1>25,
     <1>26, <1>27, Zenon DEF Next

\* A step that takes no slot and at most clears the slots of dead processes
\* gives no slot in use away.
LEMMA SameSlots ==
    ASSUME Inv, NEW p \in Proc, pid' = pid \/ pid' = mdb_reader_check0(p),
           UNCHANGED <<slot, numreaders>>,
           \A q \in Rtx : rpc'[q] # "idle" => rpc[q] # "idle",
           \A q \in Rtx : HoldsSlot(q)' => HoldsSlot(q)
    PROVE  SlotInv'
<1>1. SlotInv
  BY Zenon DEF Inv
<1>2. \A q \in Rtx : HoldsSlot(q) => mdb_reader_check0(p)[slot[q]] = Home[q]
  BY CheckFacts, Zenon
<1>3. \A q \in Rtx : HoldsSlot(q)' => pid'[slot'[q]] = Home[q]
  BY <1>1, <1>2, Zenon DEF SlotInv
<1> QED
  BY <1>1, <1>3, Zenon DEF SlotInv

\* No step gives a slot in use away.
LEMMA SlotStep == Inv /\ DieExclusive = {} /\ [Next]_vars => SlotInv'
<1> SUFFICES ASSUME Inv, DieExclusive = {}, [Next]_vars PROVE SlotInv'
  BY Zenon
<1> USE LmdbReadersAssumption DEF Inv
<1>1. ASSUME NEW p \in Proc, mdb_env_setup_locks(p) PROVE SlotInv'
  BY <1>1, AloneFacts, Zenon DEF mdb_env_setup_locks, shared, readers, writers, copy,
     SlotInv,
     HoldsSlot, TypeOK
<1>2. ASSUME NEW p \in Proc, mdb_env_close(p) PROVE SlotInv'
  BY <1>2, Zenon DEF mdb_env_close, Quiet, Forget, Mine, shared, readers, writers, copy,
     SlotInv,
     HoldsSlot, TypeOK
<1>3. ASSUME NEW p \in Proc, Die(p) PROVE SlotInv'
  BY <1>3, Zenon DEF Die, Forget, Mine, Threads, shared, readers, writers, copy, SlotInv,
     HoldsSlot, TypeOK
<1>4. ASSUME NEW p \in Proc, mdb_reader_check(p) PROVE SlotInv'
  <2>1. pid' = mdb_reader_check0(p) /\ UNCHANGED <<slot, numreaders, rpc>>
    BY <1>4, Zenon DEF mdb_reader_check, readers
  <2> QED
    BY <2>1, SameSlots, Zenon DEF HoldsSlot
<1>5. ASSUME NEW p \in Proc, LockWriter(p) PROVE SlotInv'
  <2>1. /\ pid' = pid \/ pid' = mdb_reader_check0(p)
        /\ UNCHANGED <<slot, numreaders, rpc>>
    BY <1>5, Zenon DEF LockWriter, mdb_mutex_failed, readers
  <2> QED
    BY <2>1, SameSlots, Zenon DEF HoldsSlot
<1>6. ASSUME NEW r \in Rtx, LockReaders(r) PROVE SlotInv'
  <2> DEFINE table == IF rmutex = Dead THEN mdb_reader_check0(Home[r]) ELSE pid
  <2>1. /\ table \in [Slot -> Proc \cup {None}]
        /\ \A q \in Rtx : HoldsSlot(q) => table[slot[q]] = Home[q]
    <3>1. /\ pid \in [Slot -> Proc \cup {None}] /\ Home[r] \in Proc
          /\ \A q \in Rtx : HoldsSlot(q) => pid[slot[q]] = Home[q]
      BY ZenonT(60) DEF TypeOK, SlotInv
    <3> QED
      BY <3>1, CheckFacts, Zenon
  <2>2. \A q \in Rtx : rpc[q] # "claim"
    <3>1. rmutex \in {None, Dead}
      BY <1>6, Zenon DEF LockReaders, Available
    <3> QED
      BY <3>1, Zenon DEF MutexInv
  <2>3. rpc[r] = "idle" /\ None \notin Proc
    BY <1>6, Zenon DEF LockReaders
  <2>4. CASE pid' = table /\ UNCHANGED <<numreaders, slot, rpc>>
    BY <2>1, <2>2, <2>4, Zenon DEF SlotInv, HoldsSlot
  <2>5. ASSUME NEW s \in Slot, IsFreeSlot(table, s),
               pid' = [table EXCEPT ![s] = None],
               numreaders' = IF s = numreaders THEN s + 1 ELSE numreaders,
               slot' = [slot EXCEPT ![r] = s],
               rpc' = [rpc EXCEPT ![r] = "claim"]
        PROVE  SlotInv'
    <3>1. \A q \in Rtx : rpc[q] # "idle" => HoldsSlot(q) /\ slot[q] # s /\ slot[q] \in Slot
      BY <2>1, <2>2, <2>3, <2>5 DEF IsFreeSlot, HoldsSlot, SlotInv, TypeOK
    <3>2. /\ s < numreaders' /\ numreaders <= numreaders'
          /\ numreaders \in Nat /\ numreaders' \in Nat
      BY <2>5, SlotFacts DEF IsFreeSlot, TypeOK
    <3>3. \A q \in Rtx : q # r => rpc'[q] = rpc[q] /\ slot'[q] = slot[q]
      BY <2>5, Zenon DEF TypeOK
    <3>4. rpc'[r] = "claim" /\ slot'[r] = s
      BY <2>5, ZenonT(60) DEF TypeOK
    <3>5. \A q \in Rtx : rpc'[q] # "idle" => slot'[q] < numreaders'
      <4>1. \A q \in Rtx : slot[q] \in Nat
        BY SlotFacts, Zenon DEF TypeOK
      <4> QED
        <5>1. \A q \in Rtx : rpc[q] # "idle" => slot[q] < numreaders
          BY Zenon DEF SlotInv
        <5>2. ASSUME NEW q \in Rtx, q # r, rpc'[q] # "idle" PROVE slot'[q] < numreaders'
          <6>1. slot'[q] = slot[q] /\ slot[q] < numreaders /\ slot[q] \in Nat
            BY <3>3, <4>1, <5>1, <5>2, Zenon
          <6> QED
            BY <3>2, <6>1
        <5> QED
          BY <3>2, <3>4, <5>2, Zenon
    <3>6. ASSUME NEW q \in Rtx, HoldsSlot(q)' PROVE pid'[slot'[q]] = Home[q]
      <4>1. q # r /\ rpc[q] # "idle"
        BY <3>3, <3>4, <3>6, Zenon DEF HoldsSlot
      <4>2. slot'[q] = slot[q] /\ slot[q] # s /\ slot[q] \in Slot /\ table[slot[q]] = Home[q]
        BY <2>1, <3>1, <3>3, <4>1, Zenon
      <4>3. [table EXCEPT ![s] = None][slot[q]] = table[slot[q]]
        BY <2>1, <4>2, Zenon
      <4> QED
        BY <2>5, <4>2, <4>3, Zenon
    <3>7. \A u, q \in Rtx : rpc'[u] # "idle" /\ rpc'[q] # "idle" /\ slot'[u] = slot'[q] => u
       = q
      BY <3>1, <3>3, <3>4, ZenonT(60) DEF SlotInv
    <3> QED
      BY <3>5, <3>6, <3>7, Zenon DEF SlotInv
  <2> QED
    BY <1>6, <2>4, <2>5, Zenon DEF LockReaders
<1>7. ASSUME NEW r \in Rtx, ClaimSlot(r) PROVE SlotInv'
  BY <1>7, SMTT(40) DEF ClaimSlot, shared, readers, writers, copy, SlotInv, HoldsSlot,
     TypeOK
<1>8. ASSUME NEW r \in Rtx, LoadTxnid(r) PROVE SlotInv'
  BY <1>8 DEF LoadTxnid, shared, readers, writers, copy, SlotInv, HoldsSlot, TypeOK
<1>9. ASSUME NEW r \in Rtx, StoreTxnid(r) PROVE SlotInv'
  BY <1>9 DEF StoreTxnid, shared, readers, writers, copy, SlotInv, HoldsSlot, TypeOK
<1>10. ASSUME NEW r \in Rtx, CheckTxnid(r) PROVE SlotInv'
  BY <1>10, SMTT(40) DEF CheckTxnid, shared, readers, writers, copy, SlotInv, HoldsSlot,
     TypeOK
<1>11. ASSUME NEW r \in Rtx, CopyDbs(r) PROVE SlotInv'
  BY <1>11 DEF CopyDbs, shared, readers, writers, copy, SlotInv, HoldsSlot, TypeOK
<1>12. ASSUME NEW r \in Rtx, CopyLast(r) PROVE SlotInv'
  BY <1>12, SMTT(40) DEF CopyLast, shared, readers, writers, copy, SlotInv, HoldsSlot,
     TypeOK
<1>13. ASSUME NEW r \in Rtx, mdb_txn_reset(r) PROVE SlotInv'
  BY <1>13, SMTT(40) DEF mdb_txn_reset, EndRead, shared, readers, writers, copy, SlotInv,
     HoldsSlot,
     TypeOK
<1>14. ASSUME NEW r \in Rtx, mdb_txn_abort(r) PROVE SlotInv'
  BY <1>14 DEF mdb_txn_abort, EndRead, shared, readers, writers, copy, SlotInv, HoldsSlot,
     TypeOK
<1>15. ASSUME NEW r \in Rtx, mdb_txn_renew(r) PROVE SlotInv'
  BY <1>15 DEF mdb_txn_renew, shared, readers, writers, copy, SlotInv, HoldsSlot, TypeOK
<1>16. ASSUME NEW r \in Rtx, ReleaseSlot(r) PROVE SlotInv'
  <2>1. /\ rpc[r] = "ending" /\ UNCHANGED numreaders
        /\ pid' = [pid EXCEPT ![slot[r]] = None]
        /\ rpc' = [rpc EXCEPT ![r] = "idle"] /\ slot' = [slot EXCEPT ![r] = 0]
    BY <1>16, Zenon DEF ReleaseSlot
  <2>2. rpc'[r] = "idle" /\ \A q \in Rtx : q # r => rpc'[q] = rpc[q] /\ slot'[q] = slot[q]
    BY <2>1, Zenon DEF TypeOK
  <2>3. \A q \in Rtx : HoldsSlot(q)' => q # r /\ HoldsSlot(q) /\ rpc[q] # "idle"
    BY <2>2, Zenon DEF HoldsSlot
  <2>4. ASSUME NEW q \in Rtx, HoldsSlot(q)' PROVE pid'[slot'[q]] = Home[q]
    <3>1. /\ slot'[q] = slot[q] /\ slot[q] # slot[r] /\ pid[slot[q]] = Home[q]
          /\ slot[q] \in Slot
      BY <2>1, <2>2, <2>3, <2>4, ZenonT(60) DEF SlotInv, TypeOK
    <3> QED
      BY <2>1, <3>1, Zenon DEF TypeOK
  <2>5. \A q \in Rtx : rpc'[q] # "idle" => q # r /\ rpc[q] # "idle" /\ slot'[q] = slot[q]
    BY <2>2, Zenon
  <2> QED
    <3>1. \A q \in Rtx : rpc'[q] # "idle" => slot'[q] < numreaders'
      BY <2>1, <2>5, ZenonT(60) DEF SlotInv
    <3>2. \A u, q \in Rtx :
              rpc'[u] # "idle" /\ rpc'[q] # "idle" /\ slot'[u] = slot'[q] => u = q
      BY <2>5, Zenon DEF SlotInv
    <3> QED
      BY <2>4, <3>1, <3>2, Zenon DEF SlotInv
<1>17. ASSUME NEW r \in Rtx, StartCopy(r) PROVE SlotInv'
  BY <1>17, SMTT(40) DEF StartCopy, EndRead, shared, readers, writers, copy, SlotInv,
     HoldsSlot,
     TypeOK
<1>18. ASSUME NEW r \in Rtx, BlockWriters(r) PROVE SlotInv'
  <2>1. /\ pid' = pid \/ pid' = mdb_reader_check0(Home[r])
        /\ UNCHANGED <<slot, numreaders>>
        /\ rpc[r] = "parked" /\ rpc' = [rpc EXCEPT ![r] = "load"]
    BY <1>18, Zenon DEF BlockWriters, mdb_mutex_failed
  <2>2. /\ \A q \in Rtx : rpc'[q] # "idle" => rpc[q] # "idle"
        /\ \A q \in Rtx : HoldsSlot(q)' => HoldsSlot(q)
    BY <2>1, Zenon DEF HoldsSlot, TypeOK
  <2>3. Home[r] \in Proc
    BY Zenon
  <2> QED
    BY <2>1, <2>2, <2>3, SameSlots, Zenon
<1>19. ASSUME NEW p \in Proc,
             \/ LockExclusive(p) \/ WaitShared(p) \/ LockShared(p) \/ mdb_env_share_locks(p)
             \/ StartScan(p) \/ ScanSlot(p) \/ EndScan(p) \/ WriteDbs(p) \/ WriteHdr(p)
             \/ PublishTxnid(p) \/ UnlockWriter(p)
      PROVE  SlotInv'
  <2>1. UNCHANGED <<rpc, slot, numreaders, pid>>
    BY <1>19, Zenon DEF LockExclusive, WaitShared, LockShared, mdb_env_share_locks,
       StartScan,
       ScanSlot, EndScan, WriteDbs, WriteHdr, PublishTxnid, UnlockWriter, shared, readers,
       writers, copy
  <2> QED
    BY <2>1, Zenon DEF SlotInv, HoldsSlot
<1>20. ASSUME NEW r \in Rtx,
             CopyMetas(r)
      PROVE  SlotInv'
  <2>1. UNCHANGED <<rpc, slot, numreaders, pid>>
    BY <1>20, ZenonT(40) DEF CopyMetas, shared, readers, writers, copy
  <2> QED
    BY <2>1, Zenon DEF SlotInv, HoldsSlot
<1>21. CASE UNCHANGED vars
  BY <1>21, Zenon DEF vars, shared, readers, writers, copy, SlotInv, HoldsSlot, TypeOK
<1> QED
  BY <1>1, <1>2, <1>3, <1>4, <1>5, <1>6, <1>7, <1>8, <1>9, <1>10, <1>11, <1>12, <1>13,
     <1>14, <1>15, <1>16, <1>17, <1>18, <1>19, <1>20, <1>21, Zenon DEF Next


\* mdb_env_close and a death end the transactions of the process and leave
\* the others alone.
LEMMA ForgetFacts ==
    ASSUME CopyInv, NEW p \in Proc, mti' = mti, Forget(p)
    PROVE  CopyInv'
<1>1. \A q \in Rtx : Home[q] = p => rpc'[q] = "idle" /\ cp'[q] = "no"
  BY Zenon DEF Forget, Mine
<1>2. \A q \in Rtx : Home[q] # p =>
          /\ rpc'[q] = rpc[q] /\ rt'[q] = rt[q] /\ snap'[q] = snap[q]
          /\ nxt'[q] = nxt[q] /\ cp'[q] = cp[q] /\ img'[q] = img[q]
  BY Zenon DEF Forget, Mine
<1> QED
  BY <1>1, <1>2, ZenonT(60) DEF CopyInv, SnapshotFresh, CopyPinned, Announced

\* What readers copied stays what they announced.
LEMMA CopyStep == Inv /\ DieExclusive = {} /\ [Next]_vars => CopyInv'
<1> SUFFICES ASSUME Inv, DieExclusive = {}, [Next]_vars PROVE CopyInv'
  BY Zenon
<1> USE LmdbReadersAssumption DEF Inv
<1>0. /\ rpc \in [Rtx -> ReaderStates] /\ rt \in [Rtx -> Nat] /\ snap \in [Rtx -> Nat]
      /\ nxt \in [Rtx -> Nat] /\ img \in [Rtx -> Nat]
      /\ cp \in [Rtx -> {"no", "wait", "locked", "pages"}]
  BY Zenon DEF TypeOK
<1>1. ASSUME NEW p \in Proc, mdb_env_setup_locks(p) PROVE CopyInv'
  <2>1. UNCHANGED <<rpc, rt, snap, nxt, cp, img>> /\ env[p] = "excl"
    BY <1>1, Zenon DEF mdb_env_setup_locks, readers, copy
  <2>2. \A q \in Rtx : cp[q] = "no"
    BY <2>1, AloneFacts, Zenon
  <2> QED
    BY <2>1, <2>2, Zenon DEF CopyInv, SnapshotFresh, CopyPinned
<1>2. ASSUME NEW p \in Proc, mdb_env_share_locks(p) PROVE CopyInv'
  <2>1. UNCHANGED <<rpc, rt, snap, nxt, cp, img>> /\ env[p] = "reset"
    BY <1>2, Zenon DEF mdb_env_share_locks, readers, copy
  <2>2. \A q \in Rtx : cp[q] = "no"
    BY <2>1, AloneFacts, Zenon
  <2> QED
    BY <2>1, <2>2, Zenon DEF CopyInv, SnapshotFresh, CopyPinned
<1>3. ASSUME NEW p \in Proc, mdb_env_close(p) PROVE CopyInv'
  <2>1. mti' = mti /\ Forget(p)
    BY <1>3, Zenon DEF mdb_env_close
  <2> QED
    BY <2>1, ForgetFacts, Zenon
<1>4. ASSUME NEW p \in Proc, Die(p) PROVE CopyInv'
  <2>1. mti' = mti /\ Forget(p)
    BY <1>4, Zenon DEF Die
  <2> QED
    BY <2>1, ForgetFacts, Zenon
<1>5. ASSUME NEW p \in Proc, LockWriter(p) PROVE CopyInv'
  <2>1. \A q \in Rtx : cp[q] # "locked"
    BY <1>5, LmdbReadersAssumption, ZenonT(60) DEF LockWriter, MutexInv, None, Dead
  <2> QED
    BY <1>0, <1>5, <2>1, Zenon DEF LockWriter, shared, readers, copy, CopyInv, SnapshotFresh,
       CopyPinned, Announced
<1>6. ASSUME NEW p \in Proc, PublishTxnid(p) PROVE CopyInv'
  <2>1. \A q \in Rtx : cp[q] # "locked"
    BY <1>6, WriterFacts, ZenonT(40) DEF PublishTxnid
  <2> QED
    BY <1>0, <1>6, <2>1, Zenon DEF PublishTxnid, shared, readers, copy, CopyInv, SnapshotFresh,
       CopyPinned, Announced
<1>7. ASSUME NEW r \in Rtx, LockReaders(r) PROVE CopyInv'
  <2>1. UNCHANGED <<mti, rt, snap, nxt, cp, img>>
    BY <1>7, Zenon DEF LockReaders, copy
  <2>2. \A q \in Rtx : q # r => rpc'[q] = rpc[q]
    BY <1>7, ClaimFacts, SMTT(30)
  <2>3. rpc'[r] = "idle" \/ rpc'[r] = "claim"
    BY <1>7, ClaimFacts, Zenon
  <2>4. ~Announced(r)' /\ rpc'[r] \notin {"store", "copy", "active"}
    BY <2>3, Zenon DEF Announced
  <2> QED
    BY <2>1, <2>2, <2>4, ZenonT(60) DEF CopyInv, SnapshotFresh, CopyPinned, Announced
<1>8. ASSUME NEW r \in Rtx, ClaimSlot(r) PROVE CopyInv'
  BY <1>0, <1>8, Zenon DEF ClaimSlot, shared, readers, copy, CopyInv, SnapshotFresh,
     CopyPinned, Announced
<1>9. ASSUME NEW r \in Rtx, LoadTxnid(r) PROVE CopyInv'
  BY <1>0, <1>9, ZenonT(60) DEF LoadTxnid, shared, readers, copy, CopyInv, SnapshotFresh,
     CopyPinned, Announced, MutexInv
<1>10. ASSUME NEW r \in Rtx, StoreTxnid(r) PROVE CopyInv'
  BY <1>0, <1>10, ZenonT(60) DEF StoreTxnid, shared, readers, copy, CopyInv, SnapshotFresh,
     CopyPinned, Announced
<1>11. ASSUME NEW r \in Rtx, CheckTxnid(r) PROVE CopyInv'
  BY <1>0, <1>11, Zenon DEF CheckTxnid, shared, readers, copy, CopyInv, SnapshotFresh,
     CopyPinned, Announced
<1>12. ASSUME NEW r \in Rtx, CopyDbs(r) PROVE CopyInv'
  <2>1. rt[r] \in Nat /\ rt[r] <= Newest /\ rt[r] <= mti
    <3>1. Announced(r)
      BY <1>12, Zenon DEF CopyDbs, Announced
    <3>2. /\ rt[r] \in Nat /\ mti \in Nat /\ Newest \in Nat
          /\ rt[r] <= mti /\ mti <= Newest
      BY <1>0, <3>1, NewestFacts, Zenon DEF PinInv, TxnidInv, TypeOK
    <3> QED
      BY <3>2
  <2>2. rt[r] <= dbs[rt[r] % 2] /\ (rt[r] = Newest => dbs[rt[r] % 2] = rt[r])
    BY <2>1, FreshFacts, Zenon
  <2>3. /\ cp[r] = "locked" => rt[r] = Newest /\ rt[r] = mti
        /\ cp[r] # "pages"
    BY <1>12, Zenon DEF CopyDbs, CopyInv, Announced, TxnidInv, MutexInv
  <2> QED
    BY <1>0, <1>12, <2>1, <2>2, <2>3, ZenonT(60) DEF CopyDbs, shared, readers, copy, CopyInv,
       SnapshotFresh, CopyPinned, Announced
<1>13. ASSUME NEW r \in Rtx, CopyLast(r) PROVE CopyInv'
  <2>1. rt[r] \in Nat /\ rt[r] <= Newest /\ rt[r] <= mti
    <3>1. Announced(r)
      BY <1>13, Zenon DEF CopyLast, Announced
    <3>2. /\ rt[r] \in Nat /\ mti \in Nat /\ Newest \in Nat
          /\ rt[r] <= mti /\ mti <= Newest
      BY <1>0, <3>1, NewestFacts, Zenon DEF PinInv, TxnidInv, TypeOK
    <3> QED
      BY <3>2
  <2>2. rt[r] <= hdr[rt[r] % 2]
    BY <2>1, FreshFacts, Zenon
  <2>3. cp[r] # "pages"
    BY <1>13, Zenon DEF CopyLast, MutexInv
  <2> QED
    BY <1>0, <1>13, <2>2, <2>3, ZenonT(60) DEF CopyLast, shared, readers, copy, CopyInv,
       SnapshotFresh, CopyPinned, Announced
<1>14. ASSUME NEW r \in Rtx, mdb_txn_reset(r) PROVE CopyInv'
  BY <1>0, <1>14, ZenonT(60) DEF mdb_txn_reset, EndRead, shared, readers, copy, CopyInv,
     SnapshotFresh, CopyPinned, Announced
<1>15. ASSUME NEW r \in Rtx, mdb_txn_abort(r) PROVE CopyInv'
  BY <1>0, <1>15, ZenonT(60) DEF mdb_txn_abort, EndRead, shared, readers, copy, CopyInv,
     SnapshotFresh, CopyPinned, Announced
<1>16. ASSUME NEW r \in Rtx, mdb_txn_renew(r) PROVE CopyInv'
  BY <1>0, <1>16, Zenon DEF mdb_txn_renew, shared, readers, copy, CopyInv, SnapshotFresh,
     CopyPinned, Announced
<1>17. ASSUME NEW r \in Rtx, ReleaseSlot(r) PROVE CopyInv'
  BY <1>0, <1>17, Zenon DEF ReleaseSlot, shared, readers, copy, CopyInv, SnapshotFresh,
     CopyPinned, Announced
<1>18. ASSUME NEW r \in Rtx, StartCopy(r) PROVE CopyInv'
  BY <1>0, <1>18, ZenonT(60) DEF StartCopy, EndRead, shared, readers, copy, CopyInv,
     SnapshotFresh, CopyPinned, Announced
<1>19. ASSUME NEW r \in Rtx, BlockWriters(r) PROVE CopyInv'
  <2>1. \A q \in Rtx : cp[q] # "locked"
    BY <1>19, LmdbReadersAssumption, ZenonT(60) DEF BlockWriters, MutexInv, None, Dead
  <2> QED
    BY <1>0, <1>19, <2>1, ZenonT(60) DEF BlockWriters, shared, readers, copy, CopyInv, SnapshotFresh,
       CopyPinned, Announced
<1>20. ASSUME NEW r \in Rtx, CopyMetas(r) PROVE CopyInv'
  <2>1. rt[r] = mti /\ snap[r] = mti /\ mti = mdb_env_pick_meta
    BY <1>20, Zenon DEF CopyMetas, CopyInv, Announced, TxnidInv, Newest
  <2> QED
    BY <1>0, <1>20, <2>1, Zenon DEF CopyMetas, shared, readers, copy, CopyInv, SnapshotFresh,
       CopyPinned, Announced
<1>21. ASSUME NEW p \in Proc,
             \/ LockExclusive(p) \/ WaitShared(p) \/ LockShared(p) \/ mdb_reader_check(p)
             \/ StartScan(p) \/ ScanSlot(p) \/ EndScan(p) \/ WriteDbs(p) \/ WriteHdr(p)
             \/ UnlockWriter(p)
      PROVE  CopyInv'
  <2>1. UNCHANGED <<rpc, rt, snap, nxt, cp, mti, img>>
    BY <1>21, ZenonT(40) DEF LockExclusive, WaitShared, LockShared, mdb_reader_check, StartScan,
       ScanSlot, EndScan, WriteDbs, WriteHdr, UnlockWriter, shared, readers, writers, copy
  <2> QED
    BY <2>1, Zenon DEF CopyInv, SnapshotFresh, CopyPinned, Announced
<1>22. CASE UNCHANGED vars
  BY <1>22, Zenon DEF vars, shared, readers, copy, CopyInv, SnapshotFresh, CopyPinned, Announced
<1> QED
  BY <1>1, <1>2, <1>3, <1>4, <1>5, <1>6, <1>7, <1>8, <1>9, <1>10, <1>11, <1>12, <1>13,
     <1>14, <1>15, <1>16, <1>17, <1>18, <1>19, <1>20, <1>21, <1>22, Zenon DEF Next

\* No step leaves a reader behind the writer's oldest id.
LEMMA PinStep == Inv /\ DieExclusive = {} /\ [Next]_vars => PinInv'
<1> SUFFICES ASSUME Inv, DieExclusive = {}, [Next]_vars PROVE PinInv'
  BY Zenon
<1> USE LmdbReadersAssumption DEF Inv
<1>0. /\ mti \in Nat /\ mrtxn \in [Slot -> Nat \cup {Idle}]
      /\ rpc \in [Rtx -> ReaderStates] /\ slot \in [Rtx -> Slot] /\ rt \in [Rtx -> Nat]
      /\ wpc \in [Proc -> {"idle", "run", "scan", "half", "wrote", "done"}]
      /\ oldest \in [Proc -> Nat] /\ idx \in [Proc -> 0..MaxReaders] /\ acc \in [Proc -> Nat]
  BY Zenon DEF TypeOK
<1>1. ASSUME NEW p \in Proc, mdb_env_setup_locks(p) PROVE PinInv'
  <2>1. /\ \A q \in Proc : wpc[q] = "idle" /\ oldest[q] = 0
        /\ \A r \in Rtx : rpc[r] = "idle"
    BY <1>1, AloneFacts, Zenon DEF mdb_env_setup_locks
  <2>2. mti' = 0 /\ UNCHANGED <<rpc, wpc, oldest>>
    BY <1>1, Zenon DEF mdb_env_setup_locks, readers, writers
  <2>3. /\ \A q \in Proc : wpc'[q] = "idle" /\ oldest'[q] <= mti'
        /\ \A r \in Rtx : rpc'[r] = "idle"
    BY <2>1, <2>2
  <2> QED
    BY <2>3, Zenon DEF PinInv, Announced, Pinned
<1>2. ASSUME NEW p \in Proc, mdb_env_share_locks(p) PROVE PinInv'
  BY <1>0, <1>2, AloneFacts, NewestFacts, SMTT(30) DEF mdb_env_share_locks, shared, readers, writers,
     copy, PinInv, Announced, Pinned, Newest
<1>3. ASSUME NEW p \in Proc, mdb_env_close(p) PROVE PinInv'
  <2>1. UNCHANGED <<mti, mrtxn, wpc, idx, acc>>
    BY <1>3, Zenon DEF mdb_env_close
  <2>2. \A q \in Proc : oldest'[q] = 0 \/ oldest'[q] = oldest[q]
    BY <1>0, <1>3, Zenon DEF mdb_env_close
  <2>3. \A r \in Rtx : rpc'[r] = "idle"
                       \/ (rpc'[r] = rpc[r] /\ slot'[r] = slot[r] /\ rt'[r] = rt[r])
    <3>1. rpc' = Mine(p, rpc, "idle") /\ slot' = Mine(p, slot, 0) /\ rt' = Mine(p, rt, 0)
      BY <1>3, Zenon DEF mdb_env_close, Forget
    <3> QED
      BY ONLY <3>1, Zenon DEF Mine
  <2> QED
    <3>1. \A q \in Proc : oldest'[q] <= mti
      <4>1. mti \in Nat /\ \A q \in Proc : oldest[q] <= mti
        BY <1>0, Zenon DEF PinInv
      <4> QED
        BY <2>2, <4>1
    <3>2. \A r \in Rtx, q \in Proc : Pinned(r) => oldest'[q] <= rt[r]
      <4>1. /\ \A r \in Rtx : rt[r] \in Nat
            /\ \A r \in Rtx, q \in Proc : Pinned(r) => oldest[q] <= rt[r]
        BY <1>0, Zenon DEF PinInv
      <4> QED
        BY <2>2, <4>1
    <3>3. \A r \in Rtx : /\ Announced(r)' => Announced(r) /\ slot'[r] = slot[r] /\ rt'[r] = rt[r]
                         /\ rpc'[r] = "store" => rpc[r] = "store" /\ rt'[r] = rt[r]
                         /\ Pinned(r)' => Pinned(r) /\ slot'[r] = slot[r] /\ rt'[r] = rt[r]
      BY <2>1, <2>3, Zenon DEF Announced, Pinned
    <3> QED
      BY <2>1, <3>1, <3>2, <3>3, ZenonT(60) DEF PinInv
<1>4. ASSUME NEW p \in Proc, Die(p) PROVE PinInv'
  BY <1>0, <1>4, SMTT(30) DEF Die, Forget, Mine, Threads, shared, readers, writers, copy, PinInv,
     Announced, Pinned
<1>5. ASSUME NEW p \in Proc, LockWriter(p) PROVE PinInv'
  <2>1. mti' >= mti /\ mti' \in Nat
    <3>1. mti' = mti \/ mti' = Newest
      BY <1>5, Zenon DEF LockWriter, mdb_mutex_failed, Newest
    <3>2. mti <= Newest
      BY Zenon DEF TxnidInv
    <3> QED
      BY <1>0, <3>1, <3>2, NewestFacts
  <2>2. UNCHANGED <<mrtxn, rt, slot, rpc, oldest, idx, acc>>
    BY <1>5, Zenon DEF LockWriter, readers
  <2>3. wpc' = [wpc EXCEPT ![p] = "run"]
    BY <1>5, Zenon DEF LockWriter
  <2> QED
    BY <1>0, <2>1, <2>2, <2>3, SMTT(30) DEF PinInv, Announced, Pinned
<1>6. ASSUME NEW p \in Proc, StartScan(p) PROVE PinInv'
  <2>1. wtx[p] = mti + 1
    BY <1>6, Zenon DEF StartScan, TxnidInv
  <2>2. \A r \in Rtx : Pinned(r) => slot[r] \in Nat /\ slot[r] < numreaders
    BY <1>0, SlotFacts, Zenon DEF Pinned, SlotInv
  <2>3. numreaders \in 0..MaxReaders
    BY Zenon DEF TypeOK
  <2> QED
    BY <1>0, <1>6, <2>1, <2>2, <2>3, SlotFacts, SMTT(30) DEF StartScan, shared, readers, writers, copy,
       PinInv, Announced, Pinned
<1>7. ASSUME NEW p \in Proc, ScanSlot(p) PROVE PinInv'
  <2>1. idx[p] \in Nat /\ idx[p] - 1 \in Slot /\ mrtxn[idx[p] - 1] \in Nat \cup {Idle}
    BY <1>0, <1>7, SlotFacts, Zenon DEF ScanSlot
  <2>2. UNCHANGED <<mti, mrtxn, rt, slot, rpc, oldest, wpc>>
    BY <1>7, Zenon DEF ScanSlot, shared, readers
  <2>3. /\ acc'[p] \in Nat /\ acc'[p] <= acc[p] /\ idx'[p] = idx[p] - 1
        /\ \A q \in Proc : q # p => acc'[q] = acc[q] /\ idx'[q] = idx[q]
    BY <1>0, <1>7, <2>1, SMTT(30) DEF ScanSlot
  <2>4. ASSUME NEW r \in Rtx, Pinned(r), idx'[p] <= slot[r] PROVE acc'[p] <= rt[r]
    <3>1. slot[r] \in Nat /\ rt[r] \in Nat
      BY <1>0, SlotFacts, Zenon
    <3>2. CASE idx[p] <= slot[r]
      BY <1>0, <1>7, <2>3, <2>4, <3>1, <3>2, SMTT(30) DEF ScanSlot, PinInv
    <3>3. CASE slot[r] = idx[p] - 1
      <4>1. mrtxn[idx[p] - 1] = rt[r] /\ pid[idx[p] - 1] # None
        BY <2>4, <3>3, ZenonT(60) DEF PinInv, Announced, Pinned, SlotInv, HoldsSlot
      <4> QED
        BY <1>0, <1>7, <2>1, <3>1, <4>1 DEF ScanSlot, Idle
    <3> QED
      BY <2>1, <2>3, <2>4, <3>1, <3>2, <3>3
  <2>5. \A q \in Proc : wpc'[q] = "scan" => acc'[q] <= mti'
    <3>1. \A q \in Proc : wpc[q] = "scan" => acc[q] <= mti
      BY Zenon DEF PinInv
    <3>2. wpc[p] = "scan"
      BY <1>7, Zenon DEF ScanSlot
    <3> QED
      BY <1>0, <2>2, <2>3, <3>1, <3>2, SMTT(30)
  <2>6. \A r \in Rtx, q \in Proc :
            wpc'[q] = "scan" /\ Pinned(r)' /\ idx'[q] <= slot'[r] => acc'[q] <= rt'[r]
    BY <2>2, <2>3, <2>4, Zenon DEF PinInv, Pinned
  <2> QED
    BY <2>2, <2>5, <2>6, Zenon DEF PinInv, Announced, Pinned
<1>8. ASSUME NEW p \in Proc, EndScan(p) PROVE PinInv'
  <2>1. \A r \in Rtx : Pinned(r) => acc[p] <= rt[r]
    BY <1>0, <1>8, SlotFacts DEF EndScan, PinInv
  <2> QED
    BY <1>0, <1>8, <2>1, ZenonT(60) DEF EndScan, shared, readers, writers, copy, PinInv, Announced,
       Pinned
<1>9. ASSUME NEW p \in Proc, WriteDbs(p) PROVE PinInv'
  BY <1>0, <1>9, Zenon DEF WriteDbs, shared, readers, writers, copy, PinInv, Announced, Pinned
<1>10. ASSUME NEW p \in Proc, WriteHdr(p) PROVE PinInv'
  BY <1>0, <1>10, Zenon DEF WriteHdr, shared, readers, writers, copy, PinInv, Announced, Pinned
<1>11. ASSUME NEW p \in Proc, PublishTxnid(p) PROVE PinInv'
  <2>1. mti' = mti + 1
    BY <1>11, Zenon DEF PublishTxnid, TxnidInv
  <2> QED
    BY <1>0, <1>11, <2>1, SMTT(30) DEF PublishTxnid, shared, readers, writers, copy, PinInv,
       Announced, Pinned
<1>12. ASSUME NEW p \in Proc, UnlockWriter(p) PROVE PinInv'
  BY <1>0, <1>12, Zenon DEF UnlockWriter, shared, readers, writers, copy, PinInv, Announced, Pinned
<1>13. ASSUME NEW r \in Rtx, LockReaders(r) PROVE PinInv'
  <2>1. UNCHANGED <<mti, rt, oldest, wpc, idx, acc>>
    BY <1>13, Zenon DEF LockReaders, writers
  <2> QED
    <3>1. /\ \A q \in Rtx : q # r => rpc'[q] = rpc[q] /\ slot'[q] = slot[q]
          /\ \A q \in Rtx : rpc[q] # "idle" => mrtxn'[slot[q]] = mrtxn[slot[q]]
          /\ rpc'[r] = "idle" \/ rpc'[r] = "claim"
      BY <1>13, ClaimFacts, Zenon
    <3>2. ~Announced(r)' /\ ~Pinned(r)' /\ rpc'[r] # "store"
      BY <3>1, Zenon DEF Announced, Pinned
    <3>3. \A q \in Rtx : Announced(q) => rpc[q] # "idle"
      BY Zenon DEF Announced
    <3>4. \A q \in Rtx : Announced(q)' => q # r /\ Announced(q) /\ slot'[q] = slot[q]
      BY <3>1, <3>2, Zenon DEF Announced
    <3>5. \A q \in Rtx : Pinned(q)' => q # r /\ Pinned(q) /\ slot'[q] = slot[q]
      BY <3>1, <3>2, Zenon DEF Pinned
    <3>6. \A q \in Rtx : Announced(q)' => mrtxn'[slot'[q]] = rt'[q]
      BY <2>1, <3>1, <3>3, <3>4, Zenon DEF PinInv
    <3>7. \A q \in Rtx : Announced(q)' \/ rpc'[q] = "store" => rt'[q] <= mti'
      BY <2>1, <3>1, <3>2, <3>4, Zenon DEF PinInv
    <3> QED
      BY <2>1, <3>5, <3>6, <3>7, Zenon DEF PinInv
<1>14. ASSUME NEW r \in Rtx, ClaimSlot(r) PROVE PinInv'
  BY <1>0, <1>14, Zenon DEF ClaimSlot, shared, readers, writers, copy, PinInv, Announced, Pinned
<1>15. ASSUME NEW r \in Rtx, LoadTxnid(r) PROVE PinInv'
  BY <1>0, <1>15, SMTT(30) DEF LoadTxnid, shared, readers, writers, copy, PinInv, Announced, Pinned
<1>16. ASSUME NEW r \in Rtx, StoreTxnid(r) PROVE PinInv'
  <2>1. \A q \in Rtx : rpc[q] # "idle" /\ q # r => slot[q] # slot[r]
    BY <1>16, Zenon DEF StoreTxnid, SlotInv
  <2> QED
    BY <1>0, <1>16, <2>1, Zenon DEF StoreTxnid, shared, readers, writers, copy, PinInv, Announced,
       Pinned
<1>17. ASSUME NEW r \in Rtx, CheckTxnid(r) PROVE PinInv'
  BY <1>0, <1>17, SMTT(30) DEF CheckTxnid, shared, readers, writers, copy, PinInv, Announced, Pinned
<1>18. ASSUME NEW r \in Rtx, CopyDbs(r) PROVE PinInv'
  BY <1>0, <1>18, Zenon DEF CopyDbs, shared, readers, writers, copy, PinInv, Announced, Pinned
<1>19. ASSUME NEW r \in Rtx, CopyLast(r) PROVE PinInv'
  BY <1>0, <1>19, Zenon DEF CopyLast, shared, readers, writers, copy, PinInv, Announced, Pinned
<1>20. ASSUME NEW r \in Rtx, mdb_txn_reset(r) PROVE PinInv'
  <2>1. \A q \in Rtx : rpc[q] # "idle" /\ q # r => slot[q] # slot[r]
    BY <1>20, Zenon DEF mdb_txn_reset, SlotInv
  <2> QED
    BY <1>0, <1>20, <2>1, ZenonT(60) DEF mdb_txn_reset, EndRead, shared, readers, writers, copy, PinInv,
       Announced, Pinned
<1>21. ASSUME NEW r \in Rtx, mdb_txn_abort(r) PROVE PinInv'
  <2>1. \A q \in Rtx : rpc[q] # "idle" /\ q # r => slot[q] # slot[r]
    BY <1>21, Zenon DEF mdb_txn_abort, SlotInv
  <2> QED
    BY <1>0, <1>21, <2>1, ZenonT(60) DEF mdb_txn_abort, EndRead, shared, readers, writers, copy, PinInv,
       Announced, Pinned
<1>22. ASSUME NEW r \in Rtx, mdb_txn_renew(r) PROVE PinInv'
  BY <1>0, <1>22, Zenon DEF mdb_txn_renew, shared, readers, writers, copy, PinInv, Announced,
     Pinned
<1>23. ASSUME NEW r \in Rtx, ReleaseSlot(r) PROVE PinInv'
  BY <1>0, <1>23, Zenon DEF ReleaseSlot, shared, readers, writers, copy, PinInv, Announced, Pinned
<1>24. ASSUME NEW r \in Rtx, StartCopy(r) PROVE PinInv'
  <2>1. \A q \in Rtx : rpc[q] # "idle" /\ q # r => slot[q] # slot[r]
    BY <1>24, Zenon DEF StartCopy, SlotInv
  <2> QED
    BY <1>0, <1>24, <2>1, ZenonT(60) DEF StartCopy, EndRead, shared, readers, writers, copy,
       PinInv, Announced, Pinned
<1>25. ASSUME NEW r \in Rtx, BlockWriters(r) PROVE PinInv'
  <2>1. mti' >= mti /\ mti' \in Nat
    <3>1. mti' = mti \/ mti' = Newest
      BY <1>25, Zenon DEF BlockWriters, mdb_mutex_failed, Newest
    <3>2. mti <= Newest
      BY Zenon DEF TxnidInv
    <3> QED
      BY <1>0, <3>1, <3>2, NewestFacts
  <2>2. UNCHANGED <<mrtxn, rt, slot, oldest, wpc, idx, acc>>
    BY <1>25, Zenon DEF BlockWriters, writers
  <2>3. rpc' = [rpc EXCEPT ![r] = "load"]
    BY <1>25, Zenon DEF BlockWriters
  <2> QED
    BY <1>0, <2>1, <2>2, <2>3, SMTT(30) DEF PinInv, Announced, Pinned
<1>26. ASSUME NEW p \in Proc,
             LockExclusive(p) \/ WaitShared(p) \/ LockShared(p) \/ mdb_reader_check(p)
      PROVE  PinInv'
  <2>1. UNCHANGED <<mrtxn, rpc, slot, rt, mti, oldest, wpc, acc, idx>>
    BY <1>26, Zenon DEF LockExclusive, WaitShared, LockShared, mdb_reader_check, shared,
       readers,
       writers, copy
  <2> QED
    BY <2>1, Zenon DEF PinInv, Announced, Pinned
<1>27. ASSUME NEW r \in Rtx,
             CopyMetas(r)
      PROVE  PinInv'
  <2>1. UNCHANGED <<mrtxn, rpc, slot, rt, mti, oldest, wpc, acc, idx>>
    BY <1>27, Zenon DEF CopyMetas, shared, readers, writers, copy
  <2> QED
    BY <2>1, Zenon DEF PinInv, Announced, Pinned
<1>28. CASE UNCHANGED vars
  BY <1>28, Zenon DEF vars, shared, readers, writers, copy, PinInv, Announced, Pinned
<1> QED
  BY <1>1, <1>2, <1>3, <1>4, <1>5, <1>6, <1>7, <1>8, <1>9, <1>10, <1>11, <1>12, <1>13,
     <1>14, <1>15, <1>16, <1>17, <1>18, <1>19, <1>20, <1>21, <1>22, <1>23, <1>24, <1>25,
     <1>26, <1>27, <1>28, Zenon DEF Next

\* A step that writes no meta page, and after which the process is not
\* between the two writes of one.
LEMMA MetaKept ==
    ASSUME MetaInv, NEW p \in Proc, NEW v, v # "half",
           wpc \in [Proc -> {"idle", "run", "scan", "half", "wrote", "done"}],
           UNCHANGED <<hdr, dbs>>, wpc' = [wpc EXCEPT ![p] = v],
           \A q \in Proc : q # p => wtx'[q] = wtx[q]
    PROVE  MetaInv'
<1>1. \A q \in Proc : wpc'[q] = "half" => wpc[q] = "half" /\ wtx'[q] = wtx[q]
  BY Zenon
<1>2. Newest' = Newest
  BY Zenon DEF Newest, mdb_env_pick_meta
<1> QED
  BY <1>1, <1>2, Zenon DEF MetaInv

\* The newest meta page is never the one being written.
LEMMA MetaStep == Inv /\ DieExclusive = {} /\ [Next]_vars => MetaInv'
<1> SUFFICES ASSUME Inv, DieExclusive = {}, [Next]_vars PROVE MetaInv'
  BY Zenon
<1> USE LmdbReadersAssumption DEF Inv
<1>0. /\ dbs \in [0..1 -> Nat] /\ hdr \in [0..1 -> Nat] /\ wtx \in [Proc -> Nat]
      /\ wpc \in [Proc -> {"idle", "run", "scan", "half", "wrote", "done"}]
  BY Zenon DEF TypeOK
<1>1. ASSUME NEW p \in Proc, Die(p) PROVE MetaInv'
  <2>1. UNCHANGED <<hdr, dbs>> /\ wpc' = [wpc EXCEPT ![p] = "idle"]
    BY <1>1, Zenon DEF Die
  <2>2. \A q \in Proc : q # p => wtx'[q] = wtx[q]
    BY <1>0, <1>1, Zenon DEF Die
  <2> QED
    BY <1>0, <2>1, <2>2, MetaKept, Zenon
<1>2. ASSUME NEW p \in Proc, LockWriter(p) PROVE MetaInv'
  <2>1. UNCHANGED <<hdr, dbs>> /\ wpc' = [wpc EXCEPT ![p] = "run"]
    BY <1>2, Zenon DEF LockWriter
  <2>2. \A q \in Proc : q # p => wtx'[q] = wtx[q]
    BY <1>0, <1>2, Zenon DEF LockWriter
  <2> QED
    BY <1>0, <2>1, <2>2, MetaKept, Zenon
<1>3. ASSUME NEW p \in Proc, StartScan(p) PROVE MetaInv'
  <2>1. UNCHANGED <<hdr, dbs>> /\ wpc' = [wpc EXCEPT ![p] = "scan"]
    BY <1>3, Zenon DEF StartScan, shared
  <2>2. \A q \in Proc : q # p => wtx'[q] = wtx[q]
    BY <1>0, <1>3, Zenon DEF StartScan
  <2> QED
    BY <1>0, <2>1, <2>2, MetaKept, Zenon
<1>4. ASSUME NEW p \in Proc, EndScan(p) PROVE MetaInv'
  <2>1. UNCHANGED <<hdr, dbs>> /\ wpc' = [wpc EXCEPT ![p] = "run"]
    BY <1>4, Zenon DEF EndScan, shared
  <2>2. \A q \in Proc : q # p => wtx'[q] = wtx[q]
    BY <1>0, <1>4, Zenon DEF EndScan
  <2> QED
    BY <1>0, <2>1, <2>2, MetaKept, Zenon
<1>5. ASSUME NEW p \in Proc, WriteDbs(p) PROVE MetaInv'
  <2>1. wtx[p] = Newest + 1 /\ wtx[p] % 2 = 1 - (Newest % 2) /\ Newest \in Nat
    BY <1>5, NewestFacts, Parity, Zenon DEF WriteDbs, TxnidInv
  <2>2. \A q \in Proc : q # p => wpc[q] = "idle"
    BY <1>5, WriterFacts, Zenon DEF WriteDbs
  <2>3. Newest' = Newest
    BY <1>5, Zenon DEF WriteDbs, Newest, mdb_env_pick_meta
  <2>4. Newest % 2 \in 0..1 /\ 1 - (Newest % 2) \in 0..1
    BY <2>1, Parity, Zenon
  <2>5. /\ dbs'[1 - (Newest % 2)] = Newest + 1 /\ dbs'[Newest % 2] = dbs[Newest % 2]
        /\ hdr' = hdr /\ wtx' = wtx
    BY <1>0, <1>5, <2>1, <2>4 DEF WriteDbs
  <2>6. \A q \in Proc : wpc'[q] = "half" => q = p
    BY <1>0, <1>5, <2>2, Zenon DEF WriteDbs
  <2> QED
    BY <2>1, <2>3, <2>5, <2>6 DEF MetaInv
<1>6. ASSUME NEW p \in Proc, WriteHdr(p) PROVE MetaInv'
  <2>1. wtx[p] = Newest + 1 /\ Newest' = Newest + 1 /\ Newest \in Nat
    BY <1>6, HdrFacts, NewestFacts, Zenon
  <2>2. \A q \in Proc : wpc'[q] # "half"
    BY <1>0, <1>6, WriterFacts, Zenon DEF WriteHdr
  <2>3. Newest % 2 \in 0..1 /\ 1 - (Newest % 2) \in 0..1 /\ (Newest + 1) % 2 = 1 - (Newest %
     2)
    BY <2>1, Parity, Zenon
  <2>4. /\ hdr'[1 - (Newest % 2)] = Newest + 1 /\ hdr'[Newest % 2] = Newest
        /\ dbs' = dbs /\ dbs[1 - (Newest % 2)] = Newest + 1 /\ dbs[Newest % 2] = Newest
    BY <1>0, <1>6, <2>1, <2>3, ZenonT(60) DEF WriteHdr, MetaInv
  <2>5. Newest' % 2 = 1 - (Newest % 2) /\ 1 - (Newest' % 2) = Newest % 2
    BY SMTT(40), <2>1, <2>3
  <2> QED
    BY <2>1, <2>2, <2>4, <2>5 DEF MetaInv
<1>7. ASSUME NEW p \in Proc, PublishTxnid(p) PROVE MetaInv'
  <2>1. UNCHANGED <<hdr, dbs>> /\ wpc' = [wpc EXCEPT ![p] = "done"]
    BY <1>7, Zenon DEF PublishTxnid
  <2>2. \A q \in Proc : q # p => wtx'[q] = wtx[q]
    BY <1>0, <1>7, Zenon DEF PublishTxnid
  <2> QED
    BY <1>0, <2>1, <2>2, MetaKept, Zenon
<1>8. ASSUME NEW p \in Proc, UnlockWriter(p) PROVE MetaInv'
  <2>1. UNCHANGED <<hdr, dbs>> /\ wpc' = [wpc EXCEPT ![p] = "idle"]
    BY <1>8, Zenon DEF UnlockWriter
  <2>2. \A q \in Proc : q # p => wtx'[q] = wtx[q]
    BY <1>0, <1>8, Zenon DEF UnlockWriter
  <2> QED
    BY <1>0, <2>1, <2>2, MetaKept, Zenon
<1>9. ASSUME NEW p \in Proc,
             \/ LockExclusive(p) \/ WaitShared(p) \/ LockShared(p) \/ mdb_env_setup_locks(p)
             \/ mdb_env_share_locks(p) \/ mdb_env_close(p) \/ mdb_reader_check(p) \/
                ScanSlot(p)
      PROVE  MetaInv'
  <2>1. UNCHANGED <<hdr, dbs, wpc, wtx>>
    BY <1>9, Zenon DEF LockExclusive, WaitShared, LockShared, mdb_env_setup_locks,
       mdb_env_share_locks, mdb_env_close, mdb_reader_check, ScanSlot, shared, readers,
       writers, copy
  <2> QED
    BY <2>1, Zenon DEF MetaInv, Newest, mdb_env_pick_meta
<1>10. ASSUME NEW r \in Rtx,
             \/ LockReaders(r) \/ ClaimSlot(r) \/ LoadTxnid(r) \/ StoreTxnid(r) \/
                CheckTxnid(r)
             \/ CopyDbs(r) \/ CopyLast(r) \/ mdb_txn_reset(r) \/ mdb_txn_abort(r)
             \/ mdb_txn_renew(r) \/ ReleaseSlot(r) \/ StartCopy(r) \/ BlockWriters(r)
             \/ CopyMetas(r)
      PROVE  MetaInv'
  <2>1. UNCHANGED <<hdr, dbs, wpc, wtx>>
    BY <1>10, Zenon DEF LockReaders, ClaimSlot, LoadTxnid, StoreTxnid, CheckTxnid, CopyDbs,
       CopyLast, mdb_txn_reset, mdb_txn_abort, mdb_txn_renew, ReleaseSlot, StartCopy,
       BlockWriters, CopyMetas, EndRead, shared, readers, writers, copy
  <2> QED
    BY <2>1, Zenon DEF MetaInv, Newest, mdb_env_pick_meta
<1>11. CASE UNCHANGED vars
  BY <1>11, Zenon DEF vars, shared, writers, MetaInv, Newest, mdb_env_pick_meta
<1> QED
  BY <1>1, <1>2, <1>3, <1>4, <1>5, <1>6, <1>7, <1>8, <1>9, <1>10, <1>11, ZenonT(40) DEF Next

\* mti_txnid keeps up with the meta pages.
LEMMA TxnidStep == Inv /\ DieExclusive = {} /\ [Next]_vars => TxnidInv'
<1> SUFFICES ASSUME Inv, DieExclusive = {}, [Next]_vars PROVE TxnidInv'
  BY Zenon
<1> USE LmdbReadersAssumption DEF Inv
<1>0. /\ mti \in Nat /\ hdr \in [0..1 -> Nat] /\ wtx \in [Proc -> Nat]
      /\ env \in [Proc -> {"closed", "wait", "excl", "reset", "open"}]
      /\ wpc \in [Proc -> {"idle", "run", "scan", "half", "wrote", "done"}]
      /\ cp \in [Rtx -> {"no", "wait", "locked", "pages"}]
  BY Zenon DEF TypeOK
<1>1. ASSUME NEW p \in Proc, LockExclusive(p) PROVE TxnidInv'
  <2>1. UNCHANGED <<mti, hdr, wmutex, wpc, wtx, cp>>
    BY <1>1, Zenon DEF LockExclusive, shared, readers, writers, copy
  <2>2. ~\E q \in Proc : env[q] = "reset"
    BY <1>1, Zenon DEF LockExclusive, Holds
  <2> QED
    BY <2>1, <2>2, Zenon DEF TxnidInv, Newest, mdb_env_pick_meta
<1>2. ASSUME NEW p \in Proc, WaitShared(p) PROVE TxnidInv'
  BY <1>0, <1>2, ZenonT(60) DEF WaitShared, Holds, shared, readers, writers, copy, TxnidInv,
     Newest, mdb_env_pick_meta
<1>3. ASSUME NEW p \in Proc, LockShared(p) PROVE TxnidInv'
  BY <1>0, <1>3, Zenon DEF LockShared, shared, readers, writers, copy, TxnidInv, Newest,
     mdb_env_pick_meta
<1>4. ASSUME NEW p \in Proc, mdb_env_setup_locks(p) PROVE TxnidInv'
  <2>1. Newest' = Newest /\ Newest \in Nat
    BY <1>4, NewestFacts, Zenon DEF mdb_env_setup_locks, Newest, mdb_env_pick_meta,
       shared
  <2>2. /\ mti' = 0 /\ env' = [env EXCEPT ![p] = "reset"] /\ env[p] = "excl"
        /\ UNCHANGED <<wpc, cp>>
    BY <1>4, Zenon DEF mdb_env_setup_locks, readers, writers, copy
  <2>3. (\A q \in Proc : wpc[q] = "idle") /\ \A r \in Rtx : cp[r] = "no"
    BY <2>2, AloneFacts, Zenon
  <2>4. mti' <= Newest' /\ env'[p] = "reset"
    BY <1>0, <2>1, <2>2
  <2> QED
    BY <2>2, <2>3, <2>4, Zenon DEF TxnidInv
<1>5. ASSUME NEW p \in Proc, mdb_env_share_locks(p) PROVE TxnidInv'
  <2>1. Newest' = Newest /\ Newest \in Nat
    BY <1>5, NewestFacts, Zenon DEF mdb_env_share_locks, Newest, mdb_env_pick_meta, shared
  <2>2. mti' = Newest
    BY <1>5, Zenon DEF mdb_env_share_locks, Newest
  <2>3. env[p] = "reset" /\ UNCHANGED <<wpc, cp>>
    BY <1>5, Zenon DEF mdb_env_share_locks, readers, writers, copy
  <2>4. (\A q \in Proc : wpc[q] = "idle") /\ \A r \in Rtx : cp[r] = "no"
    BY <2>3, AloneFacts, Zenon
  <2>5. mti' = Newest' /\ mti' <= Newest'
    BY <2>1, <2>2
  <2> QED
    BY <2>3, <2>4, <2>5, Zenon DEF TxnidInv
<1>6. ASSUME NEW p \in Proc, mdb_env_close(p) PROVE TxnidInv'
  <2>1. /\ UNCHANGED <<mti, hdr, wmutex, wpc, wtx>> /\ env[p] = "open"
        /\ env' = [env EXCEPT ![p] = "closed"] /\ cp' = Mine(p, cp, "no")
    BY <1>6, Zenon DEF mdb_env_close, Forget, writers
  <2>2. \A q \in Proc : env[q] = "reset" => env'[q] = "reset"
    BY <1>0, <2>1, Zenon
  <2>3. \A r \in Rtx : cp'[r] = "locked" => cp[r] = "locked"
    BY <2>1, Zenon DEF Mine
  <2> QED
    BY <2>1, <2>2, <2>3, Zenon DEF TxnidInv, Newest, mdb_env_pick_meta
<1>7. ASSUME NEW p \in Proc, Die(p) PROVE TxnidInv'
  <2>1. Newest' = Newest /\ Newest \in Nat
    BY <1>7, NewestFacts, Zenon DEF Die, Newest, mdb_env_pick_meta, shared
  <2>2. \A q \in Proc : env[q] = "reset" => env'[q] = "reset"
    BY <1>0, <1>7, Zenon DEF Die
  <2>3. \A q \in Proc : wpc[q] = "wrote" => wpc'[q] = "wrote" \/ wmutex' = Dead
    BY <1>0, <1>7, Zenon DEF Die, Threads, MutexInv
  <2>4. wmutex = Dead => wmutex' = Dead
    BY <1>7, Zenon DEF Die
  <2>5. \A q \in Proc : wpc'[q] # "idle" => wpc'[q] = wpc[q] /\ wtx'[q] = wtx[q]
    BY <1>0, <1>7, Zenon DEF Die
  <2>6. \A r \in Rtx : cp'[r] = "locked" => cp[r] = "locked"
    BY <1>0, <1>7, Zenon DEF Die, Forget, Mine
  <2>7. mti' = mti
    BY <1>7, Zenon DEF Die
  <2> QED
    BY <2>1, <2>2, <2>3, <2>4, <2>5, <2>6, <2>7, ZenonT(60) DEF TxnidInv
<1>8. ASSUME NEW p \in Proc, LockWriter(p) PROVE TxnidInv'
  <2>1. Newest' = Newest /\ Newest \in Nat
    BY <1>8, NewestFacts, Zenon DEF LockWriter, Newest, mdb_env_pick_meta, shared
  <2>2. /\ mti' = Newest /\ \A q \in Proc : wpc[q] = "idle"
        /\ \A r \in Rtx : cp[r] # "locked"
    <3>1. /\ env[p] = "open"
          /\ (wmutex = None /\ mti' = mti) \/ (wmutex = Dead /\ mti' = mdb_env_pick_meta)
      BY <1>8, Zenon DEF LockWriter, mdb_mutex_failed
    <3> QED
      BY <3>1, TakeFacts, Zenon
  <2>3. wpc' = [wpc EXCEPT ![p] = "run"] /\ wtx' = [wtx EXCEPT ![p] = mti' + 1] /\ cp' = cp
    BY <1>8, Zenon DEF LockWriter, readers, copy
  <2> QED
    BY <1>0, <2>1, <2>2, <2>3 DEF TxnidInv
<1>9. ASSUME NEW p \in Proc, StartScan(p) PROVE TxnidInv'
  BY <1>0, <1>9, ZenonT(60) DEF StartScan, shared, readers, writers, copy, TxnidInv, Newest,
     mdb_env_pick_meta
<1>10. ASSUME NEW p \in Proc, EndScan(p) PROVE TxnidInv'
  BY <1>0, <1>10, ZenonT(60) DEF EndScan, shared, readers, writers, copy, TxnidInv, Newest,
     mdb_env_pick_meta
<1>11. ASSUME NEW p \in Proc, WriteDbs(p) PROVE TxnidInv'
  BY <1>0, <1>11, ZenonT(60) DEF WriteDbs, shared, readers, writers, copy, TxnidInv, Newest,
     mdb_env_pick_meta
<1>12. ASSUME NEW p \in Proc, WriteHdr(p) PROVE TxnidInv'
  <2>1. wtx[p] = Newest + 1 /\ Newest' = Newest + 1 /\ Newest \in Nat
    BY <1>12, HdrFacts, NewestFacts, Zenon
  <2>2. /\ mti' = mti /\ mti = Newest /\ wtx' = wtx /\ cp' = cp
        /\ wpc' = [wpc EXCEPT ![p] = "wrote"]
    BY <1>12, Zenon DEF WriteHdr, readers, writers, copy, TxnidInv
  <2>3. /\ \A q \in Proc : q # p => wpc[q] = "idle"
        /\ \A r \in Rtx : cp[r] # "locked"
    BY <1>12, WriterFacts, Zenon DEF WriteHdr
  <2> QED
    BY <1>0, <2>1, <2>2, <2>3, SMTT(40) DEF TxnidInv
<1>13. ASSUME NEW p \in Proc, PublishTxnid(p) PROVE TxnidInv'
  <2>1. Newest' = Newest /\ Newest \in Nat
    BY <1>13, NewestFacts, Zenon DEF PublishTxnid, Newest, mdb_env_pick_meta, shared
  <2>2. mti' = Newest /\ cp' = cp /\ wtx' = wtx /\ wpc' = [wpc EXCEPT ![p] = "done"]
    BY <1>13, Zenon DEF PublishTxnid, readers, copy, TxnidInv
  <2>3. \A q \in Proc : q # p => wpc[q] = "idle"
    BY <1>13, WriterFacts, ZenonT(40) DEF PublishTxnid
  <2> QED
    BY <1>0, <2>1, <2>2, <2>3, SMTT(30) DEF TxnidInv
<1>14. ASSUME NEW p \in Proc, UnlockWriter(p) PROVE TxnidInv'
  BY <1>0, <1>14, ZenonT(60) DEF UnlockWriter, shared, readers, writers, copy, TxnidInv,
     Newest, mdb_env_pick_meta
<1>15. ASSUME NEW r \in Rtx, mdb_txn_reset(r) PROVE TxnidInv'
  <2>1. UNCHANGED <<mti, hdr, env, wmutex, wpc, wtx>> /\ cp' = [cp EXCEPT ![r] = "no"]
    BY <1>15, Zenon DEF mdb_txn_reset, EndRead, writers
  <2>2. \A q \in Rtx : cp'[q] = "locked" => cp[q] = "locked"
    BY <1>0, <2>1, Zenon
  <2> QED
    BY <2>1, <2>2, Zenon DEF TxnidInv, Newest, mdb_env_pick_meta
<1>16. ASSUME NEW r \in Rtx, mdb_txn_abort(r) PROVE TxnidInv'
  <2>1. UNCHANGED <<mti, hdr, env, wmutex, wpc, wtx>> /\ cp' = [cp EXCEPT ![r] = "no"]
    BY <1>16, Zenon DEF mdb_txn_abort, EndRead, writers
  <2>2. \A q \in Rtx : cp'[q] = "locked" => cp[q] = "locked"
    BY <1>0, <2>1, Zenon
  <2> QED
    BY <2>1, <2>2, Zenon DEF TxnidInv, Newest, mdb_env_pick_meta
<1>17. ASSUME NEW r \in Rtx, StartCopy(r) PROVE TxnidInv'
  <2>1. UNCHANGED <<mti, hdr, env, wmutex, wpc, wtx>> /\ cp' = [cp EXCEPT ![r] = "wait"]
    BY <1>17, Zenon DEF StartCopy, EndRead, writers
  <2>2. \A q \in Rtx : cp'[q] = "locked" => cp[q] = "locked"
    BY <1>0, <2>1, Zenon
  <2> QED
    BY <2>1, <2>2, Zenon DEF TxnidInv, Newest, mdb_env_pick_meta
<1>18. ASSUME NEW r \in Rtx, BlockWriters(r) PROVE TxnidInv'
  <2>1. Newest' = Newest /\ Newest \in Nat
    BY <1>18, NewestFacts, Zenon DEF BlockWriters, Newest, mdb_env_pick_meta, shared
  <2>2. /\ mti' = Newest /\ \A q \in Proc : wpc[q] = "idle"
    <3>1. /\ Home[r] \in Proc /\ env[Home[r]] = "open"
          /\ (wmutex = None /\ mti' = mti) \/ (wmutex = Dead /\ mti' = mdb_env_pick_meta)
      <4>1. /\ rpc[r] = "parked"
            /\ (wmutex = None /\ mti' = mti) \/ (wmutex = Dead /\ mti' = mdb_env_pick_meta)
        BY <1>18, Zenon DEF BlockWriters, mdb_mutex_failed
      <4>2. rpc[r] # "idle" => env[Home[r]] = "open"
        BY Zenon DEF EnvInv
      <4> QED
        BY <4>1, <4>2, Zenon
    <3> QED
      BY <3>1, TakeFacts, Zenon
  <2>3. wpc' = wpc
    BY <1>18, Zenon DEF BlockWriters, writers
  <2>4. /\ mti' = Newest' /\ Newest' <= Newest'
        /\ \A q \in Proc : wpc'[q] = "idle"
    BY <2>1, <2>2, <2>3
  <2> QED
    BY <2>4, Zenon DEF TxnidInv
<1>19. ASSUME NEW r \in Rtx, CopyMetas(r) PROVE TxnidInv'
  <2>1. UNCHANGED <<mti, hdr, env, wpc, wtx>> /\ cp' = [cp EXCEPT ![r] = "pages"]
    BY <1>19, Zenon DEF CopyMetas, writers
  <2>2. cp[r] = "locked"
    BY <1>19, Zenon DEF CopyMetas
  <2>3. mti' = Newest'
    BY <2>1, <2>2, Zenon DEF TxnidInv, Newest, mdb_env_pick_meta
  <2>4. \A q \in Rtx : cp'[q] = "locked" => cp[q] = "locked"
    BY <1>0, <2>1, Zenon
  <2> QED
    BY <2>1, <2>3, <2>4, Zenon DEF TxnidInv, Newest, mdb_env_pick_meta
<1>20. ASSUME NEW p \in Proc,
             mdb_reader_check(p) \/ ScanSlot(p)
      PROVE  TxnidInv'
  <2>1. UNCHANGED <<mti, hdr, env, wmutex, wpc, wtx, cp>>
    BY <1>20, Zenon DEF mdb_reader_check, ScanSlot, shared, readers, writers, copy
  <2> QED
    BY <2>1, Zenon DEF TxnidInv, Newest, mdb_env_pick_meta
<1>21. ASSUME NEW r \in Rtx,
             \/ LockReaders(r) \/ ClaimSlot(r) \/ LoadTxnid(r) \/ StoreTxnid(r) \/
                CheckTxnid(r)
             \/ CopyDbs(r) \/ CopyLast(r) \/ mdb_txn_renew(r) \/ ReleaseSlot(r)
      PROVE  TxnidInv'
  <2>1. UNCHANGED <<mti, hdr, env, wmutex, wpc, wtx, cp>>
    BY <1>21, ZenonT(40) DEF LockReaders, ClaimSlot, LoadTxnid, StoreTxnid, CheckTxnid, CopyDbs,
       CopyLast, mdb_txn_renew, ReleaseSlot, shared, readers, writers, copy
  <2> QED
    BY <2>1, Zenon DEF TxnidInv, Newest, mdb_env_pick_meta
<1>22. CASE UNCHANGED vars
  BY <1>22, Zenon DEF vars, shared, readers, writers, copy, TxnidInv, Newest,
     mdb_env_pick_meta
<1> QED
  BY <1>1, <1>2, <1>3, <1>4, <1>5, <1>6, <1>7, <1>8, <1>9, <1>10, <1>11, <1>12, <1>13,
     <1>14, <1>15, <1>16, <1>17, <1>18, <1>19, <1>20, <1>21, <1>22, Zenon DEF Next

\* Inv is inductive.
THEOREM Invariance == DieExclusive = {} => (Spec => []Inv)
<1> SUFFICES ASSUME DieExclusive = {} PROVE Spec => []Inv
  BY Zenon
<1>1. Init => Inv
  <2> SUFFICES ASSUME Init PROVE Inv
    BY Zenon
  <2> USE LmdbReadersAssumption DEF Init
  <2>1. TypeOK
    BY SlotFacts, Zenon DEF TypeOK, ReaderStates
  <2>2. Newest = 0 /\ 0 % 2 = 0
    BY DEF Newest, mdb_env_pick_meta
  <2>3. EnvInv /\ SlotInv
    BY Zenon DEF EnvInv, SlotInv, HoldsSlot
  <2>4. MutexInv
    BY Zenon DEF MutexInv
  <2>5. PinInv /\ CopyInv
    BY SMTT(40) DEF PinInv, CopyInv, Announced, Pinned, SnapshotFresh, CopyPinned
  <2>6. MetaInv /\ TxnidInv
    BY <2>2 DEF MetaInv, TxnidInv
  <2> QED
    BY <2>1, <2>3, <2>4, <2>5, <2>6, Zenon DEF Inv
<1>2. Inv /\ [Next]_vars => Inv'
  BY TypeStep, EnvStep, MutexStep, SlotStep, PinStep, MetaStep, TxnidStep, CopyStep, Zenon DEF Inv
<1> QED
  BY <1>1, <1>2, PTL DEF Spec

\* However many processes and readers come, go and die, no process ever
\* takes the snapshot of a reader that passed the check for an old one.
THEOREM PinsAreRespected == DieExclusive = {} => (Spec => []PinRespected)
<1>1. Inv => PinRespected
  BY Zenon DEF Inv, PinInv, PinRespected
<1> QED
  BY <1>1, Invariance, PTL

\* A reader reads the commit it announced or a later one.
THEOREM SnapshotsAreFresh == DieExclusive = {} => (Spec => []SnapshotFresh)
<1>1. Inv => SnapshotFresh
  BY Zenon DEF Inv, CopyInv
<1> QED
  BY <1>1, Invariance, PTL

\* The newest meta page in a copy of the environment is the pinned one.
THEOREM CopiesArePinned == DieExclusive = {} => (Spec => []CopyPinned)
<1>1. Inv => CopyPinned
  BY Zenon DEF Inv, CopyInv
<1> QED
  BY <1>1, Invariance, PTL

\* What is read and what is copied belongs to the snapshot announced.
THEOREM SnapshotsAreIntact == DieExclusive = {} => (Spec => []SnapshotsIntact)
BY SnapshotsAreFresh, CopiesArePinned, PTL DEF SnapshotsIntact

\* A slot has one owner, and the writer scans it.
THEOREM SlotsAreExclusive == DieExclusive = {} => (Spec => []SlotsExclusive)
<1>1. Inv => SlotsExclusive
  BY ZenonT(40) DEF Inv, SlotInv, SlotsExclusive, HoldsSlot
<1> QED
  BY <1>1, Invariance, PTL

\* A write transaction follows the newest meta page.
THEOREM WritersFollowNewest == DieExclusive = {} => (Spec => []WriterFollowsNewest)
<1>1. Inv => WriterFollowsNewest
  BY Zenon DEF Inv, TxnidInv, WriterFollowsNewest, Newest
<1> QED
  BY <1>1, Invariance, PTL

\* mti_txnid never goes back for a process that has the environment open.
THEOREM TxnidNeverBack == DieExclusive = {} => (Spec => TxnidGrows)
<1> SUFFICES ASSUME DieExclusive = {} PROVE Spec => TxnidGrows
  BY Zenon
<1>1. ASSUME Inv, [Next]_vars, NEW q \in Proc, env[q] = "open", env'[q] = "open"
      PROVE  mti <= mti'
  <2> USE DEF Inv
  <2>1. mti \in Nat
    BY <1>1, Zenon DEF TypeOK
  <2>2. ASSUME NEW p \in Proc, mdb_env_setup_locks(p) \/ mdb_env_share_locks(p) PROVE FALSE
    BY <1>1, <2>2, AloneFacts, Zenon DEF mdb_env_setup_locks, mdb_env_share_locks
  <2>3. ASSUME NEW p \in Proc, LockWriter(p) PROVE mti <= mti'
    BY <1>1, <2>1, <2>3, SMTT(40) DEF LockWriter, mdb_mutex_failed, TxnidInv, Newest
  <2>4. ASSUME NEW r \in Rtx, BlockWriters(r) PROVE mti <= mti'
    BY <1>1, <2>1, <2>4, SMTT(40) DEF BlockWriters, mdb_mutex_failed, TxnidInv, Newest
  <2>5. ASSUME NEW p \in Proc, PublishTxnid(p) PROVE mti <= mti'
    BY <1>1, <2>1, <2>5, Zenon DEF PublishTxnid, TxnidInv
  <2>6. ASSUME NEW p \in Proc,
               \/ LockExclusive(p) \/ WaitShared(p) \/ LockShared(p) \/ mdb_env_close(p)
               \/ Die(p) \/ mdb_reader_check(p) \/ StartScan(p) \/ ScanSlot(p)
               \/ EndScan(p) \/ WriteDbs(p) \/ WriteHdr(p) \/ UnlockWriter(p)
        PROVE  mti' = mti
    BY <2>6, Zenon DEF LockExclusive, WaitShared, LockShared, mdb_env_close, Die,
       mdb_reader_check,
         StartScan, ScanSlot, EndScan, WriteDbs, WriteHdr, UnlockWriter, shared
  <2>7. ASSUME NEW r \in Rtx,
               \/ LockReaders(r) \/ ClaimSlot(r) \/ LoadTxnid(r) \/ StoreTxnid(r)
               \/ CheckTxnid(r) \/ CopyDbs(r) \/ CopyLast(r) \/ mdb_txn_reset(r)
               \/ mdb_txn_abort(r) \/ mdb_txn_renew(r) \/ ReleaseSlot(r)
               \/ StartCopy(r) \/ CopyMetas(r)
        PROVE  mti' = mti
    BY <2>7, Zenon DEF LockReaders, ClaimSlot, LoadTxnid, StoreTxnid, CheckTxnid, CopyDbs,
       CopyLast,
         mdb_txn_reset, mdb_txn_abort, mdb_txn_renew, ReleaseSlot, StartCopy, EndRead,
         CopyMetas, shared
  <2>8. CASE UNCHANGED vars
    BY <2>1, <2>8 DEF vars, shared
  <2>9. mti' = mti => mti <= mti'
    BY <2>1
  <2> QED
    BY <1>1, <2>2, <2>3, <2>4, <2>5, <2>6, <2>7, <2>8, <2>9, Zenon DEF Next
<1>2. Inv /\ [Next]_vars => [(\E p \in Proc : env[p] = "open" /\ env'[p] = "open") => mti <= mti']_vars
  BY <1>1, Zenon
<1> QED
  BY <1>2, Invariance, PTL DEF Spec, TxnidGrows
=============================================================================
