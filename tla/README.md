# Verification of the node's concurrent core and its vendored C libraries

TLA+ models, TLC configurations and TLAPS proofs kept beside the node in `src/`.
Source paths below are relative to `src/src/`, those of the C libraries to
`src/vendors/`; `PROJECT.json` gives, for every definition, the lines it
translates.

## 1. The system

The node is one process made of Lwt threads. Lwt is cooperative: a thread runs
without interruption up to its next await on an unresolved promise. An action of
a model of OCaml code is one such uninterrupted segment, all of its trailing
effects included; interleavings happen at awaits only. The awaits of logging are
merged into the network or disk await next to them. Below the node are two C
libraries: LMDB, which holds its database and in which processes and POSIX
threads do share memory, and micro-ecc, which computes P-256 keys and signatures.

```
 peers <-> p2p_connect_handler --- new connections ---> p2p_reader / distributed_db
              |  point & peer states                        |  notify        ^
              |  pool tables, bans                          v                | fetch
           p2p_maintenance                              requester ----------+
                                                            ^ pipes
   chain / peer / block validators, prevalidator = Workers (queue or dropbox)
                            |
                     raw_store ---> LMDB: lock file | pages | B+tree, cursors | copy
   signer, crypto    ---> micro-ecc: words | curves, ECDSA
```

### Inventory

| Part | Source | Model | Proofs |
|---|---|---|---|
| Requester: read-through table and request scheduler | `lib_requester/requester.ml`, `lib_shell/distributed_db_requester.ml` | `Requester` | `RequesterProofs` |
| Pipe: bounded queue between threads | `lib_stdlib/lwt_pipe.ml` | `LwtPipe`, abstractly `Channel` | `LwtPipeProofs` |
| Worker: request-serving thread and its life | `lib_workers/worker.ml`, `lib_stdlib/lwt_dropbox.ml` | `Worker` | `WorkerProofs` |
| Connections: connect, accept, authenticate, ban | `lib_p2p/p2p_connect_handler.ml`, `p2p_point_state.ml`, `p2p_peer_state.ml`, `p2p_pool.ml` | `P2pConnect` | `P2pConnectProofs` |
| Readers and chain activation | `lib_shell/p2p_reader.ml`, `distributed_db.ml` | `P2pReader` | `P2pReaderProofs` |
| LMDB: lock file, readers, writers | `ocaml-lmdb/src/mdb.c` | `LmdbReaders` | `LmdbReadersProofs` |
| LMDB: pages of a transaction, commit, power failure | `mdb.c` | `LmdbPages`, abstractly `SnapshotStore` | |
| LMDB: B+tree and cursors | `mdb.c` | `LmdbTree`, `LmdbCursor` | |
| LMDB: compacting copy | `mdb.c` | `LmdbCopy` | `LmdbCopyProofs` |
| LMDB: lists of page numbers | `ocaml-lmdb/src/midl.c` | `Midl` | `MidlProofs` |
| micro-ecc: multi-word arithmetic | `ocaml-uecc/src/uECC.c`, `curve-specific.h` | `UeccVli` | |
| micro-ecc: curves, keys, signatures | the same | `Uecc` | |
| Socket, I/O scheduler, maintenance, swap | `lib_p2p/` | planned | |
| Validators, bootstrap pipeline, prevalidator | `lib_shell/` | planned | |
| State, checkpoints, snapshots | `lib_shell/state.ml`, `snapshots.ml` | planned (algorithms only) | |
| Protocols (ledger, votes, baker) | `proto_*` | candidate | |
| Client, signer, RPC, encodings, executables | other `lib_*`, `bin_*` | not modelled: little shared state, or pure I/O | |

`PROJECT.json` lists every part with the reason when it is not modelled.

## 2. Modules

A module `MC<M>` instantiates `M` for TLC: model values, symmetry, small
databases. Definitions called a *faulty variant* in a comment are bugs the code
does not have; replacing the definition after it by the variant makes TLC find
the property named in `PROJECT.json` violated, which shows that the property
tells them apart.

### Requester

`fetch` returns a value found in memory, else reads the disk, else makes or joins
a `Pending` entry and asks the scheduler for it. The scheduler is a thread fed by
an unbounded pipe of events; it keeps its own table of requests, sends each one
to a peer and again after a growing delay. `notify`, `clear_or_cancel` and the
timeout of a fetch change the memory table at once and tell the scheduler
through the pipe, so the scheduler lags behind the table.

*State.* `memory` and `waiters` are the `Memory_table`; `pc`, `arg`, `via` the
calls of `fetch` in progress; `queue` the pipe; `pending` the scheduler's table;
`worker` and `canceler` its thread; `active` and `sent` the network. A key is a
hash and determines its value, so only the presence of keys is kept. Times are
reduced to "due" (`Elapse` makes a request due). `input` records how often the
watchers were told of a key. `SyncDisk` selects between the two kinds of disk
the node uses: the operation requester's, which is empty and answers at once,
and the others', which are awaited.

### LwtPipe and Channel

All sleeping readers share the promise `push_waiter`, all sleeping writers
`pop_waiter`; whoever resolves it makes all of them runnable and each starts its
operation over. `wpc` and `rpc` say whether a thread sleeps ("blocked"), was
woken, or returned; `accepted` and `delivered` are history variables. Every read
operation of the module is covered (constant `ReadOp`), with cancellation and
timeouts. `Channel` is what users are promised: a bounded FIFO channel in which
an outstanding operation completes as soon as it can. `LwtPipe` ends with the
refinement mapping (`Abstract`).

### Worker

From `launch` through the loop to `do_close`, for the three kinds of buffer. Each
caller makes one request, with any of the pushes (`mode`) or `put_request`. `pc`
is the place of the loop, with one place for every handler, which may return,
fail, or raise; an exception ends the loop without `do_close`, and so does an error
of `on_no_request`, for which the loop has no current request (`worker.ml:638`).
Closing empties a queue but leaves a dropbox its content. `lost` is a history variable: the request a canceled loop took
out of the buffer and dropped. The queue is used as the `Channel` above. The
merge of requests is that of the peer validator (`Merge`).

### P2pConnect

An attempt is one call of `connect` or `accept` with the connection it leads to;
attempts run concurrently and meet in the states of points and peers. `pointBy`
and `peerBy` name the attempt whose canceler or connection a state holds. The
outcome of every network await (success, failure, timeout, shutdown) is
nondeterministic. Trust, private mode, reconnection delays, garbage collection of
known points and the node's own points are left out.

### P2pReader

Each activation of a chain installs one more callback for new connections, and
each callback starts a reader per connection: reader `<<c, k>>` belongs to
connection `c` and the `k`-th activation. `active_connections` and `p2p_readers`
are OCaml hash tables whose `add` hides an older binding and whose `remove`
uncovers it, so an entry is a stack. A `chain_db` is named after the activation
that made it. The treatment of a message runs outside of `protect`: an exception in
it ends the reader where it is (`HandlerRaises`, place "failed"), and what the
reader registered stays in the tables for good. One assumption about time: when a peer has connected again, the
only readers left of its older connection are those busy with a message, as an
idle one is woken when its connection closes, well before a handshake ends.

### LmdbReaders

The build is the one for 64-bit Linux (robust mutexes, `MDB_PIDLOCK`), used as
`lib_storage/raw_store.ml` uses it (`MDB_NOTLS`). A reader takes a slot of the
lock file's table, announces the newest commit in it and reads the meta page; a
writer scans the slots one by one for the oldest commit in use and reuses the
pages older ones freed. None of the two waits for the other, so every read and
write of a shared word is a step. Processes open and close the environment,
reset the lock file when they find themselves alone, and die at any point;
`mdb_reader_check` clears the slots of the dead. A meta page is reduced to the
commit its records belong to (`dbs`) and the one its header names (`hdr`), which
a reader of the map may see change one after the other. A plain copy of the
environment is one more reader that also copies both meta pages.

### LmdbPages and SnapshotStore

One write transaction at a time, with nested ones, over a main database of fixed
shape: allocation from the freelist and at the end of the file, copy on write,
loose, dirty and spilled pages, a list of dirty pages that fills up, saving of
the freelist until it is stable, flushing, writing of a meta page, failures of
the disk at every step and losses of power that keep any part of what was not
synced. `SnapshotStore` is the promise: atomic nested transactions, readers that
keep the map they began with, and a disk with the last commit or, with
`MDB_NOMETASYNC`, that or the one before. Freelist records larger than a page and
`MDB_WRITEMAP` are left out. There is one process, so a meta page that cannot be
written (`WriteMetaFails` sets `MDB_FATAL_ERROR`, a flag of the process) stops all
writing; that another process goes on after it is not modelled.

### LmdbTree and LmdbCursor

Search, insertion with splits, deletion with merging and moving of nodes,
replacement of separators by longer ones, overflow values, and the cursors of
the transaction that must follow. Pages have a size in units, keys and values
have lengths, so splitting points are those of the code. `LmdbCursor` adds the
calls of the interface; `ref` and `on` say what the tree should hold and where
each cursor should be. Databases with duplicate keys are left out: the node does
not use them.

### LmdbCopy

`mdb_env_copyfd1` with its two threads. The walker numbers the pages of a
snapshot anew, depth first, and puts them in one of two buffers; the writer
thread writes the other one. They share `mc_new`, which counts the buffers
handed over and whose bit `MDB_EOF` says that there will be no more, a mutex, one
condition variable and, without the mutex, `mc_error`. An overflow run has its
first page in the buffer and its tail written from the map after it (`over`). A
`write` may write any part of what it is given, or fail. The stack of `mdb_cursor`
frames is `stack`; the snapshot is one of `Sources`. The lengths `mc_wlen`, `mc_olen`
and `wsize` are C `int`s; the model counts pages without a limit, so it is about
overflow runs of less than 2 GiB.

### Midl

The lists of page numbers. A behaviour is one call of one function, from the
caller's list to its return: `call` has the arguments, `ids` and `alloc` are the
array and its last cell, `pc` is the function or the loop that the call is in, and
the other variables are the function's own, so that every iteration of a loop is
a step. `Contract` says what callers guarantee: a list that fits its array, in
order where it is searched or merged, room for both lists in a merge, and a
length whose sums are `int`s in a sort. The other lengths are C `unsigned`s and
`int`s that the model does not let wrap: the sum in `mdb_midl_need` stays below 2^31,
as a list of so many ids would take 16 GiB. `Calls` are any calls within it. `realloc`
may fail.

### UeccVli, Uecc

Sequential code as recursive operators over the loop variables of the C code;
`UeccCases` has the inputs and what the results are compared with.
Every word operation of `UeccVli` wraps at `2^uECC_WORD_BITS` (64 in the build;
the moduli scale with it: they have the form of the real primes, not always their
primality). `Uecc` computes in the field exactly, one level above those words:
where a special reduction is not exact (section 5) `modMult_fast` is. `Uecc` has the co-Z ladder, regularisation of the
scalar, key generation, ECDH, compression, both square roots, signing and
verification over a curve given as a record. ECDH without a random source is
included.

## 3. Runs

| Run | Shows | Instance |
|---|---|---|
| `requester_blocks` | waiters counters are exact, nothing is asked for in vain, no request that is waited for is lost to a late event | 1 key, 2 peers, 2 fetches |
| `requester_progress` | a scheduled fetch returns | 1 key, 2 peers, 1 fetch |
| `pipe_pop_all` | no lost wake-up, FIFO and exactly once, size limit, exact size counter | 2 writers, 2 readers, 1 drainer, 3 elements |
| `pipe_channel` | the pipe implements `Channel`, its liveness included | 2 writers, 2 readers, 2 elements, closing |
| `worker_serves` | callers are answered or told, handlers find their state, a branch is not replaced by a head, shutdown completes | 3 callers (2 with branches), 3 kinds |
| `connections_exclusive` | the assertions of the state setters, one connection per peer and point, nothing stays taken, tables exact | 3 attempts, 2 points, 2 peers |
| `readers_tables` | a peer has one entry in the tables for each of its readers that has not ended in order, a retired chain stays empty | 2 connections of a peer, 2 activations |
| `lmdb_readers` | pages of a snapshot in use are not reused, snapshots and copies are intact, slots are exclusive, no commit is forgotten | 2 processes, 2 readers, 2 slots, 2 commits |
| `lmdb_pages` | every page is used once, the code's assertions hold, the file implements `SnapshotStore` across power failures | 2 keys (one with big values), 1 reader, one level of nesting |
| `lmdb_tree` | the tree is sound and holds what was put, cursors stay on their items, answers are right | 9 keys, 2 cursors, 2 changes on trees of 1 and 6 items |
| `lmdb_copy` | the threads keep to their own buffer, the file is a renumbered copy or an error is reported, the copy ends | 4 snapshots, buffers of 3 pages |
| `algorithms` | the lists, the arithmetic and the curve operations compute what they should | lists of up to 7 ids, all inputs of a few small words, 4 toy curves |

### Bounds and why they are enough

* `QueueBound` (requester): the pipe is unbounded in the code; two events are
  enough for an event of an earlier fetch to be overtaken by a later one, and a
  full queue disables the operations that would add to it. Two fetches on one
  key are the smallest case with a shared entry; keys do not interact.
* `MaxPush`, `Sizes`, `MaxSize` (pipe): elements that fit, one after which there is
  no room left, one as large as the pipe, which gets in only when it is empty, and
  two sleepers of each kind.
* Worker: one request being treated, one queued, one arriving; two of them bring
  branches, so that one may take the other's place in a dropbox; `Size` is the
  limit of the bounded queue, reached with two.
* P2pConnect: two attempts compete for a point or a peer while a third one
  arrives after one of them has ended; `MaxConnections` = 1 makes the slot test
  bite and `MaxIncoming` = 2 the limit of `accept`. Attempts, points and peers
  are interchangeable, hence the symmetry.
* P2pReader: two successive connections of a peer and two activations
  (`MaxActivations`) give up to four readers. Peers have separate entries.
* LmdbReaders: `MaxTxn` = 2 commits after the first, so that both meta pages are
  overwritten; a slot freed by one process is taken by the other.
* LmdbPages: `MDB_IDL_UM_MAX` = 9 fills the list of dirty pages and forces
  spilling; `MaxTxn`, `MaxOps`, `MaxReads`, `MaxFaults` bound the transactions,
  the operations in one, the readers begun and the failures; `MaxPg` is the map
  size. `Made` transactions exist at the start, so that there are pages to reuse.
* LmdbCursor: pages of 12 units (`Pmax`) hold two to four nodes; `MaxMods`
  changes after the initial insertions suffice for a deletion whose new separator
  splits the parent that is being rebalanced. `CURSOR_STACK` levels.
* LmdbCopy: buffers of 3 pages are filled and handed over in the middle of a
  walk; the snapshots have overflow runs of one, two and three pages, one after
  the other and in a sub-database, and a page that is neither used nor free.
* Lists: every list of up to five of four ids, so with equal ones, and 480
  permutations of seven; `SMALL` = 2 makes these partition more than once and put off
  two stretches. `UM_MAX` = 3 keeps the bitwise or of `mdb_midl_append_range` one with
  all low bits; lengths, allocations and numbers of ids lie around it.
* Algorithms: words of two bits, and of four where the shape of the prime needs
  it, so that all values of up to three words are tried. Three curves have prime
  order and their moduli the default square root; the fourth, whose modulus is one
  more than a multiple of 32, is there for the square root of secp224r1.

`worker_serves`, `lmdb_copy`, `lmdb_tree` and `algorithms` switch the deadlock
check off because the worker, the copy, a bounded sequence of calls and a
computation end. Every other run has it on.

### Fairness

* The Lwt main loop runs every thread whose promise is resolved and every expired
  timer: weak fairness of the scheduler and of resumed fetches (Requester), of
  `PushResumes` and `ReadResumes` (LwtPipe), of the loop and of resumed pushes
  (Worker; its handlers are assumed to return).
* `Requester`: strong fairness of `Answer(k)`: a key that is asked for again and
  again is answered in the end. This is an assumption about the peers, not about
  the code. Unsolicited messages are excluded in that run, because the scheduler
  treats events before timeouts and an endless stream of them starves the latter.
* `LmdbCopy`: the operating system schedules both threads (weak fairness of each
  as a whole).

## 4. Proofs

The theorems hold for every value of the constants that satisfies the named
assumptions of the modules. Those are: sets are arbitrary and bounds are
naturals; fetches are finitely many, as their number is compared with a counter
(`FetcherAssumption`); a snapshot refers only to pages it has and an overflow run
has at least one page (`SourcesAssumption`); its pages form trees, as the B-trees
of an environment do: no page is referred to twice, the main root is not
referred to, an overflow page refers to nothing (`TreesAssumption`). TLC evaluates every assumption on
the runs' instances, and every inductive invariant below was checked by TLC
before it was proved.

| Module | Theorems | Inductive invariant |
|---|---|---|
| `RequesterProofs` | `TypeCorrect`, `CountersAreExact`, `NothingAskedInVain`, `NoRequestIsLost` | `Inv` |
| `LwtPipeProofs` | `TypeCorrect`, `NoWakeupLost`, `BoundedSize`, `FirstInFirstOut`, `SizesAreCounted`, `Implements` | `SafeInv`, `FifoInv`, `SizeExact` |
| `WorkerProofs` | `TypeCorrect`, `HandlersAreSafe`, `CallersAreServed`, `ClosingTellsAll`, `BranchesAreKept` | `LifeInv`, `ServeInv`, `BoxInv` |
| `P2pConnectProofs` | `TypeCorrect`, `AssertionsHold`, `Exclusive`, `NothingLeftTaken`, `TablesAreExact` | `IInv` |
| `P2pReaderProofs` | `ReadersAreCounted`, `BindingsAreCounted`, `RetiredChainsStayEmpty` | `Inv` |
| `LmdbReadersProofs` | `PinsAreRespected`, `SnapshotsAreIntact`, `SlotsAreExclusive`, `WritersFollowNewest`, `TxnidNeverBack` | `Inv` |
| `LmdbCopyProofs` | `BuffersAreApart`, `PagesAreInOrder`, `CopyIsComplete`, `CopyIsFaithful`, `NeverBothWait` | `IInv` |
| `MidlProofs` | `ListsAreRight`, `ArraysNeverOverrun`, `SortSorts` | `IInv` |

* **Requester.** The key is `ScheduledAfter`: what the scheduler will have in its
  table once it has treated its pipe. The lemmas say how appending and treating
  an event change it; with it the lag of the scheduler disappears from the
  argument. `WaitersExact` is needed for the timeout of the last waiter to be the
  one that cancels.
* **LwtPipe.** `NoLostWakeup` and `WithinMaxSize` are inductive as they stand given
  the types; `FifoInv` adds that only a closable pipe is closed. `SizeExact` and
  the refinement need the sum of the sizes of a sequence. The induction schemes
  of the library take an operator, which the provers cannot instantiate; lemma
  `Induct` obtains induction on a *set* of naturals from `NatLessThanWellFounded`
  and `WFMin`, and with it the partial sums of a sequence exist (`SumsExist`), are
  what `Channel!Total` computes (`TotalIs`), and change by one element's size with
  a push or a pop (`TotalAppend`, `TotalTail`). `Implements` then maps each step of
  the pipe to a step of `Channel` or a stutter. `FirstInFirstOut` and `Implements`
  assume that the pipe is not both closable and drained with `pop_all` (section 5).
* **Worker.** `LifeInv` ties the place of the loop to status, state, registration
  and buffer; `ServeInv` says where the request of a waiting caller is. A dropbox
  holds one request at most (`BoxInv`), and `BoxStep` lists the ways its content
  changes; `BranchKept` is an action property that follows.
* **P2pConnect.** `IInv` adds to the properties who owns a state: a state holds one
  canceler or connection, so two attempts that both hold one share neither point
  nor peer (lemma `EngagedApart`).
* **P2pReader.** The properties are equations between lengths of stacks and numbers
  of readers, proved for possibly infinitely many connections; hence
  `EnlistedFinite`, the readers of a peer that were started and have not ended in
  order are finitely many at any time. A reader that an exception ended stays among
  them, as its entries stay in the tables; what is proved is that nobody else takes
  these entries out or adds to them. `Wired`, `OneUp` and
  `Started` say which readers can exist at all. The count of readers that know a
  chain changes by one with each message that makes a chain known and with each
  reader that ends; a deactivation removes some binding of the peer, not always
  the reader's own, and the count is what survives that.
* **LmdbReaders.** `PinInv` has the argument of `mdb_find_oldest`: the id a writer
  accumulates is below that of every pinned reader whose slot it has passed, and
  below `mti` for those to come. `SlotInv` gives slots one owner, `MetaInv` and
  `TxnidInv` relate both meta pages and `mti_txnid` at every stage of a commit, a
  death in the middle included; `CopyInv` is for the plain copy. The theorems
  assume `DieExclusive = {}`: no process dies between finding itself alone and
  having reset the lock file (section 5).
* **LmdbCopy.** `Control` relates `mc_new`, the place of the walker and the two
  toggles; from it `Buffers`: a buffer that was not handed over and is not being
  filled is empty. `Waits` says what each thread waits for. The two threads then
  disappear from the argument with `Out`, the pages of the copy so far: the file,
  what is left of the writer's piece, its overflow tail, the other buffer and its
  tail, one after the other. `Order` says that they are numbered from 0, up to
  `mc_next_pgno` as long as the walk has not failed. The meta pages start `Out`,
  `WalkPage` and `WalkBig` add at its end (`OutBegin`, `OutWalk`), and no other step
  of either thread changes it (`OutKept`). When both have ended without an error
  `Out` is the file, whence `CopyIsComplete`.
  `Progress` is about the walk alone, as if it were sequential: `Walked` says that
  every page in `Out` has the references of its original, renumbered to pages
  that are in `Out`; that the frames of the stack have them up to where they are
  and are a path from the main root; and that what is in `Out` was reached, by a
  reference of a page in `Out` or one that a frame has passed, and is there once.
  The last is what makes a page that the walk comes to new (`HereNew`): a page has
  one parent (`OneParent`), and that is on the stack and has not passed it yet.
  `WalkedStart`, `WalkedDown`, `WalkedNode` and `WalkedPut` are the steps of the walk;
  no induction over the tree is needed. The comparison of the root's number with
  `new_root`, which ends a walk that found fewer or more pages than the snapshot
  claims, gives the metapage the right root in `CopyIsFaithful`. `StackOK` is
  needed for the types: what is left to walk is as in the snapshot.

* **Midl.** The lists have any length, `UM_MAX` and `SMALL` any value (`SMALL` at least 2),
  and the calls are any within `Contract` (`CallsAssumption`). `IInv` has one conjunct
  for each place of a call. The search keeps what is before `base` and behind
  `base + n` on the right side of the id. The merge keeps three parts: the old ids up
  to `j`, the ids to merge up to `i`, and the merged ones after `k = i + j`; `Merging`, the
  list with the second put between the others, is always a permutation of both
  lists. A sort keeps `Apart`: positions that no stretch holds together, neither the
  current one nor one that was put off, are in order with respect to each other
  already. So an insertion, which runs down to cell 1 and not to `l`, stops at `l`,
  and when nothing is put off any more the list is sorted. The scans of a partition
  test no bound: `AtUp` and `AtDown` say that there is always an id ahead, inside of
  the stretch, at which they stop (the two ids the median left at the ends, later
  the ones last exchanged). The longer part is put off, so the stretch after `d`
  postponements is at most the length divided by `2^d`, and `2^d` is at most the
  length: the stack of `2 * sizeof(int) * CHAR_BIT` cells is never full. That is an
  argument with powers of two for any length; `Power2Facts` proves what the recursive
  function `Power2` computes with induction on a set of naturals, as for LwtPipe. That
  the ids stay the same ones is carried by a permutation of the positions
  (`Permuted`), which a swap composes with a transposition (`SwapRearranges`,
  `PermutedMoved`); `PermutedRearranged` turns it into the statement of `SortRight`.

Only model-checked, and why:

* liveness (`FetchReturns`, `Answered`, `ShutdownCompletes`, `CopyEnds`, the fairness of
  `Channel` in `ImplementsChannel`): fairness and `ENABLED` are out of the prover's
  reach. `NeverBothWait` is the safety half of `CopyEnds`;
* `LmdbPages`, `LmdbTree`, `LmdbCursor`, `UeccVli`, `Uecc`: they are written with
  recursive operators, which the prover does not support.

## 5. Known not to hold

Statements of comments, interfaces or error messages that the models, like the
code, do not satisfy. The first seven are definitions at the end of the module;
adding one to the configuration of the module's run gives a counterexample.

| Statement | Where the code differs |
|---|---|
| `Requester!PendingIsScheduled`: a fetch blocks "until the requester is notified" (`requester.mli:97`) and "requests are re-sent" (`:101`) | the request is dropped when its named peers are gone (`requester.ml:412`) while the fetch goes on waiting |
| `Requester!SchedulerSurvives` | `random_elt` of no active peers raises (`requester.ml:416`) and ends the scheduler |
| `Worker!CancelStopsLoop`: the next call "fails immediately with [Canceled]" (`worker.ml:577`) | `pop` runs before `protect` looks at the canceler (`worker.ml:581`), so a canceled loop may treat one more request |
| `P2pConnect!PendingIsPending` | a point stays `Requested` after its attempt met a banned peer (`p2p_connect_handler.ml:257`) |
| `P2pReader!ActivePeersExact`: "Set of remote peers for which this chain is active" (`p2p_reader.mli:138`) | a reader that ends late removes its peer although a new connection made the chain active for it (`p2p_reader.ml:415`) |
| `P2pReader!RegisteredAtWork`: "[register] is called once the worker is created, and [unregister] when the worker stops" (`p2p_reader.mli:144`) | not when the worker stops because `handle_msg` raised (`p2p_reader.ml:414`): the reader stays registered, and its peer in the tables of the active chains |
| `UeccCases!ReductionsFull`: "Computes result = (left * right) % curve->p" (`uECC_vli.h:106`) | with p = 2^256 - c, when the last sum of secp256k1's reduction lies in [2^257 - c, 2^257) it leaves a carry and a word that is at least p; taking p off the word borrows nothing, yet the loop counts the carry as used up (`curve-specific.h:1171`), and the result is c too small modulo p. `ReductionsExact` says that it is so for exactly these sums; the node uses P-256 only, whose reduction is exact |
| `lwt_pipe.mli` | a `pop_with_timeout` woken by `close` returns `None` and not `Closed`; of several threads in `empty` one is woken; `pop_all` on a closed pipe that holds elements takes them out and raises |
| "next writer can overwrite data which latest meta page refers to" is prevented (`mdb.c:11094`) | not when the process dies between finding itself alone and resetting the lock file: `DieExclusive = {"excl", "reset"}` violates `WriterFollowsNewest` |
| `MDB_NEXT` finds the next item | a cursor that has met the end of its page (`C_EOF`, also set by `MDB_LAST`) may say so again although an item was put in a page after it (`mdb.c:6701`); `AnswersRight` allows for it |
| "private key is in the range [1, n-1]" (`uECC.c:1160`) | the ladder gives no public key for 1, n-2 and n-1 |

Further limits of `Uecc`, which `EcdsaExact` and `CurvesExact` state as they are: `sign` does not
reduce r modulo n nor reject s = 0, which random keys meet with negligible
probability; the square root of secp224r1 fails for exceptional residues (`RootsExact` says
which: those whose search meets its zero before it starts); points
with x = 0 have no place in the ladder.

## 6. Not modelled, and plan

`PROJECT.json` has the list. Beside what section 2 leaves out: LMDB's resizing of
the map and named-database handles, assembly variants of micro-ecc and its
constant-time behaviour, all disk formats.

1. `P2p_maintenance` with the swap of connections, composed with `P2pConnect`:
   how far the number of connections may exceed `max_connections` while several
   handshakes are under way.
2. The bootstrap pipeline over `Channel`: all three threads stop when one fails.
3. Chain validator and peer validators over `Worker`, with the callbacks of
   `P2pReader`: choice of the head, activation of peers, shutdown order.
4. Block validator and prevalidator: a block is committed or rejected once; every
   operation is in one pool across a change of head.
5. Checkpoints, save points and locators as algorithms on small trees of blocks.
6. `P2p_socket` and the I/O scheduler over `LwtPipe`.
