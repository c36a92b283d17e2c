------------------------------ MODULE P2pReader ------------------------------
(***************************************************************************)
(* The readers of the distributed database: lib_shell/p2p_reader.ml and    *)
(* the activation of chains in lib_shell/distributed_db.ml.                *)
(*                                                                         *)
(* Each activation of a chain adds a callback for new connections, and     *)
(* each callback starts one reader per connection: the reader <<c, k>> is  *)
(* the one of connection c started by the k-th activation.  A reader marks *)
(* a chain active for its peer when the peer first sends a branch of it.   *)
(* Readers, activations and connections meet in the tables of a chain,     *)
(* which are keyed by peer.  Hashtbl.add hides an older binding instead of *)
(* replacing it, and Hashtbl.remove uncovers it, so the entry of a peer is *)
(* a stack, its newest binding first.                                      *)
(*                                                                         *)
(* A chain_db is named after the activation that created it.  What a       *)
(* message asks of the disk or of the requesters, and what the callbacks   *)
(* tell the chain validator, is left out: a reader is only busy with it.   *)
(* The await of the event handle_msg emits first is merged into the recv.  *)
(***************************************************************************)
EXTENDS Naturals, Sequences, FiniteSets, Functions

CONSTANTS
    Peer,             \* remote peers
    Chain,            \* chains
    Conn,             \* connections, in time
    MaxActivations    \* bound on the calls of activate

ASSUME MaxAssumption == MaxActivations \in Nat

Db == 1 .. MaxActivations
Reader == Conn \X Db

VARIABLES
    hooks,              \* the number of callbacks of P2p.on_new_connection
    chainOf,            \* the chain of the chain_dbs created, in order
    active_chains,      \* global_db.active_chains, as chain_dbs
    link,               \* "new", "up" or "down": the state of a connection
    peerOf,             \* the peer of a connection, {} while it is new
    pc,                 \* where each reader is
    peer_active_chains, \* per reader, as chain_dbs
    active_peers,       \* per chain_db, a set of peers
    active_connections, \* per chain_db and peer, the stack of bindings
    p2p_readers,        \* per peer, the stack of registered readers
    canceled            \* the readers whose canceler was canceled

vars == <<hooks, chainOf, active_chains, link, peerOf, pc, peer_active_chains,
          active_peers, active_connections, p2p_readers, canceled>>

conn(r) == r[1]
gid(r) == CHOOSE q \in Peer : q \in peerOf[conn(r)]

\* The readers of peer q that have been started and are at work.
Live(q) ==
    {r \in Reader : /\ q \in peerOf[conn(r)]
                    /\ pc[r] \in {"recv", "replying"}}

\* The readers of peer q that have been started and have not come to the end
\* of worker_loop: those at work, and those that an exception ended.
Enlisted(q) ==
    {r \in Reader : /\ q \in peerOf[conn(r)]
                    /\ pc[r] \in {"recv", "replying", "failed"}}

\* Every variable of the readers and of the chains' tables has its type.
TypeOK ==
    /\ hooks \in 0 .. MaxActivations
    /\ chainOf \in [Db -> SUBSET Chain]
    /\ active_chains \subseteq Db
    /\ link \in [Conn -> {"new", "up", "down"}]
    /\ peerOf \in [Conn -> SUBSET Peer]
    /\ pc \in [Reader -> {"none", "recv", "replying", "failed", "stopped"}]
    /\ peer_active_chains \in [Reader -> SUBSET Db]
    /\ active_peers \in [Db -> SUBSET Peer]
    /\ active_connections \in [Db -> [Peer -> Seq(Conn)]]
    /\ p2p_readers \in [Peer -> Seq(Reader)]
    /\ canceled \subseteq Reader

Init ==
    /\ hooks = 0
    /\ chainOf = [d \in Db |-> {}]
    /\ active_chains = {}
    /\ link = [c \in Conn |-> "new"]
    /\ peerOf = [c \in Conn |-> {}]
    /\ pc = [r \in Reader |-> "none"]
    /\ peer_active_chains = [r \in Reader |-> {}]
    /\ active_peers = [d \in Db |-> {}]
    /\ active_connections = [d \in Db |-> [q \in Peer |-> <<>>]]
    /\ p2p_readers = [q \in Peer |-> <<>>]
    /\ canceled = {}

\* Hashtbl.remove
Remove(stack) == IF stack = <<>> THEN <<>> ELSE Tail(stack)

-----------------------------------------------------------------------------
(* Chains and connections.                                                 *)

\* Hashtbl.add of several bindings
Push(stack, bindings) == bindings \o stack

\* Distributed_db.activate: the callback is added whether or not the chain
\* already has a chain_db, and run on the connections there are.
Activate(ch) ==
    LET k == hooks + 1 IN
    /\ hooks < MaxActivations
    /\ hooks' = k
    /\ pc' = [r \in Reader |->
                IF r[2] = k /\ link[conn(r)] = "up" THEN "recv" ELSE pc[r]]
    /\ p2p_readers' = [q \in Peer |->
         LET cs == {c \in Conn : link[c] = "up" /\ q \in peerOf[c]} IN
         IF cs = {} THEN p2p_readers[q]
         ELSE Push(p2p_readers[q], <<<<CHOOSE c \in cs : TRUE, k>>>>)]
    /\ IF \E d \in active_chains : ch \in chainOf[d]
       THEN UNCHANGED <<chainOf, active_chains>>
       ELSE /\ chainOf' = [chainOf EXCEPT ![k] = {ch}]
            /\ active_chains' = active_chains \cup {k}
    /\ UNCHANGED <<link, peerOf, peer_active_chains, active_peers,
                   active_connections, canceled>>

\* Distributed_db.deactivate: the fold visits, and removes, every binding.
\* The readers are not told.
Deactivate(d) ==
    /\ d \in active_chains
    /\ active_chains' = active_chains \ {d}
    /\ active_peers' = [active_peers EXCEPT ![d] =
         @ \ {q \in Peer : active_connections[d][q] # <<>>}]
    /\ active_connections' =
         [active_connections EXCEPT ![d] = [q \in Peer |-> <<>>]]
    /\ UNCHANGED <<hooks, chainOf, link, peerOf, pc, peer_active_chains,
                   p2p_readers, canceled>>

\* A connection is established: the connect handler calls its hooks, the
\* latest first.  It lets a peer have one connection at a time.  A handshake
\* takes longer than a closed connection takes to wake its idle readers, so
\* only readers busy with a message are left of an older connection.
NewConnection(c, q) ==
    /\ link[c] = "new"
    /\ \A r \in Live(q) : pc[r] = "replying"
    /\ \A b \in Conn : link[b] = "up" => q \notin peerOf[b]
    /\ link' = [link EXCEPT ![c] = "up"]
    /\ peerOf' = [peerOf EXCEPT ![c] = {q}]
    /\ pc' = [r \in Reader |->
                IF conn(r) = c /\ r[2] <= hooks THEN "recv" ELSE pc[r]]
    /\ p2p_readers' = [p2p_readers EXCEPT ![q] =
                         Push(@, [k \in 1 .. hooks |-> <<c, k>>])]
    /\ UNCHANGED <<hooks, chainOf, active_chains, peer_active_chains,
                   active_peers, active_connections, canceled>>

\* The connection is closed, by either end.
Disconnect(c) ==
    /\ link[c] = "up"
    /\ link' = [link EXCEPT ![c] = "down"]
    /\ UNCHANGED <<hooks, chainOf, active_chains, peerOf, pc,
                   peer_active_chains, active_peers, active_connections,
                   p2p_readers, canceled>>

\* Distributed_db.shutdown: the registered readers are canceled.
Shutdown ==
    /\ canceled' = canceled \cup UNION {Range(p2p_readers[q]) : q \in Peer}
    /\ UNCHANGED <<hooks, chainOf, active_chains, link, peerOf, pc,
                   peer_active_chains, active_peers, active_connections,
                   p2p_readers>>

-----------------------------------------------------------------------------
(* The loop of a reader.                                                   *)

\* P2p.recv returns a message to reader r, possibly one that was queued before
\* the connection was closed.  A reader that is canceled may get it too: both
\* promises of protect are resolved then, and Lwt.pick takes either.
Received(r) == pc[r] = "recv"

\* The chain_db that a table of chain_dbs has for a chain.
Find(dbs, ch) == {d \in dbs : ch \in chainOf[d]}

\* Faulty variant: the connection is added whenever a chain_db is found.
HandleCurrentBranchAdds(r, ch) ==
    /\ Received(r)
    /\ pc' = [pc EXCEPT ![r] = "replying"]
    /\ \E d \in Find(active_chains \cup peer_active_chains[r], ch) :
         /\ active_peers' = [active_peers EXCEPT ![d] = @ \cup {gid(r)}]
         /\ active_connections' = [active_connections EXCEPT
                ![d][gid(r)] = Push(@, <<conn(r)>>)]
         /\ peer_active_chains' = [peer_active_chains EXCEPT ![r] = @ \cup {d}]
    /\ UNCHANGED <<hooks, chainOf, active_chains, link, peerOf, p2p_readers,
                   canceled>>

\* handle_msg on Current_branch, up to its awaits: may_activate.
HandleCurrentBranch(r, ch) ==
    /\ Received(r)
    /\ pc' = [pc EXCEPT ![r] = "replying"]
    /\ IF Find(peer_active_chains[r], ch) = {} /\ Find(active_chains, ch) # {}
       THEN \E d \in Find(active_chains, ch) :
              /\ active_peers' = [active_peers EXCEPT ![d] = @ \cup {gid(r)}]
              /\ active_connections' = [active_connections EXCEPT
                     ![d][gid(r)] = Push(@, <<conn(r)>>)]
              /\ peer_active_chains' =
                     [peer_active_chains EXCEPT ![r] = @ \cup {d}]
       ELSE UNCHANGED <<active_peers, active_connections, peer_active_chains>>
    /\ UNCHANGED <<hooks, chainOf, active_chains, link, peerOf, p2p_readers,
                   canceled>>

\* P2p_reader.deactivate, for the chain_dbs ds.
deactivate(q, ds) ==
    /\ active_peers' = [d \in Db |->
         IF d \in ds THEN active_peers[d] \ {q} ELSE active_peers[d]]
    /\ active_connections' = [d \in Db |->
         IF d \in ds
         THEN [active_connections[d] EXCEPT ![q] = Remove(@)]
         ELSE active_connections[d]]

\* Faulty variant: the reader does not forget the chain.
HandleDeactivateKept(r, ch) ==
    /\ Received(r)
    /\ deactivate(gid(r), Find(peer_active_chains[r], ch))
    /\ UNCHANGED <<hooks, chainOf, active_chains, link, peerOf, pc,
                   peer_active_chains, p2p_readers, canceled>>

\* handle_msg on Deactivate.
HandleDeactivate(r, ch) ==
    LET ds == Find(peer_active_chains[r], ch) IN
    /\ Received(r)
    /\ deactivate(gid(r), ds)
    /\ peer_active_chains' = [peer_active_chains EXCEPT ![r] = @ \ ds]
    /\ UNCHANGED <<hooks, chainOf, active_chains, link, peerOf, pc,
                   p2p_readers, canceled>>

\* handle_msg on the other messages, which leave these tables alone.
HandleOther(r) ==
    /\ Received(r)
    /\ pc' = [pc EXCEPT ![r] = "replying"]
    /\ UNCHANGED <<hooks, chainOf, active_chains, link, peerOf,
                   peer_active_chains, active_peers, active_connections,
                   p2p_readers, canceled>>

\* The disk has answered, the reply is sent: the loop goes on.
Replied(r) ==
    /\ pc[r] = "replying"
    /\ pc' = [pc EXCEPT ![r] = "recv"]
    /\ UNCHANGED <<hooks, chainOf, active_chains, link, peerOf,
                   peer_active_chains, active_peers, active_connections,
                   p2p_readers, canceled>>

\* handle_msg raises: the disk does, or of_protocol_exn on a timestamp that is
\* no date.  The call is outside protect, so the exception ends worker_loop;
\* Lwt_utils.worker reports it and cancels the reader, and that is all: what
\* the reader registered and activated stays in the tables.
HandlerRaises(r) ==
    /\ pc[r] = "replying"
    /\ pc' = [pc EXCEPT ![r] = "failed"]
    /\ canceled' = canceled \cup {r}
    /\ UNCHANGED <<hooks, chainOf, active_chains, link, peerOf,
                   peer_active_chains, active_peers, active_connections,
                   p2p_readers>>

\* Faulty variant: the reader stays registered.
StopRegistered(r) ==
    /\ pc[r] = "recv"
    /\ r \in canceled \/ link[conn(r)] = "down"
    /\ deactivate(gid(r), peer_active_chains[r])
    /\ pc' = [pc EXCEPT ![r] = "stopped"]
    /\ UNCHANGED <<hooks, chainOf, active_chains, link, peerOf, p2p_readers,
                   peer_active_chains, canceled>>

\* P2p.recv fails: the connection is closed or the reader is canceled.
Stop(r) ==
    /\ pc[r] = "recv"
    /\ r \in canceled \/ link[conn(r)] = "down"
    /\ deactivate(gid(r), peer_active_chains[r])
    /\ p2p_readers' = [p2p_readers EXCEPT ![gid(r)] = Remove(@)]
    /\ pc' = [pc EXCEPT ![r] = "stopped"]
    /\ UNCHANGED <<hooks, chainOf, active_chains, link, peerOf,
                   peer_active_chains, canceled>>

Next ==
    \/ \E ch \in Chain : Activate(ch)
    \/ \E d \in Db : Deactivate(d)
    \/ \E c \in Conn, q \in Peer : NewConnection(c, q)
    \/ \E c \in Conn : Disconnect(c)
    \/ Shutdown
    \/ \E r \in Reader :
         \/ \E ch \in Chain : HandleCurrentBranch(r, ch)
         \/ \E ch \in Chain : HandleDeactivate(r, ch)
         \/ HandleOther(r)
         \/ Replied(r)
         \/ HandlerRaises(r)
         \/ Stop(r)

Spec == Init /\ [][Next]_vars

-----------------------------------------------------------------------------
(* Properties.                                                             *)

\* A peer is registered once for each reader of its that is at work and once
\* for each that an exception ended, whatever the order in which the readers
\* of its successive connections end.  So a reader that ends in order takes
\* exactly one registration back, though it removes whichever is on top, and
\* what an exception left behind is neither taken for it nor added to.
ReadersCounted ==
    \A q \in Peer : Len(p2p_readers[q]) = Cardinality(Enlisted(q))

\* For a chain that is active, the connections of a peer are bound once for
\* each of its readers, at work or ended by an exception, that took the chain
\* for active, and the peer is asked for resources only if there is such a
\* reader: a peer whose readers all ended in order is in no table.
BindingsCounted ==
    \A d \in active_chains, q \in Peer :
        LET knowing == {r \in Enlisted(q) : d \in peer_active_chains[r]} IN
        /\ Len(active_connections[d][q]) = Cardinality(knowing)
        /\ q \in active_peers[d] => knowing # {}

\* Once a chain is deactivated no message puts a peer back in its tables,
\* although the readers still hold its chain_db.
RetiredStaysEmpty ==
    \A d \in Db \ active_chains :
        /\ active_peers[d] = {}
        /\ \A q \in Peer : active_connections[d][q] = <<>>

\* active_peers is the set of the remote peers for which the chain is active:
\* those with a reader, on an open connection, that knows it to be active.
\* The code does not ensure it: the reader of an older connection of the peer
\* removes the entry of the new one when it ends.
ActivePeersExact ==
    \A d \in active_chains, q \in Peer :
        (\E r \in Live(q) : link[conn(r)] = "up" /\ d \in peer_active_chains[r])
            => q \in active_peers[d]

\* A reader is registered while its worker lives: p2p_reader.mli says that
\* unregister is called when the worker stops.  The code does not ensure it:
\* the worker also stops when a handler raises, and then nobody calls it.
RegisteredAtWork ==
    \A q \in Peer : Len(p2p_readers[q]) = Cardinality(Live(q))

=============================================================================
