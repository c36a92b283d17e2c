----------------------------- MODULE P2pConnect -----------------------------
(***************************************************************************)
(* Establishing and closing peer-to-peer connections:                      *)
(* lib_p2p/p2p_connect_handler.ml with the states kept by p2p_point_state, *)
(* p2p_peer_state and the tables of p2p_pool.                              *)
(*                                                                         *)
(* An attempt is one call of connect (outgoing) or of accept (incoming),   *)
(* together with the connection it ends in.  Attempts run concurrently and *)
(* meet in the state of the points and peers they share.  The code runs    *)
(* uninterrupted between two awaits, so an action is such a stretch; the   *)
(* awaits of logging are merged into the network await they surround.      *)
(* The canceler of an attempt (timeout, shutdown) can fire at any of its   *)
(* network awaits: it is one of the reasons an await fails.                *)
(*                                                                         *)
(* A point stands for an address with its listening port.  Trust, private  *)
(* mode, reconnection delays and the table of the node's own points are    *)
(* left out.                                                               *)
(***************************************************************************)
EXTENDS Naturals, FiniteSets

CONSTANTS
    Attempt,          \* calls of connect and accept
    Point,            \* remote address and listening port
    Peer,             \* remote identities
    MaxConnections,   \* config.max_connections
    MaxIncoming       \* config.max_incoming_connections

ASSUME BoundsAssumption == MaxConnections \in Nat /\ MaxIncoming \in Nat

VARIABLES
    pc,               \* where each attempt is
    outgoing,         \* the attempts made by connect
    incoming,         \* t.incoming, as the attempts accept has registered
    atPoint,          \* connection_point_info of an attempt, {} for None
    withPeer,         \* peer_info of an attempt, {} until authenticated
    pointState,       \* P2p_point_state.t of every point
    pointBy,          \* the attempt whose cancel or data that state holds
    peerState,        \* P2p_peer_state.t of every peer
    peerBy,           \* the attempt whose cancel or data that state holds
    connectedPoints,  \* pool.connected_points
    connectedPeers,   \* pool.connected_peer_ids
    banned            \* the black lists of pool.acl

vars == <<pc, outgoing, incoming, atPoint, withPeer, pointState, pointBy,
          peerState, peerBy, connectedPoints, connectedPeers, banned>>

Pc == {"idle", "connecting", "authenticating", "nacking", "accepting",
       "running", "closing", "done"}
PointStates == {"Disconnected", "Requested", "Accepted", "Running"}
PeerStates == {"Disconnected", "Accepted", "Running"}

\* The attempts, the states of points and peers and the pool have their types.
TypeOK ==
    /\ pc \in [Attempt -> Pc]
    /\ outgoing \subseteq Attempt
    /\ incoming \subseteq Attempt
    /\ atPoint \in [Attempt -> SUBSET Point]
    /\ withPeer \in [Attempt -> SUBSET Peer]
    /\ pointState \in [Point -> PointStates]
    /\ pointBy \in [Point -> SUBSET Attempt]
    /\ peerState \in [Peer -> PeerStates]
    /\ peerBy \in [Peer -> SUBSET Attempt]
    /\ connectedPoints \subseteq Point
    /\ connectedPeers \subseteq Peer
    /\ banned \subseteq Point \cup Peer

Init ==
    /\ pc = [a \in Attempt |-> "idle"]
    /\ outgoing = {}
    /\ incoming = {}
    /\ atPoint = [a \in Attempt |-> {}]
    /\ withPeer = [a \in Attempt |-> {}]
    /\ pointState = [p \in Point |-> "Disconnected"]
    /\ pointBy = [p \in Point |-> {}]
    /\ peerState = [q \in Peer |-> "Disconnected"]
    /\ peerBy = [q \in Peer |-> {}]
    /\ connectedPoints = {}
    /\ connectedPeers = {}
    /\ banned = {}

-----------------------------------------------------------------------------
(* The state setters.  P is the optional point of the caller, Q its peer.  *)

Goto(a, l) == pc' = [pc EXCEPT ![a] = l]

\* P2p_point_state.set_requested, set_accepted, set_running, set_disconnected
SetPoint(P, s, by) ==
    /\ pointState' = [p \in Point |-> IF p \in P THEN s ELSE pointState[p]]
    /\ pointBy' = [p \in Point |-> IF p \in P THEN by ELSE pointBy[p]]

\* P2p_peer_state.set_accepted, set_running, set_disconnected
SetPeer(Q, s, by) ==
    /\ peerState' = [q \in Peer |-> IF q \in Q THEN s ELSE peerState[q]]
    /\ peerBy' = [q \in Peer |-> IF q \in Q THEN by ELSE peerBy[q]]

\* P2p_pool.active_connections
active_connections == Cardinality(connectedPeers)

\* The end of authenticate: the file descriptor is closed and accept takes
\* the attempt out of its table.
Finish(a) ==
    /\ Goto(a, "done")
    /\ incoming' = incoming \ {a}

-----------------------------------------------------------------------------
(* Starting an attempt.                                                    *)

\* connect, up to the connection of the socket.  The refusals before
\* set_requested change nothing.
Connect(a, p) ==
    /\ pc[a] = "idle"
    /\ p \notin banned
    /\ active_connections <= MaxConnections
    /\ pointState[p] = "Disconnected"
    /\ SetPoint({p}, "Requested", {a})
    /\ atPoint' = [atPoint EXCEPT ![a] = {p}]
    /\ outgoing' = outgoing \cup {a}
    /\ Goto(a, "connecting")
    /\ UNCHANGED <<incoming, withPeer, peerState, peerBy, connectedPoints,
                   connectedPeers, banned>>

\* The socket is connected: connect calls authenticate.
Connected(a) ==
    /\ pc[a] = "connecting"
    /\ Goto(a, "authenticating")
    /\ UNCHANGED <<outgoing, incoming, atPoint, withPeer, pointState, pointBy,
                   peerState, peerBy, connectedPoints, connectedPeers, banned>>

\* P2p_fd.connect fails or is canceled: the on_error of connect.
ConnectFails(a) ==
    /\ pc[a] = "connecting"
    /\ SetPoint(atPoint[a], "Disconnected", {})
    /\ Finish(a)
    /\ UNCHANGED <<outgoing, atPoint, withPeer, peerState, peerBy,
                   connectedPoints, connectedPeers, banned>>

\* accept, for a caller whose listening point P it will only learn from the
\* authentication; the address of P is the one the connection comes from.
Accept(a, P) ==
    /\ pc[a] = "idle"
    /\ Cardinality(incoming) < MaxIncoming
    /\ P \cap banned = {}
    /\ incoming' = incoming \cup {a}
    /\ atPoint' = [atPoint EXCEPT ![a] = P]
    /\ Goto(a, "authenticating")
    /\ UNCHANGED <<outgoing, withPeer, pointState, pointBy, peerState, peerBy,
                   connectedPoints, connectedPeers, banned>>

-----------------------------------------------------------------------------
(* raw_authenticate.                                                       *)

\* The authentication fails or is canceled: its on_error gives the point
\* back when the attempt is outgoing.
AuthFails(a) ==
    /\ pc[a] = "authenticating"
    /\ SetPoint(IF a \in outgoing THEN atPoint[a] ELSE {}, "Disconnected", {})
    /\ Finish(a)
    /\ UNCHANGED <<outgoing, atPoint, withPeer, peerState, peerBy,
                   connectedPoints, connectedPeers, banned>>

\* The authenticated peer is banned: fail_when returns at once, outside of
\* any on_error, and the point keeps its state.
AuthBanned(a, q) ==
    /\ pc[a] = "authenticating"
    /\ q \in banned
    /\ Finish(a)
    /\ UNCHANGED <<outgoing, atPoint, withPeer, pointState, pointBy, peerState,
                   peerBy, connectedPoints, connectedPeers, banned>>

\* Faulty variant: an incoming caller may take over a requested point.
AcceptableRequested(P, q, isIncoming) ==
    /\ \A p \in P : pointState[p] \notin {"Accepted", "Running"}
    /\ peerState[q] = "Disconnected"

\* Faulty variant: only the point is looked at.
AcceptablePoint(P, q, isIncoming) ==
    \A p \in P : /\ pointState[p] \notin {"Accepted", "Running"}
                 /\ pointState[p] = "Requested" => ~isIncoming

is_acceptable(P, q, isIncoming) ==
    /\ \A p \in P : /\ pointState[p] \notin {"Accepted", "Running"}
                    /\ pointState[p] = "Requested" => ~isIncoming
    /\ peerState[q] = "Disconnected"

\* The peer is welcome: there is a slot (one more than the maximum in one
\* case of two), and neither the point nor the peer is taken.
AuthAccepts(a, q) ==
    /\ pc[a] = "authenticating"
    /\ q \notin banned
    /\ \E extra \in 0 .. 1 : MaxConnections + extra > active_connections
    /\ is_acceptable(atPoint[a], q, a \notin outgoing)
    /\ withPeer' = [withPeer EXCEPT ![a] = {q}]
    /\ SetPoint(atPoint[a], "Accepted", {a})
    /\ SetPeer({q}, "Accepted", {a})
    /\ Goto(a, "accepting")
    /\ UNCHANGED <<outgoing, incoming, atPoint, connectedPoints,
                   connectedPeers, banned>>

\* The peer is rejected: no slot, no common version (always possible), or
\* already connected.  A nack is written to it.
AuthRejects(a, q) ==
    /\ pc[a] = "authenticating"
    /\ q \notin banned
    /\ Goto(a, "nacking")
    /\ UNCHANGED <<outgoing, incoming, atPoint, withPeer, pointState, pointBy,
                   peerState, peerBy, connectedPoints, connectedPeers, banned>>

\* The nack is written: an outgoing attempt gives its point back.
Nacked(a) ==
    /\ pc[a] = "nacking"
    /\ SetPoint(IF a \in outgoing THEN atPoint[a] ELSE {}, "Disconnected", {})
    /\ Finish(a)
    /\ UNCHANGED <<outgoing, atPoint, withPeer, peerState, peerBy,
                   connectedPoints, connectedPeers, banned>>

\* Faulty variant: only the point is given back.
AcceptFailsPeerKept(a) ==
    /\ pc[a] = "accepting"
    /\ SetPoint(atPoint[a], "Disconnected", {})
    /\ Finish(a)
    /\ UNCHANGED <<outgoing, atPoint, withPeer, peerState, peerBy,
                   connectedPoints, connectedPeers, banned>>

\* P2p_socket.accept fails, is answered by a nack or is canceled: its
\* on_error gives back the point and the peer.
AcceptFails(a) ==
    /\ pc[a] = "accepting"
    /\ SetPoint(atPoint[a], "Disconnected", {})
    /\ SetPeer(withPeer[a], "Disconnected", {})
    /\ Finish(a)
    /\ UNCHANGED <<outgoing, atPoint, withPeer, connectedPoints,
                   connectedPeers, banned>>

\* P2p_socket.accept succeeds: create_connection.
create_connection(a) ==
    /\ pc[a] = "accepting"
    /\ SetPoint(atPoint[a], "Running", {a})
    /\ SetPeer(withPeer[a], "Running", {a})
    /\ connectedPoints' = connectedPoints \cup atPoint[a]
    /\ connectedPeers' = connectedPeers \cup withPeer[a]
    /\ Goto(a, "running")
    /\ incoming' = incoming \ {a}
    /\ UNCHANGED <<outgoing, atPoint, withPeer, banned>>

-----------------------------------------------------------------------------
(* Closing a connection, and bans.                                         *)

\* P2p_conn.disconnect, a failure of the connection or the end of the pool:
\* the connection's canceler is canceled.
Disconnect(a) ==
    /\ pc[a] = "running"
    /\ Goto(a, "closing")
    /\ UNCHANGED <<outgoing, incoming, atPoint, withPeer, pointState, pointBy,
                   peerState, peerBy, connectedPoints, connectedPeers, banned>>

\* Faulty variant: the point stays in the table of connected points.
DisconnectedPointKept(a) ==
    /\ pc[a] = "closing"
    /\ SetPoint(atPoint[a], "Disconnected", {})
    /\ SetPeer(withPeer[a], "Disconnected", {})
    /\ connectedPeers' = connectedPeers \ withPeer[a]
    /\ Goto(a, "done")
    /\ UNCHANGED <<outgoing, incoming, atPoint, withPeer, connectedPoints,
                   banned>>

\* The on_cancel hook of create_connection, after its event is emitted.
Disconnected(a) ==
    /\ pc[a] = "closing"
    /\ SetPoint(atPoint[a], "Disconnected", {})
    /\ SetPeer(withPeer[a], "Disconnected", {})
    /\ connectedPoints' = connectedPoints \ atPoint[a]
    /\ connectedPeers' = connectedPeers \ withPeer[a]
    /\ Goto(a, "done")
    /\ UNCHANGED <<outgoing, incoming, atPoint, withPeer, banned>>

\* The attempts whose connection is the data of a Running state.
Kick(by) ==
    pc' = [a \in Attempt |->
             IF a \in by /\ pc[a] = "running" THEN "closing" ELSE pc[a]]

\* P2p_pool.Points.ban
BanPoint(p) ==
    /\ p \notin banned
    /\ banned' = banned \cup {p}
    /\ Kick(IF p \in connectedPoints /\ pointState[p] = "Running"
            THEN pointBy[p] ELSE {})
    /\ UNCHANGED <<outgoing, incoming, atPoint, withPeer, pointState, pointBy,
                   peerState, peerBy, connectedPoints, connectedPeers>>

\* P2p_pool.Peers.ban
BanPeer(q) ==
    /\ q \notin banned
    /\ banned' = banned \cup {q}
    /\ Kick(IF peerState[q] = "Running" THEN peerBy[q] ELSE {})
    /\ UNCHANGED <<outgoing, incoming, atPoint, withPeer, pointState, pointBy,
                   peerState, peerBy, connectedPoints, connectedPeers>>

\* P2p_pool.Points.unban and P2p_pool.Peers.unban
Unban(x) ==
    /\ x \in banned
    /\ banned' = banned \ {x}
    /\ UNCHANGED <<pc, outgoing, incoming, atPoint, withPeer, pointState,
                   pointBy, peerState, peerBy, connectedPoints, connectedPeers>>

Next ==
    \/ \E a \in Attempt :
         \/ \E p \in Point : Connect(a, p)
         \/ \E P \in {{}} \cup {{p} : p \in Point} : Accept(a, P)
         \/ Connected(a)
         \/ ConnectFails(a)
         \/ AuthFails(a)
         \/ \E q \in Peer : AuthBanned(a, q)
         \/ \E q \in Peer : AuthAccepts(a, q)
         \/ \E q \in Peer : AuthRejects(a, q)
         \/ Nacked(a)
         \/ AcceptFails(a)
         \/ create_connection(a)
         \/ Disconnect(a)
         \/ Disconnected(a)
    \/ \E p \in Point : BanPoint(p)
    \/ \E q \in Peer : BanPeer(q)
    \/ \E x \in Point \cup Peer : Unban(x)

Spec == Init /\ [][Next]_vars

-----------------------------------------------------------------------------
(* Properties.                                                             *)

\* The point and peer of attempt a are in state s, and hold its canceler or
\* connection.
Holds(a, s) ==
    /\ \A p \in atPoint[a] : pointState[p] = s /\ pointBy[p] = {a}
    /\ \A q \in withPeer[a] : peerState[q] = s /\ peerBy[q] = {a}

StateAwaits(a) ==
    /\ pc[a] = "connecting" => Holds(a, "Requested")
    /\ pc[a] \in {"authenticating", "nacking"} /\ a \in outgoing
           => Holds(a, "Requested")
    /\ pc[a] = "accepting" => Holds(a, "Accepted")
    /\ pc[a] \in {"running", "closing"} => Holds(a, "Running")

\* Whatever other attempts, disconnections and bans do during its awaits, an
\* attempt finds the states it set: the assertions of set_accepted,
\* set_running and set_disconnected (p2p_point_state.ml, p2p_peer_state.ml)
\* hold, and canceling the state of a point or peer cancels its own attempt.
StatesAwaitAttempt == \A a \in Attempt : StateAwaits(a)

\* Two attempts past the checks of is_acceptable never share their peer nor
\* their point, also when both ends dial each other at the same time.
OneConnectionEach ==
    \A a, b \in Attempt :
        /\ a # b
        /\ {pc[a], pc[b]} \subseteq {"accepting", "running", "closing"}
        => atPoint[a] \cap atPoint[b] = {} /\ withPeer[a] \cap withPeer[b] = {}

\* A point or peer is Accepted or Running only on behalf of an attempt that is
\* still there to disconnect it: no failed handshake or closed connection
\* leaves one that every later attempt would find already connected.
TakenByTheLiving ==
    /\ \A p \in Point, s \in {"Accepted", "Running"} : pointState[p] = s =>
         \E a \in Attempt :
            /\ pc[a] \in IF s = "Accepted" THEN {"accepting"}
                                           ELSE {"running", "closing"}
            /\ p \in atPoint[a]
    /\ \A q \in Peer, s \in {"Accepted", "Running"} : peerState[q] = s =>
         \E a \in Attempt :
            /\ pc[a] \in IF s = "Accepted" THEN {"accepting"}
                                           ELSE {"running", "closing"}
            /\ q \in withPeer[a]

\* The pool's tables of connected points and peers, which count the slots and
\* are what a ban looks through, hold exactly the Running ones.
TablesExact ==
    /\ connectedPoints = {p \in Point : pointState[p] = "Running"}
    /\ connectedPeers = {q \in Peer : peerState[q] = "Running"}

\* A point connect refuses with Pending_connection has a connection pending.
\* The code does not ensure it: an outgoing attempt that meets a banned peer
\* ends and leaves its point Requested.
PendingIsPending ==
    \A p \in Point : pointState[p] = "Requested" =>
        \E a \in Attempt : p \in atPoint[a] /\ pc[a] \notin {"idle", "done"}

=============================================================================
