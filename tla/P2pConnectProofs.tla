-------------------------- MODULE P2pConnectProofs --------------------------
(***************************************************************************)
(* Proofs about P2pConnect, for any number of attempts, points and peers.  *)
(***************************************************************************)
EXTENDS P2pConnect, TLAPS

\* An attempt has no peer before is_acceptable agreed to one, and is not
\* outgoing before connect is called.
Unstarted ==
    \A a \in Attempt :
        /\ pc[a] \in {"idle", "connecting", "authenticating", "nacking"}
               => withPeer[a] = {}
        /\ pc[a] = "idle" => a \notin outgoing

\* TakenByTheLiving by way of the attempt whose canceler or connection the
\* state holds.
PointsOwned ==
    \A p \in Point : pointState[p] \in {"Accepted", "Running"} =>
        /\ pointBy[p] # {}
        /\ \A a \in pointBy[p] :
             /\ p \in atPoint[a]
             /\ pointState[p] = "Accepted" => pc[a] = "accepting"
             /\ pointState[p] = "Running" => pc[a] \in {"running", "closing"}

\* The same for peers.
PeersOwned ==
    \A q \in Peer : peerState[q] \in {"Accepted", "Running"} =>
        /\ peerBy[q] # {}
        /\ \A a \in peerBy[q] :
             /\ q \in withPeer[a]
             /\ peerState[q] = "Accepted" => pc[a] = "accepting"
             /\ peerState[q] = "Running" => pc[a] \in {"running", "closing"}

\* The inductive invariant.
IInv == TypeOK /\ Unstarted /\ StatesAwaitAttempt /\ TablesExact
        /\ PointsOwned /\ PeersOwned

\* The attempts that hold the state of their point, and of their peer.
Engaged(a) ==
    \/ pc[a] \in {"connecting", "accepting", "running", "closing"}
    \/ pc[a] \in {"authenticating", "nacking"} /\ a \in outgoing

\* Neither point nor peer in common.
Apart(a, b) ==
    /\ \A p \in atPoint[a] : p \notin atPoint[b]
    /\ \A q \in withPeer[a] : q \notin withPeer[b]

\* A state holds one canceler or connection, so its holders share nothing.
LEMMA EngagedApart ==
    ASSUME StatesAwaitAttempt,
           NEW a \in Attempt, NEW b \in Attempt, a # b, Engaged(a), Engaged(b)
    PROVE  Apart(a, b)
<1>1. /\ \A p \in atPoint[a] : pointBy[p] = {a}
      /\ \A q \in withPeer[a] : peerBy[q] = {a}
  BY DEF StatesAwaitAttempt, StateAwaits, Holds, Engaged
<1>2. /\ \A p \in atPoint[b] : pointBy[p] = {b}
      /\ \A q \in withPeer[b] : peerBy[q] = {b}
  BY DEF StatesAwaitAttempt, StateAwaits, Holds, Engaged
<1>3. {a} # {b}
  OBVIOUS
<1> QED
  BY <1>1, <1>2, <1>3, Zenon DEF Apart

\* Before any attempt, nothing is taken.
LEMMA InitIInv == Init => IInv
  BY DEF Init, IInv, TypeOK, Pc, PointStates, PeerStates, Unstarted,
         StatesAwaitAttempt, StateAwaits, TablesExact, PointsOwned, PeersOwned

\* Every step of an attempt, and every ban, preserves the invariant.
LEMMA NextIInv == IInv /\ [Next]_vars => IInv'
<1> SUFFICES ASSUME IInv, [Next]_vars
             PROVE  IInv'
  OBVIOUS
<1> USE DEF IInv
<1>1. ASSUME NEW a \in Attempt, NEW p \in Point, Connect(a, p)
      PROVE  IInv'
  <2>1. TypeOK'
    BY <1>1 DEF TypeOK, Pc, PointStates, PeerStates, Connect, SetPoint, Goto
  <2>2. Unstarted'
    BY <1>1 DEF Unstarted, TypeOK, Pc, Connect, SetPoint, Goto
  <2>3. StatesAwaitAttempt'
    BY <1>1 DEF StatesAwaitAttempt, StateAwaits, Holds, Unstarted, TypeOK, Pc,
       Connect, SetPoint, Goto
  <2>4. TablesExact'
    BY <1>1 DEF TablesExact, StatesAwaitAttempt, StateAwaits, Holds, TypeOK,
       Connect, SetPoint, Goto
  <2>5. PointsOwned'
    BY <1>1 DEF PointsOwned, StatesAwaitAttempt, StateAwaits, Holds, TypeOK,
       Connect, SetPoint, Goto
  <2>6. PeersOwned'
    BY <1>1 DEF PeersOwned, StatesAwaitAttempt, StateAwaits, Holds, TypeOK,
       Connect, SetPoint, Goto
  <2> QED
    BY <2>1, <2>2, <2>3, <2>4, <2>5, <2>6 DEF IInv
<1>2. ASSUME NEW a \in Attempt, NEW P \in {{}} \cup {{p} : p \in Point}, Accept(a, P)
      PROVE  IInv'
  <2>1. TypeOK'
    BY <1>2 DEF TypeOK, Pc, PointStates, PeerStates, Accept, Goto
  <2>2. Unstarted'
    BY <1>2 DEF Unstarted, TypeOK, Pc, Accept, Goto
  <2>3. StatesAwaitAttempt'
    BY <1>2 DEF StatesAwaitAttempt, StateAwaits, Holds, Unstarted, TypeOK, Pc,
       Accept, Goto
  <2>4. TablesExact'
    BY <1>2 DEF TablesExact, StatesAwaitAttempt, StateAwaits, Holds, TypeOK,
       Accept, Goto
  <2>5. PointsOwned'
    BY <1>2 DEF PointsOwned, StatesAwaitAttempt, StateAwaits, Holds, TypeOK,
       Accept, Goto
  <2>6. PeersOwned'
    BY <1>2 DEF PeersOwned, StatesAwaitAttempt, StateAwaits, Holds, TypeOK,
       Accept, Goto
  <2> QED
    BY <2>1, <2>2, <2>3, <2>4, <2>5, <2>6 DEF IInv
<1>3. ASSUME NEW a \in Attempt, Connected(a)
      PROVE  IInv'
  <2>1. TypeOK'
    BY <1>3 DEF TypeOK, Pc, PointStates, PeerStates, Connected, Goto
  <2>2. Unstarted'
    BY <1>3 DEF Unstarted, TypeOK, Pc, Connected, Goto
  <2>3. StatesAwaitAttempt'
    BY <1>3 DEF StatesAwaitAttempt, StateAwaits, Holds, Unstarted, TypeOK, Pc,
       Connected, Goto
  <2>4. TablesExact'
    BY <1>3 DEF TablesExact, StatesAwaitAttempt, StateAwaits, Holds, TypeOK,
       Connected, Goto
  <2>5. PointsOwned'
    BY <1>3 DEF PointsOwned, StatesAwaitAttempt, StateAwaits, Holds, TypeOK,
       Connected, Goto
  <2>6. PeersOwned'
    BY <1>3 DEF PeersOwned, StatesAwaitAttempt, StateAwaits, Holds, TypeOK,
       Connected, Goto
  <2> QED
    BY <2>1, <2>2, <2>3, <2>4, <2>5, <2>6 DEF IInv
<1>4. ASSUME NEW a \in Attempt, ConnectFails(a)
      PROVE  IInv'
  <2>1. TypeOK'
    BY <1>4 DEF TypeOK, Pc, PointStates, PeerStates, ConnectFails, SetPoint,
       Finish, Goto
  <2>2. Unstarted'
    BY <1>4 DEF Unstarted, TypeOK, Pc, ConnectFails, SetPoint, Finish, Goto
  <2>3. StatesAwaitAttempt'
    <3>1. \A b \in Attempt : b # a /\ Engaged(a) /\ Engaged(b) => Apart(a, b)
      BY EngagedApart
    <3>2. ASSUME NEW b \in Attempt, b # a, Engaged(b)
          PROVE  Apart(a, b)
      BY <1>4, <3>1, <3>2 DEF Engaged, ConnectFails, SetPoint, Finish, Goto
    <3>3. ASSUME NEW b \in Attempt, b # a
          PROVE  StateAwaits(b)'
      BY <1>4, <3>2, <3>3 DEF StatesAwaitAttempt, StateAwaits, Holds, Engaged,
         Apart, TypeOK, Pc, ConnectFails, SetPoint, Finish, Goto
    <3>4. StateAwaits(a)'
      BY <1>4 DEF StatesAwaitAttempt, StateAwaits, Holds, Unstarted, TypeOK,
         Pc, ConnectFails, SetPoint, Finish, Goto
    <3> QED
      BY <3>3, <3>4 DEF StatesAwaitAttempt
  <2>4. TablesExact'
    BY <1>4 DEF TablesExact, StatesAwaitAttempt, StateAwaits, Holds, TypeOK,
       ConnectFails, SetPoint, Finish, Goto
  <2>5. PointsOwned'
    BY <1>4 DEF PointsOwned, StatesAwaitAttempt, StateAwaits, Holds, TypeOK,
       ConnectFails, SetPoint, Finish, Goto
  <2>6. PeersOwned'
    BY <1>4 DEF PeersOwned, StatesAwaitAttempt, StateAwaits, Holds, TypeOK,
       ConnectFails, SetPoint, Finish, Goto
  <2> QED
    BY <2>1, <2>2, <2>3, <2>4, <2>5, <2>6 DEF IInv
<1>5. ASSUME NEW a \in Attempt, AuthFails(a)
      PROVE  IInv'
  <2>1. TypeOK'
    BY <1>5 DEF TypeOK, Pc, PointStates, PeerStates, AuthFails, SetPoint,
       Finish, Goto
  <2>2. Unstarted'
    BY <1>5 DEF Unstarted, TypeOK, Pc, AuthFails, SetPoint, Finish, Goto
  <2>3. StatesAwaitAttempt'
    <3>1. \A b \in Attempt : b # a /\ Engaged(a) /\ Engaged(b) => Apart(a, b)
      BY EngagedApart
    <3>2. ASSUME NEW b \in Attempt, b # a, Engaged(b), a \in outgoing
          PROVE  Apart(a, b)
      BY <1>5, <3>1, <3>2 DEF Engaged, AuthFails, SetPoint, Finish, Goto
    <3>3. ASSUME NEW b \in Attempt, b # a
          PROVE  StateAwaits(b)'
      BY <1>5, <3>2, <3>3 DEF StatesAwaitAttempt, StateAwaits, Holds, Engaged,
         Apart, TypeOK, Pc, AuthFails, SetPoint, Finish, Goto
    <3>4. StateAwaits(a)'
      BY <1>5 DEF StatesAwaitAttempt, StateAwaits, Holds, Unstarted, TypeOK,
         Pc, AuthFails, SetPoint, Finish, Goto
    <3> QED
      BY <3>3, <3>4 DEF StatesAwaitAttempt
  <2>4. TablesExact'
    BY <1>5 DEF TablesExact, StatesAwaitAttempt, StateAwaits, Holds, TypeOK,
       AuthFails, SetPoint, Finish, Goto
  <2>5. PointsOwned'
    BY <1>5 DEF PointsOwned, StatesAwaitAttempt, StateAwaits, Holds, TypeOK,
       AuthFails, SetPoint, Finish, Goto
  <2>6. PeersOwned'
    BY <1>5 DEF PeersOwned, StatesAwaitAttempt, StateAwaits, Holds, TypeOK,
       AuthFails, SetPoint, Finish, Goto
  <2> QED
    BY <2>1, <2>2, <2>3, <2>4, <2>5, <2>6 DEF IInv
<1>6. ASSUME NEW a \in Attempt, NEW q \in Peer, AuthBanned(a, q)
      PROVE  IInv'
  <2>1. TypeOK'
    BY <1>6 DEF TypeOK, Pc, PointStates, PeerStates, AuthBanned, Finish, Goto
  <2>2. Unstarted'
    BY <1>6 DEF Unstarted, TypeOK, Pc, AuthBanned, Finish, Goto
  <2>3. StatesAwaitAttempt'
    BY <1>6 DEF StatesAwaitAttempt, StateAwaits, Holds, Unstarted, TypeOK, Pc,
       AuthBanned, Finish, Goto
  <2>4. TablesExact'
    BY <1>6 DEF TablesExact, StatesAwaitAttempt, StateAwaits, Holds, TypeOK,
       AuthBanned, Finish, Goto
  <2>5. PointsOwned'
    BY <1>6 DEF PointsOwned, StatesAwaitAttempt, StateAwaits, Holds, TypeOK,
       AuthBanned, Finish, Goto
  <2>6. PeersOwned'
    BY <1>6 DEF PeersOwned, StatesAwaitAttempt, StateAwaits, Holds, TypeOK,
       AuthBanned, Finish, Goto
  <2> QED
    BY <2>1, <2>2, <2>3, <2>4, <2>5, <2>6 DEF IInv
<1>7. ASSUME NEW a \in Attempt, NEW q \in Peer, AuthAccepts(a, q)
      PROVE  IInv'
  <2>1. TypeOK'
    BY <1>7 DEF TypeOK, Pc, PointStates, PeerStates, AuthAccepts,
       is_acceptable, SetPoint, SetPeer, Goto
  <2>2. Unstarted'
    BY <1>7 DEF Unstarted, TypeOK, Pc, AuthAccepts, is_acceptable, SetPoint,
       SetPeer, Goto
  <2>3. StatesAwaitAttempt'
    <3>1. \A b \in Attempt : b # a /\ Engaged(a) /\ Engaged(b) => Apart(a, b)
      BY EngagedApart
    <3>2. ASSUME NEW b \in Attempt, b # a, Engaged(b)
          PROVE  Apart(a, b)
      BY <1>7, <3>1, <3>2 DEF StatesAwaitAttempt, StateAwaits, Holds,
         Unstarted, Engaged, Apart, AuthAccepts, is_acceptable, SetPoint,
         SetPeer, Goto
    <3>3. ASSUME NEW b \in Attempt, b # a
          PROVE  StateAwaits(b)'
      BY <1>7, <3>2, <3>3 DEF StatesAwaitAttempt, StateAwaits, Holds, Engaged,
         Apart, TypeOK, Pc, AuthAccepts, is_acceptable, SetPoint, SetPeer,
         Goto
    <3>4. StateAwaits(a)'
      BY <1>7 DEF StatesAwaitAttempt, StateAwaits, Holds, Unstarted, TypeOK,
         Pc, AuthAccepts, is_acceptable, SetPoint, SetPeer, Goto
    <3> QED
      BY <3>3, <3>4 DEF StatesAwaitAttempt
  <2>4. TablesExact'
    BY <1>7 DEF TablesExact, StatesAwaitAttempt, StateAwaits, Holds, TypeOK,
       AuthAccepts, is_acceptable, SetPoint, SetPeer, Goto
  <2>5. PointsOwned'
    <3>1. ASSUME NEW p \in atPoint[a]
          PROVE  p \in Point /\ pointState'[p] = "Accepted" /\ pointBy'[p] = {a}
      BY <1>7 DEF TypeOK, AuthAccepts, SetPoint, SetPeer
    <3>2. ASSUME NEW p \in Point \ atPoint[a]
          PROVE  pointState'[p] = pointState[p] /\ pointBy'[p] = pointBy[p]
      BY <1>7 DEF AuthAccepts, SetPoint, SetPeer
    <3>3. pc'[a] = "accepting" /\ atPoint'[a] = atPoint[a] /\ withPeer'[a] = {q}
      BY <1>7 DEF TypeOK, AuthAccepts, Goto
    <3>4. ASSUME NEW b \in Attempt, b # a
          PROVE  pc'[b] = pc[b] /\ atPoint'[b] = atPoint[b] /\ withPeer'[b] = withPeer[b]
      BY <1>7, <3>4 DEF TypeOK, AuthAccepts, Goto
    <3>5. pc[a] = "authenticating" /\ pointBy \in [Point -> SUBSET Attempt]
      BY <1>7 DEF TypeOK, AuthAccepts
    <3> QED
      BY <3>1, <3>2, <3>3, <3>4, <3>5 DEF PointsOwned
  <2>6. PeersOwned'
    <3>1. ASSUME NEW r \in {q}
          PROVE  r \in Peer /\ peerState'[r] = "Accepted" /\ peerBy'[r] = {a}
      BY <1>7 DEF TypeOK, AuthAccepts, SetPoint, SetPeer
    <3>2. ASSUME NEW r \in Peer \ {q}
          PROVE  peerState'[r] = peerState[r] /\ peerBy'[r] = peerBy[r]
      BY <1>7 DEF AuthAccepts, SetPoint, SetPeer
    <3>3. pc'[a] = "accepting" /\ atPoint'[a] = atPoint[a] /\ withPeer'[a] = {q}
      BY <1>7 DEF TypeOK, AuthAccepts, Goto
    <3>4. ASSUME NEW b \in Attempt, b # a
          PROVE  pc'[b] = pc[b] /\ atPoint'[b] = atPoint[b] /\ withPeer'[b] = withPeer[b]
      BY <1>7, <3>4 DEF TypeOK, AuthAccepts, Goto
    <3>5. pc[a] = "authenticating" /\ peerBy \in [Peer -> SUBSET Attempt]
      BY <1>7 DEF TypeOK, AuthAccepts
    <3> QED
      BY <3>1, <3>2, <3>3, <3>4, <3>5 DEF PeersOwned
  <2> QED
    BY <2>1, <2>2, <2>3, <2>4, <2>5, <2>6 DEF IInv
<1>8. ASSUME NEW a \in Attempt, NEW q \in Peer, AuthRejects(a, q)
      PROVE  IInv'
  <2>1. TypeOK'
    BY <1>8 DEF TypeOK, Pc, PointStates, PeerStates, AuthRejects, Goto
  <2>2. Unstarted'
    BY <1>8 DEF Unstarted, TypeOK, Pc, AuthRejects, Goto
  <2>3. StatesAwaitAttempt'
    BY <1>8 DEF StatesAwaitAttempt, StateAwaits, Holds, Unstarted, TypeOK, Pc,
       AuthRejects, Goto
  <2>4. TablesExact'
    BY <1>8 DEF TablesExact, StatesAwaitAttempt, StateAwaits, Holds, TypeOK,
       AuthRejects, Goto
  <2>5. PointsOwned'
    BY <1>8 DEF PointsOwned, StatesAwaitAttempt, StateAwaits, Holds, TypeOK,
       AuthRejects, Goto
  <2>6. PeersOwned'
    BY <1>8 DEF PeersOwned, StatesAwaitAttempt, StateAwaits, Holds, TypeOK,
       AuthRejects, Goto
  <2> QED
    BY <2>1, <2>2, <2>3, <2>4, <2>5, <2>6 DEF IInv
<1>9. ASSUME NEW a \in Attempt, Nacked(a)
      PROVE  IInv'
  <2>1. TypeOK'
    BY <1>9 DEF TypeOK, Pc, PointStates, PeerStates, Nacked, SetPoint, Finish,
       Goto
  <2>2. Unstarted'
    BY <1>9 DEF Unstarted, TypeOK, Pc, Nacked, SetPoint, Finish, Goto
  <2>3. StatesAwaitAttempt'
    <3>1. \A b \in Attempt : b # a /\ Engaged(a) /\ Engaged(b) => Apart(a, b)
      BY EngagedApart
    <3>2. ASSUME NEW b \in Attempt, b # a, Engaged(b), a \in outgoing
          PROVE  Apart(a, b)
      BY <1>9, <3>1, <3>2, SMTT(30) DEF Engaged, Nacked, SetPoint, Finish, Goto
    <3>3. ASSUME NEW b \in Attempt, b # a
          PROVE  StateAwaits(b)'
      BY <1>9, <3>2, <3>3 DEF StatesAwaitAttempt, StateAwaits, Holds, Engaged,
         Apart, TypeOK, Pc, Nacked, SetPoint, Finish, Goto
    <3>4. StateAwaits(a)'
      BY <1>9 DEF StatesAwaitAttempt, StateAwaits, Holds, Unstarted, TypeOK,
         Pc, Nacked, SetPoint, Finish, Goto
    <3> QED
      BY <3>3, <3>4 DEF StatesAwaitAttempt
  <2>4. TablesExact'
    BY <1>9 DEF TablesExact, StatesAwaitAttempt, StateAwaits, Holds, TypeOK,
       Nacked, SetPoint, Finish, Goto
  <2>5. PointsOwned'
    BY <1>9 DEF PointsOwned, StatesAwaitAttempt, StateAwaits, Holds, TypeOK,
       Nacked, SetPoint, Finish, Goto
  <2>6. PeersOwned'
    BY <1>9 DEF PeersOwned, StatesAwaitAttempt, StateAwaits, Holds, TypeOK,
       Nacked, SetPoint, Finish, Goto
  <2> QED
    BY <2>1, <2>2, <2>3, <2>4, <2>5, <2>6 DEF IInv
<1>10. ASSUME NEW a \in Attempt, AcceptFails(a)
      PROVE  IInv'
  <2>1. TypeOK'
    BY <1>10 DEF TypeOK, Pc, PointStates, PeerStates, AcceptFails, SetPoint,
       SetPeer, Finish, Goto
  <2>2. Unstarted'
    BY <1>10 DEF Unstarted, TypeOK, Pc, AcceptFails, SetPoint, SetPeer,
       Finish, Goto
  <2>3. StatesAwaitAttempt'
    <3>1. \A b \in Attempt : b # a /\ Engaged(a) /\ Engaged(b) => Apart(a, b)
      BY EngagedApart
    <3>2. ASSUME NEW b \in Attempt, b # a, Engaged(b)
          PROVE  Apart(a, b)
      BY <1>10, <3>1, <3>2, SMTT(30) DEF Engaged, AcceptFails, SetPoint, SetPeer,
         Finish, Goto
    <3>3. ASSUME NEW b \in Attempt, b # a
          PROVE  StateAwaits(b)'
      BY <1>10, <3>2, <3>3 DEF StatesAwaitAttempt, StateAwaits, Holds,
         Engaged, Apart, TypeOK, Pc, AcceptFails, SetPoint, SetPeer, Finish,
         Goto
    <3>4. StateAwaits(a)'
      BY <1>10 DEF StatesAwaitAttempt, StateAwaits, Holds, Unstarted, TypeOK,
         Pc, AcceptFails, SetPoint, SetPeer, Finish, Goto
    <3> QED
      BY <3>3, <3>4 DEF StatesAwaitAttempt
  <2>4. TablesExact'
    BY <1>10 DEF TablesExact, StatesAwaitAttempt, StateAwaits, Holds, TypeOK,
       AcceptFails, SetPoint, SetPeer, Finish, Goto
  <2>5. PointsOwned'
    BY <1>10 DEF PointsOwned, StatesAwaitAttempt, StateAwaits, Holds, TypeOK,
       AcceptFails, SetPoint, SetPeer, Finish, Goto
  <2>6. PeersOwned'
    BY <1>10 DEF PeersOwned, StatesAwaitAttempt, StateAwaits, Holds, TypeOK,
       AcceptFails, SetPoint, SetPeer, Finish, Goto
  <2> QED
    BY <2>1, <2>2, <2>3, <2>4, <2>5, <2>6 DEF IInv
<1>11. ASSUME NEW a \in Attempt, create_connection(a)
      PROVE  IInv'
  <2>1. TypeOK'
    BY <1>11 DEF TypeOK, Pc, PointStates, PeerStates, create_connection,
       SetPoint, SetPeer, Goto
  <2>2. Unstarted'
    BY <1>11 DEF Unstarted, TypeOK, Pc, create_connection, SetPoint, SetPeer,
       Goto
  <2>3. StatesAwaitAttempt'
    <3>1. \A b \in Attempt : b # a /\ Engaged(a) /\ Engaged(b) => Apart(a, b)
      BY EngagedApart
    <3>2. ASSUME NEW b \in Attempt, b # a, Engaged(b)
          PROVE  Apart(a, b)
      BY <1>11, <3>1, <3>2, SMTT(30) DEF Engaged, create_connection, SetPoint, SetPeer,
         Goto
    <3>3. ASSUME NEW b \in Attempt, b # a
          PROVE  StateAwaits(b)'
      BY <1>11, <3>2, <3>3 DEF StatesAwaitAttempt, StateAwaits, Holds,
         Engaged, Apart, TypeOK, Pc, create_connection, SetPoint, SetPeer,
         Goto
    <3>4. StateAwaits(a)'
      BY <1>11 DEF StatesAwaitAttempt, StateAwaits, Holds, Unstarted, TypeOK,
         Pc, create_connection, SetPoint, SetPeer, Goto
    <3> QED
      BY <3>3, <3>4 DEF StatesAwaitAttempt
  <2>4. TablesExact'
    BY <1>11 DEF TablesExact, StatesAwaitAttempt, StateAwaits, Holds, TypeOK,
       create_connection, SetPoint, SetPeer, Goto
  <2>5. PointsOwned'
    BY <1>11 DEF PointsOwned, StatesAwaitAttempt, StateAwaits, Holds, TypeOK,
       create_connection, SetPoint, SetPeer, Goto
  <2>6. PeersOwned'
    BY <1>11 DEF PeersOwned, StatesAwaitAttempt, StateAwaits, Holds, TypeOK,
       create_connection, SetPoint, SetPeer, Goto
  <2> QED
    BY <2>1, <2>2, <2>3, <2>4, <2>5, <2>6 DEF IInv
<1>12. ASSUME NEW a \in Attempt, Disconnect(a)
      PROVE  IInv'
  <2>1. TypeOK'
    BY <1>12 DEF TypeOK, Pc, PointStates, PeerStates, Disconnect, Goto
  <2>2. Unstarted'
    BY <1>12 DEF Unstarted, TypeOK, Pc, Disconnect, Goto
  <2>3. StatesAwaitAttempt'
    BY <1>12 DEF StatesAwaitAttempt, StateAwaits, Holds, Unstarted, TypeOK,
       Pc, Disconnect, Goto
  <2>4. TablesExact'
    BY <1>12 DEF TablesExact, StatesAwaitAttempt, StateAwaits, Holds, TypeOK,
       Disconnect, Goto
  <2>5. PointsOwned'
    BY <1>12 DEF PointsOwned, StatesAwaitAttempt, StateAwaits, Holds, TypeOK,
       Disconnect, Goto
  <2>6. PeersOwned'
    BY <1>12 DEF PeersOwned, StatesAwaitAttempt, StateAwaits, Holds, TypeOK,
       Disconnect, Goto
  <2> QED
    BY <2>1, <2>2, <2>3, <2>4, <2>5, <2>6 DEF IInv
<1>13. ASSUME NEW a \in Attempt, Disconnected(a)
      PROVE  IInv'
  <2>1. TypeOK'
    BY <1>13 DEF TypeOK, Pc, PointStates, PeerStates, Disconnected, SetPoint,
       SetPeer, Goto
  <2>2. Unstarted'
    BY <1>13 DEF Unstarted, TypeOK, Pc, Disconnected, SetPoint, SetPeer, Goto
  <2>3. StatesAwaitAttempt'
    <3>1. \A b \in Attempt : b # a /\ Engaged(a) /\ Engaged(b) => Apart(a, b)
      BY EngagedApart
    <3>2. ASSUME NEW b \in Attempt, b # a, Engaged(b)
          PROVE  Apart(a, b)
      BY <1>13, <3>1, <3>2, ZenonT(60) DEF Engaged, Disconnected, SetPoint, SetPeer, Goto
    <3>3. ASSUME NEW b \in Attempt, b # a
          PROVE  StateAwaits(b)'
      BY <1>13, <3>2, <3>3, SMTT(30) DEF StatesAwaitAttempt, StateAwaits, Holds,
         Engaged, Apart, TypeOK, Pc, Disconnected, SetPoint, SetPeer, Goto
    <3>4. StateAwaits(a)'
      BY <1>13 DEF StatesAwaitAttempt, StateAwaits, Holds, Unstarted, TypeOK,
         Pc, Disconnected, SetPoint, SetPeer, Goto
    <3> QED
      BY <3>3, <3>4 DEF StatesAwaitAttempt
  <2>4. TablesExact'
    BY <1>13 DEF TablesExact, StatesAwaitAttempt, StateAwaits, Holds, TypeOK,
       Disconnected, SetPoint, SetPeer, Goto
  <2>5. PointsOwned'
    BY <1>13 DEF PointsOwned, StatesAwaitAttempt, StateAwaits, Holds, TypeOK,
       Disconnected, SetPoint, SetPeer, Goto
  <2>6. PeersOwned'
    BY <1>13 DEF PeersOwned, StatesAwaitAttempt, StateAwaits, Holds, TypeOK,
       Disconnected, SetPoint, SetPeer, Goto
  <2> QED
    BY <2>1, <2>2, <2>3, <2>4, <2>5, <2>6 DEF IInv
<1>14. ASSUME NEW p \in Point, BanPoint(p)
      PROVE  IInv'
  <2>1. TypeOK'
    BY <1>14 DEF TypeOK, Pc, PointStates, PeerStates, BanPoint, Kick
  <2>2. Unstarted'
    BY <1>14 DEF Unstarted, TypeOK, Pc, BanPoint, Kick
  <2>3. StatesAwaitAttempt'
    BY <1>14 DEF StatesAwaitAttempt, StateAwaits, Holds, Unstarted, TypeOK,
       Pc, BanPoint, Kick
  <2>4. TablesExact'
    BY <1>14 DEF TablesExact, StatesAwaitAttempt, StateAwaits, Holds, TypeOK,
       BanPoint, Kick
  <2>5. PointsOwned'
    BY <1>14 DEF PointsOwned, StatesAwaitAttempt, StateAwaits, Holds, TypeOK,
       BanPoint, Kick
  <2>6. PeersOwned'
    BY <1>14 DEF PeersOwned, StatesAwaitAttempt, StateAwaits, Holds, TypeOK,
       BanPoint, Kick
  <2> QED
    BY <2>1, <2>2, <2>3, <2>4, <2>5, <2>6 DEF IInv
<1>15. ASSUME NEW q \in Peer, BanPeer(q)
      PROVE  IInv'
  <2>1. TypeOK'
    BY <1>15 DEF TypeOK, Pc, PointStates, PeerStates, BanPeer, Kick
  <2>2. Unstarted'
    BY <1>15 DEF Unstarted, TypeOK, Pc, BanPeer, Kick
  <2>3. StatesAwaitAttempt'
    BY <1>15 DEF StatesAwaitAttempt, StateAwaits, Holds, Unstarted, TypeOK,
       Pc, BanPeer, Kick
  <2>4. TablesExact'
    BY <1>15 DEF TablesExact, StatesAwaitAttempt, StateAwaits, Holds, TypeOK,
       BanPeer, Kick
  <2>5. PointsOwned'
    BY <1>15 DEF PointsOwned, StatesAwaitAttempt, StateAwaits, Holds, TypeOK,
       BanPeer, Kick
  <2>6. PeersOwned'
    BY <1>15 DEF PeersOwned, StatesAwaitAttempt, StateAwaits, Holds, TypeOK,
       BanPeer, Kick
  <2> QED
    BY <2>1, <2>2, <2>3, <2>4, <2>5, <2>6 DEF IInv
<1>16. ASSUME NEW x \in Point \cup Peer, Unban(x)
      PROVE  IInv'
  <2>1. TypeOK'
    BY <1>16 DEF TypeOK, Pc, PointStates, PeerStates, Unban
  <2>2. Unstarted'
    BY <1>16 DEF Unstarted, TypeOK, Pc, Unban
  <2>3. StatesAwaitAttempt'
    BY <1>16 DEF StatesAwaitAttempt, StateAwaits, Holds, Unstarted, TypeOK,
       Pc, Unban
  <2>4. TablesExact'
    BY <1>16 DEF TablesExact, StatesAwaitAttempt, StateAwaits, Holds, TypeOK,
       Unban
  <2>5. PointsOwned'
    BY <1>16 DEF PointsOwned, StatesAwaitAttempt, StateAwaits, Holds, TypeOK,
       Unban
  <2>6. PeersOwned'
    BY <1>16 DEF PeersOwned, StatesAwaitAttempt, StateAwaits, Holds, TypeOK,
       Unban
  <2> QED
    BY <2>1, <2>2, <2>3, <2>4, <2>5, <2>6 DEF IInv
<1>17. CASE UNCHANGED vars
  <2>1. TypeOK' /\ Unstarted'
    BY <1>17, SMTT(30) DEF vars, IInv, TypeOK, Unstarted
  <2>2. StatesAwaitAttempt'
    BY <1>17, SMTT(30) DEF vars, IInv, StatesAwaitAttempt, StateAwaits, Holds
  <2>3. TablesExact'
    BY <1>17, SMTT(30) DEF vars, IInv, TablesExact
  <2>4. PointsOwned' /\ PeersOwned'
    BY <1>17, SMTT(30) DEF vars, IInv, PointsOwned, PeersOwned, Holds
  <2> QED
    BY <2>1, <2>2, <2>3, <2>4 DEF IInv
<1> QED
  BY <1>1, <1>2, <1>3, <1>4, <1>5, <1>6, <1>7, <1>8, <1>9, <1>10, <1>11,
     <1>12, <1>13, <1>14, <1>15, <1>16, <1>17 DEF Next

\* The invariant holds in every state.
LEMMA SpecIInv == Spec => []IInv
  BY InitIInv, NextIInv, PTL DEF Spec

\* Every variable of the model keeps its type.
THEOREM TypeCorrect == Spec => []TypeOK
<1>1. IInv => TypeOK
  BY DEF IInv
<1> QED
  BY <1>1, SpecIInv, PTL

\* An attempt finds the point and peer states it set when its awaits return,
\* so no assertion of the state setters fails.
THEOREM AssertionsHold == Spec => []StatesAwaitAttempt
<1>1. IInv => StatesAwaitAttempt
  BY DEF IInv
<1> QED
  BY <1>1, SpecIInv, PTL

\* At most one accepted or running connection per peer and per point.
THEOREM Exclusive == Spec => []OneConnectionEach
<1>1. IInv => OneConnectionEach
  BY EngagedApart, ZenonT(60) DEF IInv, Engaged, Apart, OneConnectionEach
<1> QED
  BY <1>1, SpecIInv, PTL

\* No point or peer stays Accepted or Running once its attempt is over.
THEOREM NothingLeftTaken == Spec => []TakenByTheLiving
<1>1. IInv => TakenByTheLiving
  BY DEF IInv, TypeOK, PointsOwned, PeersOwned, TakenByTheLiving
<1> QED
  BY <1>1, SpecIInv, PTL

\* The tables of connected points and peers hold exactly the Running ones.
THEOREM TablesAreExact == Spec => []TablesExact
<1>1. IInv => TablesExact
  BY DEF IInv
<1> QED
  BY <1>1, SpecIInv, PTL

=============================================================================
