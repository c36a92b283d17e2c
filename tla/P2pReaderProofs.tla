--------------------------- MODULE P2pReaderProofs ---------------------------
(***************************************************************************)
(* Proofs about P2pReader, for any peers, chains and connections and any    *)
(* number of activations.                                                  *)
(***************************************************************************)
EXTENDS P2pReader, FiniteSetTheorems, SequenceTheorems, TLAPS

\* The peer of a reader's connection, once there is one.
Wired ==
    \A c \in Conn : /\ link[c] = "new" => peerOf[c] = {}
                    /\ link[c] # "new" => \E q \in Peer : peerOf[c] = {q}

\* A peer has one open connection at most.
OneUp ==
    \A b, c \in Conn :
        link[b] = "up" /\ link[c] = "up" /\ peerOf[b] = peerOf[c] => b = c

\* A reader that was started has a connection and a callback, and one that was
\* not knows no chain; nobody knows a chain_db to come.
Started ==
    /\ \A r \in Reader :
          /\ pc[r] # "none" => link[conn(r)] # "new" /\ r[2] <= hooks
          /\ pc[r] = "none" => peer_active_chains[r] = {}
          /\ peer_active_chains[r] \subseteq 1 .. hooks
    /\ active_chains \subseteq 1 .. hooks

\* The readers at work or failed are finitely many, also if there are infinitely many
\* connections.
EnlistedFinite == \A q \in Peer : IsFiniteSet(Enlisted(q))

Inv == /\ TypeOK /\ Wired /\ OneUp /\ Started /\ EnlistedFinite
       /\ ReadersCounted /\ BindingsCounted /\ RetiredStaysEmpty

(***************************************************************************)
(* Readers and their peers.                                                *)
(***************************************************************************)
\* A reader is a connection and the number of a callback.
LEMMA ReaderParts ==
    /\ \A r \in Reader : conn(r) \in Conn /\ r[2] \in Db /\ r = <<conn(r), r[2]>>
    /\ \A c \in Conn, k \in Db : /\ <<c, k>> \in Reader
                                 /\ conn(<<c, k>>) = c /\ <<c, k>>[2] = k
BY DEF Reader, conn

\* The peer of a started reader is the one its connection has.
LEMMA PeerOfReader ==
    ASSUME TypeOK, Wired, Started, NEW r \in Reader, pc[r] # "none"
    PROVE  gid(r) \in Peer /\ peerOf[conn(r)] = {gid(r)}
<1>1. conn(r) \in Conn /\ link[conn(r)] # "new"
  BY ReaderParts DEF Started
<1>2. PICK q \in Peer : peerOf[conn(r)] = {q}
  BY <1>1 DEF Wired
<1>3. \A p \in Peer : p \in peerOf[conn(r)] <=> p = q
  BY <1>2
<1>4. gid(r) = q
  BY <1>3, Zenon DEF gid
<1> QED
  BY <1>2, <1>4

\* A reader at work is enlisted for its peer, and for no other.
LEMMA EnlistedOfReader ==
    ASSUME TypeOK, Wired, Started, NEW r \in Reader, pc[r] \in {"recv", "replying"}
    PROVE  \A q \in Peer : r \in Enlisted(q) <=> q = gid(r)
BY PeerOfReader, Zenon DEF Enlisted

\* The enlisted readers of q that took d for active.
Knowing(d, q) == {r \in Enlisted(q) : d \in peer_active_chains[r]}

\* They are finitely many.
LEMMA KnowingFinite ==
    ASSUME EnlistedFinite, NEW d, NEW q \in Peer
    PROVE  IsFiniteSet(Knowing(d, q)) /\ Cardinality(Knowing(d, q)) \in Nat
<1>1. Knowing(d, q) \subseteq Enlisted(q)
  BY DEF Knowing
<1> QED
  BY <1>1, FS_Subset, FS_CardinalityType DEF EnlistedFinite

\* What Hashtbl.remove does to a stack.
LEMMA RemoveType ==
    ASSUME NEW S, NEW s \in Seq(S)
    PROVE  /\ Remove(s) \in Seq(S)
           /\ s = <<>> => Remove(s) = <<>>
           /\ Len(s) # 0 => Len(Remove(s)) = Len(s) - 1
           /\ s = <<>> <=> Len(s) = 0
<1>1. CASE s = <<>>
  BY <1>1 DEF Remove
<1>2. CASE s # <<>>
  BY <1>2, HeadTailProperties, EmptySeq DEF Remove
<1> QED
  BY <1>1, <1>2

(***************************************************************************)
(* Types.                                                                  *)
(***************************************************************************)
\* The tables after P2p_reader.deactivate.
LEMMA TypeDeactivate ==
    ASSUME TypeOK, NEW q \in Peer, NEW ds, deactivate(q, ds)
    PROVE  /\ active_peers' \in [Db -> SUBSET Peer]
           /\ active_connections' \in [Db -> [Peer -> Seq(Conn)]]
<1>1. active_peers' \in [Db -> SUBSET Peer]
  BY DEF TypeOK, deactivate
<1>2. ASSUME NEW d \in Db
      PROVE  [active_connections[d] EXCEPT ![q] = Remove(@)] \in [Peer -> Seq(Conn)]
  <2>1. active_connections[d] \in [Peer -> Seq(Conn)]
    BY DEF TypeOK
  <2>2. Remove(active_connections[d][q]) \in Seq(Conn)
    BY <2>1, RemoveType
  <2> QED
    BY <2>1, <2>2
<1>3. \A d \in Db : active_connections'[d] \in [Peer -> Seq(Conn)]
  BY <1>2 DEF TypeOK, deactivate
<1>4. active_connections' = [d \in Db |-> active_connections'[d]]
  BY DEF deactivate
<1> QED
  BY <1>1, <1>3, <1>4

\* Every step keeps the types.
LEMMA TypeNext ==
    ASSUME TypeOK, Wired, Started, OneUp, [Next]_vars
    PROVE  TypeOK'
<1>1. ASSUME NEW ch \in Chain, Activate(ch) PROVE TypeOK'
  <2> DEFINE k == hooks + 1
  <2>0. hooks \in Nat /\ hooks < MaxActivations /\ k \in Db
    BY <1>1, MaxAssumption DEF Activate, TypeOK, Db
  <2>1. hooks' \in 0 .. MaxActivations
    BY <1>1, <2>0, MaxAssumption DEF Activate
  <2>2. pc' \in [Reader -> {"none", "recv", "replying", "failed", "stopped"}]
    BY <1>1 DEF Activate, TypeOK
  <2>3. chainOf' \in [Db -> SUBSET Chain] /\ active_chains' \subseteq Db
    <3>1. CASE UNCHANGED <<chainOf, active_chains>>
      BY <3>1 DEF TypeOK
    <3>2. CASE /\ chainOf' = [chainOf EXCEPT ![k] = {ch}]
               /\ active_chains' = active_chains \cup {k}
      BY <2>0, <3>2 DEF TypeOK
    <3> QED
      BY <1>1, <3>1, <3>2, Zenon DEF Activate
  <2>4. ASSUME NEW q \in Peer PROVE p2p_readers'[q] \in Seq(Reader)
    <3> DEFINE cs == {c \in Conn : link[c] = "up" /\ q \in peerOf[c]}
    <3>1. CASE cs = {}
      BY <1>1, <3>1 DEF Activate, TypeOK
    <3>2. CASE cs # {}
      <4> DEFINE c == CHOOSE c \in cs : TRUE
      <4>1. c \in cs
        BY <3>2
      <4>2. c \in Conn
        BY <4>1
      <4>3. p2p_readers'[q] = Push(p2p_readers[q], <<<<c, k>>>>)
        BY <1>1, <3>2 DEF Activate
      <4> HIDE DEF c
      <4>4. <<<<c, k>>>> \in Seq(Reader)
        BY <2>0, <4>2, ReaderParts
      <4> QED
        BY <4>3, <4>4, ConcatProperties DEF Push, TypeOK
    <3> QED
      BY <3>1, <3>2
  <2>5. p2p_readers' \in [Peer -> Seq(Reader)]
    BY Zenon, <1>1, <2>4 DEF Activate
  <2> QED
    BY <1>1, <2>1, <2>2, <2>3, <2>5, Zenon DEF Activate, TypeOK
<1>2. ASSUME NEW d \in Db, Deactivate(d) PROVE TypeOK'
  <2>1. active_chains' \subseteq Db /\ active_peers' \in [Db -> SUBSET Peer]
    BY <1>2 DEF Deactivate, TypeOK
  <2>2. [q \in Peer |-> <<>>] \in [Peer -> Seq(Conn)]
    OBVIOUS
  <2>3. active_connections' \in [Db -> [Peer -> Seq(Conn)]]
    BY <1>2, <2>2, Zenon DEF Deactivate, TypeOK
  <2> QED
    BY <1>2, <2>1, <2>3, Zenon DEF Deactivate, TypeOK
<1>3. ASSUME NEW c \in Conn, NEW q \in Peer, NewConnection(c, q) PROVE TypeOK'
  <2>1. /\ link' \in [Conn -> {"new", "up", "down"}]
        /\ peerOf' \in [Conn -> SUBSET Peer]
        /\ pc' \in [Reader -> {"none", "recv", "replying", "failed", "stopped"}]
    BY <1>3 DEF NewConnection, TypeOK
  <2>2. hooks \in Nat /\ 1 .. hooks \subseteq Db
    BY MaxAssumption DEF TypeOK, Db
  <2>3. [k \in 1 .. hooks |-> <<c, k>>] \in Seq(Reader)
    BY <2>2, ReaderParts
  <2>4. Push(p2p_readers[q], [k \in 1 .. hooks |-> <<c, k>>]) \in Seq(Reader)
    BY <2>3, ConcatProperties DEF Push, TypeOK
  <2>5. p2p_readers' \in [Peer -> Seq(Reader)]
    BY <1>3, <2>4, Zenon DEF NewConnection, TypeOK
  <2> QED
    BY <1>3, <2>1, <2>5, Zenon DEF NewConnection, TypeOK
<1>4. ASSUME NEW c \in Conn, Disconnect(c) PROVE TypeOK'
  BY <1>4 DEF Disconnect, TypeOK
<1>5. CASE Shutdown
  <2>1. ASSUME NEW q \in Peer PROVE Range(p2p_readers[q]) \subseteq Reader
    <3>1. p2p_readers[q] \in Seq(Reader)
      BY Zenon DEF TypeOK
    <3> QED
      BY <3>1 DEF Range
  <2>2. canceled' \subseteq Reader
    <3>1. canceled' = canceled \cup UNION {Range(p2p_readers[q]) : q \in Peer} /\ canceled \subseteq Reader
      BY <1>5, Zenon DEF Shutdown, TypeOK
    <3>2. UNION {Range(p2p_readers[q]) : q \in Peer} \subseteq Reader
      BY <2>1, Zenon
    <3> QED
      BY <3>1, <3>2, Zenon
  <2> QED
    BY <1>5, <2>2, Zenon DEF Shutdown, TypeOK
<1>6. ASSUME NEW r \in Reader, NEW ch \in Chain, HandleCurrentBranch(r, ch) PROVE TypeOK'
  <2>1. gid(r) \in Peer /\ conn(r) \in Conn
    BY <1>6, PeerOfReader, ReaderParts DEF HandleCurrentBranch, Received
  <2>2. pc' \in [Reader -> {"none", "recv", "replying", "failed", "stopped"}]
    BY <1>6 DEF HandleCurrentBranch, TypeOK
  <2>3. /\ active_peers' \in [Db -> SUBSET Peer]
        /\ active_connections' \in [Db -> [Peer -> Seq(Conn)]]
        /\ peer_active_chains' \in [Reader -> SUBSET Db]
    <3>1. CASE UNCHANGED <<active_peers, active_connections, peer_active_chains>>
      BY <3>1 DEF TypeOK
    <3>2. ASSUME NEW d \in active_chains,
                 /\ active_peers' = [active_peers EXCEPT ![d] = @ \cup {gid(r)}]
                 /\ active_connections' = [active_connections EXCEPT
                        ![d][gid(r)] = Push(@, <<conn(r)>>)]
                 /\ peer_active_chains' = [peer_active_chains EXCEPT ![r] = @ \cup {d}]
          PROVE  <2>3!1 /\ <2>3!2 /\ <2>3!3
      <4>1. d \in Db
        BY DEF TypeOK
      <4>2. <<conn(r)>> \in Seq(Conn) /\ active_connections[d][gid(r)] \in Seq(Conn)
        BY <2>1, <4>1 DEF TypeOK
      <4>3. Push(active_connections[d][gid(r)], <<conn(r)>>) \in Seq(Conn)
        BY <4>2, ConcatProperties DEF Push
      <4>4. active_connections' \in [Db -> [Peer -> Seq(Conn)]]
        BY <2>1, <3>2, <4>1, <4>3 DEF TypeOK
      <4> QED
        BY <2>1, <3>2, <4>1, <4>4 DEF TypeOK
    <3> QED
      BY <1>6, <3>1, <3>2, Zenon DEF HandleCurrentBranch, Find
  <2> QED
    BY <1>6, <2>2, <2>3, Zenon DEF HandleCurrentBranch, TypeOK
<1>7. ASSUME NEW r \in Reader, NEW ch \in Chain, HandleDeactivate(r, ch) PROVE TypeOK'
  <2>1. gid(r) \in Peer
    BY <1>7, PeerOfReader DEF HandleDeactivate, Received
  <2>2. peer_active_chains' \in [Reader -> SUBSET Db]
    BY <1>7 DEF HandleDeactivate, TypeOK
  <2>3. /\ active_peers' \in [Db -> SUBSET Peer]
        /\ active_connections' \in [Db -> [Peer -> Seq(Conn)]]
    BY <1>7, <2>1, TypeDeactivate, Zenon DEF HandleDeactivate
  <2> QED
    BY <1>7, <2>2, <2>3, Zenon DEF HandleDeactivate, TypeOK
<1>8. ASSUME NEW r \in Reader, HandleOther(r) \/ Replied(r) PROVE TypeOK'
  BY Zenon, <1>8 DEF HandleOther, Replied, TypeOK
<1>11. ASSUME NEW r \in Reader, HandlerRaises(r) PROVE TypeOK'
  <2>1. pc' \in [Reader -> {"none", "recv", "replying", "failed", "stopped"}]
    BY <1>11, Zenon DEF HandlerRaises, TypeOK
  <2>2. canceled' \subseteq Reader
    BY <1>11 DEF HandlerRaises, TypeOK
  <2> QED
    BY <1>11, <2>1, <2>2, Zenon DEF HandlerRaises, TypeOK
<1>9. ASSUME NEW r \in Reader, Stop(r) PROVE TypeOK'
  <2>1. gid(r) \in Peer
    BY <1>9, PeerOfReader DEF Stop
  <2>2. pc' \in [Reader -> {"none", "recv", "replying", "failed", "stopped"}]
    BY <1>9 DEF Stop, TypeOK
  <2>3. /\ active_peers' \in [Db -> SUBSET Peer]
        /\ active_connections' \in [Db -> [Peer -> Seq(Conn)]]
    BY <1>9, <2>1, TypeDeactivate, Zenon DEF Stop
  <2>4. Remove(p2p_readers[gid(r)]) \in Seq(Reader)
    BY <2>1, RemoveType DEF TypeOK
  <2>5. p2p_readers' \in [Peer -> Seq(Reader)]
    BY <1>9, <2>1, <2>4, Zenon DEF Stop, TypeOK
  <2> QED
    BY <1>9, <2>2, <2>3, <2>5, Zenon DEF Stop, TypeOK
<1>10. CASE UNCHANGED vars
  BY <1>10, Zenon DEF vars, TypeOK
<1> QED
  BY <1>1, <1>2, <1>3, <1>4, <1>5, <1>6, <1>7, <1>8, <1>9, <1>10, <1>11, Zenon DEF Next

(***************************************************************************)
(* Connections and what the readers know.                                  *)
(***************************************************************************)
\* Every step keeps connections, peers and readers consistent.
LEMMA WiredNext ==
    ASSUME TypeOK, Wired, OneUp, Started, [Next]_vars
    PROVE  Wired' /\ OneUp' /\ Started'
<1>0. hooks \in Nat
  BY DEF TypeOK
<1>1. ASSUME NEW ch \in Chain, Activate(ch) PROVE Wired' /\ OneUp' /\ Started'
  <2>1. /\ UNCHANGED <<link, peerOf, peer_active_chains>> /\ hooks' = hooks + 1
        /\ active_chains' \subseteq active_chains \cup {hooks + 1}
    BY <1>1, Zenon DEF Activate
  <2>2. Wired' /\ OneUp'
    BY <2>1, Zenon DEF Wired, OneUp
  <2>3. 1 .. hooks \subseteq 1 .. hooks' /\ hooks + 1 \in 1 .. hooks'
    BY <1>0, <2>1
  <2>4. ASSUME NEW r \in Reader
        PROVE  /\ pc'[r] # "none" => link'[conn(r)] # "new" /\ r[2] <= hooks'
               /\ pc'[r] = "none" => peer_active_chains'[r] = {}
               /\ peer_active_chains'[r] \subseteq 1 .. hooks'
    <3>1. r[2] \in Nat
      BY ReaderParts DEF Db
    <3>2. pc'[r] = IF r[2] = hooks + 1 /\ link[conn(r)] = "up" THEN "recv" ELSE pc[r]
      BY <1>1 DEF Activate
    <3> QED
      BY <1>0, <2>1, <2>3, <3>1, <3>2 DEF Started
  <2>5. active_chains' \subseteq 1 .. hooks'
    BY <2>1, <2>3 DEF Started
  <2> QED
    BY <2>2, <2>4, <2>5, Zenon DEF Started
<1>2. ASSUME NEW c \in Conn, NEW q \in Peer, NewConnection(c, q)
      PROVE  Wired' /\ OneUp' /\ Started'
  <2>1. /\ link[c] = "new" /\ \A b \in Conn : link[b] = "up" => q \notin peerOf[b]
        /\ UNCHANGED <<hooks, peer_active_chains, active_chains>>
        /\ link'[c] = "up" /\ peerOf'[c] = {q}
        /\ \A b \in Conn : b # c => link'[b] = link[b] /\ peerOf'[b] = peerOf[b]
    BY <1>2 DEF NewConnection, TypeOK
  <2>2. Wired'
    BY <2>1 DEF Wired
  <2>3. OneUp'
    BY <2>1 DEF OneUp
  <2>4. ASSUME NEW r \in Reader
        PROVE  /\ pc'[r] # "none" => link'[conn(r)] # "new" /\ r[2] <= hooks'
               /\ pc'[r] = "none" => peer_active_chains'[r] = {}
               /\ peer_active_chains'[r] \subseteq 1 .. hooks'
    <3>1. conn(r) \in Conn
      BY ReaderParts
    <3>2. pc'[r] = IF conn(r) = c /\ r[2] <= hooks THEN "recv" ELSE pc[r]
      BY <1>2 DEF NewConnection
    <3> QED
      BY <2>1, <3>1, <3>2, Zenon DEF Started
  <2> QED
    BY <2>1, <2>2, <2>3, <2>4, Zenon DEF Started
<1>3. ASSUME NEW c \in Conn, Disconnect(c) PROVE Wired' /\ OneUp' /\ Started'
  <2>1. /\ link[c] = "up" /\ link'[c] = "down"
        /\ UNCHANGED <<hooks, peerOf, pc, peer_active_chains, active_chains>>
        /\ \A b \in Conn : b # c => link'[b] = link[b]
    BY <1>3 DEF Disconnect, TypeOK
  <2>2. Wired'
    BY <2>1 DEF Wired
  <2>3. OneUp'
    BY <2>1 DEF OneUp
  <2>4. \A r \in Reader : link[conn(r)] # "new" => link'[conn(r)] # "new"
    BY <2>1, ReaderParts
  <2>5. Started'
    BY <2>1, <2>4, Zenon DEF Started
  <2> QED
    BY <2>2, <2>3, <2>5
<1>4. ASSUME UNCHANGED <<hooks, link, peerOf>>, active_chains' \subseteq active_chains,
             \A r \in Reader : /\ pc'[r] = "none" <=> pc[r] = "none"
                               /\ pc[r] = "none" => peer_active_chains'[r] = {}
                               /\ peer_active_chains'[r] \subseteq 1 .. hooks
      PROVE  Wired' /\ OneUp' /\ Started'
  <2>1. Wired' /\ OneUp'
    BY <1>4, Zenon DEF Wired, OneUp
  <2>2. Started'
    BY <1>4, Zenon DEF Started
  <2> QED
    BY <2>1, <2>2
<1>5. ASSUME UNCHANGED <<hooks, link, peerOf, pc, peer_active_chains>>,
             active_chains' \subseteq active_chains
      PROVE  Wired' /\ OneUp' /\ Started'
  BY <1>4, <1>5, Zenon DEF Started
<1>6. CASE \/ \E d \in Db : Deactivate(d)
           \/ Shutdown
           \/ UNCHANGED vars
  BY <1>5, <1>6 DEF Deactivate, Shutdown, vars
<1>7. ASSUME NEW r \in Reader, pc[r] # "none", NEW p, p # "none",
             pc' = [pc EXCEPT ![r] = p], UNCHANGED <<hooks, link, peerOf, active_chains>>,
             NEW ks \in SUBSET (1 .. hooks),
             peer_active_chains' = [peer_active_chains EXCEPT ![r] = ks]
      PROVE  Wired' /\ OneUp' /\ Started'
  <2>1. \A s \in Reader : /\ pc'[s] = "none" <=> pc[s] = "none"
                          /\ pc[s] = "none" => peer_active_chains'[s] = {}
                          /\ peer_active_chains'[s] \subseteq 1 .. hooks
    BY Zenon, <1>7 DEF Started, TypeOK
  <2> QED
    BY <1>4, <1>7, <2>1
<1>8. ASSUME NEW r \in Reader
      PROVE  /\ peer_active_chains[r] \in SUBSET (1 .. hooks)
             /\ UNCHANGED peer_active_chains =>
                  peer_active_chains' = [peer_active_chains EXCEPT ![r] = peer_active_chains[r]]
             /\ UNCHANGED pc => pc' = [pc EXCEPT ![r] = pc[r]]
  BY DEF Started, TypeOK
<1>9. ASSUME NEW r \in Reader, NEW ch \in Chain, HandleCurrentBranch(r, ch)
      PROVE  Wired' /\ OneUp' /\ Started'
  <2>1. PICK ks \in SUBSET (1 .. hooks) :
             peer_active_chains' = [peer_active_chains EXCEPT ![r] = ks]
    <3>1. CASE UNCHANGED peer_active_chains
      BY <1>8, <3>1
    <3>2. ASSUME NEW d \in active_chains,
                 peer_active_chains' = [peer_active_chains EXCEPT ![r] = @ \cup {d}]
          PROVE  \E ks \in SUBSET (1 .. hooks) :
                    peer_active_chains' = [peer_active_chains EXCEPT ![r] = ks]
      <4>1. peer_active_chains[r] \cup {d} \in SUBSET (1 .. hooks)
        BY <1>8 DEF Started
      <4> QED
        BY Zenon, <3>2, <4>1
    <3> QED
      BY <1>9, <3>1, <3>2, Zenon DEF HandleCurrentBranch, Find
  <2> QED
    BY Zenon, <1>7, <1>9, <2>1 DEF HandleCurrentBranch, Received
<1>10. ASSUME NEW r \in Reader, NEW ch \in Chain, HandleDeactivate(r, ch)
      PROVE  Wired' /\ OneUp' /\ Started'
  <2>1. peer_active_chains[r] \ Find(peer_active_chains[r], ch) \in SUBSET (1 .. hooks)
    BY <1>8
  <2> QED
    BY Zenon, <1>7, <1>8, <1>10, <2>1 DEF HandleDeactivate, Received
<1>11. ASSUME NEW r \in Reader, HandleOther(r) \/ Replied(r) \/ HandlerRaises(r) \/ Stop(r)
      PROVE  Wired' /\ OneUp' /\ Started'
  BY <1>7, <1>8, <1>11 DEF HandleOther, Received, Replied, HandlerRaises, Stop
<1> QED
  BY <1>1, <1>2, <1>3, <1>6, <1>9, <1>10, <1>11, Zenon DEF Next

(***************************************************************************)
(* The tables.                                                             *)
(***************************************************************************)
Counts == EnlistedFinite /\ ReadersCounted /\ BindingsCounted /\ RetiredStaysEmpty

\* BindingsCounted in terms of Knowing, before and after a step.
LEMMA BindingsCountedKnowing ==
    BindingsCounted <=> \A d \in active_chains, q \in Peer :
                        /\ Len(active_connections[d][q]) = Cardinality(Knowing(d, q))
                        /\ q \in active_peers[d] => Knowing(d, q) # {}
BY Zenon DEF BindingsCounted, Knowing

\* The same, after the step.
LEMMA BindingsCountedKnowingNext ==
    BindingsCounted' <=> \A d \in active_chains', q \in Peer :
                        /\ Len(active_connections'[d][q]) = Cardinality(Knowing(d, q)')
                        /\ q \in active_peers'[d] => Knowing(d, q)' # {}
BY Zenon DEF BindingsCounted, Knowing

\* The steps that neither start nor end a reader and leave the tables alone.
LEMMA CountsUnchanged ==
    ASSUME Counts, UNCHANGED <<p2p_readers, active_peers, active_connections, active_chains>>,
           \A q \in Peer : Enlisted(q)' = Enlisted(q),
           \A d \in active_chains, q \in Peer : Knowing(d, q)' = Knowing(d, q)
    PROVE  Counts'
<1>1. EnlistedFinite' /\ ReadersCounted' /\ RetiredStaysEmpty'
  BY Zenon DEF Counts, EnlistedFinite, ReadersCounted, RetiredStaysEmpty
<1>2. BindingsCounted'
  BY BindingsCountedKnowing, BindingsCountedKnowingNext, ZenonT(60) DEF Counts
<1> QED
  BY <1>1, <1>2 DEF Counts

\* A reader that goes from one message to the next, or fails, stays enlisted.
LEMMA EnlistedStep ==
    ASSUME TypeOK, NEW r \in Reader, pc[r] \in {"recv", "replying"},
           NEW p \in {"recv", "replying", "failed"}, pc' = [pc EXCEPT ![r] = p], UNCHANGED peerOf
    PROVE  \A q \in Peer : Enlisted(q)' = Enlisted(q)
BY DEF TypeOK, Enlisted

\* Distributed_db.activate: the new readers know nothing yet, and nobody knows
\* the new chain_db.
LEMMA CountsActivate ==
    ASSUME TypeOK, Wired, OneUp, Started, Counts, NEW ch \in Chain, Activate(ch)
    PROVE  Counts'
<1> DEFINE k == hooks + 1
<1>0. /\ hooks \in Nat /\ k \in Db /\ k \notin 1 .. hooks
      /\ UNCHANGED <<link, peerOf, peer_active_chains, active_peers, active_connections>>
  BY MaxAssumption DEF Activate, TypeOK, Db
<1>1. \A r \in Reader : r[2] = k => pc[r] = "none" /\ peer_active_chains[r] = {}
  BY <1>0, ReaderParts DEF Started
<1>2. ASSUME NEW q \in Peer
      PROVE  /\ IsFiniteSet(Enlisted(q)')
             /\ Len(p2p_readers'[q]) = Cardinality(Enlisted(q)')
             /\ \A d \in Db : Knowing(d, q)' = Knowing(d, q)
  <2> DEFINE cs == {c \in Conn : link[c] = "up" /\ q \in peerOf[c]}
  <2>0. /\ IsFiniteSet(Enlisted(q)) /\ Len(p2p_readers[q]) = Cardinality(Enlisted(q))
        /\ Cardinality(Enlisted(q)) \in Nat
    BY FS_CardinalityType DEF Counts, EnlistedFinite, ReadersCounted
  <2>1. \A r \in Reader : r \in Enlisted(q)' <=> r \in Enlisted(q) \/ (r[2] = k /\ conn(r) \in cs)
    <3> SUFFICES ASSUME NEW r \in Reader
                 PROVE  r \in Enlisted(q)' <=> r \in Enlisted(q) \/ (r[2] = k /\ conn(r) \in cs)
      OBVIOUS
    <3>1. pc'[r] = IF r[2] = k /\ link[conn(r)] = "up" THEN "recv" ELSE pc[r]
      BY DEF Activate
    <3>2. conn(r) \in Conn /\ peerOf' = peerOf
      BY <1>0, ReaderParts
    <3> QED
      BY <1>1, <3>1, <3>2 DEF Enlisted
  <2>2. Enlisted(q)' \subseteq Reader /\ Enlisted(q) \subseteq Reader
    BY DEF Enlisted
  <2>3. \A d \in Db : Knowing(d, q)' = Knowing(d, q)
    BY <1>0, <1>1, <2>1, <2>2 DEF Knowing
  <2>4. CASE cs = {}
    <3>1. Enlisted(q)' = Enlisted(q)
      BY <2>1, <2>2, <2>4
    <3>2. p2p_readers'[q] = p2p_readers[q]
      BY <2>4 DEF Activate
    <3> QED
      BY <2>0, <2>3, <3>1, <3>2, SMTT(30)
  <2>5. CASE cs # {}
    <3> DEFINE c == CHOOSE c \in cs : TRUE
    <3>1. c \in cs
      BY <2>5
    <3>2. p2p_readers'[q] = Push(p2p_readers[q], <<<<c, k>>>>)
      BY <2>5 DEF Activate
    <3> HIDE DEF c
    <3>3. cs = {c}
      <4>1. ASSUME NEW b \in cs PROVE b = c
        <5>1. PICK p1 \in Peer : peerOf[b] = {p1}
          BY <4>1 DEF Wired
        <5>2. PICK p2 \in Peer : peerOf[c] = {p2}
          BY <3>1 DEF Wired
        <5>3. peerOf[b] = peerOf[c]
          BY <3>1, <4>1, <5>1, <5>2
        <5> QED
          BY <3>1, <4>1, <5>3 DEF OneUp
      <4> QED
        BY <3>1, <4>1
    <3>4. c \in Conn /\ <<c, k>> \in Reader /\ <<c, k>>[2] = k
      BY <1>0, <3>1, ReaderParts
    <3>5. <<c, k>> \notin Enlisted(q)
      BY <1>1, <3>4 DEF Enlisted
    <3>6. Enlisted(q)' = Enlisted(q) \cup {<<c, k>>}
      <4>1. \A r \in Reader : r[2] = k /\ conn(r) \in cs <=> r = <<c, k>>
        BY <3>3, <3>4, ReaderParts
      <4> QED
        BY <2>1, <2>2, <3>4, <4>1
    <3>7. Len(p2p_readers'[q]) = Len(p2p_readers[q]) + 1
      <4>1. <<<<c, k>>>> \in Seq(Reader) /\ Len(<<<<c, k>>>>) = 1
        BY <3>4
      <4> QED
        BY <3>2, <4>1, ConcatProperties DEF Push, TypeOK
    <3>8. /\ IsFiniteSet(Enlisted(q) \cup {<<c, k>>})
          /\ Cardinality(Enlisted(q) \cup {<<c, k>>}) = Cardinality(Enlisted(q)) + 1
      BY <2>0, <3>5, FS_AddElement, Zenon
    <3> QED
      BY <2>0, <2>3, <3>6, <3>7, <3>8, Zenon
  <2> QED
    BY <2>4, <2>5
<1>3. EnlistedFinite' /\ ReadersCounted'
  BY <1>2 DEF EnlistedFinite, ReadersCounted
<1>4. active_chains' \in {active_chains, active_chains \cup {k}}
  BY Zenon DEF Activate
<1>5. k \notin active_chains /\ active_chains \subseteq Db
  BY <1>0 DEF Started, TypeOK
<1>6. active_peers[k] = {} /\ \A q \in Peer : active_connections[k][q] = <<>>
  BY <1>0, <1>5 DEF Counts, RetiredStaysEmpty
<1>7. \A q \in Peer : Knowing(k, q) = {}
  BY <1>0 DEF Knowing, Enlisted, Started
<1>8. BindingsCounted'
  <2>1. ASSUME NEW d \in active_chains', NEW q \in Peer
        PROVE  /\ Len(active_connections'[d][q]) = Cardinality(Knowing(d, q)')
               /\ q \in active_peers'[d] => Knowing(d, q)' # {}
    <3>1. CASE d \in active_chains
      BY <1>0, <1>2, <1>5, <3>1, BindingsCountedKnowing, SMTT(30) DEF Counts
    <3>2. CASE d = k
      <4>1. Len(<<>>) = 0 /\ Cardinality({}) = 0
        BY FS_EmptySet
      <4> QED
        BY Zenon, <1>0, <1>2, <1>6, <1>7, <3>2, <4>1
    <3> QED
      BY <1>4, <3>1, <3>2
  <2> QED
    BY <2>1, BindingsCountedKnowingNext, Zenon
<1>9. RetiredStaysEmpty'
  BY <1>0, <1>4 DEF Counts, RetiredStaysEmpty
<1> QED
  BY <1>3, <1>8, <1>9 DEF Counts

\* Distributed_db.deactivate: the peers for which the chain is active have a
\* connection in the table, so that the fold visits them all.
LEMMA CountsDeactivate ==
    ASSUME TypeOK, Counts, NEW d \in Db, Deactivate(d)
    PROVE  Counts'
<1>1. /\ d \in active_chains /\ active_chains' = active_chains \ {d}
      /\ UNCHANGED <<peerOf, pc, peer_active_chains, p2p_readers>>
      /\ active_peers'[d] = active_peers[d] \ {q \in Peer : active_connections[d][q] # <<>>}
      /\ active_connections'[d] = [q \in Peer |-> <<>>]
      /\ \A e \in Db : e # d => /\ active_peers'[e] = active_peers[e]
                                /\ active_connections'[e] = active_connections[e]
  BY DEF Deactivate, TypeOK
<1>2. \A q \in Peer : Enlisted(q)' = Enlisted(q) /\ \A e \in Db : Knowing(e, q)' = Knowing(e, q)
  BY <1>1, Zenon DEF Enlisted, Knowing
<1>3. EnlistedFinite' /\ ReadersCounted'
  BY <1>1, <1>2, Zenon DEF Counts, EnlistedFinite, ReadersCounted
<1>4. active_peers'[d] = {}
  <2>1. ASSUME NEW q \in active_peers[d] PROVE q \in Peer /\ active_connections[d][q] # <<>>
    <3>1. q \in Peer
      BY DEF TypeOK
    <3>2. Knowing(d, q) # {} /\ Len(active_connections[d][q]) = Cardinality(Knowing(d, q))
      BY <1>1, <3>1, BindingsCountedKnowing, SMTT(30) DEF Counts
    <3>3. Cardinality(Knowing(d, q)) # 0
      BY <3>1, <3>2, KnowingFinite, FS_EmptySet, SMTT(30) DEF Counts
    <3>4. Len(<<>>) = 0
      OBVIOUS
    <3> QED
      BY <3>1, <3>2, <3>3, <3>4, Zenon
  <2> QED
    BY <1>1, <2>1
<1>5. BindingsCounted'
  <2>1. active_chains \subseteq Db
    BY DEF TypeOK
  <2> QED
    BY <1>1, <1>2, <2>1, BindingsCountedKnowing, BindingsCountedKnowingNext, SMTT(30) DEF Counts
<1>6. RetiredStaysEmpty'
  <2>1. ASSUME NEW e \in Db \ active_chains'
        PROVE  active_peers'[e] = {} /\ \A q \in Peer : active_connections'[e][q] = <<>>
    BY <1>1, <1>4 DEF Counts, RetiredStaysEmpty
  <2> QED
    BY <2>1, Zenon DEF RetiredStaysEmpty
<1> QED
  BY <1>3, <1>5, <1>6 DEF Counts

\* The readers of connection c started by the callbacks there are.
LEMMA Crew ==
    ASSUME NEW c, NEW n \in Nat
    PROVE  /\ IsFiniteSet({<<c, k>> : k \in 1 .. n})
           /\ Cardinality({<<c, k>> : k \in 1 .. n}) = n
<1> DEFINE S == {<<c, k>> : k \in 1 .. n}
           f == [k \in 1 .. n |-> <<c, k>>]
<1>1. f \in Bijection(1 .. n, S)
  BY Zenon DEF Bijection, Injection, Surjection, IsInjective
<1>2. ExistsBijection(1 .. n, S)
  BY <1>1, Zenon DEF ExistsBijection
<1>3. IsFiniteSet(1 .. n) /\ Cardinality(1 .. n) = n
  BY FS_Interval
<1> QED
  BY <1>2, <1>3, FS_Bijection

\* A new connection.
LEMMA CountsNewConnection ==
    ASSUME TypeOK, Wired, Started, Counts, NEW c \in Conn, NEW q \in Peer, NewConnection(c, q)
    PROVE  Counts'
<1> DEFINE crew == {<<c, k>> : k \in 1 .. hooks}
           regs == [k \in 1 .. hooks |-> <<c, k>>]
<1>0. /\ hooks \in Nat /\ 1 .. hooks \subseteq Db
      /\ link[c] = "new" /\ peerOf' = [peerOf EXCEPT ![c] = {q}]
      /\ UNCHANGED <<peer_active_chains, active_chains, active_peers, active_connections>>
      /\ p2p_readers' = [p2p_readers EXCEPT ![q] = Push(@, regs)]
  BY MaxAssumption DEF NewConnection, TypeOK, Db
<1>1. crew \subseteq Reader /\ \A r \in Reader : r \in crew <=> conn(r) = c /\ r[2] <= hooks
  <2>1. crew \subseteq Reader
    BY <1>0, ReaderParts
  <2>2. \A r \in Reader : r[2] \in Nat /\ r[2] >= 1
    BY ReaderParts DEF Db
  <2>3. ASSUME NEW r \in Reader PROVE r \in crew <=> conn(r) = c /\ r[2] <= hooks
    <3>1. r = <<conn(r), r[2]>>
      BY ReaderParts
    <3>2. ASSUME r \in crew PROVE conn(r) = c /\ r[2] <= hooks
      <4>1. PICK k \in 1 .. hooks : r = <<c, k>>
        BY <3>2
      <4> QED
        BY <1>0, <4>1 DEF conn
    <3>3. ASSUME conn(r) = c, r[2] <= hooks PROVE r \in crew
      BY <1>0, <2>2, <3>1, <3>3
    <3> QED
      BY <3>2, <3>3
  <2> QED
    BY <2>1, <2>3
<1>2. \A r \in Reader : conn(r) = c => pc[r] = "none" /\ peer_active_chains[r] = {}
  BY <1>0 DEF Started
<1>3. ASSUME NEW p \in Peer
      PROVE  /\ Enlisted(p) \cap crew = {}
             /\ Enlisted(p)' = IF p = q THEN Enlisted(p) \cup crew ELSE Enlisted(p)
  <2>1. Enlisted(p) \subseteq Reader /\ Enlisted(p)' \subseteq Reader
    BY DEF Enlisted
  <2>2. ASSUME NEW r \in Reader
        PROVE  r \in Enlisted(p)' <=> r \in Enlisted(p) \/ (p = q /\ r \in crew)
    <3>1. pc'[r] = IF r \in crew THEN "recv" ELSE pc[r]
      BY <1>1 DEF NewConnection
    <3>2. conn(r) \in Conn
      BY ReaderParts
    <3>3. CASE conn(r) = c
      <4>1. peerOf'[conn(r)] = {q}
        BY <1>0, <3>3 DEF TypeOK
      <4> QED
        BY <1>2, <3>1, <3>3, <4>1, SMTT(30) DEF Enlisted
    <3>4. CASE conn(r) # c
      <4>1. peerOf'[conn(r)] = peerOf[conn(r)] /\ r \notin crew
        BY <1>0, <1>1, <3>2, <3>4, SMTT(30) DEF TypeOK
      <4> QED
        BY <3>1, <4>1, SMTT(30) DEF Enlisted
    <3> QED
      BY <3>3, <3>4
  <2>3. Enlisted(p) \cap crew = {}
    BY <1>1, <1>2 DEF Enlisted
  <2> QED
    BY <1>1, <2>1, <2>2, <2>3
<1>4. IsFiniteSet(crew) /\ Cardinality(crew) = hooks
  BY Zenon, <1>0, Crew
<1>5. regs \in Seq(Reader) /\ Len(regs) = hooks
  BY <1>0, ReaderParts
<1> HIDE DEF crew, regs
<1>6. ASSUME NEW p \in Peer
      PROVE  /\ IsFiniteSet(Enlisted(p)')
             /\ Len(p2p_readers'[p]) = Cardinality(Enlisted(p)')
  <2>0. /\ IsFiniteSet(Enlisted(p)) /\ Len(p2p_readers[p]) = Cardinality(Enlisted(p))
        /\ Cardinality(Enlisted(p)) \in Nat
    BY FS_CardinalityType DEF Counts, EnlistedFinite, ReadersCounted
  <2>1. CASE p # q
    <3>1. p2p_readers'[p] = p2p_readers[p] /\ Enlisted(p)' = Enlisted(p)
      BY <1>0, <1>3, <2>1, SMTT(30) DEF TypeOK
    <3> QED
      BY <2>0, <3>1
  <2>2. CASE p = q
    <3>1. /\ IsFiniteSet(Enlisted(p) \cup crew)
          /\ Cardinality(Enlisted(p) \cup crew) =
                Cardinality(Enlisted(p)) + Cardinality(crew) - Cardinality(Enlisted(p) \cap crew)
      BY <1>4, <2>0, FS_Union, Zenon
    <3>2. Cardinality(Enlisted(p) \cap crew) = 0
      BY <1>3, FS_EmptySet, Zenon
    <3>3. Cardinality(Enlisted(p) \cup crew) = Cardinality(Enlisted(p)) + hooks
      BY <1>0, <1>4, <2>0, <3>1, <3>2, SMTT(30)
    <3>4. p2p_readers'[p] = regs \o p2p_readers[p] /\ p2p_readers[p] \in Seq(Reader)
      BY <1>0, <2>2 DEF TypeOK, Push
    <3>5. Len(p2p_readers'[p]) = hooks + Len(p2p_readers[p])
      BY Zenon, <1>5, <3>4, ConcatProperties
    <3>6. Enlisted(p)' = Enlisted(p) \cup crew
      BY <1>3, <2>2
    <3> QED
      BY <1>0, <2>0, <3>1, <3>3, <3>5, <3>6, SMTT(30)
  <2> QED
    BY <2>1, <2>2
<1>7. EnlistedFinite' /\ ReadersCounted'
  BY <1>6 DEF EnlistedFinite, ReadersCounted
<1>8. \A d \in Db, p \in Peer : Knowing(d, p)' = Knowing(d, p)
  BY <1>0, <1>1, <1>2, <1>3, SMTT(30) DEF Knowing
<1>9. BindingsCounted' /\ RetiredStaysEmpty'
  <2>1. active_chains \subseteq Db
    BY DEF TypeOK
  <2> QED
    BY <1>0, <1>8, <2>1, BindingsCountedKnowing, BindingsCountedKnowingNext, SMTT(30) DEF Counts, RetiredStaysEmpty
<1> QED
  BY <1>7, <1>9 DEF Counts

\* A reader learns that a chain is active for its peer.
LEMMA CountsLearn ==
    ASSUME TypeOK, TypeOK', Wired, Started, Counts, NEW r \in Reader, NEW ch \in Chain,
           HandleCurrentBranch(r, ch)
    PROVE  Counts'
<1>0. /\ pc[r] = "recv" /\ pc' = [pc EXCEPT ![r] = "replying"]
      /\ UNCHANGED <<peerOf, p2p_readers, active_chains>>
  BY DEF HandleCurrentBranch, Received
<1>1. \A q \in Peer : Enlisted(q)' = Enlisted(q)
  BY Zenon, <1>0, EnlistedStep
<1>2. CASE UNCHANGED <<active_peers, active_connections, peer_active_chains>>
  <2>1. \A d \in active_chains, q \in Peer : Knowing(d, q)' = Knowing(d, q)
    BY <1>1, <1>2, Zenon DEF Knowing
  <2> QED
    BY <1>0, <1>1, <1>2, <2>1, CountsUnchanged
<1>3. ASSUME NEW d \in active_chains, d \notin peer_active_chains[r],
             /\ active_peers' = [active_peers EXCEPT ![d] = @ \cup {gid(r)}]
             /\ active_connections' = [active_connections EXCEPT
                    ![d][gid(r)] = Push(@, <<conn(r)>>)]
             /\ peer_active_chains' = [peer_active_chains EXCEPT ![r] = @ \cup {d}]
      PROVE  Counts'
  <2> DEFINE g == gid(r)
  <2>1. /\ d \in Db /\ g \in Peer /\ conn(r) \in Conn
        /\ \A q \in Peer : r \in Enlisted(q) <=> q = g
    BY <1>0, PeerOfReader, ReaderParts, EnlistedOfReader, SMTT(30) DEF TypeOK
  <2> HIDE DEF g
  <2>2. ASSUME NEW e \in Db, NEW q \in Peer
        PROVE  Knowing(e, q)' = IF e = d /\ q = g THEN Knowing(e, q) \cup {r}
                                                 ELSE Knowing(e, q)
    <3>1. Enlisted(q) \subseteq Reader
      BY SMTT(30) DEF Enlisted
    <3>2. \A s \in Reader : e \in peer_active_chains'[s] <=>
             e \in peer_active_chains[s] \/ (s = r /\ e = d)
      BY <1>3, SMTT(30) DEF TypeOK
    <3> QED
      BY <1>1, <2>1, <3>1, <3>2, SMTT(30) DEF Knowing
  <2>3. ASSUME NEW e \in Db, NEW q \in Peer
        PROVE  /\ active_connections'[e][q] = IF e = d /\ q = g
                                              THEN <<conn(r)>> \o active_connections[e][q]
                                              ELSE active_connections[e][q]
               /\ q \in active_peers'[e] <=> q \in active_peers[e] \/ (e = d /\ q = g)
    BY <1>3, <2>1, SMTT(30) DEF TypeOK, Push, g
  <2>4. ASSUME NEW e \in active_chains', NEW q \in Peer
        PROVE  /\ Len(active_connections'[e][q]) = Cardinality(Knowing(e, q)')
               /\ q \in active_peers'[e] => Knowing(e, q)' # {}
    <3>0. e \in Db /\ e \in active_chains
      BY <1>0 DEF TypeOK
    <3>1. /\ Len(active_connections[e][q]) = Cardinality(Knowing(e, q))
          /\ q \in active_peers[e] => Knowing(e, q) # {}
          /\ active_connections[e][q] \in Seq(Conn)
      BY <3>0, BindingsCountedKnowing, SMTT(30) DEF Counts, TypeOK
    <3>2. CASE e = d /\ q = g
      <4>1. Len(active_connections'[e][q]) = Len(active_connections[e][q]) + 1
        <5>1. <<conn(r)>> \in Seq(Conn) /\ Len(<<conn(r)>>) = 1
          BY <2>1
        <5>2. active_connections'[e][q] = <<conn(r)>> \o active_connections[e][q]
          BY Zenon, <2>3, <3>0, <3>2
        <5>3. Len(active_connections'[e][q]) = 1 + Len(active_connections[e][q])
          BY <3>1, <5>1, <5>2, ConcatProperties, SMTT(30)
        <5> QED
          BY <3>1, <5>3, LenProperties
      <4>2. r \notin Knowing(e, q) /\ IsFiniteSet(Knowing(e, q))
        BY Zenon, <1>3, <3>2, KnowingFinite DEF Knowing, Counts
      <4>3. Cardinality(Knowing(e, q) \cup {r}) = Cardinality(Knowing(e, q)) + 1
        BY <4>2, FS_AddElement, Zenon
      <4>4. Knowing(e, q)' = Knowing(e, q) \cup {r}
        BY <2>2, <3>0, <3>2
      <4> QED
        BY <3>1, <4>1, <4>3, <4>4, Zenon
    <3>3. CASE ~(e = d /\ q = g)
      BY <2>2, <2>3, <3>0, <3>1, <3>3, Zenon
    <3> QED
      BY <3>2, <3>3, SMTT(30)
  <2>5. BindingsCounted'
    BY <2>4, BindingsCountedKnowingNext, Zenon
  <2>6. RetiredStaysEmpty'
    <3>1. ASSUME NEW e \in Db \ active_chains'
          PROVE  active_peers'[e] = {} /\ \A q \in Peer : active_connections'[e][q] = <<>>
      <4>1. e \in Db \ active_chains /\ e # d
        BY <1>0, <3>1
      <4>2. active_peers[e] = {} /\ \A q \in Peer : active_connections[e][q] = <<>>
        BY <4>1, ZenonT(60) DEF Counts, RetiredStaysEmpty
      <4>3. active_peers'[e] \subseteq Peer
        BY DEF TypeOK
      <4> QED
        BY <2>3, <4>1, <4>2, <4>3, ZenonT(60)
    <3> QED
      BY <3>1, Zenon DEF RetiredStaysEmpty
  <2>7. EnlistedFinite' /\ ReadersCounted'
    BY <1>0, <1>1, Zenon DEF Counts, EnlistedFinite, ReadersCounted
  <2> QED
    BY <2>5, <2>6, <2>7 DEF Counts
<1>4. \A d \in Find(active_chains, ch) :
         Find(peer_active_chains[r], ch) = {} => d \in active_chains /\ d \notin peer_active_chains[r]
  BY SMTT(30) DEF Find
<1> QED
  BY <1>2, <1>3, <1>4, Zenon DEF HandleCurrentBranch

\* A reader r of peer g forgets the chains ds, either on a Deactivate message
\* or because it ends: P2p_reader.deactivate takes out of the tables what r
\* put there, and no more.
LEMMA Forgets ==
    ASSUME TypeOK, Counts, NEW r, NEW g \in Peer, NEW ds \in SUBSET Db,
           deactivate(g, ds), UNCHANGED active_chains,
           \A e \in ds : r \in Knowing(e, g),
           \A e \in Db, q \in Peer :
              Knowing(e, q)' = IF e \in ds /\ q = g THEN Knowing(e, q) \ {r}
                                                   ELSE Knowing(e, q)
    PROVE  BindingsCounted' /\ RetiredStaysEmpty'
<1>1. ASSUME NEW e \in Db, NEW q \in Peer
      PROVE  /\ active_connections[e][q] \in Seq(Conn)
             /\ active_connections'[e][q] = IF e \in ds /\ q = g
                                            THEN Remove(active_connections[e][q])
                                            ELSE active_connections[e][q]
             /\ active_peers'[e] = IF e \in ds THEN active_peers[e] \ {g}
                                               ELSE active_peers[e]
  BY DEF TypeOK, deactivate
<1>2. ASSUME NEW e \in active_chains', NEW q \in Peer
      PROVE  /\ Len(active_connections'[e][q]) = Cardinality(Knowing(e, q)')
             /\ q \in active_peers'[e] => Knowing(e, q)' # {}
  <2>0. e \in Db /\ e \in active_chains
    BY DEF TypeOK
  <2>1. /\ Len(active_connections[e][q]) = Cardinality(Knowing(e, q))
        /\ q \in active_peers[e] => Knowing(e, q) # {}
    BY <2>0, BindingsCountedKnowing, ZenonT(60) DEF Counts
  <2>2. CASE e \in ds /\ q = g
    <3>1. r \in Knowing(e, q) /\ IsFiniteSet(Knowing(e, q)) /\ Cardinality(Knowing(e, q)) \in Nat
      BY <2>2, KnowingFinite DEF Counts
    <3>2. Cardinality(Knowing(e, q) \ {r}) = Cardinality(Knowing(e, q)) - 1
      BY <3>1, FS_RemoveElement, Zenon
    <3>3. Cardinality(Knowing(e, q)) # 0
      BY <3>1, FS_EmptySet
    <3>4. Len(Remove(active_connections[e][q])) = Len(active_connections[e][q]) - 1
      BY Zenon, <1>1, <2>0, <2>1, <3>3, RemoveType
    <3>5. q \notin active_peers'[e]
      BY Zenon, <1>1, <2>0, <2>2
    <3> QED
      BY <1>1, <2>0, <2>1, <2>2, <3>2, <3>4, <3>5, Zenon
  <2>3. CASE ~(e \in ds /\ q = g)
    <3>1. q \in active_peers'[e] => q \in active_peers[e]
      BY Zenon, <1>1, <2>0
    <3> QED
      BY <1>1, <2>0, <2>1, <2>3, <3>1, Zenon
  <2> QED
    BY <2>2, <2>3, ZenonT(60)
<1>3. BindingsCounted'
  BY <1>2, BindingsCountedKnowingNext, Zenon
<1>4. ASSUME NEW e \in Db \ active_chains'
      PROVE  active_peers'[e] = {} /\ \A q \in Peer : active_connections'[e][q] = <<>>
  <2>1. active_peers[e] = {} /\ \A q \in Peer : active_connections[e][q] = <<>>
    BY <1>4, SMTT(30) DEF Counts, RetiredStaysEmpty
  <2> QED
    BY Zenon, <1>1, <2>1 DEF Remove
<1>5. RetiredStaysEmpty'
  BY <1>4, Zenon DEF RetiredStaysEmpty
<1> QED
  BY <1>3, <1>5

\* A Deactivate message.
LEMMA CountsHandleDeactivate ==
    ASSUME TypeOK, Wired, Started, Counts, NEW r \in Reader, NEW ch \in Chain,
           HandleDeactivate(r, ch)
    PROVE  Counts'
<1> DEFINE ds == Find(peer_active_chains[r], ch)
           g == gid(r)
<1>0. /\ pc[r] = "recv" /\ UNCHANGED <<pc, peerOf, p2p_readers, active_chains>>
      /\ deactivate(g, ds)
      /\ peer_active_chains' = [peer_active_chains EXCEPT ![r] = @ \ ds]
  BY DEF HandleDeactivate, Received
<1>1. /\ ds \subseteq peer_active_chains[r] /\ ds \in SUBSET Db /\ g \in Peer
      /\ \A q \in Peer : r \in Enlisted(q) <=> q = g
  <2>1. ds \subseteq peer_active_chains[r] /\ peer_active_chains[r] \subseteq Db
    BY DEF Find, TypeOK
  <2> QED
    BY <1>0, <2>1, PeerOfReader, EnlistedOfReader, SMTT(30)
<1> HIDE DEF ds, g
<1>2. \A q \in Peer : Enlisted(q)' = Enlisted(q)
  BY <1>0, Zenon DEF Enlisted
<1>3. ASSUME NEW e \in Db, NEW q \in Peer
      PROVE  Knowing(e, q)' = IF e \in ds /\ q = g THEN Knowing(e, q) \ {r}
                                                   ELSE Knowing(e, q)
  <2>1. Enlisted(q) \subseteq Reader
    BY SMTT(30) DEF Enlisted
  <2>2. \A s \in Reader : e \in peer_active_chains'[s] <=>
           e \in peer_active_chains[s] /\ ~(s = r /\ e \in ds)
    BY <1>0 DEF TypeOK
  <2> QED
    BY <1>1, <1>2, <2>1, <2>2, SMTT(30) DEF Knowing
<1>4. \A e \in ds : r \in Knowing(e, g)
  BY <1>1, SMTT(30) DEF Knowing
<1>5. BindingsCounted' /\ RetiredStaysEmpty'
  BY <1>0, <1>1, <1>3, <1>4, Forgets, SMTT(30)
<1>6. EnlistedFinite' /\ ReadersCounted'
  BY <1>0, <1>2, Zenon DEF Counts, EnlistedFinite, ReadersCounted
<1> QED
  BY <1>5, <1>6 DEF Counts

\* The end of a reader.
LEMMA CountsStop ==
    ASSUME TypeOK, Wired, Started, Counts, NEW r \in Reader, Stop(r)
    PROVE  Counts'
<1> DEFINE ds == peer_active_chains[r]
           g == gid(r)
<1>0. /\ pc[r] = "recv" /\ UNCHANGED <<peerOf, peer_active_chains, active_chains>>
      /\ deactivate(g, ds) /\ pc' = [pc EXCEPT ![r] = "stopped"]
      /\ p2p_readers' = [p2p_readers EXCEPT ![g] = Remove(@)]
  BY DEF Stop
<1>1. /\ ds \in SUBSET Db /\ g \in Peer
      /\ \A q \in Peer : r \in Enlisted(q) <=> q = g
  <2>1. peer_active_chains[r] \subseteq Db
    BY DEF TypeOK
  <2> QED
    BY <1>0, <2>1, PeerOfReader, EnlistedOfReader, SMTT(30)
<1> HIDE DEF g
<1>2. ASSUME NEW q \in Peer
      PROVE  Enlisted(q)' = IF q = g THEN Enlisted(q) \ {r} ELSE Enlisted(q)
  <2>1. \A s \in Reader : s \in Enlisted(q)' <=> s \in Enlisted(q) /\ s # r
    BY <1>0 DEF TypeOK, Enlisted
  <2>2. Enlisted(q) \subseteq Reader /\ Enlisted(q)' \subseteq Reader
    BY DEF Enlisted
  <2> QED
    BY <1>1, <2>1, <2>2, SMTT(30)
<1>3. ASSUME NEW e \in Db, NEW q \in Peer
      PROVE  Knowing(e, q)' = IF e \in ds /\ q = g THEN Knowing(e, q) \ {r}
                                                   ELSE Knowing(e, q)
  BY <1>0, <1>2, SMTT(30) DEF Knowing
<1>4. \A e \in ds : r \in Knowing(e, g)
  BY <1>1 DEF Knowing
<1>5. BindingsCounted' /\ RetiredStaysEmpty'
  BY <1>0, <1>1, <1>3, <1>4, Forgets, SMTT(30)
<1>6. ASSUME NEW q \in Peer
      PROVE  IsFiniteSet(Enlisted(q)') /\ Len(p2p_readers'[q]) = Cardinality(Enlisted(q)')
  <2>0. /\ IsFiniteSet(Enlisted(q)) /\ Len(p2p_readers[q]) = Cardinality(Enlisted(q))
        /\ Cardinality(Enlisted(q)) \in Nat /\ p2p_readers[q] \in Seq(Reader)
    BY FS_CardinalityType DEF Counts, EnlistedFinite, ReadersCounted, TypeOK
  <2>1. CASE q # g
    <3>1. p2p_readers'[q] = p2p_readers[q] /\ Enlisted(q)' = Enlisted(q)
      BY <1>0, <1>2, <2>1, SMTT(30) DEF TypeOK
    <3> QED
      BY <2>0, <3>1, ZenonT(60)
  <2>2. CASE q = g
    <3>1. p2p_readers'[q] = Remove(p2p_readers[q]) /\ Enlisted(q)' = Enlisted(q) \ {r}
      BY <1>0, <1>2, <2>2, SMTT(30) DEF TypeOK
    <3>2. r \in Enlisted(q)
      BY <1>1, <2>2, SMTT(30)
    <3>3. /\ IsFiniteSet(Enlisted(q) \ {r})
          /\ Cardinality(Enlisted(q) \ {r}) = Cardinality(Enlisted(q)) - 1
      BY <2>0, <3>2, FS_RemoveElement, Zenon
    <3>4. Cardinality(Enlisted(q)) # 0
      BY <2>0, <3>2, FS_EmptySet
    <3>5. Len(Remove(p2p_readers[q])) = Len(p2p_readers[q]) - 1
      BY <2>0, <3>4, RemoveType
    <3> QED
      BY <2>0, <3>1, <3>3, <3>5, Zenon
  <2> QED
    BY <2>1, <2>2
<1>7. EnlistedFinite' /\ ReadersCounted'
  BY <1>6, Zenon DEF EnlistedFinite, ReadersCounted
<1> QED
  BY <1>5, <1>7 DEF Counts

\* Every step keeps the counts.
LEMMA CountsNext ==
    ASSUME TypeOK, TypeOK', Wired, OneUp, Started, Counts, [Next]_vars
    PROVE  Counts'
<1>0. active_chains \subseteq Db
  BY DEF TypeOK
<1>1. ASSUME UNCHANGED <<peerOf, pc, peer_active_chains, active_peers, active_connections,
                         p2p_readers, active_chains>>
      PROVE  Counts'
  <2>1. \A q \in Peer : Enlisted(q)' = Enlisted(q) /\ \A d \in Db : Knowing(d, q)' = Knowing(d, q)
    BY <1>1, Zenon DEF Enlisted, Knowing
  <2> QED
    BY <1>0, <1>1, <2>1, CountsUnchanged
<1>2. ASSUME NEW r \in Reader, HandleOther(r) \/ Replied(r) \/ HandlerRaises(r)
      PROVE  Counts'
  <2>1. /\ pc[r] \in {"recv", "replying"}
        /\ \E p \in {"recv", "replying", "failed"} : pc' = [pc EXCEPT ![r] = p]
        /\ UNCHANGED <<peerOf, peer_active_chains, active_peers, active_connections,
                       p2p_readers, active_chains>>
    BY <1>2 DEF HandleOther, Replied, HandlerRaises, Received
  <2>2. \A q \in Peer : Enlisted(q)' = Enlisted(q)
    BY <2>1, EnlistedStep
  <2>3. \A d \in active_chains, q \in Peer : Knowing(d, q)' = Knowing(d, q)
    BY <2>1, <2>2, Zenon DEF Knowing
  <2> QED
    BY <2>1, <2>2, <2>3, CountsUnchanged
<1>3. ASSUME NEW c \in Conn, Disconnect(c) PROVE Counts'
  BY <1>1, <1>3, Zenon DEF Disconnect
<1>4. ASSUME Shutdown PROVE Counts'
  BY <1>1, <1>4, Zenon DEF Shutdown
<1>5. ASSUME UNCHANGED vars PROVE Counts'
  BY <1>1, <1>5, Zenon DEF vars
<1>6. ASSUME NEW c \in Conn, NEW q \in Peer, NewConnection(c, q) PROVE Counts'
  BY <1>6, CountsNewConnection
<1>7. ASSUME NEW r \in Reader, NEW ch \in Chain, HandleCurrentBranch(r, ch) PROVE Counts'
  BY <1>7, CountsLearn
<1>8. ASSUME NEW r \in Reader, NEW ch \in Chain, HandleDeactivate(r, ch) PROVE Counts'
  BY <1>8, CountsHandleDeactivate
<1>9. ASSUME NEW r \in Reader, Stop(r) PROVE Counts'
  BY <1>9, CountsStop
<1>10. ASSUME NEW ch \in Chain, Activate(ch) PROVE Counts'
  BY <1>10, CountsActivate
<1>11. ASSUME NEW d \in Db, Deactivate(d) PROVE Counts'
  BY <1>11, CountsDeactivate
<1> QED
  BY <1>2, <1>3, <1>4, <1>5, <1>6, <1>7, <1>8, <1>9, <1>10, <1>11, Zenon DEF Next

\* Nothing is connected and no chain is active at first.
LEMMA InvInit == Init => Inv
<1> SUFFICES ASSUME Init PROVE Inv
  OBVIOUS
<1>0. \A c \in Conn : link[c] = "new" /\ peerOf[c] = {}
  BY DEF Init
<1>1. TypeOK
  <2>1. <<>> \in Seq(Conn) /\ <<>> \in Seq(Reader)
    OBVIOUS
  <2> QED
    BY <2>1, MaxAssumption DEF Init, TypeOK
<1>2. Wired /\ OneUp
  BY <1>0 DEF Wired, OneUp
<1>3. Started
  BY DEF Init, Started
<1>4. \A q \in Peer : Enlisted(q) = {}
  BY DEF Init, Enlisted
<1>5. IsFiniteSet({}) /\ Cardinality({}) = 0 /\ Len(<<>>) = 0
  BY FS_EmptySet
<1>6. EnlistedFinite /\ ReadersCounted
  BY Zenon, <1>4, <1>5 DEF Init, EnlistedFinite, ReadersCounted
<1>7. BindingsCounted /\ RetiredStaysEmpty
  BY DEF Init, BindingsCounted, RetiredStaysEmpty
<1> QED
  BY <1>1, <1>2, <1>3, <1>6, <1>7 DEF Inv

\* The invariant holds in every state.
LEMMA Invariance == Spec => []Inv
<1>1. Inv /\ [Next]_vars => Inv'
  <2> SUFFICES ASSUME Inv, [Next]_vars PROVE Inv'
    OBVIOUS
  <2>1. TypeOK'
    BY TypeNext DEF Inv
  <2>2. Wired' /\ OneUp' /\ Started'
    BY WiredNext DEF Inv
  <2>3. Counts'
    BY <2>1, CountsNext DEF Inv, Counts
  <2> QED
    BY <2>1, <2>2, <2>3 DEF Inv, Counts
<1> QED
  BY <1>1, InvInit, PTL DEF Spec

(***************************************************************************)
(* The theorems.                                                           *)
(***************************************************************************)
\* A peer has one registration in p2p_readers for each reader at work and one
\* for each that an exception of handle_msg ended, whatever connections it
\* opened and in whatever order their readers end: a worker_loop that returns
\* removes one binding, its own or another's, and one that fails removes none.
THEOREM ReadersAreCounted == Spec => []ReadersCounted
BY Invariance, PTL DEF Inv

\* The table of an active chain binds a peer once for each of its readers, at
\* work or failed, that took the chain for active, and a peer is asked for data
\* only if it has such a reader, although P2p_reader.deactivate removes the
\* latest binding and not necessarily the reader's own.
THEOREM BindingsAreCounted == Spec => []BindingsCounted
BY Invariance, PTL DEF Inv

\* Messages that come after Distributed_db.deactivate, and the ends of the
\* readers that still hold the chain_db, leave its tables empty.
THEOREM RetiredChainsStayEmpty == Spec => []RetiredStaysEmpty
BY Invariance, PTL DEF Inv

=============================================================================
