--------------------------- MODULE RequesterProofs ---------------------------
(***************************************************************************)
(* For every set of keys and peers, every finite set of fetches and every  *)
(* length of the event pipe: the state of the requester is well typed, its *)
(* counters are exact, and the scheduler asks only for what is waited for. *)
(***************************************************************************)
EXTENDS Requester, FiniteSetTheorems, TLAPS

USE DEF EventKind, PeerOpt, Returned

(***************************************************************************)
(* What a push and a pop do to the keys the scheduler will end up with.    *)
(***************************************************************************)
\* Pushing an event decides about its key and leaves the other keys alone.
LEMMA ScheduledAppend ==
    ASSUME NEW q \in Seq(Event), NEW e \in Event, NEW K, NEW k
    PROVE  /\ Concerns(e, k) =>
                 (ScheduledAfter(Append(q, e), K, k) <=> e.kind = "request")
           /\ ~Concerns(e, k) =>
                 (ScheduledAfter(Append(q, e), K, k) <=> ScheduledAfter(q, K, k))
<1> DEFINE r == Append(q, e)
<1>1. /\ Len(r) = Len(q) + 1
      /\ Len(q) \in Nat
      /\ r[Len(q) + 1] = e
      /\ \A i \in 1..Len(q) : r[i] = q[i]
  OBVIOUS
<1> HIDE DEF r
<1>2. CASE Concerns(e, k)
  <2>1. ScheduledAfter(r, K, k) => e.kind = "request"
    BY <1>1, <1>2 DEF ScheduledAfter
  <2>2. e.kind = "request" => ScheduledAfter(r, K, k)
    BY <1>1, <1>2 DEF ScheduledAfter
  <2> QED BY <2>1, <2>2, <1>2 DEF r
<1>3. CASE ~Concerns(e, k)
  <2>1. ASSUME ScheduledAfter(r, K, k) PROVE ScheduledAfter(q, K, k)
    BY <1>1, <1>3, <2>1 DEF ScheduledAfter
  <2>2. ASSUME ScheduledAfter(q, K, k) PROVE ScheduledAfter(r, K, k)
    BY <1>1, <1>3, <2>2 DEF ScheduledAfter
  <2> QED BY <2>1, <2>2, <1>3 DEF r
<1> QED BY <1>2, <1>3

\* Treating the first event moves what it decides from the pipe to the table.
LEMMA ScheduledTail ==
    ASSUME NEW q \in Seq(Event), q # <<>>, NEW K, NEW L, NEW k,
           Concerns(Head(q), k) => (k \in L <=> Head(q).kind = "request"),
           ~Concerns(Head(q), k) => (k \in L <=> k \in K),
           ScheduledAfter(Tail(q), L, k)
    PROVE  ScheduledAfter(q, K, k)
<1> DEFINE r == Tail(q)
<1>1. /\ Len(q) \in Nat /\ Len(q) > 0
      /\ Len(r) = Len(q) - 1
      /\ Head(q) = q[1]
      /\ \A i \in 1..Len(r) : r[i] = q[i + 1]
  OBVIOUS
<1>2. \A i \in 2..Len(q) : q[i] = r[i - 1] /\ i - 1 \in 1..Len(r)
  BY <1>1
<1> HIDE DEF r
<1>3. CASE \E i \in 1..Len(r) :
              /\ Concerns(r[i], k) /\ r[i].kind = "request"
              /\ \A j \in (i + 1)..Len(r) : ~Concerns(r[j], k)
  <2>1. PICK i \in 1..Len(r) :
              /\ Concerns(r[i], k) /\ r[i].kind = "request"
              /\ \A j \in (i + 1)..Len(r) : ~Concerns(r[j], k)
    BY <1>3
  <2>2. i + 1 \in 1..Len(q) /\ q[i + 1] = r[i]
    BY <1>1
  <2>3. \A j \in ((i + 1) + 1)..Len(q) : ~Concerns(q[j], k)
    <3> SUFFICES ASSUME NEW j \in ((i + 1) + 1)..Len(q) PROVE ~Concerns(q[j], k)
      OBVIOUS
    <3>1. j \in 2..Len(q) /\ j - 1 \in (i + 1)..Len(r)
      BY <1>1
    <3> QED BY <3>1, <1>2, <2>1
  <2> QED BY SMTT(30), <2>1, <2>2, <2>3 DEF ScheduledAfter
<1>4. CASE k \in L /\ \A i \in 1..Len(r) : ~Concerns(r[i], k)
  <2>1. \A i \in 2..Len(q) : ~Concerns(q[i], k)
    BY <1>2, <1>4
  <2>2. CASE Concerns(Head(q), k)
    BY <2>1, <2>2, <1>1, <1>4 DEF ScheduledAfter
  <2>3. CASE ~Concerns(Head(q), k)
    BY <2>1, <2>3, <1>1, <1>4 DEF ScheduledAfter
  <2> QED BY <2>2, <2>3
<1> QED BY <1>3, <1>4 DEF ScheduledAfter, r

\* ... and loses nothing of it.
LEMMA ScheduledTailKept ==
    ASSUME NEW q \in Seq(Event), q # <<>>, NEW K, NEW L, NEW k,
           Concerns(Head(q), k) => (k \in L <=> Head(q).kind = "request"),
           ~Concerns(Head(q), k) => (k \in L <=> k \in K),
           ScheduledAfter(q, K, k)
    PROVE  ScheduledAfter(Tail(q), L, k)
<1> DEFINE r == Tail(q)
<1>1. /\ Len(q) \in Nat /\ Len(q) > 0
      /\ Len(r) = Len(q) - 1
      /\ Head(q) = q[1]
      /\ \A i \in 1..Len(r) : r[i] = q[i + 1] /\ i + 1 \in 1..Len(q)
  OBVIOUS
<1> HIDE DEF r
<1>2. CASE k \in K /\ \A i \in 1..Len(q) : ~Concerns(q[i], k)
  BY <1>1, <1>2 DEF ScheduledAfter, r
<1>3. CASE \E i \in 1..Len(q) :
              /\ Concerns(q[i], k) /\ q[i].kind = "request"
              /\ \A j \in (i + 1)..Len(q) : ~Concerns(q[j], k)
  <2>1. PICK i \in 1..Len(q) :
              /\ Concerns(q[i], k) /\ q[i].kind = "request"
              /\ \A j \in (i + 1)..Len(q) : ~Concerns(q[j], k)
    BY <1>3
  <2>2. \A j \in i..Len(r) : ~Concerns(r[j], k)
    <3> SUFFICES ASSUME NEW j \in i..Len(r) PROVE ~Concerns(r[j], k)
      OBVIOUS
    <3>1. j \in 1..Len(r) /\ j + 1 \in (i + 1)..Len(q)
      BY <1>1
    <3> QED BY <3>1, <1>1, <2>1
  <2>3. CASE i = 1
    BY <1>1, <2>1, <2>2, <2>3 DEF ScheduledAfter, r
  <2>4. CASE i > 1
    <3>1. /\ i - 1 \in 1..Len(r)
          /\ r[i - 1] = q[i]
          /\ (i - 1) + 1 = i
      BY <1>1, <2>4
    <3> QED BY Zenon, <3>1, <2>1, <2>2 DEF ScheduledAfter, r
  <2> QED BY <2>3, <2>4
<1> QED BY <1>2, <1>3 DEF ScheduledAfter

\* Removing keys from the table schedules nothing.
LEMMA ScheduledShrinks ==
    ASSUME NEW q \in Seq(Event), NEW K, NEW L, L \subseteq K, NEW k,
           ScheduledAfter(q, L, k)
    PROVE  ScheduledAfter(q, K, k)
BY DEF ScheduledAfter

(***************************************************************************)
(* Type correctness                                                        *)
(***************************************************************************)
\* What is pushed on the queue of the scheduler is an event.
LEMMA PushType ==
    ASSUME NEW q \in Seq(Event), NEW kind \in EventKind, NEW p \in PeerOpt,
           NEW k \in Key
    PROVE  /\ [kind |-> kind, peer |-> p, key |-> k] \in Event
           /\ Append(q, [kind |-> kind, peer |-> p, key |-> k]) \in Seq(Event)
<1>1. [kind |-> kind, peer |-> p, key |-> k] \in Event
  BY DEF Event
<1> QED BY <1>1

\* The event of a cancellation is an event.
LEMMA CancellationType ==
    ASSUME NEW q \in Seq(Event), NEW k \in Key
    PROVE  /\ [kind |-> "notify_cancellation", peer |-> NoPeer, key |-> k] \in Event
           /\ Append(q, [kind |-> "notify_cancellation", peer |-> NoPeer, key |-> k])
                 \in Seq(Event)
<1>1. "notify_cancellation" \in EventKind /\ NoPeer \in PeerOpt
  OBVIOUS
<1> QED BY <1>1, PushType

\* Initially.
LEMMA TypeInit == Init => TypeOK
<1> SUFFICES ASSUME Init PROVE TypeOK
  OBVIOUS
<1>1. (CHOOSE k \in Key : TRUE) \in Key
  BY KeyAssumption
<1>2. pending \in [DOMAIN pending -> Status] /\ DOMAIN pending \in SUBSET Key
  BY DEF Init
<1>3. arg \in [Fetcher -> Key]
  BY <1>1 DEF Init
<1>4. /\ memory \in [Key -> {"absent", "pending", "found"}]
      /\ waiters \in [Key -> Nat]
      /\ input \in [Key -> 0..2]
      /\ queue \in Seq(Event)
  BY SMTT(30) DEF Init
<1> QED BY Zenon, <1>2, <1>3, <1>4 DEF Init, TypeOK

\* The disjuncts of a step, one case for each action.
LEMMA TypeNext == TypeOK /\ WaitersExact /\ [Next]_vars => TypeOK'
<1> SUFFICES ASSUME TypeOK, WaitersExact, [Next]_vars PROVE TypeOK'
  OBVIOUS
<1> USE DEF TypeOK, memoryVars, fetchVars, schedVars
<1>1. ASSUME NEW f \in Fetcher, NEW k \in Key, NEW p \in PeerOpt,
             FetchFound(f, k, p)
      PROVE  TypeOK'
  BY <1>1 DEF FetchFound
<1>2. ASSUME NEW f \in Fetcher, NEW k \in Key, NEW p \in PeerOpt,
             FetchPending(f, k, p)
      PROVE  TypeOK'
  <2>1. queue' \in Seq(Event)
    BY <1>2, PushType DEF FetchPending, Enlist, Push
  <2> QED BY <1>2, <2>1 DEF FetchPending, Enlist
<1>3. ASSUME NEW f \in Fetcher, NEW k \in Key, NEW p \in PeerOpt,
             FetchAbsent(f, k, p)
      PROVE  TypeOK'
  BY <1>3 DEF FetchAbsent
<1>4. ASSUME NEW f \in Fetcher, DiskAnswers(f) PROVE TypeOK'
  BY <1>4 DEF DiskAnswers
<1>5. ASSUME NEW f \in Fetcher, FetchResumesHit(f) PROVE TypeOK'
  BY <1>5 DEF FetchResumesHit
<1>6. ASSUME NEW f \in Fetcher, FetchResumesMiss(f) PROVE TypeOK'
  <2>1. queue' \in Seq(Event)
    BY Zenon, <1>6, PushType DEF FetchResumesMiss, Enlist, Push
  <2> QED BY <1>6, <2>1 DEF FetchResumesMiss, Enlist
<1>7. ASSUME NEW f \in Fetcher, FetchTimeout(f) PROVE TypeOK'
  <2> DEFINE k == arg[f]
  <2>1. k \in Key /\ (memory[k] = "pending" => waiters[k] - 1 \in Nat)
    BY DEF WaitersExact
  <2>2. UNCHANGED queue \/ Push("notify_cancellation", NoPeer, k)
    BY <1>7 DEF FetchTimeout
  <2>3. queue' \in Seq(Event)
    BY ZenonT(30), <2>1, <2>2, CancellationType DEF Push
  <2> QED BY Zenon, <1>7, <2>1, <2>3 DEF FetchTimeout
<1>8. ASSUME NEW p \in Peer, NEW k \in Key, NEW ok \in BOOLEAN, Notify(p, k, ok)
      PROVE  TypeOK'
  <2>1. CASE NotifyAccepted(p, k)
    <3>1. queue' \in Seq(Event)
      BY <2>1, PushType DEF NotifyAccepted, Push
    <3>2. /\ memory' \in [Key -> {"absent", "pending", "found"}]
          /\ input' \in [Key -> 0..2]
      BY <2>1 DEF NotifyAccepted
    <3>3. /\ pc' \in [Fetcher -> Returned \cup {"reading", "hit", "miss", "waiting"}]
          /\ waiters' \in [Key -> Nat]
      BY <2>1 DEF NotifyAccepted, Wake
    <3> QED BY <1>8, <3>1, <3>2, <3>3 DEF Notify
  <2>2. CASE NotifyIgnored(p, k, ok)
    BY <1>8, <2>2, PushType DEF Notify, NotifyIgnored, Push
  <2> QED BY <1>8, <2>1, <2>2 DEF Notify
<1>9. ASSUME NEW k \in Key, Inject(k) PROVE TypeOK'
  BY <1>9 DEF Inject
<1>10. ASSUME NEW k \in Key, ClearOrCancel(k) PROVE TypeOK'
  <2>0. UNCHANGED queue \/ Push("notify_cancellation", NoPeer, k)
    BY <1>10 DEF ClearOrCancel
  <2>1. queue' \in Seq(Event)
    BY Zenon, <2>0, CancellationType DEF Push
  <2> QED BY <1>10, <2>1 DEF ClearOrCancel, Wake
<1>11. ASSUME NEW k \in Key, Store(k) PROVE TypeOK'
  BY <1>11 DEF Store
<1>12. ASSUME ProcessEvent PROVE TypeOK'
  <2>1. Head(queue) \in Event /\ Tail(queue) \in Seq(Event)
    BY <1>12 DEF ProcessEvent
  <2>2. Head(queue).kind \in EventKind /\ Head(queue).key \in Key
        /\ {Head(queue).peer} \ {NoPeer} \subseteq Peer
    BY <2>1 DEF Event
  <2>3. PeersOf(Head(queue).key) \subseteq Peer
    BY <2>2 DEF PeersOf, Status
  <2> DEFINE e == Head(queue)
             st == [peers |-> PeersOf(e.key) \cup ({e.peer} \ {NoPeer}), due |-> TRUE]
  <2>4. st \in Status
    BY <2>2, <2>3 DEF Status
  <2> HIDE DEF st, e
  <2>5. \/ pending' = SetPending(e.key, st)
        \/ pending' = RemovePending({e.key})
        \/ UNCHANGED pending
    BY <1>12 DEF ProcessEvent, st, e
  <2>6. DOMAIN pending' \in SUBSET Key /\ pending' \in [DOMAIN pending' -> Status]
    BY ZenonT(30), <2>2, <2>4, <2>5 DEF SetPending, RemovePending, e
  <2> QED BY <1>12, <2>1, <2>6 DEF ProcessEvent
<1>13. ASSUME TimeoutBegins PROVE TypeOK'
  BY <1>13 DEF TimeoutBegins
<1>14. ASSUME TimeoutSends PROVE TypeOK'
  <2>1. DOMAIN pending' \in SUBSET Key /\ pending' \in [DOMAIN pending' -> Status]
    BY <1>14 DEF TimeoutSends, Remaining, Due, Deserted, Status
  <2>2. sent' \in SUBSET (Peer \X Key)
    BY <1>14 DEF TimeoutSends, Due
  <2> QED BY <1>14, <2>1, <2>2 DEF TimeoutSends
<1>15. ASSUME TimeoutRaises PROVE TypeOK'
  BY <1>15 DEF TimeoutRaises, RemovePending
<1>16. ASSUME SchedulerTerminates PROVE TypeOK'
  BY <1>16 DEF SchedulerTerminates
<1>17. ASSUME NEW k \in Key, Elapse(k) PROVE TypeOK'
  BY <1>17 DEF Elapse, Due, SetPending, Status
<1>18. ASSUME Shutdown PROVE TypeOK'
  BY <1>18 DEF Shutdown
<1>19. ASSUME NEW p \in Peer, Connect(p) PROVE TypeOK'
  BY <1>19 DEF Connect
<1>20. ASSUME NEW p \in Peer, Disconnect(p) PROVE TypeOK'
  BY <1>20 DEF Disconnect
<1>21. CASE UNCHANGED vars
  BY <1>21 DEF vars
<1> HIDE DEF TypeOK
<1> QED
  BY Zenon, <1>1, <1>2, <1>3, <1>4, <1>5, <1>6, <1>7, <1>8, <1>9, <1>10,
     <1>11, <1>12, <1>13, <1>14, <1>15, <1>16, <1>17, <1>18, <1>19, <1>20, <1>21
     DEF Next, Fetch, Table, Scheduler

(***************************************************************************)
(* The counters                                                            *)
(***************************************************************************)
\* Finitely many fetches wait for a key.
LEMMA WaitingFinite ==
    ASSUME NEW k
    PROVE  IsFiniteSet(WaitingOn(k)) /\ Cardinality(WaitingOn(k)) \in Nat
<1>1. WaitingOn(k) \subseteq Fetcher
  BY DEF WaitingOn
<1>2. IsFiniteSet(WaitingOn(k))
  BY <1>1, FetcherAssumption, FS_Subset
<1> QED BY <1>2, FS_CardinalityType

\* A step that moves no fetch to or from waiting, and no entry to or from
\* pending, keeps the counters exact.
LEMMA WaitersKept ==
    ASSUME TypeOK, WaitersExact, UNCHANGED waiters,
           \A k \in Key : memory'[k] = "pending" <=> memory[k] = "pending",
           \A f \in Fetcher, k \in Key : Waiting(f, k)' <=> Waiting(f, k)
    PROVE  WaitersExact'
<1>1. \A k \in Key : WaitingOn(k)' = WaitingOn(k)
  BY DEF WaitingOn
<1> QED BY <1>1 DEF WaitersExact

\* A fetch that did not wait joins the waiters of k.
LEMMA WaitersEnlist ==
    ASSUME TypeOK, WaitersExact, NEW f \in Fetcher, NEW k \in Key, NEW p,
           pc[f] # "waiting", Enlist(f, k, p), arg' = [arg EXCEPT ![f] = k]
    PROVE  WaitersExact'
<1>1. WaitingOn(k)' = WaitingOn(k) \cup {f} /\ f \notin WaitingOn(k)
  BY DEF WaitingOn, Waiting, Enlist, TypeOK
<1>2. Cardinality(WaitingOn(k)') = Cardinality(WaitingOn(k)) + 1
  BY Zenon, <1>1, WaitingFinite, FS_AddElement
<1>3. \A j \in Key \ {k} : WaitingOn(j)' = WaitingOn(j)
  BY DEF WaitingOn, Waiting, Enlist, TypeOK
<1>4. \A j \in Key \ {k} : waiters'[j] = waiters[j] /\ memory'[j] = memory[j]
  BY DEF Enlist, TypeOK
<1>5. memory'[k] = "pending" /\ waiters'[k] = waiters[k] + 1 /\ waiters[k] \in Nat
  BY DEF Enlist, TypeOK
<1> QED BY <1>2, <1>3, <1>4, <1>5 DEF WaitersExact

\* Everybody who waits on k is woken, and the entry is no longer pending.
LEMMA WaitersWake ==
    ASSUME TypeOK, WaitersExact, NEW k \in Key, NEW outcome, Wake(k, outcome),
           outcome # "waiting", UNCHANGED arg, NEW s, s # "pending",
           memory' = [memory EXCEPT ![k] = s]
    PROVE  WaitersExact'
<1>1. WaitingOn(k)' = {}
  BY DEF WaitingOn, Waiting, Wake, TypeOK
<1>2. \A j \in Key \ {k} : WaitingOn(j)' = WaitingOn(j)
  BY DEF WaitingOn, Waiting, Wake, TypeOK
<1>3. \A j \in Key \ {k} : waiters'[j] = waiters[j] /\ memory'[j] = memory[j]
  BY DEF Wake, TypeOK
<1>4. waiters'[k] = 0 /\ memory'[k] # "pending"
  BY DEF Wake, TypeOK
<1> QED BY <1>1, <1>2, <1>3, <1>4, FS_EmptySet DEF WaitersExact

\* A fetch leaves before it was served.
LEMMA WaitersTimeout ==
    ASSUME TypeOK, WaitersExact, NEW f \in Fetcher, FetchTimeout(f)
    PROVE  WaitersExact'
<1>0. PICK k \in Key : k = arg[f]
  BY DEF TypeOK
<1>1. f \in WaitingOn(k)
  BY <1>0 DEF FetchTimeout, WaitingOn, Waiting, TypeOK
<1>2. WaitingOn(k)' = WaitingOn(k) \ {f}
  BY <1>0, <1>1 DEF FetchTimeout, WaitingOn, Waiting, TypeOK
<1>3. Cardinality(WaitingOn(k)') = Cardinality(WaitingOn(k)) - 1
  BY ZenonT(30), <1>1, <1>2, WaitingFinite, FS_RemoveElement
<1>4. \A j \in Key \ {k} : WaitingOn(j)' = WaitingOn(j)
  BY <1>0 DEF FetchTimeout, WaitingOn, Waiting, TypeOK
<1>5. waiters[k] > 0
  <2>1. Cardinality(WaitingOn(k)) # 0
    BY <1>1, WaitingFinite, FS_EmptySet
  <2> QED BY <1>1, <2>1, WaitingFinite DEF WaitersExact
<1>6. memory[k] = "pending"
  BY <1>1, <1>5 DEF WaitersExact
<1>7. /\ waiters' = [waiters EXCEPT ![k] = @ - 1]
      /\ waiters[k] = 1 => memory' = [memory EXCEPT ![k] = "absent"]
      /\ waiters[k] # 1 => memory' = memory
  BY <1>0, <1>6 DEF FetchTimeout
<1>8. /\ waiters'[k] = waiters[k] - 1 /\ waiters[k] \in Nat
      /\ memory'[k] = "pending" <=> waiters[k] # 1
      /\ \A j \in Key \ {k} : waiters'[j] = waiters[j] /\ memory'[j] = memory[j]
  BY <1>1, <1>6, <1>7 DEF TypeOK
<1>9. /\ waiters'[k] = Cardinality(WaitingOn(k)')
      /\ memory'[k] = "pending" <=> waiters'[k] > 0
  <2>1. waiters[k] = Cardinality(WaitingOn(k))
    BY <1>1 DEF WaitersExact
  <2> QED BY <2>1, <1>3, <1>5, <1>8
<1> QED BY <1>4, <1>8, <1>9 DEF WaitersExact

\* Every step keeps the counters exact.
LEMMA WaitersNext == TypeOK /\ WaitersExact /\ [Next]_vars => WaitersExact'
<1> SUFFICES ASSUME TypeOK, WaitersExact, [Next]_vars PROVE WaitersExact'
  OBVIOUS
<1> USE DEF memoryVars, fetchVars, schedVars
<1>1. ASSUME NEW f \in Fetcher, NEW k \in Key, NEW p \in PeerOpt,
             FetchFound(f, k, p) \/ FetchAbsent(f, k, p)
      PROVE  WaitersExact'
  BY <1>1, WaitersKept DEF FetchFound, FetchAbsent, Waiting, TypeOK
<1>2. ASSUME NEW f \in Fetcher, NEW k \in Key, NEW p \in PeerOpt,
             FetchPending(f, k, p)
      PROVE  WaitersExact'
  BY Zenon, <1>2, WaitersEnlist DEF FetchPending
<1>3. ASSUME NEW f \in Fetcher, DiskAnswers(f) \/ FetchResumesHit(f)
      PROVE  WaitersExact'
  BY <1>3, WaitersKept DEF DiskAnswers, FetchResumesHit, Waiting, TypeOK
<1>4. ASSUME NEW f \in Fetcher, FetchResumesMiss(f) PROVE WaitersExact'
  <2>1. arg[f] \in Key /\ arg' = [arg EXCEPT ![f] = arg[f]]
    BY <1>4 DEF FetchResumesMiss, TypeOK
  <2> QED BY Zenon, <1>4, <2>1, WaitersEnlist DEF FetchResumesMiss
<1>5. ASSUME NEW f \in Fetcher, FetchTimeout(f) PROVE WaitersExact'
  BY <1>5, WaitersTimeout
<1>6. ASSUME NEW p \in Peer, NEW k \in Key, NEW ok \in BOOLEAN, Notify(p, k, ok)
      PROVE  WaitersExact'
  <2>1. CASE NotifyAccepted(p, k)
    BY Zenon, <1>6, <2>1, WaitersWake DEF Notify, NotifyAccepted
  <2>2. CASE NotifyIgnored(p, k, ok)
    BY <1>6, <2>2, WaitersKept DEF Notify, NotifyIgnored, Waiting
  <2> QED BY <1>6, <2>1, <2>2 DEF Notify
<1>7. ASSUME NEW k \in Key, Inject(k) PROVE WaitersExact'
  BY <1>7, WaitersKept DEF Inject, Waiting, TypeOK
<1>8. ASSUME NEW k \in Key, ClearOrCancel(k) PROVE WaitersExact'
  <2>1. CASE memory[k] = "pending"
    BY Zenon, <1>8, <2>1, WaitersWake DEF ClearOrCancel
  <2>2. CASE memory[k] # "pending"
    BY <1>8, <2>2, WaitersKept DEF ClearOrCancel, Waiting, TypeOK
  <2> QED BY <2>1, <2>2
<1>9. CASE \/ \E k \in Key : Store(k) \/ Elapse(k)
           \/ Scheduler \/ Shutdown
           \/ \E p \in Peer : Connect(p) \/ Disconnect(p)
           \/ UNCHANGED vars
  <2>1. UNCHANGED <<memory, waiters, pc, arg>>
    BY Zenon, <1>9 DEF Store, Elapse, Scheduler, ProcessEvent, TimeoutBegins,
                TimeoutSends, TimeoutRaises, SchedulerTerminates, Shutdown,
                Connect, Disconnect, vars
  <2> QED BY <2>1, WaitersKept DEF Waiting
<1> QED
  BY <1>1, <1>2, <1>3, <1>4, <1>5, <1>6, <1>7, <1>8, <1>9
     DEF Next, Fetch, Table

(***************************************************************************)
(* The schedule                                                            *)
(***************************************************************************)
\* A push of an event other than a request, with the table otherwise alone.
LEMMA OrphanPush ==
    ASSUME TypeOK, NoOrphanRequest, UNCHANGED pending,
           NEW e \in Event, queue' = Append(queue, e),
           e.kind = "request" => memory'[e.key] = "pending",
           \A j \in Key : (j # e.key \/ e.kind = "informative")
                              => (memory[j] = "pending" => memory'[j] = "pending")
    PROVE  NoOrphanRequest'
<1> SUFFICES ASSUME NEW j \in Key, Scheduled(j)' PROVE memory'[j] = "pending"
  BY DEF NoOrphanRequest
<1>1. ScheduledAfter(Append(queue, e), DOMAIN pending, j)
  BY DEF Scheduled
<1>2. CASE Concerns(e, j)
  BY <1>1, <1>2, ScheduledAppend DEF Concerns, TypeOK
<1>3. CASE ~Concerns(e, j)
  <2>1. Scheduled(j)
    BY <1>1, <1>3, ScheduledAppend DEF Scheduled, TypeOK
  <2> QED BY <2>1, <1>3 DEF NoOrphanRequest, Concerns
<1> QED BY <1>2, <1>3

\* A step without a push that shrinks the table.
LEMMA OrphanShrink ==
    ASSUME TypeOK, NoOrphanRequest, UNCHANGED queue,
           DOMAIN pending' \subseteq DOMAIN pending,
           \A j \in Key : memory[j] = "pending" => memory'[j] = "pending"
    PROVE  NoOrphanRequest'
<1> SUFFICES ASSUME NEW j \in Key, Scheduled(j)' PROVE memory'[j] = "pending"
  BY DEF NoOrphanRequest
<1>1. Scheduled(j)
  BY ScheduledShrinks DEF Scheduled, TypeOK
<1> QED BY <1>1 DEF NoOrphanRequest

\* Every step keeps the schedule to keys that are waited for.
LEMMA OrphanNext ==
    TypeOK /\ WaitersExact /\ NoOrphanRequest /\ [Next]_vars => NoOrphanRequest'
<1> SUFFICES ASSUME TypeOK, WaitersExact, NoOrphanRequest, [Next]_vars
             PROVE  NoOrphanRequest'
  OBVIOUS
<1> USE DEF memoryVars, fetchVars, schedVars
<1>1. ASSUME NEW f \in Fetcher, NEW k \in Key, NEW p \in PeerOpt,
             Enlist(f, k, p), UNCHANGED pending
      PROVE  NoOrphanRequest'
  <2> DEFINE e == [kind |-> "request", peer |-> p, key |-> k]
  <2>1. e \in Event /\ queue' = Append(queue, e)
    BY <1>1, PushType DEF Enlist, Push, TypeOK
  <2>2. \A j \in Key : memory[j] = "pending" => memory'[j] = "pending"
    BY <1>1 DEF Enlist, TypeOK
  <2>3. memory'[k] = "pending"
    BY <1>1 DEF Enlist, TypeOK
  <2> QED BY <1>1, <2>1, <2>2, <2>3, OrphanPush
<1>2. ASSUME NEW k \in Key, Push("notify_cancellation", NoPeer, k),
             UNCHANGED pending,
             \A j \in Key \ {k} : memory'[j] = memory[j]
      PROVE  NoOrphanRequest'
  <2> DEFINE e == [kind |-> "notify_cancellation", peer |-> NoPeer, key |-> k]
  <2>1. e \in Event /\ queue' = Append(queue, e)
    BY <1>2, CancellationType DEF Push, TypeOK
  <2> QED BY <1>2, <2>1, OrphanPush
<1>3. ASSUME NEW f \in Fetcher, FetchTimeout(f) PROVE NoOrphanRequest'
  <2>1. PICK k \in Key : k = arg[f]
    BY DEF TypeOK
  <2>2. CASE Push("notify_cancellation", NoPeer, k) /\ waiters[k] = 1
    <3>1. \A j \in Key \ {k} : memory'[j] = memory[j]
      BY <1>3, <2>1, <2>2 DEF FetchTimeout, TypeOK
    <3> QED BY <1>2, <1>3, <2>2, <3>1 DEF FetchTimeout
  <2>3. CASE UNCHANGED <<memory, queue>>
    BY <1>3, <2>3, OrphanShrink DEF FetchTimeout
  <2> QED BY <1>3, <2>1, <2>2, <2>3 DEF FetchTimeout
<1>4. ASSUME NEW p \in Peer, NEW k \in Key, NEW ok \in BOOLEAN, Notify(p, k, ok)
      PROVE  NoOrphanRequest'
  <2>1. CASE NotifyAccepted(p, k)
    <3> DEFINE e == [kind |-> "notify", peer |-> p, key |-> k]
    <3>1. e \in Event /\ queue' = Append(queue, e)
      BY <2>1, PushType DEF NotifyAccepted, Push, TypeOK
    <3>2. \A j \in Key \ {k} : memory'[j] = memory[j]
      BY <2>1 DEF NotifyAccepted, TypeOK
    <3> QED BY <1>4, <3>1, <3>2, OrphanPush DEF Notify
  <2>2. CASE NotifyIgnored(p, k, ok)
    <3> DEFINE e == [kind |-> "informative", peer |-> p, key |-> k]
    <3>1. e \in Event /\ queue' = Append(queue, e)
      BY <2>2, PushType DEF NotifyIgnored, Push, TypeOK
    <3> QED BY <1>4, <2>2, <3>1, OrphanPush DEF Notify, NotifyIgnored
  <2> QED BY <1>4, <2>1, <2>2 DEF Notify
<1>5. ASSUME NEW k \in Key, ClearOrCancel(k) PROVE NoOrphanRequest'
  <2>1. CASE memory[k] = "pending"
    <3>1. \A j \in Key \ {k} : memory'[j] = memory[j]
      BY <1>5 DEF ClearOrCancel, TypeOK
    <3> QED BY <1>2, <1>5, <2>1, <3>1 DEF ClearOrCancel
  <2>2. CASE memory[k] # "pending"
    <3>1. \A j \in Key : memory[j] = "pending" => memory'[j] = "pending"
      BY <1>5, <2>2 DEF ClearOrCancel, TypeOK
    <3> QED BY <1>5, <2>2, <3>1, OrphanShrink DEF ClearOrCancel
  <2> QED BY <2>1, <2>2
<1>6. ASSUME NEW k \in Key, Inject(k) PROVE NoOrphanRequest'
  BY <1>6, OrphanShrink DEF Inject, TypeOK
<1>7. ASSUME ProcessEvent PROVE NoOrphanRequest'
  <2> SUFFICES ASSUME NEW j \in Key, Scheduled(j)' PROVE memory'[j] = "pending"
    BY DEF NoOrphanRequest
  <2> DEFINE e == Head(queue)
  <2>1. queue # <<>> /\ queue' = Tail(queue) /\ UNCHANGED memory
        /\ queue \in Seq(Event) /\ e.kind \in EventKind
    BY <1>7 DEF ProcessEvent, TypeOK, Event
  <2>2. Concerns(e, j) => (j \in DOMAIN pending' <=> e.kind = "request")
    BY <1>7, <2>1 DEF ProcessEvent, Concerns, SetPending, RemovePending
  <2>3. ~Concerns(e, j) => (j \in DOMAIN pending' <=> j \in DOMAIN pending)
    BY <1>7, <2>1 DEF ProcessEvent, Concerns, SetPending, RemovePending
  <2>4. ScheduledAfter(Tail(queue), DOMAIN pending', j)
    BY <2>1 DEF Scheduled
  <2>5. ScheduledAfter(queue, DOMAIN pending, j)
    BY Zenon, <2>1, <2>2, <2>3, <2>4, ScheduledTail
  <2> QED BY <2>1, <2>5 DEF NoOrphanRequest, Scheduled
<1>8. CASE \/ TimeoutBegins \/ TimeoutSends \/ TimeoutRaises \/ SchedulerTerminates
           \/ Shutdown \/ UNCHANGED vars
           \/ \E k \in Key : Store(k) \/ Elapse(k)
           \/ \E p \in Peer : Connect(p) \/ Disconnect(p)
           \/ \E f \in Fetcher : DiskAnswers(f) \/ FetchResumesHit(f)
           \/ \E f \in Fetcher, k \in Key, p \in PeerOpt :
                 FetchFound(f, k, p) \/ FetchAbsent(f, k, p)
  <2>1. UNCHANGED <<memory, queue>>
    BY Zenon, <1>8
       DEF TimeoutBegins, TimeoutSends, TimeoutRaises, SchedulerTerminates,
                Shutdown, vars, Store, Elapse, Connect, Disconnect, DiskAnswers,
                FetchResumesHit, FetchFound, FetchAbsent
  <2>2. DOMAIN pending' \subseteq DOMAIN pending
    BY Zenon, <1>8
       DEF TimeoutBegins, TimeoutSends, TimeoutRaises, SchedulerTerminates,
                Shutdown, vars, Store, Elapse, Connect, Disconnect, DiskAnswers,
                FetchResumesHit, FetchFound, FetchAbsent, SetPending,
                RemovePending
  <2> QED BY <2>1, <2>2, OrphanShrink
<1>9. ASSUME NEW f \in Fetcher, FetchResumesMiss(f) PROVE NoOrphanRequest'
  <2>1. arg[f] \in Key /\ via[f] \in PeerOpt
    BY DEF TypeOK
  <2> QED BY <1>1, <1>9, <2>1 DEF FetchResumesMiss
<1> QED
  BY <1>1, <1>3, <1>4, <1>5, <1>6, <1>7, <1>8, <1>9, SMTT(30)
     DEF Next, Fetch, Table, Scheduler, FetchPending

(***************************************************************************)
(* The theorems                                                            *)
(***************************************************************************)
\* The three invariants hold together: the types need the counters (a counter
\* that is decremented is positive) and so does the schedule.
Inv == TypeOK /\ WaitersExact /\ NoOrphanRequest

\* The requester keeps its types, its counters and its schedule consistent.
THEOREM InvHolds == Spec => []Inv
<1>1. Init => Inv
  <2> SUFFICES ASSUME Init PROVE Inv
    OBVIOUS
  <2>1. TypeOK
    BY TypeInit
  <2>2. \A k \in Key : WaitingOn(k) = {}
    BY DEF Init, WaitingOn, Waiting
  <2>3. WaitersExact
    BY <2>2, FS_EmptySet, SMTT(30) DEF WaitersExact, Init
  <2>4. NoOrphanRequest
    BY DEF NoOrphanRequest, Scheduled, ScheduledAfter, Init
  <2> QED BY <2>1, <2>3, <2>4 DEF Inv
<1>2. Inv /\ [Next]_vars => Inv'
  BY TypeNext, WaitersNext, OrphanNext DEF Inv
<1> QED BY <1>1, <1>2, PTL DEF Spec

\* Each of the three, under the name the runs check it by.
THEOREM TypeCorrect == Spec => []TypeOK
<1>1. Inv => TypeOK
  BY DEF Inv
<1> QED BY <1>1, InvHolds, PTL

\* The counter of a pending entry is the number of fetches that wait on it.
THEOREM CountersAreExact == Spec => []WaitersExact
<1>1. Inv => WaitersExact
  BY DEF Inv
<1> QED BY <1>1, InvHolds, PTL

\* The scheduler will ask peers only for keys some fetch is waiting for.
THEOREM NothingAskedInVain == Spec => []NoOrphanRequest
<1>1. Inv => NoOrphanRequest
  BY DEF Inv
<1> QED BY <1>1, InvHolds, PTL

\* No step lets go of a request that is waited for, unless its peers left.
LEMMA GivenUpStep ==
    ASSUME TypeOK, WaitersExact, [Next]_vars, NEW k \in Key,
           Scheduled(k), ~Scheduled(k)', memory'[k] = "pending"
    PROVE  PeersOf(k) # {} /\ PeersOf(k) \cap active = {}
<1> USE DEF memoryVars, fetchVars, schedVars
<1>1. ASSUME NEW e \in Event, queue' = Append(queue, e), UNCHANGED pending
      PROVE  e.key = k /\ e.kind \in {"notify", "notify_cancellation"}
  <2>1. /\ ScheduledAfter(queue, DOMAIN pending, k)
        /\ ~ScheduledAfter(Append(queue, e), DOMAIN pending, k)
    BY <1>1 DEF Scheduled
  <2>2. Concerns(e, k) /\ e.kind # "request"
    BY <2>1, ScheduledAppend DEF TypeOK
  <2> QED BY <2>2 DEF Concerns, Event
<1>2. ~(UNCHANGED queue /\ DOMAIN pending \subseteq DOMAIN pending')
  <2> SUFFICES ASSUME UNCHANGED queue, DOMAIN pending \subseteq DOMAIN pending'
               PROVE  FALSE
    OBVIOUS
  <2>1. ScheduledAfter(queue, DOMAIN pending', k)
    BY ScheduledShrinks DEF Scheduled, TypeOK
  <2> QED BY <2>1 DEF Scheduled
<1>3. ASSUME NEW f \in Fetcher, NEW j \in Key, NEW p \in PeerOpt,
             Enlist(f, j, p), UNCHANGED pending
      PROVE  FALSE
  <2> DEFINE e == [kind |-> "request", peer |-> p, key |-> j]
  <2>1. e \in Event /\ queue' = Append(queue, e)
    BY <1>3, PushType DEF Enlist, Push, TypeOK
  <2> QED BY <1>1, <1>3, <2>1
<1>4. ASSUME NEW j \in Key, Push("notify_cancellation", NoPeer, j),
             UNCHANGED pending
      PROVE  j = k
  <2> DEFINE e == [kind |-> "notify_cancellation", peer |-> NoPeer, key |-> j]
  <2>1. e \in Event /\ queue' = Append(queue, e)
    BY <1>4, CancellationType DEF Push, TypeOK
  <2> QED BY <1>1, <1>4, <2>1
<1>5. ASSUME NEW f \in Fetcher, FetchTimeout(f) PROVE FALSE
  <2>1. PICK j \in Key : j = arg[f]
    BY DEF TypeOK
  <2>2. CASE /\ memory' = [memory EXCEPT ![j] = "absent"]
             /\ Push("notify_cancellation", NoPeer, j)
    <3>1. j = k
      BY <1>4, <1>5, <2>2 DEF FetchTimeout
    <3> QED BY <2>2, <3>1 DEF TypeOK
  <2>3. CASE UNCHANGED queue
    BY <1>2, <1>5, <2>3 DEF FetchTimeout
  <2> QED BY <1>5, <2>1, <2>2, <2>3 DEF FetchTimeout
<1>6. ASSUME NEW p \in Peer, NEW j \in Key, NEW ok \in BOOLEAN, Notify(p, j, ok)
      PROVE  FALSE
  <2>1. CASE NotifyAccepted(p, j)
    <3> DEFINE e == [kind |-> "notify", peer |-> p, key |-> j]
    <3>1. e \in Event /\ queue' = Append(queue, e)
      BY <2>1, PushType DEF NotifyAccepted, Push, TypeOK
    <3>2. j = k
      BY <1>1, <1>6, <3>1 DEF Notify
    <3> QED BY <2>1, <3>2 DEF NotifyAccepted, TypeOK
  <2>2. CASE NotifyIgnored(p, j, ok)
    <3> DEFINE e == [kind |-> "informative", peer |-> p, key |-> j]
    <3>1. e \in Event /\ queue' = Append(queue, e)
      BY <2>2, PushType DEF NotifyIgnored, Push, TypeOK
    <3> QED BY <1>1, <1>6, <3>1 DEF Notify
  <2> QED BY <1>6, <2>1, <2>2 DEF Notify
<1>7. ASSUME NEW j \in Key, ClearOrCancel(j) PROVE FALSE
  <2>1. CASE Push("notify_cancellation", NoPeer, j)
    <3>1. j = k
      BY <1>4, <1>7, <2>1 DEF ClearOrCancel
    <3> QED BY <1>7, <3>1 DEF ClearOrCancel, TypeOK
  <2>2. CASE UNCHANGED queue
    BY <1>2, <1>7, <2>2 DEF ClearOrCancel
  <2> QED BY <1>7, <2>1, <2>2 DEF ClearOrCancel
<1>8. ASSUME ProcessEvent PROVE FALSE
  <2> DEFINE e == Head(queue)
  <2>1. queue # <<>> /\ queue' = Tail(queue)
        /\ queue \in Seq(Event) /\ e.kind \in EventKind
    BY <1>8 DEF ProcessEvent, TypeOK, Event
  <2>2. Concerns(e, k) => (k \in DOMAIN pending' <=> e.kind = "request")
    BY <1>8, <2>1 DEF ProcessEvent, Concerns, SetPending, RemovePending
  <2>3. ~Concerns(e, k) => (k \in DOMAIN pending' <=> k \in DOMAIN pending)
    BY <1>8, <2>1 DEF ProcessEvent, Concerns, SetPending, RemovePending
  <2>4. ScheduledAfter(queue, DOMAIN pending, k)
    BY DEF Scheduled
  <2>5. ScheduledAfter(Tail(queue), DOMAIN pending', k)
    BY <2>1, <2>2, <2>3, <2>4, ScheduledTailKept, SMTT(30)
  <2> QED BY <2>1, <2>5 DEF Scheduled
<1>9. ASSUME TimeoutSends \/ TimeoutRaises
      PROVE  PeersOf(k) # {} /\ PeersOf(k) \cap active = {}
  <2>1. UNCHANGED queue
    BY SMTT(30), <1>9 DEF TimeoutSends, TimeoutRaises
  <2>2. k \in DOMAIN pending /\ k \notin DOMAIN pending'
    BY SMTT(30), <2>1 DEF Scheduled, ScheduledAfter
  <2>3. k \in Deserted
    BY Zenon, <1>9, <2>2 DEF TimeoutSends, TimeoutRaises, RemovePending
  <2> QED BY SMTT(30), <2>2, <2>3 DEF Deserted, Remaining, PeersOf
<1>10. CASE \/ TimeoutBegins \/ SchedulerTerminates \/ Shutdown \/ UNCHANGED vars
            \/ \E j \in Key : Store(j) \/ Elapse(j) \/ Inject(j)
            \/ \E p \in Peer : Connect(p) \/ Disconnect(p)
            \/ \E f \in Fetcher : DiskAnswers(f) \/ FetchResumesHit(f)
            \/ \E f \in Fetcher, j \in Key, p \in PeerOpt :
                  FetchFound(f, j, p) \/ FetchAbsent(f, j, p)
  <2>1. UNCHANGED queue /\ DOMAIN pending \subseteq DOMAIN pending'
    BY Zenon, <1>10
       DEF TimeoutBegins, SchedulerTerminates, Shutdown, vars, Store,
                 Elapse, Inject, Connect, Disconnect, DiskAnswers,
                 FetchResumesHit, FetchFound, FetchAbsent, SetPending
  <2> QED BY <1>2, <2>1
<1>11. ASSUME NEW f \in Fetcher, FetchResumesMiss(f) PROVE FALSE
  <2>1. arg[f] \in Key /\ via[f] \in PeerOpt
    BY DEF TypeOK
  <2> QED BY Zenon, <1>3, <1>11, <2>1 DEF FetchResumesMiss
<1> QED
  BY Zenon, <1>3, <1>5, <1>6, <1>7, <1>8, <1>9, <1>10, <1>11
     DEF Next, Fetch, Table, Scheduler, FetchPending

\* A request that is waited for leaves the schedule only when its peers left.
THEOREM NoRequestIsLost == Spec => GivenUpOnlyWhenDeserted
<1>1. Inv /\ [Next]_vars =>
        [\A k \in Key :
            (Scheduled(k) /\ ~Scheduled(k)' /\ memory'[k] = "pending")
               => (PeersOf(k) # {} /\ PeersOf(k) \cap active = {})]_vars
  BY GivenUpStep DEF Inv
<1> QED BY <1>1, InvHolds, PTL DEF Spec, GivenUpOnlyWhenDeserted
=============================================================================
