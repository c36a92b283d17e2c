------------------------------ MODULE Requester ------------------------------
(***************************************************************************)
(* The generic resource requester (src/lib_requester/requester.ml): a      *)
(* read-through table in front of a disk store, whose misses are turned    *)
(* into requests to peers by a scheduler thread.                           *)
(*                                                                         *)
(* Threads are cooperative (Lwt): a step runs without interruption up to   *)
(* its next await, so every action below is one such atomic segment.  A    *)
(* value is determined by its key, which is a hash, so only the presence   *)
(* of keys is kept.  Times are kept as "due or not yet due".               *)
(***************************************************************************)
EXTENDS Integers, Sequences, FiniteSets

CONSTANTS
    Key,         \* resource hashes
    Peer,        \* peer identities
    NoPeer,      \* the absent peer of a [fetch] without [?peer]
    Fetcher,     \* the callers of [fetch], one outstanding call each
    SyncDisk,    \* TRUE: the disk answers at once and is empty, as
                 \*   Fake_operation_storage does; FALSE: it is awaited
    Unsolicited, \* whether peers also send values nobody asked them for
    QueueBound   \* bound on the length of the scheduler's event queue

ASSUME KeyAssumption == Key # {}
ASSUME FetcherAssumption == IsFiniteSet(Fetcher)
ASSUME SyncDiskAssumption == SyncDisk \in BOOLEAN
ASSUME UnsolicitedAssumption == Unsolicited \in BOOLEAN
ASSUME QueueBoundAssumption == QueueBound \in Nat
ASSUME NoPeerAssumption == NoPeer \notin Peer

VARIABLES
    memory,    \* Memory_table: "absent", "pending" or "found" per key
    waiters,   \* the [waiters] counter of a Pending entry, 0 without one
    disk,      \* the keys stored on disk
    pc,        \* where each fetch stands
    arg,       \* the key it was called with
    via,       \* its peer, while that has to be passed on to the scheduler
    input,     \* how often the watchers were told of a key (up to 2)
    queue,     \* the scheduler's event pipe
    pending,   \* the scheduler's table: named peers and "due" per key
    worker,    \* the scheduler thread
    canceler,  \* whether the scheduler was told to stop
    active,    \* the peers [Request.active] returns
    sent       \* requests sent to a peer and not answered yet

memoryVars == <<memory, waiters, input>>
fetchVars == <<pc, arg, via>>
schedVars == <<pending, worker>>
vars == <<memory, waiters, disk, pc, arg, via, input, queue, pending, worker,
          canceler, active, sent>>

PeerOpt == Peer \cup {NoPeer}
EventKind == {"request", "notify", "notify_cancellation", "informative"}
\* "informative" stands for Notify_invalid, Notify_duplicate and
\* Notify_unrequested, which the scheduler only logs.
Event == [kind : EventKind, peer : PeerOpt, key : Key]
Status == [peers : SUBSET Peer, due : BOOLEAN]

Returned == {"idle", "ok", "canceled", "timeout"}
Waiting(f, k) == pc[f] = "waiting" /\ arg[f] = k
WaitingOn(k) == {f \in Fetcher : Waiting(f, k)}

(***************************************************************************)
(* The scheduler's interface: push_now on an unbounded pipe.               *)
(***************************************************************************)
Push(kind, p, k) ==
    /\ Len(queue) < QueueBound
    /\ queue' = Append(queue, [kind |-> kind, peer |-> p, key |-> k])

(***************************************************************************)
(* fetch                                                                   *)
(***************************************************************************)
\* Found in memory: the promise is returned resolved.
FetchFound(f, k, p) ==
    /\ pc[f] \in Returned
    /\ memory[k] = "found"
    /\ pc' = [pc EXCEPT ![f] = "ok"]
    /\ arg' = [arg EXCEPT ![f] = k]
    /\ UNCHANGED <<via, memoryVars, disk, queue, schedVars, canceler, active, sent>>

\* Faulty variant of Enlist: joining an entry does not count the newcomer.
EnlistUncounted(f, k, p) ==
    /\ memory[k] # "found"
    /\ Push("request", p, k)
    /\ memory' = [memory EXCEPT ![k] = "pending"]
    /\ waiters' = [waiters EXCEPT ![k] = 1]
    /\ pc' = [pc EXCEPT ![f] = "waiting"]

\* The fetch f waits for key k: it joins the entry there is, or makes one.
Enlist(f, k, p) ==
    /\ memory[k] # "found"
    /\ Push("request", p, k)
    /\ memory' = [memory EXCEPT ![k] = "pending"]
    /\ waiters' = [waiters EXCEPT ![k] = @ + 1]
    /\ pc' = [pc EXCEPT ![f] = "waiting"]

\* Pending in memory: join the waiters.  With a disk that answers at once
\* (and never has the key) a miss goes the same way in the same segment.
FetchPending(f, k, p) ==
    /\ pc[f] \in Returned
    /\ memory[k] = "pending" \/ SyncDisk
    /\ Enlist(f, k, p)
    /\ arg' = [arg EXCEPT ![f] = k]
    /\ UNCHANGED <<via, disk, input, schedVars, canceler, active, sent>>

\* Absent from memory: await Disk_table.read_opt.
FetchAbsent(f, k, p) ==
    /\ pc[f] \in Returned
    /\ memory[k] = "absent"
    /\ ~SyncDisk
    /\ pc' = [pc EXCEPT ![f] = "reading"]
    /\ arg' = [arg EXCEPT ![f] = k]
    /\ via' = [via EXCEPT ![f] = p]
    /\ UNCHANGED <<memoryVars, disk, queue, schedVars, canceler, active, sent>>

\* The store computes the answer...
DiskAnswers(f) ==
    /\ pc[f] = "reading"
    /\ pc' = [pc EXCEPT ![f] = IF arg[f] \in disk THEN "hit" ELSE "miss"]
    /\ UNCHANGED <<arg, via, memoryVars, disk, queue, schedVars, canceler, active,
                   sent>>

\* ... and the fetch resumes with it: a hit returns the value; a miss looks
\* at the memory table again, which may have changed meanwhile.
FetchResumesHit(f) ==
    /\ pc[f] = "hit" \/ (pc[f] = "miss" /\ memory[arg[f]] = "found")
    /\ pc' = [pc EXCEPT ![f] = "ok"]
    /\ via' = [via EXCEPT ![f] = NoPeer]
    /\ UNCHANGED <<arg, memoryVars, disk, queue, schedVars, canceler, active, sent>>

FetchResumesMiss(f) ==
    /\ pc[f] = "miss"
    /\ Enlist(f, arg[f], via[f])
    /\ via' = [via EXCEPT ![f] = NoPeer]
    /\ UNCHANGED <<arg, disk, input, schedVars, canceler, active, sent>>

\* Faulty variant of FetchTimeout: the last waiter leaves its request behind.
FetchTimeoutSilent(f) ==
    LET k == arg[f] IN
    /\ pc[f] = "waiting"
    /\ pc' = [pc EXCEPT ![f] = "timeout"]
    /\ waiters' = [waiters EXCEPT ![k] = @ - 1]
    /\ memory' = [memory EXCEPT ![k] = IF waiters[k] = 1 THEN "absent" ELSE @]
    /\ UNCHANGED <<arg, via, disk, input, queue, schedVars, canceler, active, sent>>

\* [wrap]: the timeout of a waiting fetch fires, or its caller cancels it.
\* The last waiter to leave removes the entry and withdraws the request.
FetchTimeout(f) ==
    LET k == arg[f] IN
    /\ pc[f] = "waiting"
    /\ pc' = [pc EXCEPT ![f] = "timeout"]
    /\ IF memory[k] # "pending"
       THEN UNCHANGED <<memory, waiters, queue>>
       ELSE /\ waiters' = [waiters EXCEPT ![k] = @ - 1]
            /\ IF waiters[k] = 1
               THEN /\ memory' = [memory EXCEPT ![k] = "absent"]
                    /\ Push("notify_cancellation", NoPeer, k)
               ELSE UNCHANGED <<memory, queue>>
    /\ UNCHANGED <<arg, via, disk, input, schedVars, canceler, active, sent>>

\* Every fetch waiting on k is resolved with the given outcome.
Wake(k, outcome) ==
    /\ pc' = [f \in Fetcher |-> IF Waiting(f, k) THEN outcome ELSE pc[f]]
    /\ waiters' = [waiters EXCEPT ![k] = 0]

(***************************************************************************)
(* notify: peer p delivered a value for k; ok is the verdict of            *)
(* Precheck.precheck on it.                                                *)
(***************************************************************************)
NotifyAccepted(p, k) ==
    /\ memory[k] = "pending"
    /\ Push("notify", p, k)
    /\ memory' = [memory EXCEPT ![k] = "found"]
    /\ Wake(k, "ok")
    /\ input' = [input EXCEPT ![k] = IF @ = 0 THEN 1 ELSE 2]

NotifyIgnored(p, k, ok) ==
    /\ memory[k] # "pending" \/ ~ok
    /\ Push("informative", p, k)
    /\ UNCHANGED <<memoryVars, pc>>

Notify(p, k, ok) ==
    /\ p \in active
    /\ <<p, k>> \in sent \/ Unsolicited
    /\ (ok /\ NotifyAccepted(p, k)) \/ NotifyIgnored(p, k, ok)
    /\ sent' = sent \ {<<p, k>>}
    /\ UNCHANGED <<arg, via, disk, schedVars, canceler, active>>

(***************************************************************************)
(* inject: called for operations only, so against the immediate disk.  It  *)
(* returns false, and does nothing, when the key is pending or found.      *)
(***************************************************************************)
Inject(k) ==
    /\ SyncDisk
    /\ memory[k] = "absent"
    /\ memory' = [memory EXCEPT ![k] = "found"]
    /\ UNCHANGED <<waiters, input, disk, fetchVars, queue, schedVars, canceler,
                   active, sent>>

(***************************************************************************)
(* clear_or_cancel                                                         *)
(***************************************************************************)
ClearOrCancel(k) ==
    /\ \/ /\ memory[k] = "pending"
          /\ Push("notify_cancellation", NoPeer, k)
          /\ Wake(k, "canceled")
       \/ /\ memory[k] = "found"
          /\ UNCHANGED <<queue, pc, waiters>>
    /\ memory' = [memory EXCEPT ![k] = "absent"]
    /\ UNCHANGED <<arg, via, input, disk, schedVars, canceler, active, sent>>

\* A value is written to the store (State.Block.store, Protocol.store); the
\* caller clears the table afterwards, in a later step.
Store(k) ==
    /\ ~SyncDisk
    /\ disk' = disk \cup {k}
    /\ UNCHANGED <<memoryVars, fetchVars, queue, schedVars, canceler, active,
                   sent>>

(***************************************************************************)
(* The scheduler thread.  It looks at the events before the timeouts, and  *)
(* treats them one after the other.                                        *)
(***************************************************************************)
PeersOf(k) == IF k \in DOMAIN pending THEN pending[k].peers ELSE {}

\* pending with the entry of k set, and without the keys of K.
SetPending(k, st) ==
    [j \in DOMAIN pending \cup {k} |-> IF j = k THEN st ELSE pending[j]]
RemovePending(K) == [j \in DOMAIN pending \ K |-> pending[j]]

ProcessEvent ==
    /\ worker = "loop"
    /\ queue # <<>>
    /\ LET e == Head(queue) IN
       \/ /\ e.kind = "request"
          /\ pending' = SetPending(e.key,
                [peers |-> PeersOf(e.key) \cup ({e.peer} \ {NoPeer}),
                 due |-> TRUE])
       \/ /\ e.kind \in {"notify", "notify_cancellation"}
          /\ pending' = RemovePending({e.key})
       \/ /\ e.kind = "informative"
          /\ UNCHANGED pending
    /\ queue' = Tail(queue)
    /\ UNCHANGED <<memoryVars, disk, fetchVars, worker, canceler, active, sent>>

Due == {k \in DOMAIN pending : pending[k].due}

\* No event is waiting and a request is due: the loop takes its timeout
\* branch.  Logging is awaited before the branch reads the table.
TimeoutBegins ==
    /\ worker = "loop"
    /\ ~canceler
    /\ queue = <<>>
    /\ Due # {}
    /\ worker' = "timeout"
    /\ UNCHANGED <<memoryVars, disk, fetchVars, queue, pending, canceler,
                   active, sent>>

Remaining(k) == pending[k].peers \cap active
\* Faulty variant of Deserted: requests that name no peer are given up too.
DesertedOrPeerless == {k \in Due : Remaining(k) = {}}
\* Keys all of whose named peers are gone: their requests are given up.
Deserted == {k \in Due : Remaining(k) = {} /\ pending[k].peers # {}}
\* The peers random_elt draws from.
Candidates(k) == IF Remaining(k) = {} THEN active ELSE Remaining(k)

\* The requests that are due are sent, each to one peer, and put off.
TimeoutSends ==
    /\ worker = "timeout"
    /\ \A k \in Due \ Deserted : Candidates(k) # {}
    /\ \E choice \in [Due \ Deserted -> Peer] :
          /\ \A k \in Due \ Deserted : choice[k] \in Candidates(k)
          /\ sent' = sent \cup {<<choice[k], k>> : k \in Due \ Deserted}
    /\ pending' = [k \in DOMAIN pending \ Deserted |->
                      IF k \in Due
                      THEN [peers |-> Remaining(k), due |-> FALSE]
                      ELSE pending[k]]
    /\ worker' = "loop"
    /\ UNCHANGED <<memoryVars, disk, fetchVars, queue, canceler, active>>

\* random_elt of the empty set raises: the exception ends the thread, and
\* Lwt_utils.worker cancels the canceler.  The keys folded over before lost
\* their entries.
TimeoutRaises ==
    /\ worker = "timeout"
    /\ \E k \in Due \ Deserted : Candidates(k) = {}
    /\ \E K \in SUBSET Deserted : pending' = RemovePending(K)
    /\ worker' = "dead"
    /\ canceler' = TRUE
    /\ UNCHANGED <<memoryVars, disk, fetchVars, queue, active, sent>>

\* Faulty variant of Elapse: only the requests that name no peer are retried.
ElapsePeerless(k) ==
    /\ k \in DOMAIN pending \ Due
    /\ pending[k].peers = {}
    /\ pending' = SetPending(k, [peers |-> pending[k].peers, due |-> TRUE])
    /\ UNCHANGED <<memoryVars, disk, fetchVars, queue, worker, canceler,
                   active, sent>>

\* The delay of a request that was sent elapses.
Elapse(k) ==
    /\ k \in DOMAIN pending \ Due
    /\ pending' = SetPending(k, [peers |-> pending[k].peers, due |-> TRUE])
    /\ UNCHANGED <<memoryVars, disk, fetchVars, queue, worker, canceler,
                   active, sent>>

\* shutdown: the canceler is triggered, and the loop leaves on its next turn.
Shutdown ==
    /\ ~canceler
    /\ canceler' = TRUE
    /\ UNCHANGED <<memoryVars, disk, fetchVars, queue, schedVars, active, sent>>

SchedulerTerminates ==
    /\ worker = "loop"
    /\ canceler
    /\ worker' = "terminated"
    /\ UNCHANGED <<memoryVars, disk, fetchVars, queue, pending, canceler,
                   active, sent>>

(***************************************************************************)
(* The network: peers come and go (P2p_reader's table of active chains).   *)
(***************************************************************************)
Connect(p) ==
    /\ p \notin active
    /\ active' = active \cup {p}
    /\ UNCHANGED <<memoryVars, disk, fetchVars, queue, schedVars, canceler, sent>>

Disconnect(p) ==
    /\ p \in active
    /\ active' = active \ {p}
    /\ sent' = {m \in sent : m[1] # p}
    /\ UNCHANGED <<memoryVars, disk, fetchVars, queue, schedVars, canceler>>

Init ==
    /\ memory = [k \in Key |-> "absent"]
    /\ waiters = [k \in Key |-> 0]
    /\ disk = {}
    /\ pc = [f \in Fetcher |-> "idle"]
    /\ arg = [f \in Fetcher |-> CHOOSE k \in Key : TRUE]
    /\ via = [f \in Fetcher |-> NoPeer]
    /\ input = [k \in Key |-> 0]
    /\ queue = <<>>
    /\ pending = [k \in {} |-> [peers |-> {}, due |-> FALSE]]
    /\ worker = "loop"
    /\ canceler = FALSE
    /\ active = {}
    /\ sent = {}

Fetch(f) ==
    \/ \E k \in Key, p \in PeerOpt :
          FetchFound(f, k, p) \/ FetchPending(f, k, p) \/ FetchAbsent(f, k, p)
    \/ DiskAnswers(f)
    \/ FetchResumesHit(f)
    \/ FetchResumesMiss(f)
    \/ FetchTimeout(f)

Table(k) ==
    \/ \E p \in Peer, ok \in BOOLEAN : Notify(p, k, ok)
    \/ Inject(k)
    \/ ClearOrCancel(k)
    \/ Store(k)

Scheduler ==
    \/ ProcessEvent
    \/ TimeoutBegins
    \/ TimeoutSends
    \/ TimeoutRaises
    \/ SchedulerTerminates

Next ==
    \/ \E f \in Fetcher : Fetch(f)
    \/ \E k \in Key : Table(k) \/ Elapse(k)
    \/ Scheduler
    \/ Shutdown
    \/ \E p \in Peer : Connect(p) \/ Disconnect(p)

Spec == Init /\ [][Next]_vars

(***************************************************************************)
(* Fairness: the Lwt main loop runs every ready thread and every expired   *)
(* timer.  Of the peers it is assumed that a key that is asked for again   *)
(* and again is answered with its value in the end.                        *)
(***************************************************************************)
Answer(k) == \E p \in Peer : <<p, k>> \in sent /\ Notify(p, k, TRUE)

Fairness ==
    /\ WF_vars(Scheduler)
    /\ \A f \in Fetcher : WF_vars(DiskAnswers(f) \/ FetchResumesHit(f)
                                  \/ FetchResumesMiss(f))
    /\ \A k \in Key : WF_vars(Elapse(k)) /\ SF_vars(Answer(k))

LiveSpec == Spec /\ Fairness

(***************************************************************************)
(* Properties                                                              *)
(***************************************************************************)
\* The memory table, the fetches in progress and the scheduler have their types;
\* in particular the scheduler only ever names peers, never an absent one.
TypeOK ==
    /\ memory \in [Key -> {"absent", "pending", "found"}]
    /\ waiters \in [Key -> Nat]
    /\ disk \in SUBSET Key
    /\ pc \in [Fetcher -> Returned \cup {"reading", "hit", "miss", "waiting"}]
    /\ arg \in [Fetcher -> Key]
    /\ via \in [Fetcher -> PeerOpt]
    /\ input \in [Key -> 0..2]
    /\ queue \in Seq(Event)
    /\ DOMAIN pending \in SUBSET Key
    /\ pending \in [DOMAIN pending -> Status]
    /\ worker \in {"loop", "timeout", "terminated", "dead"}
    /\ canceler \in BOOLEAN
    /\ active \in SUBSET Peer
    /\ sent \in SUBSET (Peer \X Key)

\* The [waiters] counter of an entry is the number of fetches that wait on it,
\* whatever the order in which fetches join, time out, are served or canceled;
\* and an entry is pending exactly while somebody waits for it.  A counter off
\* by one would withdraw a request others still wait for, or never withdraw it.
WaitersExact ==
    \A k \in Key :
        /\ waiters[k] = Cardinality(WaitingOn(k))
        /\ memory[k] = "pending" <=> waiters[k] > 0

\* Once a scheduler with the keys K in its table has treated the events q, k
\* is in the table.
Concerns(e, k) == e.key = k /\ e.kind # "informative"
ScheduledAfter(q, K, k) ==
    \/ k \in K /\ \A i \in 1..Len(q) : ~Concerns(q[i], k)
    \/ \E i \in 1..Len(q) :
          /\ Concerns(q[i], k) /\ q[i].kind = "request"
          /\ \A j \in (i + 1)..Len(q) : ~Concerns(q[j], k)

Scheduled(k) == ScheduledAfter(queue, DOMAIN pending, k)

\* The scheduler lags behind the table by the events in its pipe, but once it
\* has treated them it asks peers only for keys some fetch is waiting for.
NoOrphanRequest == \A k \in Key : Scheduled(k) => memory[k] = "pending"

\* A request fetches still wait for leaves the schedule only because all the
\* peers it names have left, never through a late event of an earlier fetch of
\* the same key (a notify or a cancellation overtaken by a new request).
GivenUpOnlyWhenDeserted ==
    [][\A k \in Key :
          (Scheduled(k) /\ ~Scheduled(k)' /\ memory'[k] = "pending")
             => (PeersOf(k) # {} /\ PeersOf(k) \cap active = {})]_vars

\* A fetch whose request is scheduled returns, unless the request is given up
\* or the scheduler stops: the exchange of events between table and scheduler
\* and the retries lose no fetch.
FetchReturns ==
    \A f \in Fetcher, k \in Key :
        (Waiting(f, k) /\ Scheduled(k))
           ~> (~Waiting(f, k) \/ ~Scheduled(k) \/ worker \in {"terminated", "dead"})

\* What requester.mli says of fetch: a request is re-sent until the requester
\* is notified.  So a key that is waited for stays with a running scheduler.
\* The code does not ensure it: the scheduler drops a key whose peers have left.
PendingIsScheduled ==
    \A k \in Key :
        (memory[k] = "pending" /\ worker \in {"loop", "timeout"}) => Scheduled(k)

\* The scheduler thread ends only when it is told to.  The code does not ensure
\* it: see TimeoutRaises.
SchedulerSurvives == worker # "dead"
=============================================================================
