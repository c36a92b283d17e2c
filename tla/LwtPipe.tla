------------------------------- MODULE LwtPipe -------------------------------
(***************************************************************************)
(* The bounded queue Lwt_pipe (src/lib_stdlib/lwt_pipe.ml) through which   *)
(* the threads of the node exchange messages.                              *)
(*                                                                         *)
(* A reader that finds the queue empty sleeps on the promise push_waiter,  *)
(* a writer that finds no room on pop_waiter; all sleepers of a kind share *)
(* one promise.  Resolving it (Lwt.wakeup_later) makes them runnable; they *)
(* run later, one by one, and start over.  Sleepers can be canceled by     *)
(* whoever waits for them (Error_monad.protect with a canceler).           *)
(***************************************************************************)
EXTENDS Integers, Sequences

CONSTANTS
    Writer,       \* threads that push
    Reader,       \* threads that pop, peek or wait for values
    Drainer,      \* threads that wait for the pipe to be empty
    Sizes,        \* what compute_size returns
    MaxSize,      \* max_size
    ReadOp,       \* the read operations in use
    Closable,     \* whether the pipe is ever closed
    MaxPush       \* bound on the number of elements pushed

ASSUME SizesAssumption == Sizes \subseteq Nat /\ Sizes # {}
ASSUME MaxSizeAssumption == MaxSize \in Nat
ASSUME ReadOpAssumption ==
    /\ ReadOp \subseteq {"pop", "pop_with_timeout", "pop_now", "pop_all",
                        "pop_all_now", "values_available"}
    /\ ReadOp # {}
ASSUME ClosableAssumption == Closable \in BOOLEAN
ASSUME MaxPushAssumption == MaxPush \in Nat

VARIABLES
    queue, current_size, closed,  \* the fields of the pipe
    push_waiter, pop_waiter,      \* whether there is such a promise
    wpc, elt,                     \* the writers: state and element to push
    rpc, rop,                     \* the readers: state and operation
    dpc,                          \* the threads in [empty]
    accepted, delivered           \* the elements pushed, and popped, so far

pipe == <<queue, current_size, closed>>
vars == <<pipe, push_waiter, pop_waiter, wpc, elt, rpc, rop, dpc, accepted,
          delivered>>

Element == [by : Writer, size : Sizes]
WriterDone == {"idle", "ok", "full", "closed", "canceled"}
ReaderDone == {"idle", "value", "none", "closed", "canceled"}
Asleep == {"blocked", "woken"}

(***************************************************************************)
(* Waking the sleepers                                                     *)
(***************************************************************************)
Woken(pc) == [t \in DOMAIN pc |-> IF pc[t] = "blocked" THEN "woken" ELSE pc[t]]

\* Faulty variant of NotifyPush: only one of the readers is told.
NotifyPushOne ==
    /\ push_waiter' = FALSE
    /\ IF \E r \in Reader : rpc[r] = "blocked"
       THEN \E r \in Reader : /\ rpc[r] = "blocked"
                              /\ rpc' = [rpc EXCEPT ![r] = "woken"]
       ELSE UNCHANGED rpc

NotifyPush ==
    /\ push_waiter' = FALSE
    /\ rpc' = Woken(rpc)

NotifyPop ==
    /\ pop_waiter' = FALSE
    /\ wpc' = Woken(wpc)

\* Lwt_condition.signal wakes one of the threads waiting in [empty].
SignalEmpty ==
    \/ /\ \A d \in Drainer : dpc[d] # "blocked"
       /\ UNCHANGED dpc
    \/ \E d \in Drainer : /\ dpc[d] = "blocked"
                          /\ dpc' = [dpc EXCEPT ![d] = "woken"]

(***************************************************************************)
(* push and push_now                                                       *)
(***************************************************************************)
\* Faulty variant of Room: the size of the new element is left out.
RoomIgnoresElement(e) == current_size <= MaxSize \/ queue = <<>>

Room(e) == current_size + e.size < MaxSize \/ queue = <<>>

\* The element enters the queue.
Enter(e) ==
    /\ queue' = Append(queue, e)
    /\ current_size' = current_size + e.size
    /\ accepted' = Append(accepted, e)
    /\ NotifyPush
    /\ UNCHANGED <<closed, pop_waiter, rop, dpc, delivered>>

PushClosed(w) ==
    /\ closed
    /\ wpc' = [wpc EXCEPT ![w] = "closed"]
    /\ UNCHANGED <<pipe, push_waiter, pop_waiter, rpc, rop, dpc, accepted,
                   delivered>>

PushEnters(w, e) ==
    /\ ~closed
    /\ Room(e)
    /\ Enter(e)
    /\ wpc' = [wpc EXCEPT ![w] = "ok"]

PushSleeps(w, e) ==
    /\ ~closed
    /\ ~Room(e)
    /\ wpc' = [wpc EXCEPT ![w] = "blocked"]
    /\ pop_waiter' = TRUE
    /\ UNCHANGED <<pipe, push_waiter, rpc, rop, dpc, accepted, delivered>>

Push(w, e) ==
    /\ wpc[w] \in WriterDone
    /\ Len(accepted) < MaxPush
    /\ elt' = [elt EXCEPT ![w] = e]
    /\ PushClosed(w) \/ PushEnters(w, e) \/ PushSleeps(w, e)

PushResumes(w) ==
    /\ wpc[w] = "woken"
    /\ UNCHANGED elt
    /\ PushClosed(w) \/ PushEnters(w, elt[w]) \/ PushSleeps(w, elt[w])

PushNow(w, e) ==
    /\ wpc[w] \in WriterDone
    /\ Len(accepted) < MaxPush
    /\ elt' = [elt EXCEPT ![w] = e]
    /\ \/ PushClosed(w)
       \/ PushEnters(w, e)
       \/ /\ ~closed
          /\ ~Room(e)
          /\ wpc' = [wpc EXCEPT ![w] = "full"]
          /\ UNCHANGED <<pipe, push_waiter, pop_waiter, rpc, rop, dpc,
                         accepted, delivered>>

PushCanceled(w) ==
    /\ wpc[w] \in Asleep
    /\ wpc' = [wpc EXCEPT ![w] = "canceled"]
    /\ UNCHANGED <<pipe, push_waiter, pop_waiter, elt, rpc, rop, dpc, accepted,
                   delivered>>

(***************************************************************************)
(* The read operations                                                     *)
(***************************************************************************)
PopOne(r) ==
    /\ queue # <<>>
    /\ queue' = Tail(queue)
    /\ current_size' = current_size - Head(queue).size
    /\ delivered' = Append(delivered, Head(queue))
    /\ NotifyPop
    /\ IF Len(queue) = 1 THEN SignalEmpty ELSE UNCHANGED dpc
    /\ rpc' = [rpc EXCEPT ![r] = "value"]
    /\ UNCHANGED <<closed, push_waiter>>

\* Faulty variants of PopAll: the accumulated list is not reversed, the size
\* is not updated, the list is taken for an element.
PopAllReversed(r) ==
    /\ queue # <<>>
    /\ queue' = <<>>
    /\ current_size' = 0
    /\ delivered' = delivered \o [i \in 1..Len(queue) |-> queue[Len(queue) + 1 - i]]
    /\ NotifyPop
    /\ SignalEmpty
    /\ rpc' = [rpc EXCEPT ![r] = "value"]
    /\ UNCHANGED <<closed, push_waiter>>

PopAllKeepsSize(r) ==
    /\ queue # <<>>
    /\ queue' = <<>>
    /\ delivered' = delivered \o queue
    /\ NotifyPop
    /\ SignalEmpty
    /\ rpc' = [rpc EXCEPT ![r] = "value"]
    /\ UNCHANGED <<closed, current_size, push_waiter>>

\* pop_all pops until pop_now has nothing left, and pop_now raises Closed on
\* a closed pipe it finds empty: what was popped before is then lost.
PopAll(r) ==
    /\ queue # <<>>
    /\ queue' = <<>>
    /\ current_size' = 0
    /\ delivered' = IF closed THEN delivered ELSE delivered \o queue
    /\ NotifyPop
    /\ SignalEmpty
    /\ rpc' = [rpc EXCEPT ![r] = IF closed THEN "closed" ELSE "value"]
    /\ UNCHANGED <<closed, push_waiter>>

\* The segment of a read operation, from its start or a restart, that ends
\* with the given result and changes nothing else.
ReadEnds(r, result) ==
    /\ rpc' = [rpc EXCEPT ![r] = result]
    /\ UNCHANGED <<pipe, push_waiter, pop_waiter, wpc, dpc, delivered>>

ReadSleeps(r) ==
    /\ rpc' = [rpc EXCEPT ![r] = "blocked"]
    /\ push_waiter' = TRUE
    /\ UNCHANGED <<pipe, pop_waiter, wpc, dpc, delivered>>

\* The operations that never wait.
Immediate == {"pop_now", "pop_all_now"}

\* One pass through the body of operation op.  expired: the timeout of
\* pop_with_timeout is no longer sleeping.  Lwt.pick cancels it when the
\* reader is woken, so that is so on every pass but the first.
ReadBody(r, op, expired) ==
    \/ op \in {"pop", "pop_with_timeout", "pop_now"} /\ PopOne(r)
    \/ op \in {"pop_all", "pop_all_now"} /\ PopAll(r)
    \/ op = "values_available" /\ queue # <<>> /\ ReadEnds(r, "value")
    \/ /\ queue = <<>>
       /\ \/ op = "pop_with_timeout" /\ expired
          \/ op \in Immediate /\ ~closed
       /\ ReadEnds(r, "none")
    \/ /\ ~(op = "pop_with_timeout" /\ expired)
       /\ queue = <<>>
       /\ closed
       /\ ReadEnds(r, "closed")
    \/ /\ ~(op = "pop_with_timeout" /\ expired)
       /\ op \notin Immediate
       /\ queue = <<>>
       /\ ~closed
       /\ ReadSleeps(r)

Read(r, op) ==
    /\ rpc[r] \in ReaderDone
    /\ rop' = [rop EXCEPT ![r] = op]
    /\ ReadBody(r, op, FALSE)
    /\ UNCHANGED <<elt, accepted>>

ReadResumes(r) ==
    /\ rpc[r] \in {"woken", "expired"}
    /\ ReadBody(r, rop[r], TRUE)
    /\ UNCHANGED <<elt, rop, accepted>>

ReadExpires(r) ==
    /\ rpc[r] = "blocked"
    /\ rop[r] = "pop_with_timeout"
    /\ rpc' = [rpc EXCEPT ![r] = "expired"]
    /\ UNCHANGED <<pipe, push_waiter, pop_waiter, wpc, elt, rop, dpc, accepted,
                   delivered>>

ReadCanceled(r) ==
    /\ rpc[r] \in Asleep \cup {"expired"}
    /\ rpc' = [rpc EXCEPT ![r] = "canceled"]
    /\ UNCHANGED <<pipe, push_waiter, pop_waiter, wpc, elt, rop, dpc, accepted,
                   delivered>>

(***************************************************************************)
(* close and empty                                                         *)
(***************************************************************************)
\* Faulty variant of Close: the writers that sleep are not told.
CloseReadersOnly ==
    /\ Closable
    /\ ~closed
    /\ closed' = TRUE
    /\ NotifyPush
    /\ UNCHANGED <<queue, current_size, pop_waiter, wpc, elt, rop, dpc,
                   accepted, delivered>>

Close ==
    /\ Closable
    /\ ~closed
    /\ closed' = TRUE
    /\ NotifyPush
    /\ NotifyPop
    /\ UNCHANGED <<queue, current_size, elt, rop, dpc, accepted, delivered>>

Empty(d) ==
    /\ dpc[d] \in {"idle", "done", "woken"}
    /\ dpc' = [dpc EXCEPT ![d] = IF queue = <<>> THEN "done" ELSE "blocked"]
    /\ UNCHANGED <<pipe, push_waiter, pop_waiter, wpc, elt, rpc, rop, accepted,
                   delivered>>

Init ==
    /\ queue = <<>> /\ current_size = 0 /\ closed = FALSE
    /\ push_waiter = FALSE /\ pop_waiter = FALSE
    /\ wpc = [w \in Writer |-> "idle"]
    /\ elt = [w \in Writer |-> [by |-> w, size |-> CHOOSE s \in Sizes : TRUE]]
    /\ rpc = [r \in Reader |-> "idle"]
    /\ rop = [r \in Reader |-> CHOOSE op \in ReadOp : TRUE]
    /\ dpc = [d \in Drainer |-> "idle"]
    /\ accepted = <<>> /\ delivered = <<>>

Next ==
    \/ \E w \in Writer : \/ \E s \in Sizes : LET e == [by |-> w, size |-> s] IN
                                Push(w, e) \/ PushNow(w, e)
                         \/ PushResumes(w)
                         \/ PushCanceled(w)
    \/ \E r \in Reader : \/ \E op \in ReadOp : Read(r, op)
                         \/ ReadResumes(r)
                         \/ ReadExpires(r)
                         \/ ReadCanceled(r)
    \/ Close
    \/ \E d \in Drainer : Empty(d)

Spec == Init /\ [][Next]_vars

\* Fairness: a thread whose promise is resolved runs in the end.
LiveSpec ==
    /\ Spec
    /\ \A w \in Writer : WF_vars(PushResumes(w))
    /\ \A r \in Reader : WF_vars(ReadResumes(r))

(***************************************************************************)
(* Properties                                                              *)
(***************************************************************************)
\* The queue holds elements and every thread is at one of the places of its
\* operation.
TypeOK ==
    /\ queue \in Seq(Element)
    /\ current_size \in Int
    /\ closed \in BOOLEAN
    /\ push_waiter \in BOOLEAN
    /\ pop_waiter \in BOOLEAN
    /\ wpc \in [Writer -> WriterDone \cup Asleep]
    /\ elt \in [Writer -> Element]
    /\ rpc \in [Reader -> ReaderDone \cup Asleep \cup {"expired"}]
    /\ rop \in [Reader -> ReadOp]
    /\ dpc \in [Drainer -> {"idle", "blocked", "woken", "done"}]
    /\ accepted \in Seq(Element)
    /\ delivered \in Seq(Element)

\* Nobody sleeps who could go on: a sleeping reader finds the pipe empty, a
\* sleeping writer finds it full, neither sleeps on a closed pipe, and the
\* promise they sleep on is the one the next push, pop or close resolves.
\* Cancellations, timeouts and woken threads that find nothing left in the
\* meantime do not use up a wake-up meant for another thread.
NoLostWakeup ==
    /\ \A r \in Reader :
          rpc[r] = "blocked" => (queue = <<>> /\ ~closed /\ push_waiter)
    /\ \A w \in Writer :
          wpc[w] = "blocked" => (~Room(elt[w]) /\ ~closed /\ pop_waiter)

\* Elements come out in the order they went in, none is lost, none comes out
\* twice, whatever the mix of read operations, cancellations and timeouts.
FifoExactlyOnce == accepted = delivered \o queue

\* What the pipe holds is below max_size, but for a lone element that is
\* larger by itself: it is let in so as not to block its writer for ever.
WithinMaxSize == current_size < MaxSize \/ Len(queue) <= 1

\* Lwt_pipe implements the channel its interface describes.  A writer or a
\* reader that sleeps, is woken in vain and sleeps again is, seen from
\* outside, an operation that is still outstanding.
Abstract == INSTANCE Channel WITH
    sent <- accepted,
    received <- Len(delivered),
    shut <- closed,
    writing <- [w \in Writer |-> IF wpc[w] \in Asleep THEN <<elt[w]>> ELSE <<>>],
    reading <- {r \in Reader : rpc[r] \in Asleep \cup {"expired"}}

ImplementsChannel == Abstract!Spec

\* The counter current_size, which push and pop keep up to date, is the sum
\* of the sizes of the elements in the queue.
SizeExact == current_size = Abstract!Total(queue)
=============================================================================
