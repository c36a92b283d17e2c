-------------------------------- MODULE Worker --------------------------------
(***************************************************************************)
(* A worker of the node (src/lib_workers/worker.ml): a thread that serves, *)
(* one by one, the requests others put in its buffer, from launch to       *)
(* shutdown.  The validators of blocks, chains and peers and the           *)
(* prevalidator are workers.                                               *)
(*                                                                         *)
(* The buffer is a pipe, seen as the Channel of that module, or a dropbox  *)
(* that holds the latest request.  Each caller makes one request.          *)
(***************************************************************************)
EXTENDS Integers, Sequences

CONSTANTS
    Caller,       \* the callers, and the requests they make
    Branch,       \* those whose request is New_branch, not New_head
    Kinds,        \* the kinds of buffer to consider
    Size          \* the size of a bounded queue

ASSUME BranchAssumption == Branch \subseteq Caller
ASSUME KindsAssumption == Kinds \subseteq {"Queue", "Bounded", "Dropbox"}
ASSUME SizeAssumption == Size \in Nat

VARIABLES
    kind,         \* buffer_kind of the worker's table
    buffer,       \* the requests in the buffer, oldest first
    closed,       \* the buffer is closed
    status,       \* status
    state,        \* whether state is Some
    registered,   \* whether the worker is in its table's instances
    canceler,     \* whether the canceler is canceled
    pc,           \* where the loop is
    current,      \* the request being treated, as a set
    caller,       \* what each caller does, or got
    mode,         \* the operation each caller uses
    lost          \* requests taken out of the buffer that nobody will treat

worker == <<status, state, registered, pc, current, lost>>
vars == <<kind, buffer, closed, canceler, worker, caller, mode>>

Modes == {"push_request_and_wait", "push_request", "push_request_now", "put_request"}
Statuses == {"none", "Launching", "Running", "Closed"}
CallerStates == {"idle", "pushing", "waiting", "posted", "answered", "Closed",
                 "raised", "ignored", "refused"}

\* The places where the worker runs one of its handlers.
InHandler == {"on_request", "on_completion", "on_error", "on_no_request", "on_close"}
PCs == InHandler \cup {"none", "on_launch", "loop", "pop", "terminated", "ended",
                       "raised", "unlaunched"}

In(c, s) == \E i \in 1..Len(s) : s[i] = c
InBuffer(c) == In(c, buffer)

Init ==
    /\ kind \in Kinds
    /\ buffer = <<>> /\ closed = FALSE
    /\ status = "none" /\ state = FALSE /\ registered = FALSE /\ canceler = FALSE
    /\ pc = "none"
    /\ current = {} /\ lost = {}
    /\ caller = [c \in Caller |-> "idle"]
    /\ mode = [c \in Caller |-> "push_request"]

(***************************************************************************)
(* The callers                                                             *)
(***************************************************************************)
Room == kind = "Queue" \/ Len(buffer) + 1 < Size \/ buffer = <<>>

\* The buffer is closed.  push_request_and_wait turns that into an error,
\* push_request does not catch the exception; push_request_now looks before
\* it pushes and try_push_request_now, of bounded queues, does not.
PushClosed(c, op) ==
    /\ closed
    /\ caller' = [caller EXCEPT ![c] =
                    IF op = "push_request_and_wait" THEN "Closed"
                    ELSE IF op = "push_request_now" /\ kind = "Queue" THEN "ignored"
                    ELSE "raised"]
    /\ UNCHANGED buffer

PushEnters(c, op) ==
    /\ ~closed
    /\ Room
    /\ buffer' = Append(buffer, c)
    /\ caller' = [caller EXCEPT ![c] =
                    IF op = "push_request_and_wait" THEN "waiting" ELSE "posted"]

PushFull(c, op) ==
    /\ ~closed
    /\ ~Room
    /\ caller' = [caller EXCEPT ![c] =
                    IF op = "push_request_now" THEN "refused" ELSE "pushing"]
    /\ UNCHANGED buffer

Push(c, op) ==
    /\ kind # "Dropbox" /\ op # "put_request"
    /\ status # "none"
    /\ caller[c] = "idle"
    /\ mode' = [mode EXCEPT ![c] = op]
    /\ PushClosed(c, op) \/ PushEnters(c, op) \/ PushFull(c, op)
    /\ UNCHANGED <<kind, closed, canceler, worker>>

\* A push that found no room starts over.
PushResumes(c) ==
    /\ caller[c] = "pushing"
    /\ PushClosed(c, mode[c]) \/ PushEnters(c, mode[c])
    /\ UNCHANGED <<kind, closed, canceler, worker, mode>>

\* Faulty variant of Merge: the box keeps the latest request, whatever it is.
MergeLatest(c) == <<c>>

\* What the table of peer validators makes of a new request and the one in
\* the box: the advertisement of a head does not replace that of a branch.
Merge(c) == IF c \in Branch \/ buffer = <<>> \/ Head(buffer) \notin Branch
            THEN <<c>> ELSE buffer

\* merge needs the state of the worker, so it has been launched.
Put(c) ==
    /\ kind = "Dropbox"
    /\ status \notin {"none", "Launching"}
    /\ caller[c] = "idle"
    /\ mode' = [mode EXCEPT ![c] = "put_request"]
    /\ \/ closed /\ caller' = [caller EXCEPT ![c] = "ignored"] /\ UNCHANGED buffer
       \/ ~closed /\ caller' = [caller EXCEPT ![c] = "posted"] /\ buffer' = Merge(c)
    /\ UNCHANGED <<kind, closed, canceler, worker>>

\* shutdown, trigger_shutdown, or whoever else has the canceler.
Cancel ==
    /\ status # "none"
    /\ ~canceler
    /\ canceler' = TRUE
    /\ UNCHANGED <<kind, buffer, closed, worker, caller, mode>>

(***************************************************************************)
(* launch                                                                  *)
(***************************************************************************)
Launch ==
    /\ status = "none"
    /\ status' = "Launching"
    /\ registered' = TRUE
    /\ pc' = "on_launch"
    /\ UNCHANGED <<kind, buffer, closed, canceler, state, current, lost, caller, mode>>

Launched ==
    /\ pc = "on_launch"
    /\ status' = "Running"
    /\ state' = TRUE
    /\ pc' = "loop"
    /\ UNCHANGED <<kind, buffer, closed, canceler, registered, current, lost,
                   caller, mode>>

LaunchFails ==
    /\ pc = "on_launch"
    /\ pc' = "unlaunched"
    /\ UNCHANGED <<kind, buffer, closed, canceler, status, state, registered,
                   current, lost, caller, mode>>

(***************************************************************************)
(* worker_loop                                                             *)
(***************************************************************************)
Treat ==
    /\ buffer # <<>>
    /\ buffer' = Tail(buffer)
    /\ current' = {Head(buffer)}
    /\ pc' = "on_request"
    /\ UNCHANGED <<kind, closed, canceler, status, state, registered, lost,
                   caller, mode>>

\* protect starts pop and watches the canceler.  When there is a request and
\* the canceler is canceled, both promises are resolved and Lwt.pick takes
\* either of them: the request is treated all the same, or it is gone.
LoopTreats == pc = "loop" /\ Treat

LoopCanceled ==
    /\ pc = "loop"
    /\ canceler
    /\ pc' = "terminated"
    /\ IF buffer = <<>> THEN UNCHANGED <<buffer, lost>>
       ELSE buffer' = Tail(buffer) /\ lost' = lost \cup {Head(buffer)}
    /\ UNCHANGED <<kind, closed, canceler, status, state, registered, current,
                   caller, mode>>

LoopSleeps ==
    /\ pc = "loop"
    /\ ~canceler
    /\ buffer = <<>>
    /\ pc' = "pop"
    /\ UNCHANGED <<kind, buffer, closed, canceler, status, state, registered,
                   current, lost, caller, mode>>

\* A sleeping pop is woken by a request, or canceled: then it takes nothing.
PopResumes == pc = "pop" /\ Treat

PopCanceled ==
    /\ pc = "pop"
    /\ canceler
    /\ pc' = "terminated"
    /\ UNCHANGED <<kind, buffer, closed, canceler, status, state, registered,
                   current, lost, caller, mode>>

\* Only peer validators, which have a dropbox, have a timeout.
PopExpires ==
    /\ pc = "pop"
    /\ kind = "Dropbox"
    /\ buffer = <<>>
    /\ pc' = "on_no_request"
    /\ UNCHANGED <<kind, buffer, closed, canceler, status, state, registered,
                   current, lost, caller, mode>>

CompletionReturns ==
    /\ pc = "on_completion"
    /\ pc' = "loop"
    /\ UNCHANGED <<kind, buffer, closed, canceler, status, state, registered,
                   current, lost, caller, mode>>

\* on_no_request returns, with Canceled perhaps.  No request is current, so
\* with any other error the loop raises (HandlerRaises).
NoRequestReturns ==
    /\ pc = "on_no_request"
    /\ pc' \in {"loop", "terminated"}
    /\ UNCHANGED <<kind, buffer, closed, canceler, status, state, registered,
                   current, lost, caller, mode>>

\* The caller that waits for the request gets whatever the handler returns.
Answer == caller' = [c \in Caller |-> IF c \in current /\ caller[c] = "waiting"
                                      THEN "answered" ELSE caller[c]]

RequestSucceeds ==
    /\ pc = "on_request"
    /\ Answer
    /\ current' = {}
    /\ pc' = "on_completion"
    /\ UNCHANGED <<kind, buffer, closed, canceler, status, state, registered,
                   lost, mode>>

\* Faulty variant of RequestFails: the waiter is woken on success only.
RequestFailsSilently ==
    /\ pc = "on_request"
    /\ current' = {}
    /\ pc' = "on_error"
    /\ UNCHANGED <<kind, buffer, closed, canceler, status, state, registered,
                   lost, caller, mode>>

RequestFails ==
    /\ pc = "on_request"
    /\ Answer
    /\ current' = {}
    /\ pc' = "on_error"
    /\ UNCHANGED <<kind, buffer, closed, canceler, status, state, registered,
                   lost, mode>>

\* The handler returns Canceled, or that a buffer was closed under it.
RequestCanceled ==
    /\ pc = "on_request"
    /\ Answer
    /\ pc' = "terminated"
    /\ UNCHANGED <<kind, buffer, closed, canceler, status, state, registered,
                   current, lost, mode>>

\* The exception of a handler leaves worker_loop.  Lwt_utils.worker reports it
\* and cancels the canceler; nothing is closed, or no more than there was.
HandlerRaises ==
    /\ pc \in InHandler
    /\ pc' = "raised"
    /\ canceler' = TRUE
    /\ UNCHANGED <<kind, buffer, closed, status, state, registered, current,
                   lost, caller, mode>>

\* on_error may trigger the shutdown, whatever it returns.
ErrorReturns ==
    /\ pc = "on_error"
    /\ canceler' \in {canceler, TRUE}
    /\ pc' \in {"loop", "terminated"}
    /\ UNCHANGED <<kind, buffer, closed, status, state, registered, current,
                   lost, caller, mode>>

\* do_close, up to on_close; the canceler has no hooks to wait for.  The
\* callers whose requests are in the buffer are told.
Told == [c \in Caller |-> IF caller[c] = "waiting" /\ InBuffer(c)
                          THEN "Closed" ELSE caller[c]]

\* A queue is emptied; a dropbox is only looked at.
Emptied == IF kind = "Dropbox" THEN buffer ELSE <<>>

\* Faulty variants of DoClose: the buffer is closed without waking those
\* whose requests it holds; it is not closed; the state is reset too early;
\* the worker stays in the table.
DoCloseUntold ==
    /\ pc = "terminated"
    /\ closed' = TRUE /\ buffer' = Emptied
    /\ canceler' = TRUE
    /\ status' = "Closed"
    /\ registered' = FALSE
    /\ pc' = "on_close"
    /\ UNCHANGED <<kind, state, current, lost, caller, mode>>

DoCloseOpen ==
    /\ pc = "terminated"
    /\ buffer' = Emptied /\ caller' = Told
    /\ canceler' = TRUE
    /\ status' = "Closed"
    /\ registered' = FALSE
    /\ pc' = "on_close"
    /\ UNCHANGED <<kind, closed, state, current, lost, mode>>

DoCloseResets ==
    /\ pc = "terminated"
    /\ closed' = TRUE /\ buffer' = Emptied /\ caller' = Told
    /\ canceler' = TRUE
    /\ status' = "Closed"
    /\ registered' = FALSE
    /\ state' = FALSE
    /\ pc' = "on_close"
    /\ UNCHANGED <<kind, current, lost, mode>>

DoCloseRegistered ==
    /\ pc = "terminated"
    /\ closed' = TRUE /\ buffer' = Emptied /\ caller' = Told
    /\ canceler' = TRUE
    /\ status' = "Closed"
    /\ pc' = "on_close"
    /\ UNCHANGED <<kind, state, registered, current, lost, mode>>

DoClose ==
    /\ pc = "terminated"
    /\ closed' = TRUE /\ buffer' = Emptied /\ caller' = Told
    /\ canceler' = TRUE
    /\ status' = "Closed"
    /\ registered' = FALSE
    /\ pc' = "on_close"
    /\ UNCHANGED <<kind, state, current, lost, mode>>

CloseReturns ==
    /\ pc = "on_close"
    /\ state' = FALSE
    /\ pc' = "ended"
    /\ UNCHANGED <<kind, buffer, closed, canceler, status, registered, current,
                   lost, caller, mode>>

Loop ==
    \/ LoopTreats \/ LoopCanceled \/ LoopSleeps
    \/ PopResumes \/ PopCanceled \/ PopExpires
    \/ NoRequestReturns \/ CompletionReturns
    \/ RequestSucceeds \/ RequestFails \/ RequestCanceled \/ HandlerRaises
    \/ ErrorReturns
    \/ DoClose \/ CloseReturns

Next ==
    \/ \E c \in Caller : (\E op \in Modes : Push(c, op)) \/ PushResumes(c) \/ Put(c)
    \/ Cancel
    \/ Launch \/ Launched \/ LaunchFails
    \/ Loop

Spec == Init /\ [][Next]_vars

\* Fairness: the loop is scheduled and its handlers return; so is a push
\* that was woken.
LiveSpec ==
    /\ Spec
    /\ WF_vars(Loop) /\ WF_vars(Launched \/ LaunchFails)
    /\ \A c \in Caller : WF_vars(PushResumes(c))

(***************************************************************************)
(* Properties                                                              *)
(***************************************************************************)
\* The worker, its buffer and its callers have their types.
TypeOK ==
    /\ kind \in Kinds
    /\ buffer \in Seq(Caller)
    /\ closed \in BOOLEAN
    /\ status \in Statuses
    /\ state \in BOOLEAN
    /\ registered \in BOOLEAN
    /\ canceler \in BOOLEAN
    /\ pc \in PCs
    /\ current \subseteq Caller
    /\ caller \in [Caller -> CallerStates]
    /\ mode \in [Caller -> Modes]
    /\ lost \subseteq Caller

\* A caller of push_request_and_wait that waits is never forgotten: its
\* request is in the buffer or being treated.  The one exception is a request
\* that a canceled loop took out of the buffer and dropped; that happens to
\* one request at most, as the loop ends there.
NoneForgotten ==
    /\ \A c \in Caller : caller[c] = "waiting" =>
          \/ InBuffer(c)
          \/ c \in current /\ pc \in {"on_request", "raised"}
          \/ c \in lost
    /\ \A c, d \in lost : c = d

\* A closed queue is empty for good, and closing told everyone whose request
\* was in it; nobody waits for a worker that has ended, but for the caller of
\* the request that a canceled loop dropped.
ClosedLeavesNobody ==
    closed => /\ kind # "Dropbox" => buffer = <<>>
              /\ \A c \in Caller : caller[c] = "waiting" => c \in lost

\* Whenever a handler runs, on_close included, Worker.state finds a state
\* where it would raise otherwise; do_close finds the worker Running as it
\* asserts; and requests are only treated by a worker others can find.
HandlersFindState ==
    /\ pc \in InHandler => state
    /\ pc = "terminated" => status = "Running"
    /\ pc \in InHandler \ {"on_close"} => status = "Running" /\ registered /\ ~closed

\* The advertisement of a branch leaves the dropbox only to be treated, for
\* that of another branch, or dropped by a canceled loop.
BranchKept ==
    [][\A b \in Branch :
          (kind = "Dropbox" /\ InBuffer(b) /\ ~(InBuffer(b)')) =>
             \/ b \in current' \/ b \in lost'
             \/ (\E d \in Branch : InBuffer(d))']_vars

\* A caller that waits is answered in the end, unless its request was dropped
\* by a canceled loop, or a handler raised, or the worker was not launched.
Answered ==
    \A c \in Caller :
       (caller[c] = "waiting") ~>
          (caller[c] # "waiting" \/ c \in lost \/ pc \in {"raised", "unlaunched"})

\* A worker that is canceled ends, which is what shutdown waits for, whatever
\* requests are queued or arrive meanwhile; and it can then be launched again under its name.
ShutdownCompletes ==
    (canceler /\ status = "Running") ~>
       (pc = "raised" \/ (pc = "ended" /\ ~registered))

\* What the comment in worker_loop says of a canceler that is canceled while
\* a request is being processed: the next call to protect fails with Canceled.
\* The code does not ensure it: a request that is queued may be taken instead.
CancelStopsLoop ==
    [][(pc = "loop" /\ canceler /\ pc' # pc) => pc' = "terminated"]_vars
=============================================================================
