---------------------------- MODULE WorkerProofs ----------------------------
(***************************************************************************)
(* Proofs about Worker, for any callers, kinds of buffer and size.         *)
(***************************************************************************)
EXTENDS Worker, SequenceTheorems, TLAPS

\* What is in a sequence after an Append, in a Tail, and in a singleton.
LEMMA InAppend ==
    \A s \in Seq(Caller), c, d \in Caller : In(d, Append(s, c)) <=> (In(d, s) \/ d = c)
<1> TAKE s \in Seq(Caller), c, d \in Caller
<1>1. /\ Len(Append(s, c)) = Len(s) + 1
      /\ \A i \in 1..Len(s) : Append(s, c)[i] = s[i]
      /\ Append(s, c)[Len(s) + 1] = c
      /\ Len(s) \in Nat
  BY AppendProperties
<1>2. ASSUME In(d, s) PROVE In(d, Append(s, c))
  <2>1. PICK i \in 1..Len(s) : s[i] = d
    BY <1>2 DEF In
  <2> QED
    BY <1>1, <2>1 DEF In
<1>3. ASSUME d = c PROVE In(d, Append(s, c))
  BY <1>1, <1>3 DEF In
<1>4. ASSUME In(d, Append(s, c)), d # c PROVE In(d, s)
  <2>1. PICK i \in 1..Len(s) + 1 : Append(s, c)[i] = d
    BY <1>1, <1>4 DEF In
  <2>2. i \in 1..Len(s)
    BY <1>1, <1>4, <2>1
  <2> QED
    BY <1>1, <2>1, <2>2 DEF In
<1> QED
  BY <1>2, <1>3, <1>4

\* What is in a sequence is its head or in its tail.
LEMMA InTail ==
    \A s \in Seq(Caller), d \in Caller :
       s # <<>> => (In(d, s) => (d = Head(s) \/ In(d, Tail(s))))
<1> SUFFICES ASSUME NEW s \in Seq(Caller), NEW d \in Caller, s # <<>>,
                    In(d, s), d # Head(s)
             PROVE  In(d, Tail(s))
  OBVIOUS
<1>1. PICK i \in 1..Len(s) : s[i] = d
  BY DEF In
<1>2. /\ Len(Tail(s)) = Len(s) - 1
      /\ \A j \in 1..Len(Tail(s)) : Tail(s)[j] = s[j + 1]
  BY HeadTailProperties
<1>3. Len(s) \in Nat /\ Head(s) = s[1]
  OBVIOUS
<1>4. i - 1 \in 1..Len(Tail(s))
  BY <1>1, <1>2, <1>3
<1>5. Tail(s)[i - 1] = s[(i - 1) + 1]
  BY <1>2, <1>4
<1> QED
  BY <1>1, <1>3, <1>4, <1>5 DEF In

(***************************************************************************)
(* Type correctness                                                        *)
(***************************************************************************)
\* The initial state is well-typed.
LEMMA TypeInit == Init => TypeOK
<1> SUFFICES ASSUME Init PROVE TypeOK
  OBVIOUS
<1>1. buffer \in Seq(Caller)
  BY DEF Init
<1>2. status \in Statuses /\ pc \in PCs
  BY DEF Init, Statuses, PCs
<1>3. caller \in [Caller -> CallerStates] /\ mode \in [Caller -> Modes]
  BY DEF Init, CallerStates, Modes
<1> QED
  BY Zenon, <1>1, <1>2, <1>3 DEF Init, TypeOK

\* A pass through one of the pushes.
LEMMA TypePush ==
    ASSUME TypeOK, NEW c \in Caller, NEW op \in Modes,
           PushClosed(c, op) \/ PushEnters(c, op) \/ PushFull(c, op)
    PROVE  /\ buffer' \in Seq(Caller)
           /\ caller' \in [Caller -> CallerStates]
<1>1. caller' \in [Caller -> CallerStates]
  BY Zenon DEF TypeOK, PushClosed, PushEnters, PushFull, CallerStates
<1>2. buffer' \in Seq(Caller)
  BY AppendProperties DEF TypeOK, PushClosed, PushEnters, PushFull
<1> QED
  BY <1>1, <1>2

\* Every step keeps the types.
LEMMA TypeNext == TypeOK /\ [Next]_vars => TypeOK'
<1> SUFFICES ASSUME TypeOK, [Next]_vars PROVE TypeOK'
  OBVIOUS
<1>0. /\ {"loop", "on_launch", "unlaunched", "terminated", "pop", "raised", "ended",
          "on_request", "on_completion", "on_error", "on_no_request", "on_close"} \subseteq PCs
      /\ {"Launching", "Running", "Closed"} \subseteq Statuses
  BY DEF PCs, InHandler, Statuses
<1>1. ASSUME NEW c \in Caller, NEW op \in Modes, Push(c, op) PROVE TypeOK'
  BY <1>1, TypePush DEF TypeOK, Push, worker
<1>2. ASSUME NEW c \in Caller, PushResumes(c) PROVE TypeOK'
  <2>1. mode[c] \in Modes
    BY DEF TypeOK
  <2> QED
    BY <1>2, <2>1, TypePush DEF TypeOK, PushResumes, worker
<1>3. ASSUME NEW c \in Caller, Put(c) PROVE TypeOK'
  <2>1. buffer' \in Seq(Caller)
    <3>1. Merge(c) \in {<<c>>, buffer}
      BY Zenon DEF Merge
    <3>2. <<c>> \in Seq(Caller)
      OBVIOUS
    <3> QED
      BY Zenon, <1>3, <3>1, <3>2 DEF TypeOK, Put
  <2>2. caller' \in [Caller -> CallerStates]
    BY <1>3 DEF TypeOK, Put, CallerStates
  <2>3. mode' \in [Caller -> Modes]
    BY <1>3 DEF TypeOK, Put, Modes
  <2> QED
    BY <1>3, <2>1, <2>2, <2>3 DEF TypeOK, Put, worker
<1>4. CASE Cancel
  BY <1>4 DEF TypeOK, Cancel, worker
<1>5. CASE Launch \/ Launched \/ LaunchFails
  BY Zenon, <1>0, <1>5 DEF TypeOK, Launch, Launched, LaunchFails
<1>6. ASSUME Treat PROVE TypeOK'
  <2>1. buffer' \in Seq(Caller) /\ current' \subseteq Caller
    BY <1>6, HeadTailProperties DEF TypeOK, Treat
  <2> QED
    BY <1>0, <1>6, <2>1 DEF TypeOK, Treat
<1>7. CASE LoopCanceled
  <2>1. buffer' \in Seq(Caller) /\ lost' \subseteq Caller
    BY <1>7, HeadTailProperties DEF TypeOK, LoopCanceled
  <2> QED
    BY <1>0, <1>7, <2>1 DEF TypeOK, LoopCanceled
<1>8. CASE LoopSleeps \/ PopCanceled \/ PopExpires \/ NoRequestReturns \/ CompletionReturns
  BY <1>0, <1>8
     DEF TypeOK, LoopSleeps, PopCanceled, PopExpires, NoRequestReturns,
                    CompletionReturns
<1>9. ASSUME Answer PROVE caller' \in [Caller -> CallerStates]
  BY <1>9 DEF TypeOK, Answer, CallerStates
<1>10. CASE RequestSucceeds \/ RequestFails \/ RequestCanceled
  BY <1>0, <1>9, <1>10
     DEF TypeOK, RequestSucceeds, RequestFails, RequestCanceled
<1>11. CASE HandlerRaises \/ ErrorReturns
  BY Zenon, <1>0, <1>11 DEF TypeOK, HandlerRaises, ErrorReturns
<1>12. CASE DoClose
  <2>1. caller' \in [Caller -> CallerStates]
    BY <1>12 DEF TypeOK, DoClose, Told, CallerStates
  <2>2. buffer' \in Seq(Caller)
    BY <1>12 DEF DoClose, Emptied, TypeOK
  <2> QED
    BY Zenon, <1>0, <1>12, <2>1, <2>2 DEF TypeOK, DoClose
<1>13. CASE CloseReturns
  BY Zenon, <1>0, <1>13 DEF TypeOK, CloseReturns
<1>14. CASE UNCHANGED vars
  BY <1>14 DEF TypeOK, vars, worker
<1> QED
  BY <1>1, <1>2, <1>3, <1>4, <1>5, <1>6, <1>7, <1>8, <1>10, <1>11, <1>12,
     <1>13, <1>14
     DEF Next, Loop, LoopTreats, PopResumes

\* The fields of a worker and the states of its callers keep their types.
THEOREM TypeCorrect == Spec => []TypeOK
BY TypeInit, TypeNext, PTL DEF Spec

(***************************************************************************)
(* The life of a worker: where the loop is tells status, state and buffer. *)
(***************************************************************************)
Alive == {"on_request", "on_completion", "on_error", "on_no_request", "loop", "pop",
          "terminated"}

LifeInv ==
    /\ pc \in Alive => status = "Running" /\ state /\ registered
    /\ pc = "on_launch" => registered
    /\ pc = "on_close" => state
    /\ pc \in {"on_close", "ended"} => closed
    /\ closed => pc \in {"on_close", "ended", "raised"}
    /\ closed => (kind # "Dropbox" => buffer = <<>>)
    /\ lost # {} => pc \in {"terminated", "on_close", "ended", "raised"}
    /\ status = "none" => pc = "none"

\* Nothing has happened yet.
LEMMA LifeInit == Init => LifeInv
BY DEF Init, LifeInv, Alive

\* Every step.
LEMMA LifeNext == TypeOK /\ LifeInv /\ [Next]_vars => LifeInv'
<1> SUFFICES ASSUME TypeOK, LifeInv, [Next]_vars PROVE LifeInv'
  OBVIOUS
<1>1. ASSUME NEW c \in Caller, NEW op \in Modes,
             PushClosed(c, op) \/ PushEnters(c, op) \/ PushFull(c, op),
             UNCHANGED <<kind, closed, canceler, worker>>
      PROVE  LifeInv'
  BY <1>1 DEF LifeInv, PushClosed, PushEnters, PushFull, worker
<1>2. ASSUME NEW c \in Caller, (\E op \in Modes : Push(c, op)) \/ PushResumes(c)
      PROVE  LifeInv'
  <2>1. mode[c] \in Modes
    BY DEF TypeOK
  <2> QED
    BY <1>1, <1>2, <2>1 DEF Push, PushResumes
<1>3. ASSUME NEW c \in Caller, Put(c) PROVE LifeInv'
  BY <1>3 DEF LifeInv, Put, worker
<1>4. CASE Cancel
  BY <1>4 DEF LifeInv, Cancel, worker
<1>5. CASE Launch \/ Launched \/ LaunchFails
  BY <1>5 DEF LifeInv, Launch, Launched, LaunchFails, Alive
<1>6. CASE LoopTreats \/ PopResumes
  BY <1>6 DEF LifeInv, LoopTreats, PopResumes, Treat, Alive
<1>7. CASE LoopCanceled
  BY <1>7 DEF LifeInv, LoopCanceled, Alive
<1>8. CASE LoopSleeps \/ PopCanceled \/ PopExpires \/ NoRequestReturns \/ CompletionReturns
  BY <1>8 DEF LifeInv, LoopSleeps, PopCanceled, PopExpires, NoRequestReturns,
              CompletionReturns, Alive
<1>9. CASE RequestSucceeds \/ RequestFails \/ RequestCanceled
  BY <1>9 DEF LifeInv, RequestSucceeds, RequestFails, RequestCanceled, Alive
<1>13. CASE HandlerRaises
  BY <1>13 DEF LifeInv, HandlerRaises, InHandler, Alive
<1>12. CASE ErrorReturns
  <2>1. /\ pc = "on_error" /\ (pc' = "loop" \/ pc' = "terminated")
        /\ UNCHANGED <<buffer, closed, status, state, registered, lost>>
    BY <1>12 DEF ErrorReturns
  <2> QED
    BY <2>1 DEF LifeInv, Alive
<1>10. CASE DoClose \/ CloseReturns
  BY <1>10 DEF LifeInv, DoClose, Emptied, CloseReturns, Alive
<1>11. CASE UNCHANGED vars
  BY <1>11 DEF LifeInv, vars, worker
<1> QED
  BY <1>2, <1>3, <1>4, <1>5, <1>6, <1>7, <1>8, <1>9, <1>10, <1>11, <1>12, <1>13
     DEF Next, Loop

\* Where the loop is, so is the rest of the worker.
LEMMA LifeCorrect == Spec => []LifeInv
BY TypeCorrect, LifeInit, LifeNext, PTL DEF Spec

\* Handlers run on a worker that has its state, and do_close finds the status
\* it asserts.
THEOREM HandlersAreSafe == Spec => []HandlersFindState
<1>1. LifeInv => HandlersFindState
  BY DEF LifeInv, HandlersFindState, InHandler, Alive
<1> QED
  BY <1>1, LifeCorrect, PTL

(***************************************************************************)
(* Nobody is forgotten.  Nobody waits for a request in a dropbox, whose    *)
(* contents are replaced.                                                  *)
(***************************************************************************)
ServeInv ==
    /\ NoneForgotten
    /\ kind = "Dropbox" => \A c \in Caller : caller[c] \notin {"pushing", "waiting"}
    /\ closed => \A c \in Caller : caller[c] = "waiting" => c \in lost

\* Nobody waits yet.
LEMMA ServeInit == Init => ServeInv
BY DEF Init, ServeInv, NoneForgotten

\* A pass through one of the pushes.
LEMMA ServePush ==
    ASSUME TypeOK, LifeInv, ServeInv, NEW c \in Caller, NEW op \in Modes,
           kind # "Dropbox",
           PushClosed(c, op) \/ PushEnters(c, op) \/ PushFull(c, op),
           UNCHANGED <<kind, closed, worker>>
    PROVE  ServeInv'
<1>1. \A d \in Caller : d # c => caller'[d] = caller[d]
  BY DEF TypeOK, PushClosed, PushEnters, PushFull
<1>2. CASE PushClosed(c, op) \/ PushFull(c, op)
  <2>1. caller'[c] # "waiting"
    BY <1>2 DEF TypeOK, PushClosed, PushFull
  <2>2. UNCHANGED <<kind, buffer, closed, pc, current, lost>>
    BY <1>2 DEF PushClosed, PushFull, worker
  <2> QED
    BY <1>1, <2>1, <2>2 DEF ServeInv, NoneForgotten, InBuffer
<1>3. CASE PushEnters(c, op)
  <2>1. ~closed /\ UNCHANGED <<kind, closed, pc, current, lost>>
    BY <1>3 DEF PushEnters, worker
  <2>2. \A d \in Caller : InBuffer(d)' <=> (InBuffer(d) \/ d = c)
    <3>1. buffer' = Append(buffer, c) /\ buffer \in Seq(Caller)
      BY <1>3 DEF PushEnters, TypeOK
    <3> QED
      BY <3>1, InAppend, Zenon DEF InBuffer
  <2> QED
    BY <1>1, <2>1, <2>2 DEF ServeInv, NoneForgotten
<1> QED
  BY <1>2, <1>3

\* The first request of the buffer becomes the current one.
LEMMA ServeTreat ==
    ASSUME TypeOK, LifeInv, ServeInv, Treat, pc \in {"loop", "pop"}
    PROVE  ServeInv'
<1>1. /\ buffer # <<>> /\ buffer' = Tail(buffer) /\ buffer \in Seq(Caller)
      /\ current' = {Head(buffer)} /\ pc' = "on_request"
      /\ UNCHANGED <<kind, closed, caller, lost>>
  BY DEF Treat, TypeOK
<1>2. \A d \in Caller : InBuffer(d) => (d = Head(buffer) \/ InBuffer(d)')
  BY <1>1, InTail, Zenon DEF InBuffer
<1> QED
  BY <1>1, <1>2 DEF ServeInv, NoneForgotten

\* The handler's result goes to the caller of the current request.
LEMMA ServeAnswer ==
    ASSUME TypeOK, ServeInv, Answer, UNCHANGED <<kind, buffer, closed, lost>>
    PROVE  ServeInv'
<1>1. \A d \in Caller :
         /\ caller'[d] = "waiting" => (caller[d] = "waiting" /\ d \notin current)
         /\ caller'[d] = "pushing" => caller[d] = "pushing"
  BY DEF TypeOK, Answer
<1>2. \A d \in Caller : InBuffer(d)' <=> InBuffer(d)
  BY DEF InBuffer
<1> QED
  BY <1>1, <1>2 DEF ServeInv, NoneForgotten

\* Every step.
LEMMA ServeNext == TypeOK /\ LifeInv /\ ServeInv /\ [Next]_vars => ServeInv'
<1> SUFFICES ASSUME TypeOK, LifeInv, ServeInv, [Next]_vars PROVE ServeInv'
  OBVIOUS
<1>1. ASSUME NEW c \in Caller, NEW op \in Modes, Push(c, op) PROVE ServeInv'
  BY <1>1, ServePush DEF Push
<1>3. ASSUME NEW c \in Caller, Put(c) PROVE ServeInv'
  <2>1. /\ \A d \in Caller : d # c => caller'[d] = caller[d]
        /\ caller'[c] \notin {"pushing", "waiting"}
    BY <1>3 DEF TypeOK, Put
  <2>2. kind = "Dropbox" /\ UNCHANGED <<kind, closed, lost>>
    BY <1>3 DEF Put, worker
  <2> QED
    BY <2>1, <2>2 DEF ServeInv, NoneForgotten
<1>4. ASSUME UNCHANGED <<kind, buffer, closed, caller, lost, current>>,
             pc \in {"on_request", "raised"} => pc' \in {"on_request", "raised"}
      PROVE  ServeInv'
  BY <1>4 DEF ServeInv, NoneForgotten, InBuffer
<1>5. CASE Cancel \/ Launch \/ Launched \/ LaunchFails \/ LoopSleeps \/ PopCanceled
           \/ PopExpires \/ NoRequestReturns \/ CompletionReturns \/ HandlerRaises
           \/ ErrorReturns \/ CloseReturns \/ UNCHANGED vars
  <2>1. UNCHANGED <<kind, buffer, closed, caller, lost, current>>
    BY Zenon, <1>5
       DEF Cancel, Launch, Launched, LaunchFails, LoopSleeps, PopCanceled,
                PopExpires, NoRequestReturns, CompletionReturns, HandlerRaises,
                ErrorReturns, CloseReturns, vars, worker
  <2>2. pc \in {"on_request", "raised"} => pc' \in {"on_request", "raised"}
    BY Zenon, <1>5
       DEF LifeInv, Cancel, Launch, Launched, LaunchFails, LoopSleeps, PopCanceled,
                PopExpires, NoRequestReturns, CompletionReturns, HandlerRaises,
                ErrorReturns, CloseReturns, vars, worker
  <2> QED
    BY <1>4, <2>1, <2>2
<1>6. CASE LoopTreats \/ PopResumes
  BY <1>6, ServeTreat DEF LoopTreats, PopResumes
<1>7. CASE LoopCanceled
  <2>1. UNCHANGED <<kind, closed, caller, current>> /\ pc = "loop" /\ lost = {} /\ ~closed
    BY <1>7 DEF LoopCanceled, LifeInv
  <2>2. CASE buffer = <<>>
    BY <1>7, <2>1, <2>2 DEF LoopCanceled, ServeInv, NoneForgotten, InBuffer
  <2>3. CASE buffer # <<>>
    <3>1. /\ buffer' = Tail(buffer) /\ buffer \in Seq(Caller)
          /\ lost' = {Head(buffer)}
      BY <1>7, <2>1, <2>3 DEF LoopCanceled, TypeOK
    <3>2. \A d \in Caller : InBuffer(d) => (d = Head(buffer) \/ InBuffer(d)')
      BY <2>3, <3>1, InTail, Zenon DEF InBuffer
    <3> QED
      BY <2>1, <3>1, <3>2 DEF ServeInv, NoneForgotten
  <2> QED
    BY <2>2, <2>3
<1>8. CASE RequestSucceeds \/ RequestFails \/ RequestCanceled
  BY <1>8, ServeAnswer DEF RequestSucceeds, RequestFails, RequestCanceled
<1>9. CASE DoClose
  <2>1. pc = "terminated" /\ caller' = Told /\ UNCHANGED <<kind, current, lost>>
    BY <1>9 DEF DoClose
  <2>2. \A d \in Caller :
           /\ caller'[d] = "waiting" => (caller[d] = "waiting" /\ ~InBuffer(d))
           /\ caller'[d] = "pushing" => caller[d] = "pushing"
    BY <2>1 DEF Told
  <2>3. \A d \in Caller : caller'[d] = "waiting" => d \in lost
    BY <2>1, <2>2 DEF ServeInv, NoneForgotten
  <2> QED
    BY <2>1, <2>2, <2>3 DEF ServeInv, NoneForgotten
<1>10. ASSUME NEW c \in Caller, PushResumes(c) PROVE ServeInv'
  <2>1. mode[c] \in Modes /\ kind # "Dropbox"
    BY <1>10 DEF TypeOK, PushResumes, ServeInv
  <2> QED
    BY <1>10, <2>1, ServePush DEF PushResumes
<1> QED
  BY <1>1, <1>3, <1>5, <1>6, <1>7, <1>8, <1>9, <1>10 DEF Next, Loop

\* No caller that waits is forgotten, one dropped request apart.
THEOREM CallersAreServed == Spec => []NoneForgotten
<1>1. ServeInv => NoneForgotten
  BY DEF ServeInv
<1> QED
  BY <1>1, TypeCorrect, LifeCorrect, ServeInit, ServeNext, PTL DEF Spec

\* Closing leaves no request in a queue and no caller waiting, that one apart.
THEOREM ClosingTellsAll == Spec => []ClosedLeavesNobody
<1>1. LifeInv /\ ServeInv => ClosedLeavesNobody
  BY DEF LifeInv, ServeInv, ClosedLeavesNobody
<1> QED
  BY <1>1, TypeCorrect, LifeCorrect, ServeInit, ServeNext, PTL DEF Spec

(***************************************************************************)
(* The dropbox holds one request at most, and does not let go of a branch. *)
(***************************************************************************)
BoxInv == kind = "Dropbox" => Len(buffer) <= 1

\* The buffer of a dropbox changes when a request is put, taken or dropped.
LEMMA BoxStep ==
    ASSUME TypeOK, ServeInv, [Next]_vars, kind = "Dropbox"
    PROVE  \/ UNCHANGED buffer
           \/ \E c \in Caller : buffer' = Merge(c)
           \/ /\ buffer # <<>> /\ buffer' = Tail(buffer)
              /\ Head(buffer) \in current' \/ Head(buffer) \in lost'
<1>1. ASSUME NEW c \in Caller, NEW op \in Modes, Push(c, op) PROVE FALSE
  BY <1>1 DEF Push
<1>2. ASSUME NEW c \in Caller, PushResumes(c) PROVE FALSE
  BY <1>2 DEF PushResumes, ServeInv
<1>3. ASSUME NEW c \in Caller, Put(c) PROVE UNCHANGED buffer \/ buffer' = Merge(c)
  BY <1>3, Zenon DEF Put
<1>4. CASE Cancel \/ Launch \/ Launched \/ LaunchFails \/ LoopSleeps \/ PopCanceled
           \/ PopExpires \/ NoRequestReturns \/ CompletionReturns \/ HandlerRaises
           \/ ErrorReturns \/ CloseReturns \/ UNCHANGED vars
           \/ RequestSucceeds \/ RequestFails \/ RequestCanceled
  BY Zenon, <1>4
     DEF Cancel, Launch, Launched, LaunchFails, LoopSleeps, PopCanceled,
         PopExpires, NoRequestReturns, CompletionReturns, HandlerRaises,
         ErrorReturns, CloseReturns, RequestSucceeds, RequestFails, RequestCanceled, vars
<1>5. CASE LoopTreats \/ PopResumes
  BY <1>5 DEF LoopTreats, PopResumes, Treat
<1>6. CASE LoopCanceled
  BY <1>6 DEF LoopCanceled
<1>7. CASE DoClose
  BY <1>7, Zenon DEF DoClose, Emptied
<1> QED
  BY <1>1, <1>2, <1>3, <1>4, <1>5, <1>6, <1>7, Zenon DEF Next, Loop

\* put_request replaces what the box holds, or leaves it.
LEMMA BoxNext == TypeOK /\ ServeInv /\ BoxInv /\ [Next]_vars => BoxInv'
<1> SUFFICES ASSUME TypeOK, ServeInv, BoxInv, [Next]_vars, kind' = "Dropbox"
             PROVE  Len(buffer') <= 1
  BY DEF BoxInv
<1>1. UNCHANGED kind
  BY Zenon DEF Next, Loop, Push, PushResumes, Put, Cancel, Launch, Launched, LaunchFails,
         LoopTreats, PopResumes, Treat, LoopCanceled, LoopSleeps, PopCanceled, PopExpires,
         NoRequestReturns, CompletionReturns, RequestSucceeds, RequestFails,
         RequestCanceled, HandlerRaises, ErrorReturns, DoClose, CloseReturns, vars
<1>2. Len(buffer) <= 1 /\ buffer \in Seq(Caller)
  BY <1>1 DEF BoxInv, TypeOK
<1>3. ASSUME NEW c \in Caller PROVE Len(Merge(c)) <= 1
  <2>1. Len(<<c>>) = 1
    OBVIOUS
  <2> QED
    BY <1>2, <2>1 DEF Merge
<1>4. buffer # <<>> => Len(Tail(buffer)) <= 1
  <2>1. ASSUME buffer # <<>> PROVE Len(Tail(buffer)) = Len(buffer) - 1 /\ Len(buffer) \in Nat
    BY <1>2, <2>1, HeadTailProperties, LenProperties
  <2> QED
    BY <1>2, <2>1
<1> QED
  BY <1>1, <1>2, <1>3, <1>4, BoxStep

\* The advertisement of a branch, once in the dropbox of a peer validator,
\* leaves it only to be treated, for another branch, or dropped by a canceled loop.
THEOREM BranchesAreKept == Spec => BranchKept
<1> DEFINE Kept == \A b \in Branch :
                     (kind = "Dropbox" /\ InBuffer(b) /\ ~(InBuffer(b)')) =>
                        \/ b \in current' \/ b \in lost'
                        \/ (\E d \in Branch : InBuffer(d))'
<1>1. TypeOK /\ ServeInv /\ BoxInv /\ [Next]_vars => [Kept]_vars
  <2> SUFFICES ASSUME TypeOK, ServeInv, BoxInv, [Next]_vars, NEW b \in Branch,
                      kind = "Dropbox", InBuffer(b), ~(InBuffer(b)')
               PROVE  \/ b \in current' \/ b \in lost'
                      \/ (\E d \in Branch : InBuffer(d))'
    BY Zenon
  <2>0. b \in Caller /\ buffer \in Seq(Caller)
    BY BranchAssumption DEF TypeOK
  <2>1. CASE UNCHANGED buffer
    BY <2>1 DEF InBuffer
  <2>2. ASSUME NEW c \in Caller, buffer' = Merge(c) PROVE (\E d \in Branch : InBuffer(d))'
    <3>1. PICK i \in 1 .. Len(buffer) : buffer[i] = b
      BY DEF InBuffer, In
    <3>2. Head(buffer) = b /\ buffer # <<>>
      BY <2>0, <3>1 DEF BoxInv
    <3>3. buffer' # buffer
      BY DEF InBuffer
    <3>4. c \in Branch /\ buffer' = <<c>>
      BY <2>2, <3>2, <3>3 DEF Merge
    <3> QED
      BY <3>4 DEF InBuffer, In
  <2>3. ASSUME buffer # <<>>, buffer' = Tail(buffer),
               Head(buffer) \in current' \/ Head(buffer) \in lost'
        PROVE  b \in current' \/ b \in lost'
    <3>1. b = Head(buffer) \/ In(b, Tail(buffer))
      BY <2>0, <2>3, InTail DEF InBuffer
    <3> QED
      BY <2>3, <3>1 DEF InBuffer
  <2> QED
    BY <2>1, <2>2, <2>3, BoxStep
<1>2. Init => BoxInv
  BY DEF Init, BoxInv
<1>3. Spec => [][Kept]_vars
  BY <1>1, <1>2, BoxNext, TypeCorrect, LifeCorrect, ServeInit, ServeNext, PTL DEF Spec
<1> QED
  BY <1>3 DEF BranchKept

=============================================================================
