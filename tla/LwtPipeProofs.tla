---------------------------- MODULE LwtPipeProofs ----------------------------
(***************************************************************************)
(* Proofs about LwtPipe, for any number of writers and readers, any sizes  *)
(* and any bound.                                                          *)
(***************************************************************************)
EXTENDS LwtPipe, SequenceTheorems, NaturalsInduction, WellFoundedInduction, TLAPS

\* The types of the elements a writer may push.
LEMMA ElementType ==
    ASSUME NEW w \in Writer, NEW s \in Sizes
    PROVE  [by |-> w, size |-> s] \in Element
BY DEF Element

\* An element of a queue has a natural size.
LEMMA SizeNat == ASSUME NEW e \in Element PROVE e.size \in Nat
BY Zenon, SizesAssumption DEF Element

\* Appending to both sides of a split sequence keeps it split.
LEMMA SplitAppend ==
    \A d, q \in Seq(Element), e \in Element : Append(d \o q, e) = d \o Append(q, e)
<1> TAKE d, q \in Seq(Element), e \in Element
<1>1. /\ d \o q \in Seq(Element)
      /\ Append(q, e) = q \o <<e>>
      /\ <<e>> \in Seq(Element)
  BY AppendProperties, ConcatProperties
<1>2. Append(d \o q, e) = (d \o q) \o <<e>>
  BY <1>1, AppendProperties
<1> QED
  BY <1>1, <1>2, ConcatAssociative, SMTT(30)

\* Moving the head of the right part to the end of the left part, too.
LEMMA SplitMove ==
    ASSUME NEW S, NEW d \in Seq(S), NEW q \in Seq(S), q # <<>>
    PROVE  Append(d, Head(q)) \o Tail(q) = d \o q
<1>1. /\ Head(q) \in S
      /\ Tail(q) \in Seq(S)
      /\ q = <<Head(q)>> \o Tail(q)
  BY HeadTailProperties
<1>2. Append(d, Head(q)) = d \o <<Head(q)>>
  BY <1>1, AppendProperties
<1>3. <<Head(q)>> \in Seq(S)
  BY <1>1
<1> QED
  BY <1>1, <1>2, <1>3, ConcatAssociative, SMTT(30)

(***************************************************************************)
(* Type correctness                                                        *)
(***************************************************************************)
\* Waking threads keeps the types of their states.
LEMMA WokenType ==
    ASSUME NEW T, NEW S, "woken" \in S, NEW pc \in [T -> S]
    PROVE  Woken(pc) \in [T -> S]
BY DEF Woken

\* The initial state is well-typed.
LEMMA TypeInit == Init => TypeOK
<1> SUFFICES ASSUME Init PROVE TypeOK
  OBVIOUS
<1>1. PICK s0 \in Sizes : s0 = CHOOSE s \in Sizes : TRUE
  BY Zenon, SizesAssumption
<1>2. PICK op0 \in ReadOp : op0 = CHOOSE op \in ReadOp : TRUE
  BY Zenon, ReadOpAssumption
<1>3. elt = [w \in Writer |-> [by |-> w, size |-> s0]]
  BY <1>1, Zenon DEF Init
<1>4. elt \in [Writer -> Element]
  BY <1>3 DEF Element
<1>5. rop = [r \in Reader |-> op0]
  BY <1>2, Zenon DEF Init
<1>6. rop \in [Reader -> ReadOp]
  BY <1>5
<1>7. /\ wpc = [w \in Writer |-> "idle"]
      /\ rpc = [r \in Reader |-> "idle"]
      /\ dpc = [d \in Drainer |-> "idle"]
      /\ queue = <<>> /\ accepted = <<>> /\ delivered = <<>>
      /\ current_size = 0
      /\ closed = FALSE /\ push_waiter = FALSE /\ pop_waiter = FALSE
  BY Zenon DEF Init
<1>8. /\ wpc \in [Writer -> WriterDone \cup Asleep]
      /\ rpc \in [Reader -> ReaderDone \cup Asleep \cup {"expired"}]
      /\ dpc \in [Drainer -> {"idle", "blocked", "woken", "done"}]
  BY <1>7 DEF WriterDone, ReaderDone
<1>9. <<>> \in Seq(Element) /\ 0 \in Int
  OBVIOUS
<1> QED
  BY <1>4, <1>6, <1>7, <1>8, <1>9, Zenon DEF TypeOK

\* A pass through push, by a writer whose element is e, keeps the types.
LEMMA TypePush ==
    ASSUME TypeOK, NEW w \in Writer, NEW e \in Element, elt' \in [Writer -> Element],
           PushClosed(w) \/ PushEnters(w, e) \/ PushSleeps(w, e)
    PROVE  TypeOK'
<1>1. CASE PushClosed(w)
  BY <1>1 DEF TypeOK, PushClosed, pipe, WriterDone
<1>2. CASE PushEnters(w, e)
  <2>1. queue' \in Seq(Element) /\ accepted' \in Seq(Element)
    BY <1>2, AppendProperties DEF TypeOK, PushEnters, Enter
  <2>2. current_size' \in Int
    BY <1>2, SizeNat DEF TypeOK, PushEnters, Enter
  <2>3. rpc' \in [Reader -> ReaderDone \cup Asleep \cup {"expired"}]
    BY Zenon, <1>2, WokenType DEF TypeOK, PushEnters, Enter, NotifyPush, Asleep
  <2> QED
    BY Zenon, <1>2, <2>1, <2>2, <2>3
       DEF TypeOK, PushEnters, Enter, NotifyPush, WriterDone
<1>3. CASE PushSleeps(w, e)
  BY <1>3 DEF TypeOK, PushSleeps, pipe, Asleep
<1> QED
  BY <1>1, <1>2, <1>3

\* Signalling the condition keeps the types of the threads waiting on it.
LEMMA TypeSignal ==
    ASSUME TypeOK, SignalEmpty \/ UNCHANGED dpc
    PROVE  dpc' \in [Drainer -> {"idle", "blocked", "woken", "done"}]
BY Zenon DEF TypeOK, SignalEmpty

\* A pass through a read operation keeps the types.
LEMMA TypeRead ==
    ASSUME TypeOK, NEW r \in Reader, NEW op \in ReadOp, NEW x \in BOOLEAN,
           ReadBody(r, op, x), rop' \in [Reader -> ReadOp],
           UNCHANGED <<elt, accepted>>
    PROVE  TypeOK'
<1>1. CASE PopOne(r)
  <2>1. /\ queue' \in Seq(Element)
        /\ Head(queue) \in Element
    BY <1>1, HeadTailProperties DEF TypeOK, PopOne
  <2>2. delivered' \in Seq(Element)
    BY <1>1, <2>1, AppendProperties DEF TypeOK, PopOne
  <2>3. current_size' \in Int
    BY <1>1, <2>1, SizeNat DEF TypeOK, PopOne
  <2>4. wpc' \in [Writer -> WriterDone \cup Asleep]
    BY Zenon, <1>1, WokenType DEF TypeOK, PopOne, NotifyPop, Asleep
  <2>5. dpc' \in [Drainer -> {"idle", "blocked", "woken", "done"}]
    BY <1>1, TypeSignal DEF PopOne
  <2> QED
    BY Zenon, <1>1, <2>1, <2>2, <2>3, <2>4, <2>5
       DEF TypeOK, PopOne, NotifyPop, ReaderDone
<1>2. CASE PopAll(r)
  <2>1. queue' \in Seq(Element)
    BY <1>2 DEF PopAll
  <2>2. delivered' \in Seq(Element)
    BY <1>2, ConcatProperties DEF TypeOK, PopAll
  <2>3. wpc' \in [Writer -> WriterDone \cup Asleep]
    BY Zenon, <1>2, WokenType DEF TypeOK, PopAll, NotifyPop, Asleep
  <2>4. dpc' \in [Drainer -> {"idle", "blocked", "woken", "done"}]
    BY <1>2, TypeSignal DEF PopAll
  <2>5. PICK res \in ReaderDone : rpc' = [rpc EXCEPT ![r] = res]
    <3>1. (IF closed THEN "closed" ELSE "value") \in ReaderDone
      BY DEF ReaderDone
    <3> QED
      BY <1>2, <3>1, Zenon DEF PopAll
  <2>6. rpc' \in [Reader -> ReaderDone \cup Asleep \cup {"expired"}]
    BY <2>5 DEF TypeOK
  <2>7. current_size' \in Int
    BY <1>2 DEF PopAll
  <2> QED
    BY <1>2, <2>1, <2>2, <2>3, <2>4, <2>6, <2>7, Zenon
       DEF TypeOK, PopAll, NotifyPop
<1>3. CASE \E res \in ReaderDone : ReadEnds(r, res)
  BY <1>3 DEF TypeOK, ReadEnds, pipe
<1>4. CASE ReadSleeps(r)
  BY <1>4 DEF TypeOK, ReadSleeps, pipe, Asleep
<1> QED
  BY <1>1, <1>2, <1>3, <1>4 DEF ReadBody, ReaderDone

\* Every step keeps the types.
LEMMA TypeNext == TypeOK /\ [Next]_vars => TypeOK'
<1> SUFFICES ASSUME TypeOK, [Next]_vars PROVE TypeOK'
  OBVIOUS
<1>1. ASSUME NEW w \in Writer, NEW s \in Sizes, NEW e, e = [by |-> w, size |-> s],
             Push(w, e) \/ PushNow(w, e)
      PROVE  TypeOK'
  <2>1. e \in Element
    BY <1>1, ElementType
  <2>2. elt' \in [Writer -> Element]
    BY <1>1, <2>1 DEF TypeOK, Push, PushNow
  <2>3. CASE PushClosed(w) \/ PushEnters(w, e) \/ PushSleeps(w, e)
    BY <2>1, <2>2, <2>3, TypePush
  <2>4. CASE /\ wpc' = [wpc EXCEPT ![w] = "full"]
             /\ UNCHANGED <<pipe, push_waiter, pop_waiter, rpc, rop, dpc,
                            accepted, delivered>>
    BY <2>2, <2>4 DEF TypeOK, pipe, WriterDone
  <2> QED
    BY <1>1, <2>3, <2>4 DEF Push, PushNow
<1>2. ASSUME NEW w \in Writer, PushResumes(w) PROVE TypeOK'
  <2>1. elt[w] \in Element /\ elt' \in [Writer -> Element]
    BY <1>2 DEF TypeOK, PushResumes
  <2> QED
    BY <1>2, <2>1, TypePush DEF PushResumes
<1>3. ASSUME NEW w \in Writer, PushCanceled(w) PROVE TypeOK'
  BY <1>3 DEF TypeOK, PushCanceled, pipe, WriterDone
<1>4. ASSUME NEW r \in Reader, NEW op \in ReadOp, Read(r, op) PROVE TypeOK'
  <2>1. rop' \in [Reader -> ReadOp]
    BY <1>4 DEF TypeOK, Read
  <2> QED
    BY Zenon, <1>4, <2>1, TypeRead DEF Read
<1>5. ASSUME NEW r \in Reader, ReadResumes(r) PROVE TypeOK'
  <2>1. rop[r] \in ReadOp /\ rop' \in [Reader -> ReadOp]
    BY <1>5 DEF TypeOK, ReadResumes
  <2> QED
    BY Zenon, <1>5, <2>1, TypeRead DEF ReadResumes
<1>6. ASSUME NEW r \in Reader, ReadExpires(r) \/ ReadCanceled(r) PROVE TypeOK'
  BY <1>6 DEF TypeOK, ReadExpires, ReadCanceled, pipe, ReaderDone
<1>7. CASE Close
  <2>1. /\ wpc' \in [Writer -> WriterDone \cup Asleep]
        /\ rpc' \in [Reader -> ReaderDone \cup Asleep \cup {"expired"}]
    BY Zenon, <1>7, WokenType DEF TypeOK, Close, NotifyPush, NotifyPop, Asleep
  <2> QED
    BY Zenon, <1>7, <2>1 DEF TypeOK, Close, NotifyPush, NotifyPop
<1>8. ASSUME NEW d \in Drainer, Empty(d) PROVE TypeOK'
  BY <1>8 DEF TypeOK, Empty, pipe
<1>9. CASE UNCHANGED vars
  BY <1>9 DEF TypeOK, vars, pipe
<1> QED
  BY Zenon, <1>1, <1>2, <1>3, <1>4, <1>5, <1>6, <1>7, <1>8, <1>9 DEF Next

\* The fields of the pipe and the states of its users keep their types.
THEOREM TypeCorrect == Spec => []TypeOK
BY TypeInit, TypeNext, PTL DEF Spec

(***************************************************************************)
(* No lost wake-up, and the bound on the size.  Together with the types    *)
(* they are inductive.                                                     *)
(***************************************************************************)
SafeInv == NoLostWakeup /\ WithinMaxSize

\* Resolving the shared promise leaves nobody asleep on it.
LEMMA WokenWakes ==
    ASSUME NEW T, NEW S, NEW pc \in [T -> S]
    PROVE  \A t \in T : Woken(pc)[t] # "blocked"
BY DEF Woken

\* A writer and an element that stay as they are stay out of room when the
\* queue grows.
LEMMA StillNoRoom ==
    ASSUME TypeOK, TypeOK', NEW v \in Writer, ~Room(elt[v]), elt'[v] = elt[v],
           current_size' >= current_size, queue' # <<>>
    PROVE  ~(Room(elt[v]))'
<1>1. elt[v].size \in Nat
  BY SizeNat DEF TypeOK
<1> QED
  BY <1>1, MaxSizeAssumption, SMTT(30) DEF TypeOK, Room

\* A pass through push, by a writer whose element is e.
LEMMA SafePush ==
    ASSUME TypeOK, TypeOK', SafeInv, NEW w \in Writer, NEW e \in Element,
           elt' = [elt EXCEPT ![w] = e],
           PushClosed(w) \/ PushEnters(w, e) \/ PushSleeps(w, e)
    PROVE  SafeInv'
<1>0. /\ elt'[w] = e
      /\ \A v \in Writer : v # w => elt'[v] = elt[v]
  BY DEF TypeOK
<1>1. CASE PushClosed(w)
  <2>1. wpc'[w] # "blocked" /\ \A v \in Writer : v # w => wpc'[v] = wpc[v]
    BY <1>1 DEF TypeOK, PushClosed
  <2> QED
    BY <1>0, <1>1, <2>1
       DEF SafeInv, NoLostWakeup, WithinMaxSize, PushClosed, Room, pipe
<1>2. CASE PushEnters(w, e)
  <2>1. wpc'[w] # "blocked" /\ \A v \in Writer : v # w => wpc'[v] = wpc[v]
    BY <1>2 DEF TypeOK, PushEnters
  <2>2. \A r \in Reader : rpc'[r] # "blocked"
    BY ZenonT(60), <1>2, WokenWakes DEF TypeOK, PushEnters, Enter, NotifyPush
  <2>3. /\ queue' # <<>>
        /\ Len(queue') = Len(queue) + 1
    BY <1>2, AppendProperties, SMTT(30) DEF TypeOK, PushEnters, Enter
  <2>4. current_size' = current_size + e.size /\ e.size \in Nat
    BY <1>2, SizeNat DEF PushEnters, Enter
  <2>5. ASSUME NEW v \in Writer, wpc'[v] = "blocked"
        PROVE  (~Room(elt[v]))' /\ ~closed' /\ pop_waiter'
    <3>1. v # w /\ wpc[v] = "blocked" /\ elt'[v] = elt[v]
      BY <1>0, <2>1, <2>5
    <3>2. ~Room(elt[v]) /\ ~closed /\ pop_waiter
      BY <3>1 DEF SafeInv, NoLostWakeup
    <3>3. current_size' >= current_size
      BY <2>4, SMTT(30) DEF TypeOK
    <3>4. (~Room(elt[v]))'
      BY <2>3, <3>1, <3>2, <3>3, StillNoRoom
    <3> QED
      BY <1>2, <3>2, <3>4 DEF PushEnters, Enter
  <2>6. WithinMaxSize'
    <3>1. CASE queue = <<>>
      BY <2>3, <3>1 DEF WithinMaxSize
    <3>2. CASE current_size + e.size < MaxSize
      BY <2>4, <3>2 DEF WithinMaxSize
    <3> QED
      BY <1>2, <3>1, <3>2 DEF PushEnters, Room
  <2> QED
    BY <2>2, <2>5, <2>6 DEF SafeInv, NoLostWakeup
<1>3. CASE PushSleeps(w, e)
  <2>1. \A v \in Writer : v # w => wpc'[v] = wpc[v]
    BY <1>3 DEF TypeOK, PushSleeps
  <2>2. UNCHANGED <<queue, current_size, closed, push_waiter, rpc>> /\ pop_waiter'
    BY <1>3 DEF PushSleeps, pipe
  <2>3. ~Room(e) /\ ~closed
    BY <1>3 DEF PushSleeps
  <2> QED
    BY <1>0, <2>1, <2>2, <2>3 DEF SafeInv, NoLostWakeup, WithinMaxSize, Room
<1> QED
  BY <1>1, <1>2, <1>3

\* A pass through a read operation.
LEMMA SafeRead ==
    ASSUME TypeOK, TypeOK', SafeInv, NEW r \in Reader, NEW op \in ReadOp,
           NEW x \in BOOLEAN, ReadBody(r, op, x), UNCHANGED elt
    PROVE  SafeInv'
<1>1. CASE PopOne(r)
  <2>1. \A v \in Writer : wpc'[v] # "blocked"
    BY ZenonT(30), <1>1, WokenWakes DEF TypeOK, PopOne, NotifyPop
  <2>2. \A t \in Reader : rpc'[t] # "blocked"
    BY <1>1 DEF TypeOK, PopOne, SafeInv, NoLostWakeup
  <2>3. /\ Len(queue') = Len(queue) - 1
        /\ Len(queue) \in Nat
        /\ current_size' = current_size - Head(queue).size
        /\ Head(queue) \in Element
    BY <1>1, HeadTailProperties DEF TypeOK, PopOne
  <2>4. Head(queue).size \in Nat
    BY <2>3, SizeNat
  <2>5. WithinMaxSize'
    BY SMTT(30), <2>3, <2>4, MaxSizeAssumption
       DEF TypeOK, SafeInv, WithinMaxSize
  <2> QED
    BY <2>1, <2>2, <2>5 DEF SafeInv, NoLostWakeup
<1>2. CASE PopAll(r)
  <2>1. \A v \in Writer : wpc'[v] # "blocked"
    BY ZenonT(30), <1>2, WokenWakes DEF TypeOK, PopAll, NotifyPop
  <2>2. \A t \in Reader : rpc'[t] # "blocked"
    BY <1>2 DEF TypeOK, PopAll, SafeInv, NoLostWakeup
  <2>3. WithinMaxSize'
    BY <1>2 DEF PopAll, WithinMaxSize
  <2> QED
    BY <2>1, <2>2, <2>3 DEF SafeInv, NoLostWakeup
<1>3. CASE \E res \in ReaderDone : ReadEnds(r, res)
  <2>1. rpc'[r] # "blocked" /\ \A t \in Reader : t # r => rpc'[t] = rpc[t]
    BY <1>3 DEF TypeOK, ReadEnds, ReaderDone
  <2>2. UNCHANGED <<queue, current_size, closed, push_waiter, pop_waiter, wpc>>
    BY <1>3 DEF ReadEnds, pipe
  <2> QED
    BY <2>1, <2>2 DEF SafeInv, NoLostWakeup, WithinMaxSize, Room
<1>4. CASE queue = <<>> /\ ~closed /\ ReadSleeps(r)
  <2>1. UNCHANGED <<queue, current_size, closed, pop_waiter, wpc>> /\ push_waiter'
    BY <1>4 DEF ReadSleeps, pipe
  <2> QED
    BY <1>4, <2>1 DEF SafeInv, NoLostWakeup, WithinMaxSize, Room
<1> QED
  BY <1>1, <1>2, <1>3, <1>4 DEF ReadBody, ReaderDone

\* Every step.
LEMMA SafeNext == TypeOK /\ TypeOK' /\ SafeInv /\ [Next]_vars => SafeInv'
<1> SUFFICES ASSUME TypeOK, TypeOK', SafeInv, [Next]_vars PROVE SafeInv'
  OBVIOUS
<1>1. ASSUME NEW w \in Writer, NEW s \in Sizes, NEW e, e = [by |-> w, size |-> s],
             Push(w, e) \/ PushNow(w, e)
      PROVE  SafeInv'
  <2>1. e \in Element
    BY <1>1, ElementType
  <2>2. elt' = [elt EXCEPT ![w] = e]
    BY <1>1 DEF Push, PushNow
  <2>3. CASE PushClosed(w) \/ PushEnters(w, e) \/ PushSleeps(w, e)
    BY Zenon, <2>1, <2>2, <2>3, SafePush
  <2>4. CASE /\ wpc' = [wpc EXCEPT ![w] = "full"]
             /\ UNCHANGED <<pipe, push_waiter, pop_waiter, rpc, rop, dpc,
                            accepted, delivered>>
    <3>1. /\ wpc'[w] # "blocked"
          /\ \A v \in Writer : v # w => wpc'[v] = wpc[v] /\ elt'[v] = elt[v]
      BY <2>2, <2>4 DEF TypeOK
    <3> QED
      BY <2>4, <3>1 DEF SafeInv, NoLostWakeup, WithinMaxSize, Room, pipe
  <2> QED
    BY <1>1, <2>3, <2>4 DEF Push, PushNow
<1>2. ASSUME NEW w \in Writer, PushResumes(w) PROVE SafeInv'
  <2>1. elt[w] \in Element /\ elt' = [elt EXCEPT ![w] = elt[w]]
    BY <1>2 DEF TypeOK, PushResumes
  <2> QED
    BY Zenon, <1>2, <2>1, SafePush DEF PushResumes
<1>3. ASSUME NEW w \in Writer, PushCanceled(w) PROVE SafeInv'
  <2>1. wpc'[w] # "blocked" /\ \A v \in Writer : v # w => wpc'[v] = wpc[v]
    BY <1>3 DEF TypeOK, PushCanceled
  <2> QED
    BY <1>3, <2>1
       DEF SafeInv, NoLostWakeup, WithinMaxSize, Room, PushCanceled, pipe
<1>4. ASSUME NEW r \in Reader, NEW op \in ReadOp, Read(r, op) PROVE SafeInv'
  BY Zenon, <1>4, SafeRead DEF Read
<1>5. ASSUME NEW r \in Reader, ReadResumes(r) PROVE SafeInv'
  <2>1. rop[r] \in ReadOp
    BY DEF TypeOK
  <2> QED
    BY Zenon, <1>5, <2>1, SafeRead DEF ReadResumes
<1>6. ASSUME NEW r \in Reader, ReadExpires(r) \/ ReadCanceled(r) PROVE SafeInv'
  <2>1. rpc'[r] # "blocked" /\ \A t \in Reader : t # r => rpc'[t] = rpc[t]
    BY <1>6 DEF TypeOK, ReadExpires, ReadCanceled
  <2>2. UNCHANGED <<queue, current_size, closed, push_waiter, pop_waiter, wpc, elt>>
    BY <1>6 DEF ReadExpires, ReadCanceled, pipe
  <2> QED
    BY <2>1, <2>2 DEF SafeInv, NoLostWakeup, WithinMaxSize, Room
<1>7. CASE Close
  <2>1. /\ \A w \in Writer : wpc'[w] # "blocked"
        /\ \A r \in Reader : rpc'[r] # "blocked"
    BY ZenonT(30), <1>7, WokenWakes DEF TypeOK, Close, NotifyPush, NotifyPop
  <2> QED
    BY <1>7, <2>1 DEF SafeInv, NoLostWakeup, WithinMaxSize, Close
<1>8. ASSUME NEW d \in Drainer, Empty(d) PROVE SafeInv'
  BY <1>8 DEF SafeInv, NoLostWakeup, WithinMaxSize, Room, Empty, pipe
<1>9. CASE UNCHANGED vars
  BY <1>9 DEF SafeInv, NoLostWakeup, WithinMaxSize, Room, vars, pipe
<1> QED
  BY Zenon, <1>1, <1>2, <1>3, <1>4, <1>5, <1>6, <1>7, <1>8, <1>9 DEF Next

\* Nobody is asleep at the start, and the pipe is empty.
LEMMA SafeInit == Init => SafeInv
BY DEF Init, SafeInv, NoLostWakeup, WithinMaxSize

\* A sleeping reader or writer has a reason to sleep and is woken by the
\* next push, pop or close: no cancellation or timeout uses up its wake-up.
THEOREM NoWakeupLost == Spec => []NoLostWakeup
<1>1. SafeInv => NoLostWakeup
  BY DEF SafeInv
<1> QED
  BY <1>1, TypeCorrect, SafeInit, SafeNext, PTL DEF Spec

\* The pipe holds less than max_size, a lone larger element excepted.
THEOREM BoundedSize == Spec => []WithinMaxSize
<1>1. SafeInv => WithinMaxSize
  BY DEF SafeInv
<1> QED
  BY <1>1, TypeCorrect, SafeInit, SafeNext, PTL DEF Spec

(***************************************************************************)
(* First in, first out, exactly once: for a pipe that is never closed, or  *)
(* that is never read with pop_all or pop_all_now.                         *)
(***************************************************************************)
FifoInv == FifoExactlyOnce /\ (closed => Closable)

\* The steps that move no element.
LEMMA FifoUnmoved ==
    ASSUME FifoInv, UNCHANGED <<queue, closed, accepted, delivered>>
    PROVE  FifoInv'
BY DEF FifoInv, FifoExactlyOnce

\* A push.
LEMMA FifoPush ==
    ASSUME TypeOK, FifoInv, NEW w \in Writer, NEW e \in Element,
           PushClosed(w) \/ PushEnters(w, e) \/ PushSleeps(w, e)
    PROVE  FifoInv'
<1>1. CASE PushEnters(w, e)
  <2>1. /\ queue' = Append(queue, e) /\ accepted' = Append(accepted, e)
        /\ UNCHANGED <<closed, delivered>>
    BY <1>1 DEF PushEnters, Enter
  <2>2. Append(delivered \o queue, e) = delivered \o Append(queue, e)
    <3>1. delivered \in Seq(Element) /\ queue \in Seq(Element)
      BY DEF TypeOK
    <3> QED
      BY <3>1, SplitAppend, Zenon
  <2> QED
    BY <2>1, <2>2, Zenon DEF FifoInv, FifoExactlyOnce
<1>2. CASE PushClosed(w) \/ PushSleeps(w, e)
  BY <1>2, FifoUnmoved DEF PushClosed, PushSleeps, pipe
<1> QED
  BY <1>1, <1>2

\* A read.
LEMMA FifoRead ==
    ASSUME TypeOK, FifoInv, ~Closable \/ ReadOp \cap {"pop_all", "pop_all_now"} = {},
           NEW r \in Reader, NEW op \in ReadOp, NEW x \in BOOLEAN,
           ReadBody(r, op, x), UNCHANGED accepted
    PROVE  FifoInv'
<1>1. CASE PopOne(r)
  <2>1. /\ queue # <<>> /\ queue' = Tail(queue)
        /\ delivered' = Append(delivered, Head(queue))
        /\ UNCHANGED closed
    BY <1>1 DEF PopOne
  <2>2. Append(delivered, Head(queue)) \o Tail(queue) = delivered \o queue
    BY SMTT(30), <2>1, SplitMove DEF TypeOK
  <2> QED
    BY <2>1, <2>2, Zenon DEF FifoInv, FifoExactlyOnce
<1>2. CASE op \in {"pop_all", "pop_all_now"} /\ PopAll(r)
  <2>1. ~closed
    BY <1>2 DEF FifoInv
  <2>2. /\ queue' = <<>> /\ delivered' = delivered \o queue
        /\ UNCHANGED closed
    BY <1>2, <2>1, Zenon DEF PopAll
  <2>3. delivered \o queue \in Seq(Element)
    BY ConcatProperties DEF TypeOK
  <2>4. (delivered \o queue) \o <<>> = delivered \o queue
    BY <2>3, ConcatEmptySeq
  <2> QED
    BY <2>1, <2>2, <2>4, Zenon DEF FifoInv, FifoExactlyOnce
<1>3. CASE (\E res \in ReaderDone : ReadEnds(r, res)) \/ ReadSleeps(r)
  BY <1>3, FifoUnmoved DEF ReadEnds, ReadSleeps, pipe
<1> QED
  BY <1>1, <1>2, <1>3 DEF ReadBody, ReaderDone

\* Every step.
LEMMA FifoNext ==
    ASSUME ~Closable \/ ReadOp \cap {"pop_all", "pop_all_now"} = {}
    PROVE  TypeOK /\ FifoInv /\ [Next]_vars => FifoInv'
<1> SUFFICES ASSUME TypeOK, FifoInv, [Next]_vars PROVE FifoInv'
  OBVIOUS
<1>1. ASSUME NEW w \in Writer, NEW s \in Sizes, NEW e, e = [by |-> w, size |-> s],
             Push(w, e) \/ PushNow(w, e)
      PROVE  FifoInv'
  <2>1. e \in Element
    BY <1>1, ElementType
  <2>2. CASE PushClosed(w) \/ PushEnters(w, e) \/ PushSleeps(w, e)
    BY <2>1, <2>2, FifoPush
  <2>3. CASE UNCHANGED <<pipe, push_waiter, pop_waiter, rpc, rop, dpc,
                         accepted, delivered>>
    BY <2>3, FifoUnmoved DEF pipe
  <2> QED
    BY <1>1, <2>2, <2>3 DEF Push, PushNow
<1>2. ASSUME NEW w \in Writer, PushResumes(w) PROVE FifoInv'
  <2>1. elt[w] \in Element
    BY DEF TypeOK
  <2> QED
    BY <1>2, <2>1, FifoPush DEF PushResumes
<1>3. ASSUME NEW r \in Reader, NEW op \in ReadOp, Read(r, op) PROVE FifoInv'
  BY Zenon, <1>3, FifoRead DEF Read
<1>4. ASSUME NEW r \in Reader, ReadResumes(r) PROVE FifoInv'
  <2>1. rop[r] \in ReadOp
    BY DEF TypeOK
  <2> QED
    BY Zenon, <1>4, <2>1, FifoRead DEF ReadResumes
<1>5. CASE Close
  BY <1>5 DEF FifoInv, FifoExactlyOnce, Close
<1>6. CASE \/ \E w \in Writer : PushCanceled(w)
           \/ \E r \in Reader : ReadExpires(r) \/ ReadCanceled(r)
           \/ \E d \in Drainer : Empty(d)
           \/ UNCHANGED vars
  BY <1>6, FifoUnmoved
     DEF PushCanceled, ReadExpires, ReadCanceled, Empty, vars, pipe
<1> QED
  BY Zenon, <1>1, <1>2, <1>3, <1>4, <1>5, <1>6 DEF Next

\* Nothing was pushed yet, nothing popped.
LEMMA FifoInit == Init => FifoInv
<1>1. <<>> = <<>> \o <<>>
  OBVIOUS
<1> QED
  BY <1>1 DEF Init, FifoInv, FifoExactlyOnce

\* Every element pushed comes out once and in order, unless the pipe can be
\* closed and is read with pop_all or pop_all_now.
THEOREM FirstInFirstOut ==
    ASSUME ~Closable \/ ReadOp \cap {"pop_all", "pop_all_now"} = {}
    PROVE  Spec => []FifoExactlyOnce
<1>1. FifoInv => FifoExactlyOnce
  BY DEF FifoInv
<1>2. TypeOK /\ FifoInv /\ [Next]_vars => FifoInv'
  BY FifoNext
<1> QED
  BY <1>1, <1>2, TypeCorrect, FifoInit, PTL DEF Spec

(***************************************************************************)
(* The size counter.  Total is a recursive function; what it gives is       *)
(* shown by induction.  The induction theorems of the library need an       *)
(* operator; Induct, for a set, follows from the well-foundedness of <.     *)
(***************************************************************************)
Below == {ss \in Nat \X Nat : ss[1] < ss[2]}

\* Induction on the natural numbers, for a set.
LEMMA Induct ==
    ASSUME NEW S \in SUBSET Nat, 0 \in S, \A n \in S : n + 1 \in S
    PROVE  S = Nat
<1>1. IsWellFoundedOn(Below, Nat)
  BY NatLessThanWellFounded DEF OpToRel, Below
<1>2. SUFFICES ASSUME Nat \ S # {} PROVE FALSE
  BY Zenon
<1>3. PICK n \in Nat \ S : \A m \in Nat \ S : ~(<<m, n>> \in Below)
  <2>1. Nat \ S \subseteq Nat
    OBVIOUS
  <2> QED
    BY Zenon, <1>1, <1>2, <2>1, WFMin
<1>4. n # 0 /\ n - 1 \in Nat /\ n = (n - 1) + 1 /\ <<n - 1, n>> \in Below
  BY DEF Below
<1>5. n - 1 \in S
  BY <1>3, <1>4
<1> QED
  BY <1>3, <1>4, <1>5

\* f holds the partial sums of the sizes of q.
Sums(q, f) ==
    /\ f \in [0..Len(q) -> Int]
    /\ f[0] = 0
    /\ \A i \in 1..Len(q) : f[i] = f[i - 1] + q[i].size

\* There are partial sums.
LEMMA SumsExist ==
    ASSUME NEW q \in Seq(Element)
    PROVE  \E f : Sums(q, f)
<1> DEFINE Part(n, f) == /\ f \in [0..n -> Int]
                         /\ f[0] = 0
                         /\ \A i \in 1..n : f[i] = f[i - 1] + q[i].size
           S == {n \in Nat : n <= Len(q) => \E f : Part(n, f)}
<1>1. 0 \in S
  <2>1. Part(0, [i \in 0..0 |-> 0])
    OBVIOUS
  <2> QED
    BY Zenon, <2>1
<1>2. ASSUME NEW n \in Nat, NEW f, Part(n, f), n + 1 <= Len(q)
      PROVE  \E g : Part(n + 1, g)
  <2>1. q[n + 1].size \in Int
    BY <1>2, SizeNat
  <2> DEFINE g == [i \in 0..(n + 1) |-> IF i = n + 1 THEN f[n] + q[n + 1].size ELSE f[i]]
  <2>2. g \in [0..(n + 1) -> Int]
    BY <1>2, <2>1
  <2>3. g[0] = 0
    BY <1>2
  <2>4. ASSUME NEW i \in 1..(n + 1) PROVE g[i] = g[i - 1] + q[i].size
    <3>1. CASE i = n + 1
      BY <3>1
    <3>2. CASE i \in 1..n
      <4>1. g[i] = f[i] /\ g[i - 1] = f[i - 1]
        BY <3>2
      <4> QED
        BY <1>2, <3>2, <4>1, SMTT(30)
    <3> QED
      BY <3>1, <3>2
  <2>5. Part(n + 1, g)
    BY Zenon, <2>2, <2>3, <2>4
  <2> QED
    BY Zenon, <2>5
<1> HIDE DEF Part
<1>3. ASSUME NEW n \in S PROVE n + 1 \in S
  <2>1. n \in Nat /\ n + 1 \in Nat /\ (n + 1 <= Len(q) => n <= Len(q))
    OBVIOUS
  <2> QED
    BY <1>2, <2>1
<1>4. S = Nat
  <2>1. S \in SUBSET Nat
    OBVIOUS
  <2> HIDE DEF S
  <2> QED
    BY <1>1, <1>3, <2>1, Induct
<1>5. \E f : Part(Len(q), f)
  <2>1. Len(q) \in Nat
    OBVIOUS
  <2> QED
    BY <1>4, <2>1
<1> QED
  BY <1>5 DEF Sums, Part

\* Total is the last of them.
LEMMA TotalIs ==
    ASSUME NEW q \in Seq(Element), NEW f, Sums(q, f)
    PROVE  Abstract!Total(q) = f[Len(q)]
<1> DEFINE D(g) == [i \in 0..Len(q) |-> IF i = 0 THEN 0 ELSE g[i - 1] + q[i].size]
           sum == CHOOSE g : g = D(g)
<1>1. f = D(f)
  BY DEF Sums
<1>2. sum = D(sum)
  <2> HIDE DEF D
  <2> QED BY <1>1, Zenon
<1>3. Abstract!Total(q) = sum[Len(q)]
  BY DEF Abstract!Total
<1> HIDE DEF sum
<1> DEFINE S == {n \in Nat : n <= Len(q) => sum[n] = f[n]}
<1>4. 0 \in S
  BY <1>2 DEF Sums
<1>5. ASSUME NEW n \in S PROVE n + 1 \in S
  <2>1. SUFFICES ASSUME n + 1 <= Len(q) PROVE sum[n + 1] = f[n + 1]
    OBVIOUS
  <2>2. n \in Nat /\ sum[n] = f[n] /\ n + 1 \in 1..Len(q)
    BY <2>1
  <2>3. sum[n + 1] = sum[n] + q[n + 1].size
    BY <1>2, <2>2
  <2> QED
    BY <2>2, <2>3 DEF Sums
<1>6. S = Nat
  <2>1. S \in SUBSET Nat
    OBVIOUS
  <2> HIDE DEF S
  <2> QED
    BY <1>4, <1>5, <2>1, Induct
<1>7. Len(q) \in S
  BY <1>6
<1> QED
  BY <1>3, <1>7

\* What push and pop do to the sum.
LEMMA TotalEmpty == Abstract!Total(<<>>) = 0
<1>1. <<>> \in Seq(Element) /\ Sums(<<>>, [i \in 0..0 |-> 0]) /\ Len(<<>>) = 0
  BY DEF Sums
<1> QED
  BY <1>1, TotalIs

\* push adds the size of the element.
LEMMA TotalAppend ==
    ASSUME NEW q \in Seq(Element), NEW e \in Element
    PROVE  Abstract!Total(Append(q, e)) = Abstract!Total(q) + e.size
<1>1. PICK f : Sums(q, f)
  BY SumsExist
<1>2. e.size \in Int
  BY SizeNat
<1> DEFINE r == Append(q, e)
           n == Len(q)
           g == [i \in 0..(n + 1) |-> IF i = n + 1 THEN f[n] + e.size ELSE f[i]]
<1>3. /\ r \in Seq(Element) /\ Len(r) = n + 1 /\ n \in Nat /\ r[n + 1] = e
      /\ \A i \in 1..n : r[i] = q[i]
  BY AppendProperties
<1> HIDE DEF r, n
<1>4. f \in [0..n -> Int] /\ f[0] = 0 /\ \A i \in 1..n : f[i] = f[i - 1] + q[i].size
  BY <1>1 DEF Sums, n
<1>5. g \in [0..(n + 1) -> Int] /\ g[0] = 0 /\ g[n + 1] = f[n] + e.size
  BY <1>2, <1>3, <1>4
<1>6. ASSUME NEW i \in 1..(n + 1) PROVE g[i] = g[i - 1] + r[i].size
  <2>1. CASE i = n + 1
    BY <1>3, <2>1
  <2>2. CASE i \in 1..n
    <3>1. g[i] = f[i] /\ g[i - 1] = f[i - 1] /\ r[i] = q[i]
      BY <1>3, <2>2
    <3> QED
      BY Zenon, <1>4, <2>2, <3>1
  <2> QED
    BY <1>3, <2>1, <2>2
<1> HIDE DEF g
<1>7. Sums(r, g)
  BY <1>3, <1>5, <1>6 DEF Sums
<1>8. Abstract!Total(r) = g[n + 1] /\ Abstract!Total(q) = f[n]
  BY <1>1, <1>3, <1>7, TotalIs DEF n
<1> QED
  BY <1>5, <1>8 DEF r

\* pop takes off the size of the first element.
LEMMA TotalTail ==
    ASSUME NEW q \in Seq(Element), q # <<>>
    PROVE  Abstract!Total(Tail(q)) = Abstract!Total(q) - Head(q).size
<1>1. PICK f : Sums(q, f)
  BY SumsExist
<1> DEFINE r == Tail(q)
           n == Len(q)
           g == [i \in 0..(n - 1) |-> f[i + 1] - f[1]]
<1>2. /\ r \in Seq(Element) /\ Len(r) = n - 1 /\ n \in Nat \ {0} /\ Head(q) = q[1]
      /\ \A i \in 1..(n - 1) : r[i] = q[i + 1]
  BY HeadTailProperties
<1>3. q[1].size \in Int /\ \A i \in 1..n : q[i].size \in Int
  BY <1>2, SizeNat
<1> HIDE DEF r, n
<1>4. f \in [0..n -> Int] /\ f[0] = 0 /\ \A i \in 1..n : f[i] = f[i - 1] + q[i].size
  BY <1>1 DEF Sums, n
<1>5. f[1] = q[1].size
  BY <1>2, <1>3, <1>4
<1>6. g \in [0..(n - 1) -> Int] /\ g[0] = 0 /\ g[n - 1] = f[n] - f[1]
  BY <1>2, <1>4
<1>7. ASSUME NEW i \in 1..(n - 1) PROVE g[i] = g[i - 1] + r[i].size
  <2>1. f[i + 1] = f[i] + q[i + 1].size /\ r[i] = q[i + 1]
    BY <1>2, <1>4, SMTT(30)
  <2>2. g[i] = f[i + 1] - f[1] /\ g[i - 1] = f[i] - f[1]
    BY <1>2
  <2>3. f[i] \in Int /\ f[i + 1] \in Int /\ f[1] \in Int /\ q[i + 1].size \in Int
    BY <1>2, <1>3, <1>4, SMTT(30)
  <2> QED
    BY <2>1, <2>2, <2>3, SMTT(30)
<1> HIDE DEF g
<1>8. Sums(r, g)
  BY <1>2, <1>6, <1>7 DEF Sums
<1>9. Abstract!Total(r) = g[n - 1] /\ Abstract!Total(q) = f[n]
  BY <1>1, <1>2, <1>8, TotalIs DEF n
<1> QED
  BY <1>2, <1>5, <1>6, <1>9 DEF r

\* A pass through push.
LEMMA SizePush ==
    ASSUME TypeOK, SizeExact, NEW w \in Writer, NEW e \in Element,
           PushClosed(w) \/ PushEnters(w, e) \/ PushSleeps(w, e)
    PROVE  SizeExact'
<1>1. CASE PushEnters(w, e)
  <2>1. queue' = Append(queue, e) /\ current_size' = current_size + e.size
    BY <1>1 DEF PushEnters, Enter
  <2>2. Abstract!Total(Append(queue, e)) = Abstract!Total(queue) + e.size
    BY TotalAppend DEF TypeOK
  <2> QED
    BY <2>1, <2>2, Zenon DEF SizeExact
<1>2. CASE PushClosed(w) \/ PushSleeps(w, e)
  <2>1. UNCHANGED <<queue, current_size>>
    BY <1>2 DEF PushClosed, PushSleeps, pipe
  <2> QED
    BY <2>1, Zenon DEF SizeExact
<1> QED
  BY <1>1, <1>2

\* A pass through a read operation.
LEMMA SizeRead ==
    ASSUME TypeOK, SizeExact, NEW r \in Reader, NEW op \in ReadOp, NEW x \in BOOLEAN,
           ReadBody(r, op, x)
    PROVE  SizeExact'
<1>1. CASE PopOne(r)
  <2>1. /\ queue # <<>> /\ queue' = Tail(queue)
        /\ current_size' = current_size - Head(queue).size
    BY <1>1 DEF PopOne
  <2>2. Abstract!Total(Tail(queue)) = Abstract!Total(queue) - Head(queue).size
    BY <2>1, TotalTail DEF TypeOK
  <2> QED
    BY <2>1, <2>2, Zenon DEF SizeExact
<1>2. CASE PopAll(r)
  <2>1. queue' = <<>> /\ current_size' = 0
    BY <1>2, Zenon DEF PopAll
  <2> QED
    BY <2>1, TotalEmpty, Zenon DEF SizeExact
<1>3. CASE (\E res \in ReaderDone : ReadEnds(r, res)) \/ ReadSleeps(r)
  <2>1. UNCHANGED <<queue, current_size>>
    BY <1>3 DEF ReadEnds, ReadSleeps, pipe
  <2> QED
    BY <2>1, Zenon DEF SizeExact
<1> QED
  BY <1>1, <1>2, <1>3 DEF ReadBody, ReaderDone

\* Every step.
LEMMA SizeNext == TypeOK /\ SizeExact /\ [Next]_vars => SizeExact'
<1> SUFFICES ASSUME TypeOK, SizeExact, [Next]_vars PROVE SizeExact'
  OBVIOUS
<1>0. UNCHANGED <<queue, current_size>> => SizeExact'
  BY Zenon DEF SizeExact
<1>1. ASSUME NEW w \in Writer, NEW s \in Sizes, NEW e, e = [by |-> w, size |-> s],
             Push(w, e) \/ PushNow(w, e)
      PROVE  SizeExact'
  <2>1. e \in Element
    BY <1>1, ElementType
  <2>2. CASE PushClosed(w) \/ PushEnters(w, e) \/ PushSleeps(w, e)
    BY <2>1, <2>2, SizePush
  <2>3. CASE UNCHANGED pipe
    BY <1>0, <2>3 DEF pipe
  <2> QED
    BY <1>1, <2>2, <2>3 DEF Push, PushNow
<1>2. ASSUME NEW w \in Writer, PushResumes(w) PROVE SizeExact'
  <2>1. elt[w] \in Element
    BY DEF TypeOK
  <2> QED
    BY <1>2, <2>1, SizePush, SMTT(30) DEF PushResumes
<1>3. ASSUME NEW r \in Reader, NEW op \in ReadOp, Read(r, op) PROVE SizeExact'
  BY Zenon, <1>3, SizeRead DEF Read
<1>4. ASSUME NEW r \in Reader, ReadResumes(r) PROVE SizeExact'
  <2>1. rop[r] \in ReadOp
    BY DEF TypeOK
  <2> QED
    BY Zenon, <1>4, <2>1, SizeRead DEF ReadResumes
<1>5. CASE \/ Close
           \/ \E w \in Writer : PushCanceled(w)
           \/ \E r \in Reader : ReadExpires(r) \/ ReadCanceled(r)
           \/ \E d \in Drainer : Empty(d)
           \/ UNCHANGED vars
  BY <1>0, <1>5, SMTT(30) DEF Close, PushCanceled, ReadExpires, ReadCanceled, Empty, vars, pipe
<1> QED
  BY Zenon, <1>1, <1>2, <1>3, <1>4, <1>5 DEF Next

\* current_size is the sum of the sizes of the elements in the queue.
THEOREM SizesAreCounted == Spec => []SizeExact
<1>1. Init => SizeExact
  BY TotalEmpty, Zenon DEF Init, SizeExact
<1> QED
  BY <1>1, TypeCorrect, SizeNext, PTL DEF Spec

(***************************************************************************)
(* The pipe implements the channel, liveness aside: every step of the pipe  *)
(* is a step of the channel or none.                                        *)
(***************************************************************************)
Writing == [w \in Writer |-> IF wpc[w] \in Asleep THEN <<elt[w]>> ELSE <<>>]
Reading == {r \in Reader : rpc[r] \in Asleep \cup {"expired"}}

\* What the channel holds is what is in the queue.
LEMMA ContentIsQueue ==
    ASSUME TypeOK, FifoExactlyOnce
    PROVE  /\ Abstract!Content = queue
           /\ Len(delivered) \in Nat /\ Len(queue) \in Nat
<1>1. /\ delivered \in Seq(Element) /\ queue \in Seq(Element)
      /\ accepted = delivered \o queue
      /\ Len(accepted) = Len(delivered) + Len(queue)
      /\ Len(delivered) \in Nat /\ Len(queue) \in Nat
  BY ConcatProperties DEF TypeOK, FifoExactlyOnce
<1> DEFINE c == SubSeq(accepted, Len(delivered) + 1, Len(accepted))
<1>2. /\ c \in Seq(Element) /\ Len(c) = Len(queue)
      /\ \A i \in 1..Len(queue) : c[i] = accepted[Len(delivered) + i]
  BY <1>1, SubSeqProperties, SMTT(30) DEF TypeOK
<1>3. \A i \in 1..Len(queue) : accepted[Len(delivered) + i] = queue[i]
  BY <1>1, ConcatProperties
<1>4. c = queue
  BY <1>1, <1>2, <1>3, SeqEqual
<1> QED
  BY <1>1, <1>4 DEF Abstract!Content

\* There is room in the pipe when the channel has room.
LEMMA FitsIsRoom ==
    ASSUME TypeOK, FifoExactlyOnce, SizeExact, NEW e
    PROVE  Abstract!Fits(e) <=> Room(e)
BY ContentIsQueue, Zenon DEF Abstract!Fits, Room, SizeExact

\* Waking threads, none of which leaves, changes no outstanding operation.
LEMMA WokenWriting ==
    ASSUME TypeOK, wpc' = Woken(wpc), UNCHANGED elt
    PROVE  Writing' = Writing
BY DEF TypeOK, Woken, Writing, Asleep, WriterDone

\* The same for the readers.
LEMMA WokenReading ==
    ASSUME TypeOK, rpc' = Woken(rpc)
    PROVE  Reading' = Reading
BY DEF TypeOK, Woken, Reading, Asleep, ReaderDone

\* A writer that is done is not writing, and the others are as before.
LEMMA DoneWriting ==
    ASSUME TypeOK, NEW w \in Writer, NEW p \in WriterDone, NEW e,
           wpc' = [wpc EXCEPT ![w] = p], elt' = [elt EXCEPT ![w] = e]
    PROVE  /\ Writing' = [Writing EXCEPT ![w] = <<>>]
           /\ wpc[w] \in WriterDone => Writing' = Writing
           /\ wpc[w] \in Asleep => Writing[w] # <<>>
<1>1. p \notin Asleep
  BY DEF WriterDone, Asleep
<1>2. wpc[w] \in WriterDone => wpc[w] \notin Asleep
  BY DEF WriterDone, Asleep
<1>3. \A v \in Writer : Writing'[v] = IF v = w THEN <<>> ELSE Writing[v]
  BY <1>1 DEF TypeOK, Writing
<1>4. wpc[w] \in WriterDone => Writing[w] = <<>>
  BY <1>2 DEF Writing
<1>5. wpc[w] \in Asleep => Writing[w] # <<>>
  <2>1. <<elt[w]>> # <<>>
    OBVIOUS
  <2> QED
    BY <2>1 DEF Writing
<1>6. /\ Writing = [v \in Writer |-> Writing[v]]
      /\ Writing' = [v \in Writer |-> Writing'[v]]
  BY DEF Writing
<1> QED
  BY <1>3, <1>4, <1>5, <1>6

\* A writer that falls asleep.
LEMMA StartWriting ==
    ASSUME TypeOK, NEW w \in Writer, NEW e,
           wpc' = [wpc EXCEPT ![w] = "blocked"], elt' = [elt EXCEPT ![w] = e]
    PROVE  /\ Writing' = [Writing EXCEPT ![w] = <<e>>]
           /\ wpc[w] = "woken" /\ e = elt[w] => Writing' = Writing
BY Zenon DEF TypeOK, Writing, Asleep, WriterDone

\* A reader that is done.
LEMMA DoneReading ==
    ASSUME TypeOK, NEW r \in Reader, NEW p \in ReaderDone,
           rpc' = [rpc EXCEPT ![r] = p]
    PROVE  /\ Reading' = Reading \ {r}
           /\ rpc[r] \in ReaderDone => Reading' = Reading
           /\ rpc[r] \in Asleep \cup {"expired"} => r \in Reading
BY DEF TypeOK, Reading, Asleep, ReaderDone

\* A reader that falls asleep, or whose timeout is over.
LEMMA StartReading ==
    ASSUME TypeOK, NEW r \in Reader, NEW p \in Asleep \cup {"expired"},
           rpc' = [rpc EXCEPT ![r] = p]
    PROVE  Reading' = Reading \cup {r}
BY DEF TypeOK, Reading, Asleep, ReaderDone

\* A pass through push.
LEMMA SimulatePush ==
    ASSUME TypeOK, FifoExactlyOnce, SizeExact, NEW w \in Writer, NEW e \in Element,
           wpc[w] \in WriterDone \/ (wpc[w] = "woken" /\ e = elt[w]),
           elt' = [elt EXCEPT ![w] = e],
           PushClosed(w) \/ PushEnters(w, e) \/ PushSleeps(w, e)
    PROVE  [Abstract!Next]_(Abstract!vars)
<1>1. CASE PushClosed(w)
  <2>1. UNCHANGED <<accepted, delivered, closed, rpc>> /\ wpc' = [wpc EXCEPT ![w] = "closed"]
    BY <1>1 DEF PushClosed, pipe
  <2>2. Reading' = Reading
    BY <2>1 DEF Reading
  <2>3. "closed" \in WriterDone
    BY DEF WriterDone
  <2>4. CASE wpc[w] \in WriterDone
    <3>1. Writing' = Writing
      BY Zenon, <2>1, <2>3, <2>4, DoneWriting
    <3> QED
      BY <2>1, <2>2, <3>1, Zenon DEF Abstract!vars, Reading, Writing
  <2>5. CASE wpc[w] = "woken"
    <3>1. Writing' = [Writing EXCEPT ![w] = <<>>] /\ Writing[w] # <<>>
      BY Zenon, <2>1, <2>3, <2>5, DoneWriting DEF Asleep
    <3>2. Abstract!StopWrite(w)
      BY <2>1, <2>2, <3>1, Zenon DEF Abstract!StopWrite, Reading, Writing
    <3> QED
      BY <3>2, Zenon DEF Abstract!Next
  <2> QED
    BY <2>4, <2>5
<1>2. CASE PushEnters(w, e)
  <2>1. /\ UNCHANGED <<delivered, closed>> /\ accepted' = Append(accepted, e)
        /\ ~closed /\ Room(e) /\ wpc' = [wpc EXCEPT ![w] = "ok"] /\ rpc' = Woken(rpc)
    BY <1>2, SMTT(30) DEF PushEnters, Enter, NotifyPush
  <2>2. Reading' = Reading
    BY <2>1, WokenReading
  <2>3. Writing' = [Writing EXCEPT ![w] = <<>>]
    BY Zenon, <2>1, DoneWriting DEF WriterDone
  <2>4. Abstract!Fits(e)
    BY <2>1, FitsIsRoom
  <2>5. Abstract!Write(w, e)
    BY <2>1, <2>2, <2>3, <2>4, Zenon DEF Abstract!Write, Reading, Writing
  <2> QED
    BY <2>5, Zenon DEF Abstract!Next
<1>3. CASE PushSleeps(w, e)
  <2>1. /\ UNCHANGED <<accepted, delivered, closed, rpc>> /\ ~closed /\ ~Room(e)
        /\ wpc' = [wpc EXCEPT ![w] = "blocked"]
    BY <1>3 DEF PushSleeps, pipe
  <2>2. Reading' = Reading
    BY <2>1 DEF Reading
  <2>3. Writing' = [Writing EXCEPT ![w] = <<e>>]
    BY Zenon, <2>1, StartWriting
  <2>4. ~Abstract!Fits(e)
    BY <2>1, FitsIsRoom
  <2>5. Abstract!StartWrite(w, e)
    BY <2>1, <2>2, <2>3, <2>4, Zenon DEF Abstract!StartWrite, Reading, Writing
  <2> QED
    BY <2>5, Zenon DEF Abstract!Next
<1> QED
  BY <1>1, <1>2, <1>3

\* A pass through a read operation.
LEMMA SimulateRead ==
    ASSUME TypeOK, TypeOK', FifoExactlyOnce, FifoExactlyOnce',
           ~closed \/ ReadOp \cap {"pop_all", "pop_all_now"} = {},
           NEW r \in Reader, NEW op \in ReadOp, NEW x \in BOOLEAN,
           rpc[r] \in ReaderDone \cup {"woken", "expired"},
           ReadBody(r, op, x), UNCHANGED <<elt, accepted>>
    PROVE  [Abstract!Next]_(Abstract!vars)
<1>1. ASSUME NEW n \in 0..Len(queue), queue # <<>>, NEW p \in ReaderDone,
             rpc' = [rpc EXCEPT ![r] = p], Len(delivered') = Len(delivered) + n,
             wpc' \in {wpc, Woken(wpc)}, UNCHANGED closed
      PROVE  Abstract!Next
  <2>1. Abstract!Content = queue
    BY ContentIsQueue
  <2>2. Writing' = Writing
    <3>1. CASE wpc' = wpc
      BY <3>1, SMTT(30) DEF Writing
    <3>2. CASE wpc' = Woken(wpc)
      BY <3>2, WokenWriting
    <3> QED
      BY <1>1, <3>1, <3>2
  <2>3. Reading' = Reading \ {r}
    BY Zenon, <1>1, DoneReading
  <2>4. Abstract!ReadSome(r, n)
    BY <1>1, <2>1, <2>2, <2>3, Zenon DEF Abstract!ReadSome, Reading, Writing
  <2>5. n \in 0..Len(Abstract!Content)
    BY <2>1
  <2> QED
    BY <2>4, <2>5, Zenon DEF Abstract!Next
<1>2. CASE PopOne(r)
  <2>1. /\ queue # <<>> /\ rpc' = [rpc EXCEPT ![r] = "value"] /\ UNCHANGED closed
        /\ wpc' = Woken(wpc) /\ delivered' = Append(delivered, Head(queue))
    BY <1>2 DEF PopOne, NotifyPop
  <2>2. Len(delivered') = Len(delivered) + 1
    BY <2>1, HeadTailProperties, AppendProperties, SMTT(30) DEF TypeOK
  <2>3. 1 \in 0..Len(queue)
    BY <2>1, EmptySeq, SMTT(30) DEF TypeOK
  <2>4. "value" \in ReaderDone /\ wpc' \in {wpc, Woken(wpc)}
    BY <2>1 DEF ReaderDone
  <2> QED
    BY <1>1, <2>1, <2>2, <2>3, <2>4, Zenon
<1>3. CASE op \in {"pop_all", "pop_all_now"} /\ PopAll(r)
  <2>1. ~closed
    BY <1>3
  <2>2. /\ queue # <<>> /\ rpc' = [rpc EXCEPT ![r] = "value"] /\ UNCHANGED closed
        /\ wpc' = Woken(wpc) /\ delivered' = delivered \o queue
    BY <1>3, <2>1, Zenon DEF PopAll, NotifyPop
  <2>3. Len(delivered') = Len(delivered) + Len(queue) /\ Len(queue) \in 0..Len(queue)
    BY <2>2, ConcatProperties, SMTT(30) DEF TypeOK
  <2>4. "value" \in ReaderDone /\ wpc' \in {wpc, Woken(wpc)}
    BY <2>2 DEF ReaderDone
  <2> QED
    BY <1>1, <2>2, <2>3, <2>4, Zenon
<1>4. CASE queue # <<>> /\ ReadEnds(r, "value")
  <2>1. /\ rpc' = [rpc EXCEPT ![r] = "value"] /\ wpc' \in {wpc, Woken(wpc)}
        /\ UNCHANGED <<closed, delivered>>
    BY <1>4 DEF ReadEnds, pipe
  <2>2. Len(delivered') = Len(delivered) + 0 /\ 0 \in 0..Len(queue)
    BY <2>1, SMTT(30) DEF TypeOK
  <2>3. "value" \in ReaderDone
    BY DEF ReaderDone
  <2> QED
    BY <1>1, <1>4, <2>1, <2>2, <2>3, Zenon
<1>5. CASE ReadEnds(r, "none") \/ ReadEnds(r, "closed")
  <2>1. PICK p \in ReaderDone : ReadEnds(r, p)
    BY <1>5 DEF ReaderDone
  <2>2. rpc' = [rpc EXCEPT ![r] = p] /\ UNCHANGED <<closed, delivered, wpc>>
    BY <2>1 DEF ReadEnds, pipe
  <2>3. Writing' = Writing
    BY <2>2 DEF Writing
  <2>4. CASE rpc[r] \in ReaderDone
    <3>1. Reading' = Reading
      BY Zenon, <2>2, <2>4, DoneReading
    <3> QED
      BY <2>2, <2>3, <3>1, Zenon DEF Abstract!vars, Reading, Writing
  <2>5. CASE rpc[r] \in {"woken", "expired"}
    <3>1. Reading' = Reading \ {r} /\ r \in Reading
      BY Zenon, <2>2, <2>5, DoneReading DEF Asleep
    <3>2. Abstract!StopRead(r)
      BY <2>2, <2>3, <3>1, Zenon DEF Abstract!StopRead, Reading, Writing
    <3> QED
      BY <3>2, Zenon DEF Abstract!Next
  <2> QED
    BY <2>4, <2>5
<1>6. CASE queue = <<>> /\ ~closed /\ ReadSleeps(r)
  <2>1. rpc' = [rpc EXCEPT ![r] = "blocked"] /\ UNCHANGED <<closed, delivered, wpc>>
    BY <1>6 DEF ReadSleeps, pipe
  <2>2. Writing' = Writing
    BY <2>1, SMTT(30) DEF Writing
  <2>3. Reading' = Reading \cup {r}
    BY Zenon, <2>1, StartReading DEF Asleep
  <2>4. Abstract!Content = <<>>
    BY <1>6, ContentIsQueue
  <2>5. Abstract!StartRead(r)
    BY <1>6, <2>1, <2>2, <2>3, <2>4, Zenon DEF Abstract!StartRead, Reading, Writing
  <2> QED
    BY <2>5, Zenon DEF Abstract!Next
<1> QED
  BY <1>2, <1>3, <1>4, <1>5, <1>6, Zenon DEF ReadBody

\* Every step.
LEMMA Simulate ==
    ASSUME TypeOK, TypeOK', FifoInv, FifoExactlyOnce', SizeExact, [Next]_vars,
           ~Closable \/ ReadOp \cap {"pop_all", "pop_all_now"} = {}
    PROVE  [Abstract!Next]_(Abstract!vars)
<1>0. FifoExactlyOnce /\ (~closed \/ ReadOp \cap {"pop_all", "pop_all_now"} = {})
  BY DEF FifoInv
<1>1. ASSUME NEW w \in Writer, NEW s \in Sizes, NEW e, e = [by |-> w, size |-> s],
             Push(w, e) \/ PushNow(w, e)
      PROVE  [Abstract!Next]_(Abstract!vars)
  <2>1. e \in Element
    BY <1>1, ElementType
  <2>2. wpc[w] \in WriterDone /\ elt' = [elt EXCEPT ![w] = e]
    BY <1>1, Zenon DEF Push, PushNow
  <2>3. CASE PushClosed(w) \/ PushEnters(w, e) \/ PushSleeps(w, e)
    BY <1>0, <2>1, <2>2, <2>3, SimulatePush, Zenon
  <2>4. CASE /\ wpc' = [wpc EXCEPT ![w] = "full"]
             /\ UNCHANGED <<pipe, rpc, accepted, delivered>>
    <3>1. Writing' = Writing
      BY Zenon, <2>2, <2>4, DoneWriting DEF WriterDone
    <3>2. Reading' = Reading
      BY <2>4 DEF Reading
    <3>3. UNCHANGED <<accepted, delivered, closed>>
      BY <2>4 DEF pipe
    <3> QED
      BY <3>1, <3>2, <3>3, Zenon DEF Abstract!vars, Reading, Writing
  <2> QED
    BY <1>1, <2>3, <2>4, Zenon DEF Push, PushNow
<1>2. ASSUME NEW w \in Writer, PushResumes(w) PROVE [Abstract!Next]_(Abstract!vars)
  <2>1. elt[w] \in Element /\ elt' = [elt EXCEPT ![w] = elt[w]] /\ wpc[w] = "woken"
    BY <1>2, SMTT(30) DEF TypeOK, PushResumes
  <2> QED
    BY <1>0, <1>2, <2>1, SimulatePush, Zenon DEF PushResumes
<1>3. ASSUME NEW w \in Writer, PushCanceled(w) PROVE [Abstract!Next]_(Abstract!vars)
  <2>1. /\ wpc' = [wpc EXCEPT ![w] = "canceled"] /\ elt' = [elt EXCEPT ![w] = elt[w]]
        /\ wpc[w] \in Asleep /\ UNCHANGED <<accepted, delivered, closed, rpc>>
    BY <1>3, ZenonT(60) DEF TypeOK, PushCanceled, pipe
  <2>2. Writing' = [Writing EXCEPT ![w] = <<>>] /\ Writing[w] # <<>>
    BY Zenon, <2>1, DoneWriting DEF WriterDone
  <2>3. Reading' = Reading
    BY <2>1 DEF Reading
  <2>4. Abstract!StopWrite(w)
    BY <2>1, <2>2, <2>3, Zenon DEF Abstract!StopWrite, Reading, Writing
  <2> QED
    BY <2>4, Zenon DEF Abstract!Next
<1>4. ASSUME NEW r \in Reader, NEW op \in ReadOp, Read(r, op)
      PROVE  [Abstract!Next]_(Abstract!vars)
  <2>1. rpc[r] \in ReaderDone \cup {"woken", "expired"}
    BY <1>4 DEF Read
  <2> QED
    BY <1>0, <1>4, <2>1, SimulateRead, Zenon DEF Read
<1>5. ASSUME NEW r \in Reader, ReadResumes(r) PROVE [Abstract!Next]_(Abstract!vars)
  <2>1. rpc[r] \in ReaderDone \cup {"woken", "expired"} /\ rop[r] \in ReadOp
    BY <1>5, ZenonT(60) DEF ReadResumes, TypeOK
  <2> QED
    BY <1>0, <1>5, <2>1, SimulateRead, Zenon DEF ReadResumes
<1>6. ASSUME NEW r \in Reader, ReadExpires(r) PROVE [Abstract!Next]_(Abstract!vars)
  <2>1. /\ rpc' = [rpc EXCEPT ![r] = "expired"] /\ rpc[r] = "blocked"
        /\ UNCHANGED <<accepted, delivered, closed, wpc, elt>>
    BY <1>6, SMTT(30) DEF ReadExpires, pipe
  <2>2. Reading' = Reading \cup {r}
    BY Zenon, <2>1, StartReading
  <2>3. Reading' = Reading
    BY <2>1, <2>2 DEF Reading, Asleep
  <2>4. Writing' = Writing
    BY <2>1 DEF Writing
  <2> QED
    BY <2>1, <2>3, <2>4, Zenon DEF Abstract!vars, Reading, Writing
<1>7. ASSUME NEW r \in Reader, ReadCanceled(r) PROVE [Abstract!Next]_(Abstract!vars)
  <2>1. /\ rpc' = [rpc EXCEPT ![r] = "canceled"] /\ rpc[r] \in Asleep \cup {"expired"}
        /\ UNCHANGED <<accepted, delivered, closed, wpc, elt>>
    BY <1>7 DEF ReadCanceled, pipe
  <2>2. Reading' = Reading \ {r} /\ r \in Reading
    BY Zenon, <2>1, DoneReading DEF ReaderDone
  <2>3. Writing' = Writing
    BY <2>1 DEF Writing
  <2>4. Abstract!StopRead(r)
    BY <2>1, <2>2, <2>3, Zenon DEF Abstract!StopRead, Reading, Writing
  <2> QED
    BY <2>4, Zenon DEF Abstract!Next
<1>8. CASE Close
  <2>1. /\ ~closed /\ closed' = TRUE /\ rpc' = Woken(rpc) /\ wpc' = Woken(wpc)
        /\ UNCHANGED <<elt, accepted, delivered>>
    BY <1>8 DEF Close, NotifyPush, NotifyPop
  <2>2. Reading' = Reading /\ Writing' = Writing
    BY <2>1, WokenReading, WokenWriting
  <2>3. Abstract!Shut
    BY <2>1, <2>2, Zenon DEF Abstract!Shut, Reading, Writing
  <2> QED
    BY <2>3, Zenon DEF Abstract!Next
<1>9. CASE (\E d \in Drainer : Empty(d)) \/ UNCHANGED vars
  <2>1. UNCHANGED <<accepted, delivered, closed, wpc, elt, rpc>>
    BY <1>9 DEF Empty, vars, pipe
  <2> QED
    BY <2>1, Zenon DEF Abstract!vars
<1> QED
  BY Zenon, <1>1, <1>2, <1>3, <1>4, <1>5, <1>6, <1>7, <1>8, <1>9 DEF Next

\* Lwt_pipe implements the channel of its interface, short of what the
\* channel owes to those who wait, unless the pipe can be closed and is read
\* with pop_all or pop_all_now.
THEOREM Implements ==
    ASSUME ~Closable \/ ReadOp \cap {"pop_all", "pop_all_now"} = {}
    PROVE  Spec => Abstract!Safety
<1>1. Init => Abstract!Init
  <2> SUFFICES ASSUME Init PROVE Abstract!Init
    OBVIOUS
  <2>1. Writing = [w \in Writer |-> <<>>]
    BY DEF Init, Writing, Asleep
  <2>2. Reading = {}
    BY DEF Init, Reading, Asleep
  <2>3. accepted = <<>> /\ Len(delivered) = 0 /\ closed = FALSE
    BY DEF Init
  <2> QED
    BY <2>1, <2>2, <2>3, Zenon DEF Abstract!Init, Writing, Reading
<1>2. /\ TypeOK /\ TypeOK' /\ FifoInv /\ FifoInv' /\ SizeExact /\ [Next]_vars
      => [Abstract!Next]_(Abstract!vars)
  BY Simulate, Zenon DEF FifoInv
<1>3. TypeOK /\ FifoInv /\ [Next]_vars => FifoInv'
  BY FifoNext
<1> QED
  BY <1>1, <1>2, <1>3, TypeCorrect, SizesAreCounted, FifoInit, PTL DEF Spec, Abstract!Safety
=============================================================================
