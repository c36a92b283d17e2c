------------------------------- MODULE Channel -------------------------------
(***************************************************************************)
(* What Lwt_pipe promises to its users, without promises, sleepers and     *)
(* size counters: a FIFO channel of bounded total size.  A write that is   *)
(* outstanding completes when there is room, a read when there is          *)
(* something to read, and both fail once the channel is closed.  Both may  *)
(* be given up by the caller while they are outstanding.                   *)
(***************************************************************************)
EXTENDS Integers, Sequences

CONSTANTS Writer, Reader, Element, MaxSize

VARIABLES
    sent,       \* elements accepted so far
    received,   \* the number of them that were received
    shut,       \* the channel is closed
    writing,    \* per writer, the sequence of its outstanding element, if any
    reading     \* the readers with an outstanding read

vars == <<sent, received, shut, writing, reading>>

\* The sum of the sizes of the elements of s.
Total(s) ==
    LET sum[i \in 0..Len(s)] == IF i = 0 THEN 0 ELSE sum[i - 1] + s[i].size
    IN  sum[Len(s)]

Content == SubSeq(sent, received + 1, Len(sent))
Fits(e) == Total(Content) + e.size < MaxSize \/ Content = <<>>

Init ==
    /\ sent = <<>> /\ received = 0 /\ shut = FALSE
    /\ writing = [w \in Writer |-> <<>>]
    /\ reading = {}

\* A write goes through at once, or later.
Write(w, e) ==
    /\ ~shut
    /\ Fits(e)
    /\ sent' = Append(sent, e)
    /\ writing' = [writing EXCEPT ![w] = <<>>]
    /\ UNCHANGED <<received, shut, reading>>

Written(w) == writing[w] # <<>> /\ Write(w, writing[w][1])

StartWrite(w, e) ==
    /\ ~shut
    /\ ~Fits(e)
    /\ writing' = [writing EXCEPT ![w] = <<e>>]
    /\ UNCHANGED <<sent, received, shut, reading>>

StopWrite(w) ==
    /\ writing[w] # <<>>
    /\ writing' = [writing EXCEPT ![w] = <<>>]
    /\ UNCHANGED <<sent, received, shut, reading>>

\* A read takes n elements (none, when it only waits for one to be there).
ReadSome(r, n) ==
    /\ Content # <<>>
    /\ n \in 0..Len(Content)
    /\ received' = received + n
    /\ reading' = reading \ {r}
    /\ UNCHANGED <<sent, shut, writing>>

StartRead(r) ==
    /\ ~shut
    /\ Content = <<>>
    /\ reading' = reading \cup {r}
    /\ UNCHANGED <<sent, received, shut, writing>>

StopRead(r) ==
    /\ r \in reading
    /\ reading' = reading \ {r}
    /\ UNCHANGED <<sent, received, shut, writing>>

Shut ==
    /\ ~shut
    /\ shut' = TRUE
    /\ UNCHANGED <<sent, received, writing, reading>>

Next ==
    \/ \E w \in Writer : \/ \E e \in Element : Write(w, e) \/ StartWrite(w, e)
                         \/ StopWrite(w)
    \/ \E r \in Reader : \/ \E n \in 0..Len(Content) : ReadSome(r, n)
                         \/ StartRead(r)
                         \/ StopRead(r)
    \/ Shut

\* An outstanding operation that can go through does, and one that is
\* outstanding on a closed channel fails.
Served(r) == r \in reading /\ \E n \in 0..Len(Content) : ReadSome(r, n)
ReadFails(r) == shut /\ Content = <<>> /\ StopRead(r)
WriteFails(w) == shut /\ StopWrite(w)

Fairness ==
    /\ \A w \in Writer : WF_vars(Written(w)) /\ WF_vars(WriteFails(w))
    /\ \A r \in Reader : WF_vars(Served(r)) /\ WF_vars(ReadFails(r))

\* The channel without its obligations, and with them.
Safety == Init /\ [][Next]_vars
Spec == Safety /\ Fairness
=============================================================================
