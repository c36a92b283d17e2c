---------------------------- MODULE SnapshotStore ----------------------------
(***************************************************************************)
(* What LMDB promises, without pages: a map with one writer at a time,     *)
(* whose transactions nest and are atomic; readers that keep the map they  *)
(* began with; and a disk that holds the last commit, or, when meta pages  *)
(* are not synced, the last or the one before.                             *)
(***************************************************************************)
EXTENDS Integers, Sequences

CONSTANTS
    Key, Val, Reader,
    sync            \* commits are durable when they return

VARIABLES
    current,        \* the map as of the last commit
    recoverable,    \* the maps a power failure may leave
    work,           \* the maps of the open transactions, innermost first
    view            \* per reader, <<>> or <<the map it reads>>

vars == <<current, recoverable, work, view>>

Failed == [k \in Key |-> -1]

Init ==
    /\ current \in [Key -> Val]
    /\ recoverable = {current}
    /\ work = <<>>
    /\ view = [r \in Reader |-> <<>>]

Begin ==
    /\ work = <<>>
    /\ work' = <<current>>
    /\ UNCHANGED <<current, recoverable, view>>

Nest ==
    /\ work # <<>> /\ Head(work) # Failed
    /\ work' = <<Head(work)>> \o work
    /\ UNCHANGED <<current, recoverable, view>>

\* An operation changes one key of the innermost transaction, or fails it.
Update ==
    /\ work # <<>> /\ Head(work) # Failed
    /\ \/ \E k \in Key, v \in Val :
             work' = <<[Head(work) EXCEPT ![k] = v]>> \o Tail(work)
       \/ work' = <<Failed>> \o Tail(work)
    /\ UNCHANGED <<current, recoverable, view>>

\* The innermost transaction ends, for its parent to see or without trace.
\* Committing a failed one fails the parent.
CommitNested ==
    /\ Len(work) > 1
    /\ work' = <<Head(work)>> \o Tail(Tail(work))
    /\ UNCHANGED <<current, recoverable, view>>

Abort ==
    /\ work # <<>>
    /\ work' \in {<<>>, Tail(work)}
    /\ UNCHANGED <<current, recoverable, view>>

Commit ==
    /\ Len(work) = 1 /\ Head(work) # Failed
    /\ current' = Head(work)
    /\ recoverable' = {current'} \cup IF sync THEN {} ELSE {current}
    /\ work' = <<>>
    /\ UNCHANGED view

\* A commit that fails while it writes the meta page may still be found
\* after a power failure.
Attempt ==
    /\ Len(work) = 1
    /\ recoverable' \in {recoverable, recoverable \cup {Head(work)}}
    /\ work' = <<>>
    /\ UNCHANGED <<current, view>>

Sync ==
    /\ recoverable' = {current}
    /\ UNCHANGED <<current, work, view>>

PowerFailure ==
    /\ current' \in recoverable
    /\ recoverable' = {current'}
    /\ work' = <<>>
    /\ view' = [r \in Reader |-> <<>>]

ReadBegin(r) ==
    /\ view[r] = <<>>
    /\ view' = [view EXCEPT ![r] = <<current>>]
    /\ UNCHANGED <<current, recoverable, work>>

ReadEnd(r) ==
    /\ view' = [view EXCEPT ![r] = <<>>]
    /\ UNCHANGED <<current, recoverable, work>>

Next ==
    \/ Begin \/ Nest \/ Update \/ CommitNested \/ Abort
    \/ Commit \/ Attempt \/ Sync \/ PowerFailure
    \/ \E r \in Reader : ReadBegin(r) \/ ReadEnd(r)

Spec == Init /\ [][Next]_vars
=============================================================================
