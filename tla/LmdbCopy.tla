------------------------------ MODULE LmdbCopy ------------------------------
(***************************************************************************)
(* The compacting copy of an LMDB environment                              *)
(* (vendors/ocaml-lmdb/src/mdb.c, mdb_env_copyfd1): one thread walks the   *)
(* databases of a snapshot and renumbers their pages into two buffers, a   *)
(* second one writes the buffers to the file.  They share mdb_copy, its    *)
(* mutex and its condition variable; mc_error is shared without the mutex. *)
(*                                                                         *)
(* Pages are the unit of buffers and writes.                               *)
(***************************************************************************)
EXTENDS Integers, Sequences

CONSTANTS
    Sources,        \* the environments to copy: see Source
    MDB_WBUF        \* pages in a buffer

NUM_METAS == 2
MDB_EOF == 16
P_INVALID == 0

ASSUME WbufAssumption == MDB_WBUF \in Nat /\ MDB_WBUF >= 2

\* A snapshot refers to pages it has, and an overflow run has a page.
ASSUME SourcesAssumption ==
    \A s \in Sources :
        /\ s.root \in DOMAIN s.pages \cup {P_INVALID}
        /\ DOMAIN s.pages \subseteq Nat /\ s.next_pgno \in Nat /\ s.freecount \in Nat
        /\ \A p \in DOMAIN s.pages :
              /\ s.pages[p].refs \in Seq([t : {"child", "plain", "big", "sub"}, p : Nat])
              /\ \A i \in DOMAIN s.pages[p].refs :
                    LET r == s.pages[p].refs[i]
                    IN /\ r.p # P_INVALID => r.p \in DOMAIN s.pages
                       /\ r.t = "big" => r.p # P_INVALID /\ s.pages[r.p].n \in Nat \ {0}

\* They are trees: no page is referred to twice, no page refers to the main
\* root, and an overflow page refers to nothing.
ASSUME TreesAssumption ==
    \A s \in Sources : \A p \in DOMAIN s.pages : \A i \in DOMAIN s.pages[p].refs :
        LET r == s.pages[p].refs[i]
        IN r.p # P_INVALID =>
              /\ r.p # s.root
              /\ r.t = "big" => s.pages[r.p].refs = <<>>
              /\ \A q \in DOMAIN s.pages : \A j \in DOMAIN s.pages[q].refs :
                    s.pages[q].refs[j].p = r.p => q = p /\ j = i

VARIABLES
    src,            \* the snapshot: its pages, main root, last page, free pages
    wbuf, over,     \* mc_wbuf with mc_wlen, mc_over with mc_olen
    next_pgno,      \* mc_next_pgno
    toggle,         \* mc_toggle: the buffer being filled
    new,            \* mc_new
    error,          \* mc_error, "" when not set
    mutex,          \* who holds mc_mutex
    waiting,        \* who waits for mc_cond
    pc, stack, root, rc, adjust,    \* the walker
    wpc, wtoggle, todo,             \* the writer
    file            \* the pages in the file

walker == <<pc, stack, root, rc, adjust>>
writer == <<wpc, wtoggle, todo>>
vars == <<src, wbuf, over, next_pgno, toggle, new, error, mutex, waiting, walker, writer, file>>

\* A page of the snapshot has a kind and what it refers to: the children of
\* a branch page; the nodes of a leaf, which are plain, big (on overflow
\* pages) or sub (the root of a database).
Ref(t, p) == [t |-> t, p |-> p]

\* A page of the copy: its number, the page it is a copy of (and which page
\* of an overflow run), and what it refers to.
Image(pgno, from, part, refs) == [pgno |-> pgno, from |-> from, part |-> part, refs |-> refs]

\* A page on the walker's stack; base if it is the root of its database.
Frame(p, base) == [p |-> p, refs |-> src.pages[p].refs, ki |-> 1, base |-> base]

new_root == IF src.root = P_INVALID THEN P_INVALID ELSE src.next_pgno - 1 - src.freecount

Init ==
    /\ src \in Sources
    /\ wbuf = [b \in 0..1 |-> <<>>] /\ over = [b \in 0..1 |-> <<>>]
    /\ next_pgno = NUM_METAS /\ toggle = 0 /\ new = 0 /\ error = ""
    /\ mutex = "free" /\ waiting = {}
    /\ pc = "begin" /\ stack = <<>> /\ root = src.root /\ rc = "" /\ adjust = 0
    /\ wpc = "start" /\ wtoggle = 0 /\ todo = <<>>
    /\ file = <<>>

-----------------------------------------------------------------------------
\* mdb_env_copyfd1, before the walk.

mdb_txn_begin ==
    /\ pc = "begin"
    /\ wbuf' = [wbuf EXCEPT ![0] = <<Image(0, 0, 0, <<>>), Image(1, 0, 0, <<Ref("main", new_root)>>)>>]
    /\ stack' = IF root = P_INVALID THEN <<>> ELSE <<Frame(root, TRUE)>>
    /\ pc' = IF root = P_INVALID THEN "finish" ELSE "walk"
    /\ UNCHANGED <<src, over, next_pgno, toggle, new, error, mutex, waiting, root, rc, adjust, writer, file>>

BeginFails ==
    /\ pc = "begin"
    /\ rc' = "BAD_RSLOT" /\ pc' = "finish"
    /\ UNCHANGED <<src, wbuf, over, next_pgno, toggle, new, error, mutex, waiting, stack, root, adjust,
                   writer, file>>

-----------------------------------------------------------------------------
\* mdb_env_cwalk.

Top == stack[Len(stack)]
Here == Top.refs[Top.ki]
Walking == pc = "walk"
AtNode == Walking /\ Top.ki <= Len(Top.refs)
Full == Len(wbuf[toggle]) >= MDB_WBUF

SetTop(f) == [stack EXCEPT ![Len(stack)] = f]
Stepped(p) == [Top EXCEPT !.refs[Top.ki].p = p, !.ki = @ + 1]

\* malloc fails when the walk of a database starts.
WalkFails ==
    /\ Walking /\ Top.base /\ Top.ki = 1
    /\ rc' = "ENOMEM" /\ pc' = "finish"
    /\ UNCHANGED <<src, wbuf, over, next_pgno, toggle, new, error, mutex, waiting, stack, root, adjust,
                   writer, file>>

\* Down to a child, or to the root of a sub-database.
WalkDown ==
    /\ AtNode /\ Here.t \in {"child", "sub"} /\ Here.p # P_INVALID
    /\ stack' = Append(stack, Frame(Here.p, Here.t = "sub"))
    /\ UNCHANGED <<src, wbuf, over, next_pgno, toggle, new, error, mutex, waiting, pc, root, rc, adjust,
                   writer, file>>

\* Nodes that refer to no page, and empty sub-databases.
WalkNode ==
    /\ AtNode /\ Here.p = P_INVALID
    /\ stack' = SetTop([Top EXCEPT !.ki = @ + 1])
    /\ UNCHANGED <<src, wbuf, over, next_pgno, toggle, new, error, mutex, waiting, pc, root, rc, adjust,
                   writer, file>>

\* Faulty variant of WalkBig: the buffer is not handed over before its overflow tail.
WalkBigKeeps ==
    LET n == src.pages[Here.p].n
        tail == [j \in 1..(n - 1) |-> Image(next_pgno + j, Here.p, j, <<>>)]
    IN /\ AtNode /\ Here.t = "big" /\ ~Full
       /\ wbuf' = [wbuf EXCEPT ![toggle] = Append(@, Image(next_pgno, Here.p, 0, <<>>))]
       /\ stack' = SetTop(Stepped(next_pgno))
       /\ next_pgno' = next_pgno + n
       /\ over' = [over EXCEPT ![toggle] = IF n > 1 THEN tail ELSE @]
       /\ UNCHANGED <<src, pc, adjust, toggle, new, error, mutex, waiting, root, rc, writer, file>>

\* The first page of an overflow run is put in the buffer; the rest is
\* written from the map, after the buffer, which is handed over at once.
WalkBig ==
    LET n == src.pages[Here.p].n
        tail == [j \in 1..(n - 1) |-> Image(next_pgno + j, Here.p, j, <<>>)]
    IN /\ AtNode /\ Here.t = "big" /\ ~Full
       /\ wbuf' = [wbuf EXCEPT ![toggle] = Append(@, Image(next_pgno, Here.p, 0, <<>>))]
       /\ stack' = SetTop(Stepped(next_pgno))
       /\ next_pgno' = next_pgno + n
       /\ over' = [over EXCEPT ![toggle] = IF n > 1 THEN tail ELSE @]
       /\ pc' = IF n > 1 THEN "toggle" ELSE pc
       /\ adjust' = 1
       /\ UNCHANGED <<src, toggle, new, error, mutex, waiting, root, rc, writer, file>>

\* A page whose references are renumbered is put in the buffer, and its
\* parent, or the database record, gets its number.
WalkPage ==
    LET up == Len(stack) - 1
    IN /\ Walking /\ Top.ki > Len(Top.refs) /\ ~Full
       /\ wbuf' = [wbuf EXCEPT ![toggle] = Append(@, Image(next_pgno, Top.p, 0, Top.refs))]
       /\ next_pgno' = next_pgno + 1
       /\ stack' = IF up = 0 THEN <<>>
                   ELSE SubSeq([stack EXCEPT ![up].refs[stack[up].ki].p = next_pgno,
                                             ![up].ki = @ + 1], 1, up)
       /\ root' = IF up = 0 THEN next_pgno ELSE root
       /\ pc' = IF up = 0 THEN "finish" ELSE pc
       /\ rc' = IF up = 0 /\ next_pgno # new_root THEN "INCOMPATIBLE" ELSE rc
       /\ UNCHANGED <<src, over, toggle, new, error, mutex, waiting, adjust, writer, file>>

\* No room for the next page.
WalkFull ==
    /\ Walking /\ Full /\ (AtNode => Here.t = "big")
    /\ pc' = "toggle" /\ adjust' = 1
    /\ UNCHANGED <<src, wbuf, over, next_pgno, toggle, new, error, mutex, waiting, stack, root, rc,
                   writer, file>>

Finish ==
    /\ pc = "finish"
    /\ error' = IF rc # "" THEN rc ELSE error
    /\ pc' = "toggle" /\ adjust' = 1 + MDB_EOF
    /\ UNCHANGED <<src, wbuf, over, next_pgno, toggle, new, mutex, waiting, stack, root, rc, writer, file>>

-----------------------------------------------------------------------------
\* mdb_env_cthr_toggle: what is done holding the mutex is one step.

BothInUse(n) == (n \div 2) % 2 = 1
Signalled == waiting \ {"writer"}

\* Faulty variant of HandOver: it does not wait for a free buffer.
HandOverAtOnce ==
    /\ pc = "toggle" /\ mutex = "free"
    /\ new' = new + adjust
    /\ waiting' = Signalled
    /\ pc' = "toggled"
    /\ UNCHANGED <<src, wbuf, over, next_pgno, toggle, error, mutex, stack, root, rc, adjust, writer, file>>

HandOver ==
    /\ pc = "toggle" /\ mutex = "free"
    /\ new' = new + adjust
    /\ waiting' = IF BothInUse(new + adjust) THEN {"walker"} ELSE Signalled
    /\ pc' = IF BothInUse(new + adjust) THEN "await" ELSE "toggled"
    /\ UNCHANGED <<src, wbuf, over, next_pgno, toggle, error, mutex, stack, root, rc, adjust, writer, file>>

\* Woken up, with the mutex.
AwaitBuffer ==
    /\ pc = "await" /\ mutex = "free" /\ "walker" \notin waiting
    /\ waiting' = IF BothInUse(new) THEN waiting \cup {"walker"} ELSE waiting
    /\ pc' = IF BothInUse(new) THEN pc ELSE "toggled"
    /\ UNCHANGED <<src, wbuf, over, next_pgno, toggle, new, error, mutex, stack, root, rc, adjust, writer,
                   file>>

\* The buffers are swapped; a failed write ends the walk.
Toggled ==
    LET b == IF adjust % 2 = 1 THEN 1 - toggle ELSE toggle
    IN /\ pc = "toggled"
       /\ toggle' = b
       /\ wbuf' = [wbuf EXCEPT ![b] = <<>>]
       /\ pc' = IF adjust >= MDB_EOF THEN "join" ELSE IF error # "" THEN "finish" ELSE "walk"
       /\ rc' = IF adjust < MDB_EOF /\ error # "" THEN error ELSE rc
       /\ UNCHANGED <<src, over, next_pgno, new, error, mutex, waiting, stack, root, adjust, writer, file>>

\* Faulty variant of Join: the result leaves out mc_error.
JoinUnaware ==
    /\ pc = "join" /\ wpc = "exited"
    /\ pc' = "done"
    /\ UNCHANGED <<src, wbuf, over, next_pgno, toggle, new, error, mutex, waiting, stack, root, rc, adjust,
                   writer, file>>

\* THREAD_FINISH, mdb_txn_abort and the result.
Join ==
    /\ pc = "join" /\ wpc = "exited"
    /\ pc' = "done" /\ rc' = error
    /\ UNCHANGED <<src, wbuf, over, next_pgno, toggle, new, error, mutex, waiting, stack, root, adjust,
                   writer, file>>

-----------------------------------------------------------------------------
\* mdb_env_copythr.

WriterStarts ==
    /\ wpc = "start" /\ mutex = "free"
    /\ mutex' = "writer" /\ wpc' = "next"
    /\ UNCHANGED <<src, wbuf, over, next_pgno, toggle, new, error, waiting, walker, wtoggle, todo, file>>

\* pthread_sigmask may fail: the copy fails.
SigmaskFails ==
    /\ wpc = "start" /\ error # "EINVAL"
    /\ error' = "EINVAL"
    /\ UNCHANGED <<src, wbuf, over, next_pgno, toggle, new, mutex, waiting, walker, writer, file>>

NextBuffer ==
    /\ wpc = "next"
    /\ mutex' = IF new \in {0, MDB_EOF} THEN "free" ELSE mutex
    /\ waiting' = IF new = 0 THEN waiting \cup {"writer"} ELSE waiting
    /\ wpc' = IF new = 0 THEN "await" ELSE IF new = MDB_EOF THEN "exited" ELSE "write"
    /\ todo' = IF new \in {0, MDB_EOF} THEN todo ELSE wbuf[wtoggle]
    /\ UNCHANGED <<src, wbuf, over, next_pgno, toggle, new, error, walker, wtoggle, file>>

WriterWakes ==
    /\ wpc = "await" /\ mutex = "free" /\ "writer" \notin waiting
    /\ mutex' = "writer" /\ wpc' = "next"
    /\ UNCHANGED <<src, wbuf, over, next_pgno, toggle, new, error, waiting, walker, wtoggle, todo, file>>

\* write() writes some of the pages ...
Write ==
    /\ wpc = "write" /\ todo # <<>> /\ error = ""
    /\ \E n \in 1..Len(todo) :
          /\ file' = file \o SubSeq(todo, 1, n)
          /\ todo' = SubSeq(todo, n + 1, Len(todo))
    /\ UNCHANGED <<src, wbuf, over, next_pgno, toggle, new, error, mutex, waiting, walker, wpc, wtoggle>>

\* ... or fails.
WriteFails ==
    /\ wpc = "write" /\ todo # <<>> /\ error = ""
    /\ error' = "EIO"
    /\ UNCHANGED <<src, wbuf, over, next_pgno, toggle, new, mutex, waiting, walker, writer, file>>

\* Faulty variant of BufferWritten: the condition variable is not signalled.
BufferWrittenQuietly ==
    /\ wpc = "write" /\ (todo = <<>> \/ error # "")
    /\ IF over[wtoggle] # <<>>
       THEN /\ todo' = over[wtoggle]
            /\ over' = [over EXCEPT ![wtoggle] = <<>>]
            /\ UNCHANGED <<wbuf, new, waiting, wpc, wtoggle>>
       ELSE /\ wbuf' = [wbuf EXCEPT ![wtoggle] = <<>>]
            /\ wtoggle' = 1 - wtoggle
            /\ new' = new - 1
            /\ todo' = <<>> /\ wpc' = "next"
            /\ UNCHANGED <<over, waiting>>
    /\ UNCHANGED <<src, next_pgno, toggle, error, mutex, walker, file>>

\* The rest of an overflow run is next; then the buffer is given back.
BufferWritten ==
    /\ wpc = "write" /\ (todo = <<>> \/ error # "")
    /\ IF over[wtoggle] # <<>>
       THEN /\ todo' = over[wtoggle]
            /\ over' = [over EXCEPT ![wtoggle] = <<>>]
            /\ UNCHANGED <<wbuf, new, waiting, wpc, wtoggle>>
       ELSE /\ wbuf' = [wbuf EXCEPT ![wtoggle] = <<>>]
            /\ wtoggle' = 1 - wtoggle
            /\ new' = new - 1
            /\ waiting' = waiting \ {"walker"}
            /\ todo' = <<>> /\ wpc' = "next"
            /\ UNCHANGED over
    /\ UNCHANGED <<src, next_pgno, toggle, error, mutex, walker, file>>

-----------------------------------------------------------------------------
mdb_env_cwalk == WalkFails \/ WalkDown \/ WalkNode \/ WalkBig \/ WalkPage \/ WalkFull
mdb_env_cthr_toggle == HandOver \/ AwaitBuffer \/ Toggled
mdb_env_copyfd1 == mdb_txn_begin \/ BeginFails \/ Finish \/ Join
mdb_env_copythr ==
    WriterStarts \/ SigmaskFails \/ NextBuffer \/ WriterWakes \/ Write \/ WriteFails \/ BufferWritten

Next == mdb_env_cwalk \/ mdb_env_cthr_toggle \/ mdb_env_copyfd1 \/ mdb_env_copythr

\* Both threads are scheduled.
Fairness ==
    /\ WF_vars(mdb_env_cwalk \/ mdb_env_cthr_toggle \/ mdb_env_copyfd1)
    /\ WF_vars(mdb_env_copythr)
Spec == Init /\ [][Next]_vars /\ Fairness

-----------------------------------------------------------------------------
\* The walker fills a buffer that the writer neither reads nor still has to
\* write: mc_new counts the buffers handed over, and tells both threads'
\* toggles apart (mdb_env_cthr_toggle, mdb_env_copythr).  The rest of an
\* overflow run still to be written is not replaced either.
Filling == pc \in {"begin", "walk", "finish"}
InUse == new % MDB_EOF
BuffersApart ==
    Filling => /\ InUse \in 0..1
               /\ toggle = wtoggle <=> InUse = 0
               /\ over[toggle] = <<>>

\* What is in the file is always a prefix of the copy, whatever the order in
\* which the threads run, write() splits the buffers and fails: page i of the
\* file is the page numbered i.
WrittenInOrder == \A i \in 1..Len(file) : file[i].pgno = i - 1

\* The page of the file with number p is a copy of page q of the snapshot.
At(p) == file[p + 1]
CopyOf(p, q) == p \in NUM_METAS..(Len(file) - 1) /\ At(p).from = q /\ At(p).part = 0

\* A copy that reports success is complete: the metapage refers to the last
\* page, which is the main root, every page refers to the copies of the
\* pages that the original refers to, overflow runs are contiguous, and no
\* page was copied twice (mdb_env_cwalk, mdb_env_copyfd1).
CopyFaithful ==
    /\ WrittenInOrder
    /\ pc = "done" /\ rc = "" =>
          /\ Len(file) = next_pgno
          /\ At(1).refs[1].p = IF src.root = P_INVALID THEN P_INVALID ELSE Len(file) - 1
          /\ src.root # P_INVALID => CopyOf(Len(file) - 1, src.root)
          /\ \A i, j \in NUM_METAS..(Len(file) - 1) :
                <<At(i).from, At(i).part>> = <<At(j).from, At(j).part>> => i = j
          /\ \A i \in NUM_METAS..(Len(file) - 1) :
                LET old == src.pages[At(i).from]
                IN /\ At(i).part = 0 => Len(At(i).refs) = Len(old.refs)
                   /\ \A k \in 1..Len(At(i).refs) :
                         LET r == At(i).refs[k]
                             o == old.refs[k]
                         IN /\ r.t = o.t
                            /\ IF o.p = P_INVALID THEN r.p = P_INVALID ELSE CopyOf(r.p, o.p)
                            /\ o.t = "big" => \A j \in 1..(src.pages[o.p].n - 1) :
                                  At(r.p + j).from = o.p /\ At(r.p + j).part = j

\* The copy ends, with or without failures: the two threads, which wait for
\* each other on one condition variable, never both wait.
CopyEnds == <>(pc = "done")
=============================================================================
