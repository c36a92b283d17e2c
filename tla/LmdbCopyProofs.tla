--------------------------- MODULE LmdbCopyProofs ---------------------------
(***************************************************************************)
(* Proofs about LmdbCopy, for any snapshots and size of the buffers.       *)
(***************************************************************************)
EXTENDS LmdbCopy, SequenceTheorems, TLAPS

Refs == [t : {"main", "child", "plain", "big", "sub"}, p : Int]
Images == [pgno : Nat, from : Nat, part : Nat, refs : Seq(Refs)]
Frames == [p : Nat, refs : Seq(Refs), ki : Nat \ {0}, base : BOOLEAN]

PCs == {"begin", "walk", "finish", "toggle", "await", "toggled", "join", "done"}
WPCs == {"start", "next", "await", "write", "exited"}

\* Every variable of the copy that the proofs need has its type.
TypeOK ==
    /\ src \in Sources
    /\ wbuf \in [0..1 -> Seq(Images)] /\ over \in [0..1 -> Seq(Images)]
    /\ next_pgno \in Nat
    /\ todo \in Seq(Images) /\ file \in Seq(Images)

\* What is left to walk is as in the snapshot.
Sound(r) ==
    /\ r.p # P_INVALID => r.p \in DOMAIN src.pages
    /\ r.t = "big" => r.p # P_INVALID /\ src.pages[r.p].n \in Nat \ {0}
Fine(f) == f \in Frames /\ \A j \in f.ki .. Len(f.refs) : Sound(f.refs[j])

\* The walker has more to do.
Resumes == pc = "walk" \/ (pc \in {"toggle", "await", "toggled"} /\ adjust = 1)

StackOK == /\ stack \in Seq(Frames)
           /\ \A i \in 1 .. Len(stack) : Fine(stack[i])
           /\ Resumes => stack # <<>>
           /\ pc = "begin" => root = src.root

\* The number of buffers handed over that are not written yet.
Use == IF new >= 16 THEN new - 16 ELSE new

\* Buffer b has pages to write: it was handed over, or is being filled.
Held(b) == \/ Use = 2
           \/ Use = 1 /\ b = wtoggle
           \/ pc \in {"begin", "walk", "finish", "toggle"} /\ b = toggle

\* Where the threads are: the walker hands over the buffer it has filled only
\* when the writer has one other at most, and the toggles follow.
Control ==
    /\ toggle \in 0..1 /\ wtoggle \in 0..1
    /\ new \in {0, 1, 2, 16, 17, 18}
    /\ pc \in PCs /\ wpc \in WPCs
    /\ new >= 16 <=> pc \in {"await", "toggled", "join", "done"} /\ adjust = 17
    /\ pc \in {"join", "done"} => adjust = 17
    /\ pc \in {"toggle", "await", "toggled"} => adjust \in {1, 17}
    /\ pc # "await" => Use \in 0..1
    /\ pc \notin {"await", "toggled"} => (toggle = wtoggle <=> Use = 0)
    /\ pc \in {"await", "toggled"} => (toggle = wtoggle <=> Use = 1)
    /\ wpc = "write" => Use >= 1
    /\ wpc = "exited" => new = 16
    /\ pc = "begin" => toggle = 0 /\ new = 0

\* A buffer that is not in use is empty.
Buffers ==
    /\ \A b \in 0..1 : ~Held(b) => wbuf[b] = <<>> /\ over[b] = <<>>
    /\ Filling => over[toggle] = <<>>
    /\ pc = "begin" => file = <<>> /\ next_pgno = 2 /\ wbuf[0] = <<>>

\* The threads wait for what has not happened yet.
Waits ==
    /\ "walker" \in waiting => pc = "await" /\ Use = 2
    /\ "writer" \in waiting => wpc = "await" /\ new = 0

\* The walk has failed if it did not put every page it numbered in a buffer;
\* mc_error tells once it is over.
Counted == pc # "begin" /\ rc = ""
Result ==
    /\ pc = "begin" \/ Resumes => rc = ""
    /\ error = "" /\ pc \in {"toggle", "await", "toggled", "join"} => rc = ""

\* The walker ends after the writer, with its result.
Ended == pc = "done" => wpc = "exited" /\ rc = error

\* The pages in s are numbered from n.
Numbered(s, n) == \A i \in 1 .. Len(s) : s[i].pgno = n + i - 1

\* The pages of the copy so far: those in the file, what is left of the
\* buffer the writer is at, its overflow tail, the other buffer and its tail.
cur == IF wpc = "write" THEN todo ELSE wbuf[wtoggle]
Out == (((file \o cur) \o over[wtoggle]) \o wbuf[1 - wtoggle]) \o over[1 - wtoggle]

Order == error = "" => Numbered(Out, 0) /\ (Counted => Len(Out) = next_pgno)

(***************************************************************************)
(* How far the walk is, whatever the writer does with its pages: s is the  *)
(* snapshot, out the pages of the copy so far, st the stack.               *)
(***************************************************************************)
\* Page q of the snapshot is among the pages after the meta pages.
Copied(out, q) == \E i \in 3 .. Len(out) : out[i].from = q

\* The reference r of the copy is right for the reference o of the snapshot.
Renumbered(s, out, r, o) ==
    /\ r.t = o.t
    /\ o.p = P_INVALID => r.p = P_INVALID
    /\ o.p # P_INVALID => r.p \in 2 .. (Len(out) - 1) /\ out[r.p + 1].from = o.p /\ out[r.p + 1].part = 0
    /\ o.t = "big" => /\ r.p + s.pages[o.p].n <= Len(out)
                      /\ \A j \in 1 .. (s.pages[o.p].n - 1) :
                            out[r.p + j + 1].from = o.p /\ out[r.p + j + 1].part = j

\* A copied page has the references of the original.
PageOK(s, out, im) ==
    /\ im.from \in DOMAIN s.pages
    /\ Len(im.refs) = IF im.part = 0 THEN Len(s.pages[im.from].refs) ELSE 0
    /\ \A k \in 1 .. Len(im.refs) : Renumbered(s, out, im.refs[k], s.pages[im.from].refs[k])

\* A page on the stack has those up to ki, and is not copied yet.
FrameOK(s, out, f) ==
    /\ f.p \in DOMAIN s.pages /\ Len(f.refs) = Len(s.pages[f.p].refs) /\ ~Copied(out, f.p)
    /\ \A k \in 1 .. Len(f.refs) :
          /\ k < f.ki => Renumbered(s, out, f.refs[k], s.pages[f.p].refs[k])
          /\ k >= f.ki => f.refs[k] = s.pages[f.p].refs[k]

\* The reference that frame f is at is to page q.
Points(s, f, q) ==
    /\ f.ki \in 1 .. Len(s.pages[f.p].refs)
    /\ s.pages[f.p].refs[f.ki].p = q /\ q # P_INVALID

\* The stack is a path from the main root.
Linked(s, st) ==
    /\ Len(st) > 0 => st[1].p = s.root
    /\ \A i \in 2 .. Len(st) : /\ Points(s, st[i - 1], st[i].p)
                               /\ s.pages[st[i - 1].p].refs[st[i - 1].ki].t # "big"
    /\ \A i, j \in 1 .. Len(st) : st[i].p = st[j].p => i = j

Once(out) == \A i, j \in 3 .. Len(out) : out[i].from = out[j].from /\ out[i].part = out[j].part => i = j

\* The page that reference k of page p leads to has been passed.
Passed(out, st, p, k) == Copied(out, p) \/ \E f \in 1 .. Len(st) : st[f].p = p /\ k < st[f].ki
Reached(s, out, st, q) ==
    \/ q = s.root /\ st = <<>>
    \/ \E p \in DOMAIN s.pages : \E k \in 1 .. Len(s.pages[p].refs) :
          s.pages[p].refs[k].p = q /\ q # P_INVALID /\ Passed(out, st, p, k)

Walked(s, out, st) ==
    /\ Len(out) >= 2
    /\ \A i \in 3 .. Len(out) : PageOK(s, out, out[i]) /\ Reached(s, out, st, out[i].from)
    /\ \A i \in 1 .. Len(st) : FrameOK(s, out, st[i])
    /\ Linked(s, st) /\ Once(out)

\* The walk goes on, or every page that the main root leads to is copied.
Progress ==
    error = "" /\ Counted =>
        /\ Walked(src, Out, stack)
        /\ Out[2].refs = <<Ref("main", new_root)>>
        /\ src.root = P_INVALID => stack = <<>> /\ Len(Out) = 2
        /\ src.root # P_INVALID /\ stack = <<>> =>
              /\ new_root = Len(Out) - 1 /\ Len(Out) >= 3
              /\ Out[Len(Out)].from = src.root /\ Out[Len(Out)].part = 0
        /\ ~Resumes => stack = <<>>

IInv == TypeOK /\ StackOK /\ Control /\ Buffers /\ Waits /\ Result /\ Ended
        /\ WrittenInOrder /\ Order /\ Progress

(***************************************************************************)
(* The walk.                                                               *)
(***************************************************************************)
\* out2 is out and some copies of page q.
Extended(out, out2, q) ==
    /\ Len(out2) > Len(out)
    /\ \A i \in 1 .. Len(out) : out2[i] = out[i]
    /\ \A i \in Len(out) + 1 .. Len(out2) :
          out2[i].pgno = i - 1 /\ out2[i].from = q /\ out2[i].part = i - Len(out) - 1

\* The references of a page of a snapshot.
LEMMA SourceRef ==
    ASSUME NEW s \in Sources, NEW p \in DOMAIN s.pages
    PROVE  /\ p \in Nat /\ Len(s.pages[p].refs) \in Nat
           /\ \A k \in 1 .. Len(s.pages[p].refs) :
                 LET o == s.pages[p].refs[k]
                 IN /\ o.p \in Nat /\ (o.p # P_INVALID => o.p \in DOMAIN s.pages)
                    /\ o.t = "big" => /\ o.p # P_INVALID /\ s.pages[o.p].n \in Nat \ {0}
                                      /\ s.pages[o.p].refs = <<>>
                    /\ o.p # P_INVALID => o.p # s.root
<1> DEFINE R == [t : {"child", "plain", "big", "sub"}, p : Nat]
           x == s.pages[p].refs
<1>1. p \in Nat /\ x \in Seq(R)
  BY SourcesAssumption, ZenonT(60)
<1>2. Len(x) \in Nat /\ DOMAIN x = 1 .. Len(x)
  BY <1>1, LenProperties
<1>3. \A k \in DOMAIN x : /\ x[k].p # P_INVALID => x[k].p \in DOMAIN s.pages
                          /\ x[k].t = "big" => x[k].p # P_INVALID /\ s.pages[x[k].p].n \in Nat \ {0}
  BY SourcesAssumption, Zenon
<1>4. \A k \in DOMAIN x : x[k].p # P_INVALID => /\ x[k].p # s.root
                                                /\ x[k].t = "big" => s.pages[x[k].p].refs = <<>>
  BY TreesAssumption, Zenon
<1>5. \A k \in 1 .. Len(x) : x[k].p \in Nat
  <2>1. \A k \in 1 .. Len(x) : x[k] \in R
    BY <1>1, ElementOfSeq, Zenon
  <2> QED
    BY <2>1
<1> HIDE DEF x
<1>6. /\ p \in Nat /\ Len(x) \in Nat
      /\ \A k \in 1 .. Len(x) :
            /\ x[k].p \in Nat /\ (x[k].p # P_INVALID => x[k].p \in DOMAIN s.pages)
            /\ x[k].t = "big" => /\ x[k].p # P_INVALID /\ s.pages[x[k].p].n \in Nat \ {0}
                                 /\ s.pages[x[k].p].refs = <<>>
            /\ x[k].p # P_INVALID => x[k].p # s.root
  BY <1>1, <1>2, <1>3, <1>4, <1>5, Zenon
<1> QED
  BY <1>6, Zenon DEF x

\* A page is referred to once.
LEMMA OneParent ==
    ASSUME NEW s \in Sources, NEW p \in DOMAIN s.pages, NEW q \in DOMAIN s.pages,
           NEW i \in 1 .. Len(s.pages[p].refs), NEW j \in 1 .. Len(s.pages[q].refs),
           s.pages[p].refs[i].p = s.pages[q].refs[j].p, s.pages[p].refs[i].p # P_INVALID
    PROVE  p = q /\ i = j
<1>1. i \in DOMAIN s.pages[p].refs /\ j \in DOMAIN s.pages[q].refs
  <2>1. \A x \in DOMAIN s.pages : s.pages[x].refs \in Seq([t : {"child", "plain", "big", "sub"}, p : Nat])
    BY SourcesAssumption, ZenonT(60)
  <2> QED
    BY <2>1, LenProperties, SMTT(30)
<1> QED
  BY <1>1, TreesAssumption, ZenonT(30)

\* What is copied stays.
LEMMA CopiedMore ==
    ASSUME NEW out, NEW out2, NEW q, Extended(out, out2, q), Len(out) \in Nat, Len(out2) \in Nat, Len(out) >= 2
    PROVE  \A p : Copied(out2, p) <=> Copied(out, p) \/ p = q
<1>1. ASSUME NEW p, Copied(out2, p), p # q PROVE Copied(out, p)
  <2>1. PICK i \in 3 .. Len(out2) : out2[i].from = p
    BY <1>1, Zenon DEF Copied
  <2>2. ~(i \in Len(out) + 1 .. Len(out2))
    BY <1>1, <2>1, Zenon DEF Extended
  <2>3. i \in 3 .. Len(out) /\ i \in 1 .. Len(out)
    BY <2>2
  <2> QED
    BY <2>1, <2>3, Zenon DEF Copied, Extended
<1>2. ASSUME NEW p, Copied(out, p) PROVE Copied(out2, p)
  <2>1. PICK i \in 3 .. Len(out) : out[i].from = p
    BY <1>2, Zenon DEF Copied
  <2>2. i \in 3 .. Len(out2) /\ i \in 1 .. Len(out)
    BY DEF Extended
  <2> QED
    BY <2>1, <2>2, Zenon DEF Copied, Extended
<1>3. Copied(out2, q)
  <2>1. Len(out) + 1 \in 3 .. Len(out2) /\ Len(out) + 1 \in Len(out) + 1 .. Len(out2)
    BY DEF Extended
  <2> QED
    BY <2>1, Zenon DEF Extended, Copied
<1> QED
  BY <1>1, <1>2, <1>3, Zenon

\* References to it too.
LEMMA RenumberedMore ==
    ASSUME NEW s, NEW out, NEW out2, NEW q, Extended(out, out2, q), Len(out) \in Nat, Len(out2) \in Nat,
           NEW r, NEW o, Renumbered(s, out, r, o),
           o.t = "big" => o.p # P_INVALID /\ s.pages[o.p].n \in Nat \ {0}
    PROVE  Renumbered(s, out2, r, o)
<1>0. \A i \in 1 .. Len(out) : out2[i] = out[i]
  BY Zenon DEF Extended
<1>1. o.p # P_INVALID => r.p \in 2 .. (Len(out2) - 1) /\ out2[r.p + 1].from = o.p /\ out2[r.p + 1].part = 0
  <2> SUFFICES ASSUME o.p # P_INVALID
               PROVE  r.p \in 2 .. (Len(out2) - 1) /\ out2[r.p + 1].from = o.p /\ out2[r.p + 1].part = 0
    OBVIOUS
  <2>1. r.p \in 2 .. (Len(out) - 1) /\ out[r.p + 1].from = o.p /\ out[r.p + 1].part = 0
    BY Zenon DEF Renumbered
  <2>2. r.p \in 2 .. (Len(out2) - 1) /\ r.p + 1 \in 1 .. Len(out)
    BY <2>1 DEF Extended
  <2> QED
    BY <1>0, <2>1, <2>2, Zenon
<1>2. o.t = "big" => /\ r.p + s.pages[o.p].n <= Len(out2)
                     /\ \A j \in 1 .. (s.pages[o.p].n - 1) :
                           out2[r.p + j + 1].from = o.p /\ out2[r.p + j + 1].part = j
  <2> DEFINE n == s.pages[o.p].n
  <2> SUFFICES ASSUME o.t = "big"
               PROVE  /\ r.p + n <= Len(out2)
                      /\ \A j \in 1 .. (n - 1) : out2[r.p + j + 1].from = o.p /\ out2[r.p + j + 1].part = j
    OBVIOUS
  <2>1. /\ r.p + n <= Len(out) /\ n \in Nat \ {0}
        /\ \A j \in 1 .. (n - 1) : out[r.p + j + 1].from = o.p /\ out[r.p + j + 1].part = j
        /\ r.p \in 2 .. (Len(out) - 1)
    BY Zenon DEF Renumbered
  <2> HIDE DEF n
  <2>2. r.p + n <= Len(out2)
    BY <2>1 DEF Extended
  <2>3. \A j \in 1 .. (n - 1) : r.p + j + 1 \in 1 .. Len(out)
    BY <2>1, SMTT(30)
  <2> QED
    BY <1>0, <2>1, <2>2, <2>3, Zenon
<1> QED
  BY <1>1, <1>2, Zenon DEF Renumbered

\* The frame f once the page it is at is copied to n.
Bump(f, n) == [f EXCEPT !.refs[f.ki].p = n, !.ki = @ + 1]

\* It is changed there only.
LEMMA BumpFacts ==
    ASSUME NEW f \in Frames, NEW n \in Nat
    PROVE  LET b == Bump(f, n)
           IN /\ b \in Frames /\ b.p = f.p /\ b.ki = f.ki + 1 /\ Len(b.refs) = Len(f.refs)
              /\ \A k \in 1 .. Len(f.refs) : k # f.ki => b.refs[k] = f.refs[k]
              /\ f.ki \in 1 .. Len(f.refs) => b.refs[f.ki].t = f.refs[f.ki].t /\ b.refs[f.ki].p = n
<1> DEFINE g == [f.refs EXCEPT ![f.ki].p = n]
<1>2. f.ki \in Nat \ {0} /\ f.refs \in Seq(Refs)
  BY DEF Frames
<1>3. /\ g \in Seq(Refs) /\ Len(g) = Len(f.refs) /\ \A j \in 1 .. Len(g) : j # f.ki => g[j] = f.refs[j]
      /\ f.ki \in 1 .. Len(f.refs) => g[f.ki].t = f.refs[f.ki].t /\ g[f.ki].p = n
  <2>1. \A r \in Refs : [r EXCEPT !.p = n] \in Refs /\ [r EXCEPT !.p = n].t = r.t /\ [r EXCEPT !.p = n].p = n
    BY DEF Refs
  <2>2. \A j \in 1 .. Len(f.refs) : g[j] = IF j = f.ki THEN [f.refs[j] EXCEPT !.p = n] ELSE f.refs[j]
    BY <1>2
  <2>3. DOMAIN g = 1 .. Len(f.refs) /\ Len(f.refs) \in Nat
    BY <1>2
  <2>4. \A j \in 1 .. Len(f.refs) : f.refs[j] \in Refs
    BY <1>2
  <2> HIDE DEF g
  <2>5. \A j \in 1 .. Len(f.refs) : g[j] \in Refs
    BY <2>1, <2>2, <2>4, Zenon
  <2>6. g = [j \in 1 .. Len(f.refs) |-> g[j]]
    BY <2>3, <1>2, SMTT(30) DEF g
  <2>7. g \in Seq(Refs) /\ Len(g) = Len(f.refs)
    BY <2>3, <2>5, <2>6
  <2>8. \A j \in 1 .. Len(f.refs) : j = f.ki => g[j].t = f.refs[j].t /\ g[j].p = n
    BY <2>1, <2>2, <2>4, ZenonT(30)
  <2> QED
    BY <2>2, <2>7, <2>8, Zenon
<1>4. Bump(f, n) = [f EXCEPT !.refs = g, !.ki = f.ki + 1]
  BY DEF Bump, Frames
<1>5. f.ki + 1 \in Nat \ {0}
  BY <1>2
<1> HIDE DEF g
<1>6. /\ Bump(f, n) \in Frames /\ Bump(f, n).p = f.p
      /\ Bump(f, n).refs = g /\ Bump(f, n).ki = f.ki + 1
  BY Zenon, <1>2, <1>3, <1>4, <1>5 DEF Frames
<1> QED
  BY <1>3, <1>6, Zenon

\* The frames below stay right, and the one whose reference is renumbered is.
LEMMA FrameMore ==
    ASSUME NEW s \in Sources, NEW out \in Seq(Images), NEW out2 \in Seq(Images), NEW q,
           Extended(out, out2, q), Len(out) >= 2,
           NEW f \in Frames, FrameOK(s, out, f), f.p # q
    PROVE  /\ FrameOK(s, out2, f)
           /\ Points(s, f, q) /\ (s.pages[f.p].refs[f.ki].t = "big" => Len(out2) = Len(out) + s.pages[q].n) =>
                 FrameOK(s, out2, Bump(f, Len(out)))
<1>0. Len(out) \in Nat /\ Len(out2) \in Nat
  BY LenProperties
<1>1. ~Copied(out2, f.p)
  BY <1>0, CopiedMore, ZenonT(30) DEF FrameOK
<1>2. f.p \in DOMAIN s.pages /\ Len(f.refs) = Len(s.pages[f.p].refs) /\ Len(f.refs) \in Nat
  BY SourceRef, ZenonT(60) DEF FrameOK
<1>3. \A k \in 1 .. Len(f.refs) : k < f.ki => Renumbered(s, out2, f.refs[k], s.pages[f.p].refs[k])
  <2> SUFFICES ASSUME NEW k \in 1 .. Len(f.refs), k < f.ki
               PROVE  Renumbered(s, out2, f.refs[k], s.pages[f.p].refs[k])
    OBVIOUS
  <2>1. Renumbered(s, out, f.refs[k], s.pages[f.p].refs[k])
    BY Zenon DEF FrameOK
  <2>2. s.pages[f.p].refs[k].t = "big" =>
           s.pages[f.p].refs[k].p # P_INVALID /\ s.pages[s.pages[f.p].refs[k].p].n \in Nat \ {0}
    BY <1>2, SourceRef, Zenon
  <2> QED
    BY <1>0, <2>1, <2>2, RenumberedMore, Zenon
<1>4. FrameOK(s, out2, f)
  BY <1>1, <1>2, <1>3, Zenon DEF FrameOK
<1>5. ASSUME Points(s, f, q), s.pages[f.p].refs[f.ki].t = "big" => Len(out2) = Len(out) + s.pages[q].n
      PROVE  FrameOK(s, out2, Bump(f, Len(out)))
  <2> DEFINE b == Bump(f, Len(out))
             o == s.pages[f.p].refs[f.ki]
  <2>0. f.ki \in 1 .. Len(f.refs) /\ o.p = q /\ q # P_INVALID
    BY <1>2, <1>5, Zenon DEF Points
  <2>1. /\ b.p = f.p /\ b.ki = f.ki + 1 /\ Len(b.refs) = Len(f.refs)
        /\ \A k \in 1 .. Len(f.refs) : k # f.ki => b.refs[k] = f.refs[k]
        /\ b.refs[f.ki].t = f.refs[f.ki].t /\ b.refs[f.ki].p = Len(out)
    BY <1>0, <2>0, BumpFacts, ZenonT(30)
  <2>2. f.refs[f.ki] = o
    BY <2>0, SMTT(30) DEF FrameOK
  <2>3. Renumbered(s, out2, b.refs[f.ki], o)
    <3>1. Len(out) \in 2 .. (Len(out2) - 1) /\ Len(out) + 1 \in Len(out) + 1 .. Len(out2)
      BY <1>0 DEF Extended
    <3>2. out2[Len(out) + 1].from = q /\ out2[Len(out) + 1].part = 0
      BY <1>0, <3>1 DEF Extended
    <3>3. ASSUME o.t = "big"
          PROVE  /\ Len(out) + s.pages[q].n <= Len(out2)
                 /\ \A j \in 1 .. (s.pages[q].n - 1) :
                       out2[Len(out) + j + 1].from = q /\ out2[Len(out) + j + 1].part = j
      <4>1. s.pages[q].n \in Nat \ {0} /\ Len(out2) = Len(out) + s.pages[q].n
        BY <1>2, <1>5, <2>0, <3>3, SourceRef, Zenon
      <4> DEFINE n == s.pages[q].n
      <4> HIDE DEF n
      <4>2. n \in Nat \ {0} /\ Len(out2) = Len(out) + n
        BY <4>1, Zenon DEF n
      <4>3. ASSUME NEW j \in 1 .. (n - 1)
            PROVE  out2[Len(out) + j + 1].from = q /\ out2[Len(out) + j + 1].part = j
        <5>1. Len(out) + j + 1 \in Len(out) + 1 .. Len(out2) /\ (Len(out) + j + 1) - Len(out) - 1 = j
          BY <1>0, <4>2
        <5> QED
          BY <5>1, Zenon DEF Extended
      <4>4. Len(out) + n <= Len(out2)
        BY <1>0, <4>2
      <4> QED
        BY <4>3, <4>4, Zenon DEF n
    <3> HIDE DEF o, b
    <3> QED
      BY <2>0, <2>1, <2>2, <3>1, <3>2, <3>3, ZenonT(60) DEF Renumbered
  <2> HIDE DEF b
  <2>4. \A k \in 1 .. Len(f.refs) : k < f.ki + 1 => Renumbered(s, out2, b.refs[k], s.pages[f.p].refs[k])
    <3> SUFFICES ASSUME NEW k \in 1 .. Len(f.refs), k < f.ki + 1
                 PROVE  Renumbered(s, out2, b.refs[k], s.pages[f.p].refs[k])
      OBVIOUS
    <3>1. k = f.ki \/ k < f.ki
      BY <2>0
    <3>2. k < f.ki => k # f.ki
      BY <2>0
    <3> QED
      BY <1>3, <2>1, <2>3, <3>1, <3>2, Zenon
  <2>5. \A k \in 1 .. Len(f.refs) : k >= f.ki + 1 => b.refs[k] = s.pages[f.p].refs[k]
    <3> SUFFICES ASSUME NEW k \in 1 .. Len(f.refs), k >= f.ki + 1
                 PROVE  b.refs[k] = s.pages[f.p].refs[k]
      OBVIOUS
    <3>1. k # f.ki /\ k >= f.ki
      BY <2>0
    <3> QED
      BY <2>1, <3>1, Zenon DEF FrameOK
  <2>6. FrameOK(s, out2, b)
    BY <1>1, <1>2, <2>1, <2>4, <2>5, Zenon DEF FrameOK
  <2> QED
    BY <2>6, Zenon DEF b
<1> QED
  BY <1>4, <1>5, Zenon

\* So do the copied pages.
LEMMA PageMore ==
    ASSUME NEW s \in Sources, NEW out \in Seq(Images), NEW out2 \in Seq(Images), NEW q,
           Extended(out, out2, q), NEW im, PageOK(s, out, im)
    PROVE  PageOK(s, out2, im)
<1>0. Len(out) \in Nat /\ Len(out2) \in Nat
  BY LenProperties
<1>1. im.from \in DOMAIN s.pages
  BY Zenon DEF PageOK
<1>2. Len(s.pages[im.from].refs) \in Nat
  BY <1>1, SourceRef, Zenon
<1>3. \A k \in 1 .. Len(im.refs) : k \in 1 .. Len(s.pages[im.from].refs)
  BY <1>2 DEF PageOK
<1>4. ASSUME NEW k \in 1 .. Len(im.refs) PROVE Renumbered(s, out2, im.refs[k], s.pages[im.from].refs[k])
  <2>1. Renumbered(s, out, im.refs[k], s.pages[im.from].refs[k])
    BY Zenon DEF PageOK
  <2>2. s.pages[im.from].refs[k].t = "big" =>
           /\ s.pages[im.from].refs[k].p # P_INVALID
           /\ s.pages[s.pages[im.from].refs[k].p].n \in Nat \ {0}
    BY <1>1, <1>3, SourceRef, Zenon
  <2> QED
    BY <1>0, <2>1, <2>2, RenumberedMore, Zenon
<1> QED
  BY <1>4, Zenon DEF PageOK

\* Putting the copies of page q, which the walk is at, in the buffer: the m
\* frames below it stay, and the last of them goes on.
Puts(s, out, out2, st, st2, q) ==
    /\ Extended(out, out2, q) /\ ~Copied(out, q)
    /\ \A i \in Len(out) + 1 .. Len(out2) : PageOK(s, out, out2[i])
    /\ Len(st) > 0 /\ Len(st2) <= Len(st)
    /\ \A i \in 1 .. Len(st2) : st[i].p # q
    /\ \A i \in Len(st2) + 1 .. Len(st) : st[i].p = q
    /\ \A i \in 1 .. Len(st2) : i < Len(st2) => st2[i] = st[i]
    /\ Len(st2) > 0 => /\ st2[Len(st2)] = Bump(st[Len(st2)], Len(out))
                       /\ Points(s, st[Len(st2)], q)
                       /\ s.pages[st[Len(st2)].p].refs[st[Len(st2)].ki].t = "big" =>
                             Len(out2) = Len(out) + s.pages[q].n
    /\ Len(st2) = 0 => q = s.root

\* Every page is still reached, and reached once.
LEMMA WalkedPut ==
    ASSUME NEW s \in Sources, NEW out \in Seq(Images), NEW out2 \in Seq(Images),
           NEW st \in Seq(Frames), NEW st2 \in Seq(Frames), NEW q,
           Walked(s, out, st), Puts(s, out, out2, st, st2, q)
    PROVE  Walked(s, out2, st2)
<1> DEFINE m == Len(st2)
<1>0. Len(out) \in Nat /\ Len(out2) \in Nat /\ Len(st) \in Nat /\ m \in Nat /\ Len(out) >= 2 /\ m <= Len(st)
  BY LenProperties, SMTT(30) DEF Walked, Puts
<1>1. Extended(out, out2, q) /\ ~Copied(out, q)
  BY Zenon DEF Puts
<1>2. \A p : Copied(out2, p) <=> Copied(out, p) \/ p = q
  BY <1>0, <1>1, CopiedMore, Zenon
<1>3. \A i \in 1 .. m : i \in 1 .. Len(st) /\ st[i] \in Frames /\ FrameOK(s, out, st[i])
  <2>1. \A i \in 1 .. m : i \in 1 .. Len(st)
    BY <1>0
  <2> QED
    BY <2>1, ElementOfSeq, Zenon DEF Walked
<1>4. /\ \A i \in 1 .. m : i < m => st2[i] = st[i]
      /\ m > 0 => st2[m] = Bump(st[m], Len(out)) /\ Points(s, st[m], q)
  BY Zenon DEF Puts
<1>5. \A i \in 1 .. m : (i < m /\ i # m) \/ (i = m /\ m > 0 /\ ~(i < m))
  BY <1>0
<1>6. \A i \in 1 .. m : /\ st2[i].p = st[i].p /\ (i < m => st2[i].ki = st[i].ki)
                        /\ i = m => st2[i].ki = st[i].ki + 1
  <2> SUFFICES ASSUME NEW i \in 1 .. m
               PROVE  /\ st2[i].p = st[i].p /\ (i < m => st2[i].ki = st[i].ki)
                      /\ i = m => st2[i].ki = st[i].ki + 1
    BY Zenon
  <2>1. CASE i < m /\ i # m
    BY <1>4, <2>1, Zenon
  <2>2. CASE i = m /\ m > 0 /\ ~(i < m)
    <3>1. st2[i] = Bump(st[i], Len(out)) /\ st[i] \in Frames /\ Len(out) \in Nat
      BY <1>0, <1>3, <1>4, <2>2, Zenon
    <3>2. Bump(st[i], Len(out)).p = st[i].p /\ Bump(st[i], Len(out)).ki = st[i].ki + 1
      BY <3>1, BumpFacts, Zenon
    <3> QED
      BY <2>2, <3>1, <3>2, Zenon
  <2> QED
    BY <1>5, <2>1, <2>2, Zenon
<1>7. Len(out2) >= 2
  BY <1>0, <1>1 DEF Extended
<1>8. ASSUME NEW i \in 3 .. Len(out2)
      PROVE  \/ i \in 3 .. Len(out) /\ i \in 1 .. Len(out) /\ out2[i] = out[i]
             \/ i \in Len(out) + 1 .. Len(out2) /\ out2[i].from = q /\ out2[i].part = i - Len(out) - 1
  <2>1. \/ i \in 3 .. Len(out) /\ i \in 1 .. Len(out)
        \/ i \in Len(out) + 1 .. Len(out2)
    BY <1>0
  <2> QED
    BY <1>1, <2>1, Zenon DEF Extended
<1>9. ASSUME NEW i \in 3 .. Len(out2) PROVE PageOK(s, out2, out2[i])
  <2>1. PageOK(s, out, out2[i])
    BY <1>8, Zenon DEF Walked, Puts
  <2> QED
    BY <1>1, <2>1, PageMore, Zenon
<1>10. ASSUME NEW i \in 1 .. m PROVE FrameOK(s, out2, st2[i])
  <2>1. st[i].p # q
    BY Zenon DEF Puts
  <2> DEFINE f == st[i]
  <2>a. f \in Frames /\ FrameOK(s, out, f) /\ f.p # q /\ Len(out) >= 2
    BY <1>0, <1>3, <2>1, Zenon
  <2> HIDE DEF f
  <2>2. FrameOK(s, out2, st[i])
    <3>1. FrameOK(s, out2, f)
      BY <1>1, <2>a, FrameMore, Zenon
    <3> QED
      BY <3>1, Zenon DEF f
  <2>3. i = m => FrameOK(s, out2, Bump(st[i], Len(out)))
    <3>1. i = m => /\ Points(s, st[i], q)
                   /\ s.pages[st[i].p].refs[st[i].ki].t = "big" => Len(out2) = Len(out) + s.pages[q].n
      BY <1>5, Zenon DEF Puts
    <3> QED
      BY <1>0, <1>1, <1>3, <2>1, <3>1, FrameMore, Zenon
  <2> QED
    BY <1>4, <1>5, <2>2, <2>3, Zenon
<1>11. Linked(s, st2)
  <2>1. m > 0 => st2[1].p = s.root
    <3>1. m > 0 => 1 \in 1 .. m /\ Len(st) > 0
      BY <1>0
    <3> QED
      BY <1>6, <3>1, Zenon DEF Walked, Linked
  <2>2. ASSUME NEW i \in 2 .. m
        PROVE  /\ Points(s, st2[i - 1], st2[i].p)
               /\ s.pages[st2[i - 1].p].refs[st2[i - 1].ki].t # "big"
    <3>1. i \in 2 .. Len(st) /\ i \in 1 .. m /\ i - 1 \in 1 .. m /\ i - 1 < m
      BY <1>0
    <3>2. st2[i - 1] = st[i - 1] /\ st2[i].p = st[i].p
      BY <1>4, <1>6, <3>1, Zenon
    <3> QED
      BY <3>1, <3>2, Zenon DEF Walked, Linked
  <2>3. \A i, j \in 1 .. m : st2[i].p = st2[j].p => i = j
    BY <1>3, <1>6, Zenon DEF Walked, Linked
  <2> QED
    BY <2>1, <2>2, <2>3, Zenon DEF Linked
<1>12. Once(out2)
  <2> SUFFICES ASSUME NEW i \in 3 .. Len(out2), NEW j \in 3 .. Len(out2),
                      out2[i].from = out2[j].from, out2[i].part = out2[j].part
               PROVE  i = j
    BY Zenon DEF Once
  <2>1. CASE i \in 3 .. Len(out) /\ out2[i] = out[i] /\ j \in 3 .. Len(out) /\ out2[j] = out[j]
    BY <2>1, Zenon DEF Walked, Once
  <2>2. CASE out2[i].part = i - Len(out) - 1 /\ out2[j].part = j - Len(out) - 1
    <3>1. i - Len(out) - 1 = j - Len(out) - 1
      BY <2>2, Zenon
    <3> QED
      BY <1>0, <3>1
  <2>3. ASSUME NEW k \in 3 .. Len(out), out[k].from = q PROVE FALSE
    BY <1>1, <2>3, Zenon DEF Copied
  <2> QED
    BY <1>8, <2>1, <2>2, <2>3, Zenon
<1>13. ASSUME NEW i \in 3 .. Len(out2) PROVE Reached(s, out2, st2, out2[i].from)
  <2>1. CASE out2[i].from = q /\ m = 0
    <3>1. st2 = <<>>
      BY <2>1, EmptySeq
    <3> QED
      BY <2>1, <3>1, Zenon DEF Reached, Puts
  <2>2. CASE out2[i].from = q /\ m > 0
    <3>1. m \in 1 .. m /\ st[m].ki < st2[m].ki
      <4>1. m \in 1 .. m
        BY <1>0, <2>2
      <4>2. st[m].ki \in Nat /\ st2[m].ki = st[m].ki + 1
        <5>1. st[m] \in Frames
          BY <1>3, <4>1, Zenon
        <5> QED
          BY <1>6, <4>1, <5>1, Zenon DEF Frames
      <4> QED
        BY <4>1, <4>2
    <3>2. Passed(out2, st2, st[m].p, st[m].ki)
      BY <1>6, <3>1, Zenon DEF Passed
    <3>3. /\ st[m].p \in DOMAIN s.pages /\ st[m].ki \in 1 .. Len(s.pages[st[m].p].refs)
          /\ s.pages[st[m].p].refs[st[m].ki].p = q /\ q # P_INVALID
      BY <1>3, <1>4, <2>2, <3>1, Zenon DEF Points, FrameOK
    <3> QED
      BY <2>2, <3>2, <3>3, Zenon DEF Reached
  <2>3. CASE i \in 3 .. Len(out) /\ out2[i] = out[i]
    <3>1. Reached(s, out, st, out[i].from)
      BY <2>3, Zenon DEF Walked
    <3>2. st # <<>>
      BY <1>0, EmptySeq, SMTT(30) DEF Puts
    <3>3. PICK p \in DOMAIN s.pages : \E k \in 1 .. Len(s.pages[p].refs) :
             /\ s.pages[p].refs[k].p = out[i].from /\ out[i].from # P_INVALID /\ Passed(out, st, p, k)
      BY <3>1, <3>2, Zenon DEF Reached
    <3>4. PICK k \in 1 .. Len(s.pages[p].refs) :
             /\ s.pages[p].refs[k].p = out[i].from /\ out[i].from # P_INVALID /\ Passed(out, st, p, k)
      BY <3>3, Zenon
    <3>5. Passed(out2, st2, p, k)
      <4>1. CASE Copied(out, p)
        BY <1>2, <4>1, Zenon DEF Passed
      <4>2. ASSUME NEW f \in 1 .. Len(st), st[f].p = p, k < st[f].ki PROVE Passed(out2, st2, p, k)
        <5>1. CASE f \in 1 .. m
          <6>1. st2[f].p = p /\ (st2[f].ki = st[f].ki \/ st2[f].ki = st[f].ki + 1)
            BY <1>5, <1>6, <4>2, <5>1, Zenon
          <6>2. st[f].ki \in Nat
            <7>1. st[f] \in Frames
              BY <1>3, <5>1, Zenon
            <7> QED
              BY <7>1 DEF Frames
          <6>3. Len(s.pages[p].refs) \in Nat
            BY SourceRef, Zenon
          <6>4. k < st2[f].ki
            BY <4>2, <6>1, <6>2, <6>3, SMTT(30)
          <6> QED
            BY <5>1, <6>1, <6>4, Zenon DEF Passed
        <5>2. CASE f \in m + 1 .. Len(st)
          BY <1>2, <4>2, <5>2, Zenon DEF Puts, Passed
        <5>3. f \in 1 .. m \/ f \in m + 1 .. Len(st)
          BY <1>0
        <5> QED
          BY <5>1, <5>2, <5>3, Zenon
      <4> QED
        BY <3>4, <4>1, <4>2, Zenon DEF Passed
    <3> QED
      BY <2>3, <3>4, <3>5, Zenon DEF Reached
  <2>4. m = 0 \/ m > 0
    BY <1>0
  <2> QED
    BY <1>8, <2>1, <2>2, <2>3, <2>4, Zenon
<1> QED
  BY <1>7, <1>9, <1>10, <1>11, <1>12, <1>13, Zenon DEF Walked

\* The page that the walk goes to next is new: it is not copied, nor on the
\* stack.
LEMMA HereNew ==
    ASSUME NEW s \in Sources, NEW out \in Seq(Images), NEW st \in Seq(Frames), NEW q,
           Walked(s, out, st), Len(st) > 0, Points(s, st[Len(st)], q)
    PROVE  q \in DOMAIN s.pages /\ ~Copied(out, q) /\ \A i \in 1 .. Len(st) : st[i].p # q
<1> DEFINE m == Len(st)
           f == st[m]
<1>0. m \in Nat /\ m \in 1 .. m /\ Len(out) \in Nat
  BY LenProperties
<1>1. /\ f.p \in DOMAIN s.pages /\ f.ki \in 1 .. Len(s.pages[f.p].refs)
      /\ s.pages[f.p].refs[f.ki].p = q /\ q # P_INVALID /\ ~Copied(out, f.p)
  BY <1>0, Zenon DEF Walked, FrameOK, Points
<1>2. q \in DOMAIN s.pages /\ q # s.root
  <2> HIDE DEF f
  <2>1. LET o == s.pages[f.p].refs[f.ki]
        IN (o.p # P_INVALID => o.p \in DOMAIN s.pages) /\ (o.p # P_INVALID => o.p # s.root)
    BY <1>1, SourceRef, Zenon
  <2> QED
    BY <1>1, <2>1, Zenon
<1>3. ASSUME Copied(out, q) PROVE FALSE
  <2>1. Reached(s, out, st, q)
    BY <1>3, Zenon DEF Copied, Walked
  <2>2. PICK p \in DOMAIN s.pages : \E k \in 1 .. Len(s.pages[p].refs) :
           s.pages[p].refs[k].p = q /\ Passed(out, st, p, k)
    BY <1>2, <2>1, Zenon DEF Reached
  <2>3. PICK k \in 1 .. Len(s.pages[p].refs) : s.pages[p].refs[k].p = q /\ Passed(out, st, p, k)
    BY <2>2, Zenon
  <2>4. p = f.p /\ k = f.ki
    <3> HIDE DEF f
    <3>1. s.pages[p].refs[k].p = s.pages[f.p].refs[f.ki].p /\ s.pages[p].refs[k].p # P_INVALID
      BY <1>1, <2>3, Zenon
    <3> QED
      BY <1>1, <3>1, OneParent, Zenon
  <2>5. PICK g \in 1 .. m : st[g].p = f.p /\ f.ki < st[g].ki
    BY <1>1, <2>3, <2>4, Zenon DEF Passed
  <2>6. g = m
    BY <1>0, <2>5, Zenon DEF Walked, Linked
  <2>7. f.ki < f.ki
    BY <2>5, <2>6, Zenon
  <2>8. Len(s.pages[f.p].refs) \in Nat
    BY <1>1, SourceRef, Zenon
  <2> HIDE DEF f
  <2> QED
    BY <1>1, <2>7, <2>8
<1>4. ASSUME NEW i \in 1 .. m, st[i].p = q PROVE FALSE
  <2>1. CASE i = 1
    BY <1>0, <1>2, <1>4, <2>1, Zenon DEF Walked, Linked
  <2>2. CASE i \in 2 .. m
    <3>1. i - 1 \in 1 .. m /\ i - 1 # m
      BY <1>0, <2>2
    <3>2. /\ st[i - 1].p \in DOMAIN s.pages /\ st[i - 1].ki \in 1 .. Len(s.pages[st[i - 1].p].refs)
          /\ s.pages[st[i - 1].p].refs[st[i - 1].ki].p = q
      BY <1>4, <2>2, <3>1, Zenon DEF Walked, Linked, Points, FrameOK
    <3>3. st[i - 1].p = f.p
      BY <1>1, <3>2, OneParent, ZenonT(60)
    <3> QED
      BY <1>0, <3>1, <3>3, Zenon DEF Walked, Linked
  <2>3. i = 1 \/ i \in 2 .. m
    BY <1>0
  <2> QED
    BY <2>1, <2>2, <2>3
<1> QED
  BY <1>2, <1>3, <1>4, Zenon

\* A frame on the stack.
LEMMA FramePushed ==
    ASSUME NEW st \in Seq(Frames), NEW f \in Frames
    PROVE  /\ Len(Append(st, f)) = Len(st) + 1
           /\ \A i \in 1 .. Len(st) : Append(st, f)[i] = st[i]
           /\ Append(st, f)[Len(st) + 1] = f
BY AppendProperties, SMTT(30)

\* An index of a sequence that is one longer.
LEMMA OneMore ==
    ASSUME NEW m \in Nat, NEW i \in 1 .. m + 1
    PROVE  i \in 1 .. m \/ i = m + 1
OBVIOUS

\* Down to the page that the top is at.
LEMMA WalkedDown ==
    ASSUME NEW s \in Sources, NEW out \in Seq(Images), NEW st \in Seq(Frames), NEW f \in Frames,
           Walked(s, out, st), Len(st) > 0, Points(s, st[Len(st)], f.p),
           s.pages[st[Len(st)].p].refs[st[Len(st)].ki].t # "big",
           f.refs = s.pages[f.p].refs, f.ki = 1
    PROVE  Walked(s, out, Append(st, f))
<1> DEFINE m == Len(st)
           st2 == Append(st, f)
<1>0. m \in Nat /\ m \in 1 .. m /\ Len(out) \in Nat /\ 1 \in 1 .. m
  BY LenProperties, SMTT(30)
<1>1. Len(st2) = m + 1 /\ (\A i \in 1 .. m : st2[i] = st[i]) /\ st2[m + 1] = f
  BY FramePushed, Zenon
<1>2. f.p \in DOMAIN s.pages /\ ~Copied(out, f.p) /\ \A i \in 1 .. m : st[i].p # f.p
  BY HereNew, Zenon
<1> HIDE DEF st2, m
<1>3. ASSUME NEW i \in 1 .. Len(st2) PROVE i \in 1 .. m \/ i = m + 1
  BY <1>0, <1>1, OneMore, Zenon
<1>4. FrameOK(s, out, f)
  <2>1. Len(f.refs) \in Nat
    BY <1>2, SourceRef, Zenon
  <2>2. \A k \in 1 .. Len(f.refs) : ~(k < f.ki)
    BY <2>1, SMTT(30)
  <2> QED
    BY <1>2, <2>2, Zenon DEF FrameOK
<1>5. \A i \in 1 .. Len(st2) : FrameOK(s, out, st2[i])
  BY <1>1, <1>3, <1>4, Zenon DEF Walked, m
<1>6. Linked(s, st2)
  <2>1. st2[1].p = s.root
    BY <1>0, <1>1, Zenon DEF Walked, Linked, m
  <2>2. ASSUME NEW i \in 2 .. Len(st2)
        PROVE  /\ Points(s, st2[i - 1], st2[i].p)
               /\ s.pages[st2[i - 1].p].refs[st2[i - 1].ki].t # "big"
    <3>1. CASE i = m + 1
      <4>1. i - 1 = m
        BY <1>0, <3>1, SMTT(30)
      <4> QED
        BY <1>0, <1>1, <3>1, <4>1, Zenon DEF m
    <3>2. CASE i \in 2 .. m
      <4>1. i - 1 \in 1 .. m /\ i \in 1 .. m
        BY <1>0, <3>2, SMTT(30)
      <4> QED
        BY <1>1, <3>2, <4>1, Zenon DEF Walked, Linked, m
    <3>3. i = m + 1 \/ i \in 2 .. m
      BY <1>0, <1>1, SMTT(30)
    <3> QED
      BY <3>1, <3>2, <3>3, Zenon
  <2>3. ASSUME NEW i \in 1 .. Len(st2), NEW j \in 1 .. Len(st2), st2[i].p = st2[j].p PROVE i = j
    BY <1>1, <1>2, <1>3, <2>3, ZenonT(60) DEF Walked, Linked, m
  <2> QED
    BY <2>1, <2>2, <2>3, Zenon DEF Linked
<1>7. ASSUME NEW i \in 3 .. Len(out) PROVE Reached(s, out, st2, out[i].from)
  <2>0. st # <<>>
    BY EmptySeq, SMTT(30)
  <2>1. Reached(s, out, st, out[i].from)
    BY Zenon DEF Walked
  <2>2. \A p, k : Passed(out, st, p, k) => Passed(out, st2, p, k)
    <3>1. \A g \in 1 .. m : g \in 1 .. Len(st2)
      BY <1>0, <1>1, SMTT(30)
    <3> QED
      BY <1>1, <3>1, Zenon DEF Passed, m
  <2> QED
    BY <2>0, <2>1, <2>2, Zenon DEF Reached
<1>8. Walked(s, out, st2)
  BY <1>5, <1>6, <1>7, Zenon DEF Walked
<1> QED
  BY <1>8, Zenon DEF st2

\* Past a reference to no page.
LEMMA WalkedNode ==
    ASSUME NEW s \in Sources, NEW out \in Seq(Images), NEW st \in Seq(Frames), NEW st2 \in Seq(Frames),
           NEW m, m = Len(st), m > 0, Len(st2) = m, Walked(s, out, st),
           \A i \in 1 .. m : i # m => st2[i] = st[i],
           st2[m].p = st[m].p, st2[m].refs = st[m].refs, st2[m].ki = st[m].ki + 1,
           st[m].ki <= Len(st[m].refs), st[m].refs[st[m].ki].p = P_INVALID
    PROVE  Walked(s, out, st2)
<1> DEFINE f == st[m]
           o == s.pages[f.p].refs[f.ki]
<1>0. m \in Nat /\ m \in 1 .. m /\ 1 \in 1 .. m /\ Len(out) \in Nat /\ st2 # <<>> /\ st # <<>>
  BY LenProperties, EmptySeq
<1>1. \A i \in 1 .. m : st[i] \in Frames /\ st[i].ki \in Nat \ {0}
  <2>1. \A i \in 1 .. m : st[i] \in Frames
    BY ElementOfSeq, Zenon
  <2> QED
    BY <2>1 DEF Frames
<1>2. /\ f.p \in DOMAIN s.pages /\ Len(f.refs) = Len(s.pages[f.p].refs) /\ Len(f.refs) \in Nat
      /\ FrameOK(s, out, f) /\ f.ki \in Nat \ {0}
  <2>1. FrameOK(s, out, f) /\ f.ki \in Nat \ {0}
    BY <1>0, <1>1, Zenon DEF Walked
  <2> HIDE DEF f
  <2>2. f.p \in DOMAIN s.pages /\ Len(f.refs) = Len(s.pages[f.p].refs)
    BY <2>1, Zenon DEF FrameOK
  <2> QED
    BY <2>1, <2>2, SourceRef, ZenonT(30)
<1>3. f.ki \in 1 .. Len(f.refs) /\ f.refs[f.ki] = o
  <2>1. f.ki \in 1 .. Len(f.refs) /\ f.ki >= f.ki
    BY <1>2
  <2> QED
    BY <1>2, <2>1, Zenon DEF FrameOK
<1>4. Renumbered(s, out, o, o)
  <2>1. o.p = P_INVALID /\ o.t # "big"
    BY <1>2, <1>3, SourceRef, Zenon
  <2> QED
    BY <2>1, Zenon DEF Renumbered
<1>5. FrameOK(s, out, st2[m])
  <2>1. \A k \in 1 .. Len(f.refs) : (k < f.ki + 1 => k < f.ki \/ k = f.ki) /\ (k >= f.ki + 1 => k >= f.ki)
    BY <1>2, SMTT(30)
  <2> QED
    BY <1>2, <1>3, <1>4, <2>1, Zenon DEF FrameOK
<1>6. \A i \in 1 .. m : FrameOK(s, out, st2[i]) /\ st2[i].p = st[i].p
  BY <1>5, Zenon DEF Walked
<1>7. Linked(s, st2)
  <2>2. ASSUME NEW i \in 2 .. m
        PROVE  /\ Points(s, st2[i - 1], st2[i].p)
               /\ s.pages[st2[i - 1].p].refs[st2[i - 1].ki].t # "big"
    <3>1. i \in 1 .. m /\ i - 1 \in 1 .. m /\ i - 1 # m
      BY <1>0
    <3>2. st2[i - 1] = st[i - 1] /\ st2[i].p = st[i].p
      BY <1>6, <3>1, Zenon
    <3> QED
      BY <3>2, Zenon DEF Walked, Linked
  <2> QED
    BY <1>0, <1>6, <2>2, Zenon DEF Walked, Linked
<1>8. ASSUME NEW i \in 3 .. Len(out) PROVE Reached(s, out, st2, out[i].from)
  <2>1. Reached(s, out, st, out[i].from)
    BY Zenon DEF Walked
  <2>2. ASSUME NEW p \in DOMAIN s.pages, NEW k \in 1 .. Len(s.pages[p].refs), Passed(out, st, p, k)
        PROVE  Passed(out, st2, p, k)
    <3>1. ASSUME NEW g \in 1 .. m, k < st[g].ki PROVE k < st2[g].ki
      <4>1. CASE g # m
        BY <3>1, <4>1, Zenon
      <4>2. CASE g = m
        <5>1. k < f.ki /\ st2[g].ki = f.ki + 1
          BY <3>1, <4>2, Zenon
        <5>2. Len(s.pages[p].refs) \in Nat
          BY SourceRef, Zenon
        <5> HIDE DEF f
        <5> QED
          BY <1>2, <5>1, <5>2
      <4> QED
        BY <4>1, <4>2
    <3> QED
      BY <1>6, <2>2, <3>1, Zenon DEF Passed
  <2> QED
    BY <1>0, <2>1, <2>2, Zenon DEF Reached
<1> QED
  BY <1>6, <1>7, <1>8, Zenon DEF Walked

\* The walk starts at the main root.
LEMMA WalkedStart ==
    ASSUME NEW s \in Sources, NEW out, Len(out) = 2
    PROVE  /\ Walked(s, out, <<>>)
           /\ \A f \in Frames : f.p = s.root /\ f.p \in DOMAIN s.pages /\ f.refs = s.pages[f.p].refs /\ f.ki = 1
                 => Walked(s, out, <<f>>)
<1>1. 3 .. 2 = {} /\ 1 .. 0 = {} /\ 2 .. 0 = {} /\ 2 .. 1 = {} /\ 1 .. 1 = {1} /\ ~(0 > 0) /\ Len(<<>>) = 0
  OBVIOUS
<1>2. Len(out) >= 2 /\ Once(out) /\ \A q : ~Copied(out, q)
  BY <1>1 DEF Once, Copied
<1>3. Walked(s, out, <<>>)
  BY <1>1, <1>2, Zenon DEF Walked, Linked
<1>4. ASSUME NEW f \in Frames, f.p = s.root, f.p \in DOMAIN s.pages, f.refs = s.pages[f.p].refs, f.ki = 1
      PROVE  Walked(s, out, <<f>>)
  <2>1. Len(<<f>>) = 1 /\ <<f>>[1] = f
    OBVIOUS
  <2>2. FrameOK(s, out, f)
    <3>1. Len(f.refs) \in Nat
      BY <1>4, SourceRef, Zenon
    <3>2. \A k \in 1 .. Len(f.refs) : ~(k < f.ki)
      BY <1>4, <3>1
    <3> QED
      BY <1>2, <1>4, <3>2, Zenon DEF FrameOK
  <2>3. \A i \in {1} : i = 1
    OBVIOUS
  <2> DEFINE st == <<f>>
  <2>4. Len(st) = 1 /\ st[1] = f
    BY <2>1
  <2> HIDE DEF st
  <2>5. Linked(s, st)
    <3>1. (\A i \in 1 .. Len(st) : i = 1) /\ (\A i \in 2 .. Len(st) : FALSE)
      BY <2>4
    <3> QED
      BY <1>4, <2>4, <3>1, Zenon DEF Linked
  <2>6. Walked(s, out, st)
    BY <1>1, <1>2, <2>2, <2>3, <2>4, <2>5, Zenon DEF Walked
  <2> QED
    BY <2>6, Zenon DEF st
<1> QED
  BY <1>3, <1>4, Zenon
(***************************************************************************)
(* The walker's stack.                                                     *)
(***************************************************************************)
\* The references of a page of the snapshot.
LEMMA PageRefs ==
    ASSUME TypeOK, NEW p \in DOMAIN src.pages
    PROVE  /\ p \in Nat
           /\ src.pages[p].refs \in Seq(Refs)
           /\ \A j \in 1 .. Len(src.pages[p].refs) : Sound(src.pages[p].refs[j])
<1> DEFINE R == [t : {"child", "plain", "big", "sub"}, p : Nat]
           s == src.pages[p].refs
<1>1. src \in Sources
  BY DEF TypeOK
<1>2. p \in Nat /\ s \in Seq(R)
  BY <1>1, SourcesAssumption, ZenonT(60)
<1>3. \A j \in DOMAIN s : Sound(s[j])
  BY <1>1, SourcesAssumption, Zenon DEF Sound
<1>4. R \subseteq Refs
  BY DEF Refs
<1> HIDE DEF R, s
<1>5. s \in Seq(Refs) /\ DOMAIN s = 1 .. Len(s)
  BY <1>2, <1>4
<1> QED
  BY <1>2, <1>3, <1>5 DEF s

\* A page that the walk comes to is put on the stack as it is.
LEMMA FrameFine ==
    ASSUME TypeOK, NEW p \in DOMAIN src.pages, NEW b \in BOOLEAN
    PROVE  Fine(Frame(p, b))
BY PageRefs DEF Fine, Frame, Frames

\* A frame goes on with the next reference.
LEMMA BumpFine ==
    ASSUME NEW f, Fine(f), NEW n \in Nat
    PROVE  Fine(Bump(f, n)) /\ Fine([f EXCEPT !.ki = @ + 1])
<1>1. f \in Frames
  BY DEF Fine
<1>2. f.ki \in Nat \ {0} /\ f.refs \in Seq(Refs) /\ Len(f.refs) \in Nat
  BY <1>1 DEF Frames
<1>3. /\ Bump(f, n) \in Frames /\ Bump(f, n).ki = f.ki + 1 /\ Len(Bump(f, n).refs) = Len(f.refs)
      /\ \A k \in 1 .. Len(f.refs) : k # f.ki => Bump(f, n).refs[k] = f.refs[k]
  BY <1>1, BumpFacts, Zenon
<1>4. \A j \in f.ki + 1 .. Len(f.refs) : j \in f.ki .. Len(f.refs) /\ j \in 1 .. Len(f.refs) /\ j # f.ki
  BY <1>2
<1>5. f.ki + 1 \in Nat \ {0}
  BY <1>2
<1>6. /\ [f EXCEPT !.ki = @ + 1] \in Frames
      /\ [f EXCEPT !.ki = @ + 1].refs = f.refs /\ [f EXCEPT !.ki = @ + 1].ki = f.ki + 1
  BY Zenon, <1>1, <1>2, <1>5 DEF Frames
<1>7. \A j \in f.ki + 1 .. Len(f.refs) : Sound(Bump(f, n).refs[j]) /\ Sound(f.refs[j])
  BY <1>3, <1>4, Zenon DEF Fine
<1> QED
  BY <1>3, <1>6, <1>7, Zenon DEF Fine

\* What the walker looks at.
LEMMA TopFine ==
    ASSUME TypeOK, StackOK, pc = "walk"
    PROVE  /\ Len(stack) \in Nat \ {0} /\ Fine(Top)
           /\ Top.ki <= Len(Top.refs) => Here \in Refs /\ Sound(Here)
<1>1. Len(stack) \in Nat \ {0} /\ Len(stack) \in 1 .. Len(stack)
  BY EmptySeq DEF StackOK, Resumes
<1>2. Fine(Top)
  BY <1>1 DEF StackOK, Top
<1>3. Top.ki \in Nat \ {0} /\ Top.refs \in Seq(Refs)
  BY <1>2 DEF Fine, Frames
<1>4. ASSUME Top.ki <= Len(Top.refs) PROVE Here \in Refs /\ Sound(Here)
  <2>1. Top.ki \in Top.ki .. Len(Top.refs) /\ Top.ki \in 1 .. Len(Top.refs)
    BY <1>3, <1>4
  <2> QED
    BY <1>2, <1>3, <2>1 DEF Fine, Here
<1> QED
  BY <1>1, <1>2, <1>4

\* Replacing the top of the stack.
LEMMA SetTopFine ==
    ASSUME StackOK, stack # <<>>, NEW f, Fine(f)
    PROVE  /\ SetTop(f) \in Seq(Frames) /\ SetTop(f) # <<>> /\ Len(SetTop(f)) = Len(stack)
           /\ \A i \in 1 .. Len(SetTop(f)) : Fine(SetTop(f)[i])
           /\ \A i \in 1 .. Len(stack) : SetTop(f)[i] = IF i = Len(stack) THEN f ELSE stack[i]
<1>1. stack \in Seq(Frames) /\ f \in Frames
  BY DEF StackOK, Fine
<1>2. SetTop(f) \in Seq(Frames) /\ Len(SetTop(f)) = Len(stack)
  BY <1>1 DEF SetTop
<1>3. \A i \in 1 .. Len(stack) : SetTop(f)[i] = IF i = Len(stack) THEN f ELSE stack[i]
  BY <1>1 DEF SetTop
<1>4. Len(stack) # 0
  BY <1>1
<1> QED
  BY <1>2, <1>3, <1>4 DEF StackOK

\* Steps that leave the snapshot and the stack alone.
LEMMA StackUnchanged ==
    ASSUME StackOK, UNCHANGED <<src, stack, root>>, Resumes' => Resumes, pc' = "begin" => pc = "begin"
    PROVE  StackOK'
BY ZenonT(30) DEF StackOK, Fine, Sound

\* The copied page's number goes to its parent, which is on top then.
Popped(st, up, n) == \A i \in 1 .. up : st[i] = IF i = up THEN Bump(stack[up], n) ELSE stack[i]

\* The stack after WalkPage, when the page has a parent.
LEMMA PopFine ==
    ASSUME TypeOK, StackOK, NEW up \in Nat \ {0}, Len(stack) = up + 1,
           NEW n \in Nat, NEW st,
           st = SubSeq([stack EXCEPT ![up].refs[stack[up].ki].p = n, ![up].ki = @ + 1], 1, up)
    PROVE  /\ st \in Seq(Frames) /\ st # <<>> /\ Len(st) = up
           /\ \A i \in 1 .. Len(st) : Fine(st[i])
           /\ Popped(st, up, n)
<1>1. stack \in Seq(Frames) /\ up \in 1 .. Len(stack) /\ Fine(stack[up]) /\ stack[up] \in Frames
  BY DEF StackOK
<1> DEFINE b == [stack EXCEPT ![up] = Bump(stack[up], n)]
<1>2. [stack EXCEPT ![up].refs[stack[up].ki].p = n, ![up].ki = @ + 1] = b
  BY Zenon, <1>1 DEF Bump, Frames
<1>3. Fine(Bump(stack[up], n)) /\ Bump(stack[up], n) \in Frames
  BY Zenon, <1>1, BumpFine DEF Fine
<1>4. b \in Seq(Frames) /\ Len(b) = up + 1
  BY <1>1, <1>3
<1>5. \A i \in 1 .. up : b[i] = IF i = up THEN Bump(stack[up], n) ELSE stack[i]
  BY <1>1
<1> HIDE DEF b
<1>6. st = SubSeq(b, 1, up)
  BY Zenon, <1>2
<1>7. st \in Seq(Frames) /\ Len(st) = up /\ \A i \in 1 .. up : st[i] = b[i]
  <2>1. 1 \in Int /\ up \in Int /\ 1 <= up /\ \A i \in 1 .. up : b[i] \in Frames
    BY <1>4
  <2>2. /\ SubSeq(b, 1, up) \in Seq(Frames)
        /\ Len(SubSeq(b, 1, up)) = up
        /\ \A i \in 1 .. up : SubSeq(b, 1, up)[i] = b[i]
    BY <1>4, <2>1
  <2> QED
    BY Zenon, <1>6, <2>2
<1>8. st # <<>>
  BY Zenon, <1>7
<1>9. \A i \in 1 .. up : Fine(stack[i])
  <2>1. \A i \in 1 .. up : i \in 1 .. Len(stack)
    OBVIOUS
  <2> QED
    BY <2>1 DEF StackOK
<1>10. Popped(st, up, n)
  BY Zenon, <1>5, <1>7 DEF Popped
<1>11. \A i \in 1 .. Len(st) : Fine(st[i])
  BY Zenon, <1>3, <1>5, <1>7, <1>9
<1> QED
  BY Zenon, <1>7, <1>8, <1>10, <1>11

\* Every step of the walker and of the writer keeps the stack.
LEMMA StackNext ==
    ASSUME TypeOK, StackOK, Control, [Next]_vars
    PROVE  StackOK'
<1>0. ASSUME UNCHANGED src,
             /\ stack' \in Seq(Frames) /\ \A i \in 1 .. Len(stack') : Fine(stack'[i])
             /\ Resumes' => stack' # <<>>,
             pc' # "begin"
      PROVE  StackOK'
  BY <1>0, ZenonT(60) DEF StackOK, Fine, Sound
<1>1. ASSUME mdb_txn_begin PROVE StackOK'
  <2>0. root = src.root /\ src \in Sources /\ UNCHANGED src /\ pc' # "begin"
    BY <1>1 DEF StackOK, TypeOK, mdb_txn_begin
  <2>1. CASE root = P_INVALID
    <3>1. stack' = <<>> /\ ~Resumes' /\ pc' = "finish"
      BY <1>1, <2>1 DEF mdb_txn_begin, Resumes
    <3> QED
      BY <1>0, <2>0, <3>1
  <2>2. CASE root # P_INVALID
    <3>1. stack' = <<Frame(root, TRUE)>>
      BY Zenon, <1>1, <2>2 DEF mdb_txn_begin
    <3>2. Fine(Frame(root, TRUE))
      BY Zenon, <2>0, <2>2, SourcesAssumption, FrameFine
    <3>3. Frame(root, TRUE) \in Frames
      BY Zenon, <3>2 DEF Fine
    <3> DEFINE f == Frame(root, TRUE)
    <3> HIDE DEF f
    <3>4. f \in Frames /\ Fine(f) /\ stack' = <<f>>
      BY Zenon, <3>1, <3>2, <3>3 DEF f
    <3>5. <<f>> \in Seq(Frames) /\ <<f>> # <<>> /\ \A i \in 1 .. Len(<<f>>) : <<f>>[i] = f
      BY <3>4
    <3>6. \A i \in 1 .. Len(stack') : Fine(stack'[i])
      BY <3>4, <3>5, Zenon
    <3> QED
      BY <1>0, <2>0, <3>4, <3>5, <3>6
  <2> QED
    BY <2>1, <2>2
<1>2. ASSUME WalkDown PROVE StackOK'
  <2>1. pc = "walk" /\ pc' = "walk" /\ Top.ki <= Len(Top.refs) /\ Here.p # P_INVALID /\ UNCHANGED src
    BY <1>2 DEF WalkDown, AtNode, Walking
  <2>2. Here.p \in DOMAIN src.pages
    BY <2>1, TopFine DEF Sound
  <2> DEFINE f == Frame(Here.p, Here.t = "sub")
  <2>3. Fine(f) /\ f \in Frames
    BY Zenon, <2>2, FrameFine DEF Fine
  <2>4. stack' = Append(stack, f)
    BY <1>2 DEF WalkDown
  <2>5. stack \in Seq(Frames) /\ \A i \in 1 .. Len(stack) : Fine(stack[i])
    BY DEF StackOK
  <2> HIDE DEF f
  <2>6. /\ stack' \in Seq(Frames) /\ Len(stack') = Len(stack) + 1 /\ Len(stack) \in Nat
        /\ stack'[Len(stack) + 1] = f /\ \A i \in 1 .. Len(stack) : stack'[i] = stack[i]
    BY <2>3, <2>4, <2>5, AppendProperties
  <2>7. \A i \in 1 .. Len(stack') : Fine(stack'[i]) /\ stack' # <<>>
    BY <2>3, <2>5, <2>6
  <2>8. stack' # <<>>
    BY <2>6
  <2> QED
    BY <1>0, <2>1, <2>6, <2>7, <2>8
<1>3. ASSUME WalkNode \/ WalkBig PROVE StackOK'
  <2>1. pc = "walk" /\ pc' # "begin" /\ UNCHANGED src
    BY <1>3 DEF WalkNode, WalkBig, AtNode, Walking
  <2>2. Fine(Top) /\ stack # <<>> /\ next_pgno \in Nat
    BY <2>1, TopFine DEF StackOK, Resumes, TypeOK
  <2>3. Fine(Stepped(next_pgno)) /\ Fine([Top EXCEPT !.ki = @ + 1])
    BY <2>2, BumpFine, Zenon DEF Bump, Stepped
  <2>4. stack' = SetTop([Top EXCEPT !.ki = @ + 1]) \/ stack' = SetTop(Stepped(next_pgno))
    BY <1>3 DEF WalkNode, WalkBig
  <2> QED
    BY <1>0, <2>1, <2>2, <2>3, <2>4, SetTopFine
<1>4. ASSUME WalkPage PROVE StackOK'
  <2> DEFINE up == Len(stack) - 1
  <2>1. pc = "walk" /\ pc' # "begin" /\ UNCHANGED src /\ next_pgno \in Nat
    BY <1>4, SMTT(30) DEF WalkPage, Walking, TypeOK
  <2>2. Len(stack) \in Nat \ {0}
    BY <2>1, TopFine
  <2>3. CASE up = 0
    <3>1. stack' = <<>> /\ pc' = "finish"
      BY <1>4, <2>3 DEF WalkPage
    <3>2. ~Resumes'
      BY <3>1 DEF Resumes
    <3> QED
      BY <1>0, <2>1, <3>1, <3>2
  <2>4. CASE up # 0
    <3>1. up \in Nat \ {0} /\ Len(stack) = up + 1
      BY <2>2, <2>4
    <3>2. stack' = SubSeq([stack EXCEPT ![up].refs[stack[up].ki].p = next_pgno,
                                        ![up].ki = @ + 1], 1, up)
      BY <1>4, <2>4, SMTT(30) DEF WalkPage
    <3> HIDE DEF up
    <3>3. /\ stack' \in Seq(Frames) /\ stack' # <<>>
          /\ \A i \in 1 .. Len(stack') : Fine(stack'[i])
      BY Zenon, <2>1, <3>1, <3>2, PopFine
    <3> QED
      BY <1>0, <2>1, <3>3
  <2> QED
    BY <2>3, <2>4
<1>5. ASSUME BeginFails \/ WalkFails \/ WalkFull \/ Finish \/ HandOver \/ AwaitBuffer \/ Toggled \/ Join
      PROVE  StackOK'
  <2>1. UNCHANGED <<src, stack, root>> /\ pc' # "begin"
    BY Zenon, <1>5 DEF BeginFails, WalkFails, WalkFull, Finish, HandOver, AwaitBuffer, Toggled, Join
  <2>2. ASSUME BeginFails \/ WalkFails \/ Finish \/ Join PROVE ~Resumes'
    <3>1. CASE Finish
      <4>1. pc' = "toggle" /\ adjust' = 1 + MDB_EOF
        BY <3>1, Zenon DEF Finish
      <4>2. adjust' # 1
        BY <4>1 DEF MDB_EOF
      <4> QED
        BY <4>1, <4>2, Zenon DEF Resumes
    <3>2. CASE BeginFails \/ WalkFails \/ Join
      BY <3>2 DEF BeginFails, WalkFails, Join, Resumes
    <3> QED
      BY <2>2, <3>1, <3>2
  <2>3. ASSUME WalkFull \/ HandOver \/ AwaitBuffer PROVE Resumes' => Resumes
    BY <2>3 DEF WalkFull, HandOver, AwaitBuffer, Resumes, Walking
  <2>4. ASSUME Toggled PROVE Resumes' => Resumes
    <3>1. adjust \in {1, 17} /\ pc = "toggled"
      BY Zenon, <2>4 DEF Toggled, Control
    <3>2. CASE adjust = 17
      BY <2>4, <3>2 DEF Toggled, Resumes, MDB_EOF
    <3> QED
      BY <3>1, <3>2 DEF Resumes
  <2>5. Resumes' => Resumes
    BY <1>5, <2>2, <2>3, <2>4
  <2> QED
    BY <2>1, <2>5, StackUnchanged
<1>6. ASSUME mdb_env_copythr \/ UNCHANGED vars PROVE StackOK'
  <2>1. UNCHANGED <<src, walker>>
    BY <1>6, Zenon DEF mdb_env_copythr, WriterStarts, SigmaskFails, NextBuffer, WriterWakes, Write,
                WriteFails, BufferWritten, vars
  <2>2. UNCHANGED <<src, stack, root, pc, adjust>>
    BY <2>1 DEF walker
  <2> QED
    BY <2>2, StackUnchanged, Zenon DEF Resumes
<1> QED
  BY <1>1, <1>2, <1>3, <1>4, <1>5, <1>6, Zenon
     DEF Next, mdb_env_cwalk, mdb_env_cthr_toggle, mdb_env_copyfd1

(***************************************************************************)
(* The two threads.                                                        *)
(***************************************************************************)
\* Steps of the walker that hand nothing over.
LEMMA ControlWalks ==
    ASSUME Control, UNCHANGED <<toggle, new, wtoggle, wpc>>,
           \/ pc = "begin" /\ pc' \in {"walk", "finish"} /\ adjust' = adjust
           \/ pc = "walk" /\ pc' \in {"walk", "finish"} /\ adjust' \in {adjust, 1}
           \/ pc = "walk" /\ pc' = "toggle" /\ adjust' = 1
           \/ pc = "finish" /\ pc' = "toggle" /\ adjust' = 17
           \/ pc = "join" /\ pc' = "done" /\ adjust' = adjust
    PROVE  Control'
BY DEF Control, Use, PCs

\* Every step keeps the threads' toggles and mc_new consistent.
LEMMA ControlNext ==
    ASSUME Control, [Next]_vars
    PROVE  Control'
<1>1. ASSUME mdb_txn_begin \/ BeginFails PROVE Control'
  <2>1. /\ UNCHANGED <<toggle, new, wtoggle, wpc, adjust>>
        /\ pc = "begin" /\ pc' \in {"walk", "finish"}
    BY <1>1, Zenon DEF mdb_txn_begin, BeginFails, writer
  <2> QED
    BY <2>1, ControlWalks
<1>2. ASSUME WalkFails \/ WalkDown \/ WalkNode \/ WalkBig \/ WalkPage \/ WalkFull PROVE Control'
  <2>1. /\ UNCHANGED <<toggle, new, wtoggle, wpc>> /\ pc = "walk"
    BY <1>2, Zenon DEF WalkFails, WalkDown, WalkNode, WalkBig, WalkPage, WalkFull, writer, AtNode, Walking
  <2>2. \/ pc' \in {"walk", "finish"} /\ adjust' \in {adjust, 1}
        \/ pc' = "toggle" /\ adjust' = 1
    BY <1>2, <2>1, Zenon DEF WalkFails, WalkDown, WalkNode, WalkBig, WalkPage, WalkFull
  <2> QED
    BY <2>1, <2>2, ControlWalks, Zenon
<1>3. ASSUME Finish PROVE Control'
  <2>1. /\ UNCHANGED <<toggle, new, wtoggle, wpc>> /\ pc = "finish" /\ pc' = "toggle"
        /\ adjust' = 1 + MDB_EOF
    BY <1>3, Zenon DEF Finish, writer
  <2> QED
    BY <2>1, ControlWalks DEF MDB_EOF
<1>4. ASSUME Join PROVE Control'
  <2>1. /\ UNCHANGED <<toggle, new, wtoggle, wpc, adjust>> /\ pc = "join" /\ pc' = "done"
    BY <1>4, Zenon DEF Join, writer
  <2> QED
    BY <2>1, ControlWalks
<1>5. ASSUME HandOver PROVE Control'
  <2>1. /\ UNCHANGED <<toggle, wtoggle, wpc, adjust>> /\ pc = "toggle" /\ new' = new + adjust
        /\ pc' = IF BothInUse(new + adjust) THEN "await" ELSE "toggled"
    BY <1>5, Zenon DEF HandOver, writer
  <2>2. new \in 0..1 /\ adjust \in {1, 17} /\ wpc # "exited"
    BY <2>1 DEF Control, Use
  <2>3. BothInUse(new + adjust) <=> new = 1
    BY <2>2 DEF BothInUse
  <2> QED
    BY <2>1, <2>2, <2>3 DEF Control, Use, PCs
<1>6. ASSUME AwaitBuffer PROVE Control'
  <2>1. /\ UNCHANGED <<toggle, wtoggle, wpc, adjust, new>> /\ pc = "await"
        /\ pc' = IF BothInUse(new) THEN pc ELSE "toggled"
    BY <1>6, Zenon DEF AwaitBuffer, writer
  <2>2. ~BothInUse(new) => Use \in 0..1
    BY DEF Control, BothInUse, Use
  <2> QED
    BY <2>1, <2>2 DEF Control, Use, PCs
<1>7. ASSUME Toggled PROVE Control'
  <2>1. /\ UNCHANGED <<wtoggle, wpc, adjust, new>> /\ pc = "toggled"
        /\ toggle' = IF adjust % 2 = 1 THEN 1 - toggle ELSE toggle
        /\ pc' = IF adjust >= MDB_EOF THEN "join" ELSE IF error # "" THEN "finish" ELSE "walk"
    BY <1>7, Zenon DEF Toggled, writer
  <2>2. adjust \in {1, 17}
    BY Zenon, <2>1 DEF Control
  <2>3. toggle' = 1 - toggle
    <3>1. 1 % 2 = 1 /\ 17 % 2 = 1
      OBVIOUS
    <3> QED
      BY <2>1, <2>2, <3>1, Zenon
  <2>4. CASE adjust = 17
    <3>1. pc' = "join"
      BY <2>1, <2>4 DEF MDB_EOF
    <3> QED
      BY <2>1, <2>3, <2>4, <3>1 DEF Control, Use, PCs
  <2>5. CASE adjust = 1
    <3>1. ~(adjust >= MDB_EOF)
      BY <2>5 DEF MDB_EOF
    <3>2. pc' \in {"finish", "walk"} /\ UNCHANGED <<wtoggle, wpc, adjust, new>> /\ pc = "toggled"
      BY <2>1, <3>1, Zenon
    <3> QED
      BY <2>3, <2>5, <3>2 DEF Control, Use, PCs
  <2> QED
    BY <2>2, <2>4, <2>5
<1>8. ASSUME mdb_env_copythr PROVE Control'
  <2>0. UNCHANGED <<toggle, pc, adjust>>
    BY <1>8, Zenon DEF mdb_env_copythr, WriterStarts, SigmaskFails, NextBuffer, WriterWakes, Write,
                       WriteFails, BufferWritten, walker
  <2>1. CASE WriterStarts \/ SigmaskFails \/ WriterWakes \/ Write \/ WriteFails
    <3>1. UNCHANGED <<new, wtoggle>> /\ (wpc' = "next" \/ wpc' = wpc)
      BY <2>1, Zenon DEF WriterStarts, SigmaskFails, WriterWakes, Write, WriteFails, writer
    <3> QED
      BY <2>0, <3>1 DEF Control, Use, WPCs
  <2>2. CASE NextBuffer
    <3>1. /\ UNCHANGED <<new, wtoggle>>
          /\ wpc' = IF new = 0 THEN "await" ELSE IF new = MDB_EOF THEN "exited" ELSE "write"
      BY <2>2, Zenon DEF NextBuffer
    <3> QED
      BY <2>0, <3>1 DEF Control, Use, WPCs, MDB_EOF
  <2>3. CASE BufferWritten
    <3>1. CASE over[wtoggle] # <<>>
      <4>1. UNCHANGED <<new, wpc, wtoggle>>
        BY <2>3, <3>1, Zenon DEF BufferWritten
      <4> QED
        BY <2>0, <4>1 DEF Control, Use
    <3>2. CASE over[wtoggle] = <<>>
      <4>1. wtoggle' = 1 - wtoggle /\ new' = new - 1 /\ wpc' = "next" /\ wpc = "write"
        BY <2>3, <3>2, Zenon DEF BufferWritten
      <4> QED
        BY <2>0, <4>1 DEF Control, Use, WPCs
    <3> QED
      BY <3>1, <3>2
  <2> QED
    BY <1>8, <2>1, <2>2, <2>3 DEF mdb_env_copythr
<1>9. ASSUME UNCHANGED vars PROVE Control'
  <2>1. UNCHANGED <<toggle, wtoggle, new, pc, wpc, adjust>>
    BY <1>9 DEF vars, walker, writer
  <2> QED
    BY <2>1, ZenonT(60) DEF Control, Use
<1> QED
  BY <1>1, <1>2, <1>3, <1>4, <1>5, <1>6, <1>7, <1>8, <1>9, Zenon
     DEF Next, mdb_env_cwalk, mdb_env_cthr_toggle, mdb_env_copyfd1

\* No buffer is touched.
LEMMA BuffersUnchanged ==
    ASSUME Buffers, UNCHANGED <<wbuf, over>>, \A b \in 0..1 : Held(b) => Held(b)',
           Filling' => Filling /\ toggle' = toggle, pc' # "begin"
    PROVE  Buffers'
BY Zenon DEF Buffers

\* Every step keeps the buffers that are not in use empty.
LEMMA BuffersNext ==
    ASSUME TypeOK, Control, Buffers, [Next]_vars
    PROVE  Buffers'
<1>0. Control'
  BY ControlNext
<1>1. ASSUME wbuf'[1 - toggle] = wbuf[1 - toggle], over'[1 - toggle] = over[1 - toggle],
             pc' = "toggle" \/ over'[toggle] = <<>>,
             UNCHANGED <<toggle, new, wtoggle>>,
             pc \in {"begin", "walk", "finish"}, pc' \in {"walk", "finish", "toggle"}
      PROVE  Buffers'
  <2>1. \A b \in 0..1 : b = toggle \/ b = 1 - toggle
    BY DEF Control
  <2>2. Held(toggle)' /\ (Held(1 - toggle)' <=> Held(1 - toggle))
    BY <1>1 DEF Held, Use, Control
  <2>3. 1 - toggle \in 0..1
    BY DEF Control
  <2>4. ASSUME NEW b \in 0..1, ~Held(b)' PROVE wbuf'[b] = <<>> /\ over'[b] = <<>>
    <3>1. b = 1 - toggle
      BY <1>1, <2>1, <2>2, <2>4
    <3>2. ~Held(1 - toggle)
      BY <1>1, <2>2, <2>4, <3>1
    <3> QED
      BY <1>1, <2>3, <3>1, <3>2, Zenon DEF Buffers
  <2> QED
    BY <1>1, <2>4 DEF Buffers, Filling
<1>2. toggle \in 0..1 /\ wtoggle \in 0..1 /\ 1 - toggle # toggle /\ 1 - wtoggle # wtoggle
  BY DEF Control
<1>3. /\ \A s : [wbuf EXCEPT ![toggle] = s][1 - toggle] = wbuf[1 - toggle]
      /\ \A s : [over EXCEPT ![toggle] = s][1 - toggle] = over[1 - toggle]
  <2>1. 1 - toggle \in 0..1
    BY <1>2
  <2> QED
    BY <1>2, <2>1, Zenon DEF TypeOK
<1>4. pc \in {"begin", "walk", "finish"} => over[toggle] = <<>>
  BY DEF Buffers, Filling
<1>5. ASSUME mdb_txn_begin \/ BeginFails PROVE Buffers'
  <2>1. /\ UNCHANGED <<toggle, new, wtoggle, over>> /\ pc = "begin" /\ pc' \in {"walk", "finish"}
        /\ UNCHANGED wbuf \/ \E s : wbuf' = [wbuf EXCEPT ![0] = s]
    BY <1>5, Zenon DEF mdb_txn_begin, BeginFails, writer
  <2>2. toggle = 0
    BY <2>1 DEF Control
  <2> QED
    BY <1>1, <1>3, <1>4, <2>1, <2>2, Zenon
<1>6. ASSUME WalkFails \/ WalkDown \/ WalkNode \/ WalkPage \/ WalkFull PROVE Buffers'
  <2>1. /\ UNCHANGED <<toggle, new, wtoggle, over>> /\ pc = "walk"
        /\ UNCHANGED wbuf \/ \E s : wbuf' = [wbuf EXCEPT ![toggle] = s]
    BY <1>6, Zenon DEF WalkFails, WalkDown, WalkNode, WalkPage, WalkFull, writer, AtNode, Walking
  <2>2. pc' \in {"walk", "finish", "toggle"}
    BY <1>6, <2>1, Zenon DEF WalkFails, WalkDown, WalkNode, WalkPage, WalkFull
  <2> QED
    BY <1>1, <1>3, <1>4, <2>1, <2>2, Zenon
<1>7. ASSUME WalkBig PROVE Buffers'
  <2>1. /\ UNCHANGED <<toggle, new, wtoggle>> /\ pc = "walk"
        /\ \E s : wbuf' = [wbuf EXCEPT ![toggle] = s]
    BY <1>7, Zenon DEF WalkBig, writer, AtNode, Walking
  <2>2. \/ over' = [over EXCEPT ![toggle] = over[toggle]] /\ pc' = pc
        \/ pc' = "toggle" /\ \E s : over' = [over EXCEPT ![toggle] = s]
    <3>1. CASE src.pages[Here.p].n > 1
      BY <1>7, <3>1, Zenon DEF WalkBig
    <3>2. CASE ~(src.pages[Here.p].n > 1)
      BY <1>7, <3>2, Zenon DEF WalkBig
    <3> QED
      BY <3>1, <3>2
  <2>3. [over EXCEPT ![toggle] = over[toggle]][toggle] = over[toggle]
    BY <1>2 DEF TypeOK
  <2>4. pc' = "toggle" \/ over'[toggle] = <<>>
    BY <1>4, <2>1, <2>2, <2>3, Zenon
  <2> QED
    BY <1>1, <1>3, <2>1, <2>2, <2>4, Zenon
<1>8. ASSUME Finish PROVE Buffers'
  <2>1. /\ UNCHANGED <<toggle, new, wtoggle, wbuf, over>> /\ pc = "finish" /\ pc' = "toggle"
    BY <1>8, Zenon DEF Finish, writer
  <2> QED
    BY <1>1, <2>1
<1>9. ASSUME HandOver \/ AwaitBuffer \/ Join PROVE Buffers'
  <2>1. /\ UNCHANGED <<toggle, wtoggle, wbuf, over>> /\ pc' \in {"await", "toggled", "done"}
    BY <1>9, Zenon DEF HandOver, AwaitBuffer, Join, writer
  <2>2. ASSUME HandOver, NEW b \in 0..1, Held(b) PROVE Held(b)'
    <3>1. pc = "toggle" /\ new' = new + adjust /\ new \in 0..1 /\ adjust \in {1, 17}
      BY <2>2 DEF HandOver, Control, Use
    <3> QED
      BY <2>1, <2>2, <3>1 DEF Held, Control, Use
  <2>3. ASSUME AwaitBuffer \/ Join, NEW b \in 0..1, Held(b) PROVE Held(b)'
    <3>1. UNCHANGED new /\ pc \in {"await", "join"}
      BY <2>3, Zenon DEF AwaitBuffer, Join
    <3> QED
      BY <2>1, <2>3, <3>1 DEF Held, Use
  <2> QED
    BY <1>9, <2>1, <2>2, <2>3, BuffersUnchanged DEF Filling
<1>10. ASSUME Toggled PROVE Buffers'
  <2>1. /\ UNCHANGED <<wtoggle, new, over>> /\ pc = "toggled"
        /\ toggle' \in {toggle, 1 - toggle} /\ wbuf' = [wbuf EXCEPT ![toggle'] = <<>>]
        /\ pc' \in {"join", "finish", "walk"}
    BY <1>10, Zenon DEF Toggled, writer
  <2>2. Use \in 0..1 /\ (toggle = wtoggle <=> Use = 1)
    BY <2>1 DEF Control
  <2>3. toggle' = 1 - toggle
    BY <1>0, <2>1, <2>2 DEF Control, Use
  <2>4. ~Held(toggle') /\ toggle' \in 0..1
    BY <1>2, <2>1, <2>2, <2>3 DEF Held
  <2>5. wbuf' = wbuf /\ over'[toggle'] = <<>>
    <3>1. wbuf[toggle'] = <<>> /\ over[toggle'] = <<>>
      BY <2>4, Zenon DEF Buffers
    <3> QED
      BY <2>1, <2>4, <3>1 DEF TypeOK
  <2>6. \A b \in 0..1 : Held(b) => Held(b)'
    BY <2>1 DEF Held, Use
  <2>7. \A b \in 0..1 : ~Held(b)' => wbuf'[b] = <<>> /\ over'[b] = <<>>
    BY <2>1, <2>5, <2>6, Zenon DEF Buffers
  <2> QED
    BY <2>1, <2>5, <2>7 DEF Buffers
<1>11. ASSUME WriterStarts \/ SigmaskFails \/ WriterWakes \/ Write \/ WriteFails \/ NextBuffer \/ UNCHANGED vars
       PROVE  Buffers'
  <2>1. UNCHANGED <<wbuf, over, toggle, wtoggle, new, pc, next_pgno>>
    BY <1>11, Zenon DEF WriterStarts, SigmaskFails, WriterWakes, Write, WriteFails, NextBuffer,
                        vars, walker, writer
  <2>2. \A b \in 0..1 : Held(b)' <=> Held(b)
    BY <2>1, Zenon DEF Held, Use
  <2>3. pc = "begin" => file' = file
    <3>1. ASSUME pc = "begin" PROVE wpc # "write"
      BY <3>1 DEF Control, Use
    <3> QED
      BY <1>11, <3>1, Zenon DEF WriterStarts, SigmaskFails, WriterWakes, Write, WriteFails, NextBuffer, vars
  <2> QED
    BY <2>1, <2>2, <2>3, Zenon DEF Buffers, Filling
<1>12. ASSUME BufferWritten PROVE Buffers'
  <2>1. UNCHANGED <<toggle, pc, file, next_pgno>> /\ wpc = "write"
    BY <1>12, Zenon DEF BufferWritten, walker
  <2>2. pc # "begin" /\ Use \in 1..2
    BY <2>1 DEF Control, Use
  <2>3. CASE over[wtoggle] # <<>>
    <3>1. /\ UNCHANGED <<wbuf, new, wtoggle>> /\ over' = [over EXCEPT ![wtoggle] = <<>>]
      BY <1>12, <2>3, Zenon DEF BufferWritten
    <3>2. \A b \in 0..1 : Held(b)' <=> Held(b)
      BY <2>1, <3>1, Zenon DEF Held, Use
    <3>3. \A b \in 0..1 : over'[b] = IF b = wtoggle THEN <<>> ELSE over[b]
      BY <1>2, <3>1 DEF TypeOK
    <3> QED
      BY <1>2, <2>1, <2>2, <3>1, <3>2, <3>3, Zenon DEF Buffers, Filling
  <2>4. CASE over[wtoggle] = <<>>
    <3>1. /\ wbuf' = [wbuf EXCEPT ![wtoggle] = <<>>] /\ UNCHANGED over
          /\ wtoggle' = 1 - wtoggle /\ new' = new - 1
      BY <1>12, <2>4, Zenon DEF BufferWritten
    <3>2. \A b \in 0..1 : wbuf'[b] = IF b = wtoggle THEN <<>> ELSE wbuf[b]
      BY <1>2, <3>1 DEF TypeOK
    <3>3. \A b \in 0..1 : Held(b) => Held(b)' \/ b = wtoggle
      BY <1>2, <2>1, <2>2, <3>1 DEF Held, Use, Control
    <3>4. \A b \in 0..1 : ~Held(b)' => wbuf'[b] = <<>> /\ over'[b] = <<>>
      BY <2>4, <3>1, <3>2, <3>3, Zenon DEF Buffers
    <3> QED
      BY <2>1, <2>2, <3>1, <3>4 DEF Buffers, Filling
  <2> QED
    BY <2>3, <2>4
<1> QED
  BY <1>5, <1>6, <1>7, <1>8, <1>9, <1>10, <1>11, <1>12, Zenon
     DEF Next, mdb_env_cwalk, mdb_env_cthr_toggle, mdb_env_copyfd1, mdb_env_copythr

\* Every step keeps what the threads wait for: a thread that waits is woken
\* before what it waits for is over.
LEMMA WaitsNext ==
    ASSUME Control, Waits, [Next]_vars
    PROVE  Waits'
<1>1. ASSUME HandOver PROVE Waits'
  <2>1. /\ UNCHANGED wpc /\ new' = new + adjust /\ pc = "toggle"
        /\ \/ BothInUse(new + adjust) /\ waiting' = {"walker"} /\ pc' = "await"
           \/ waiting' = waiting \ {"writer"} /\ pc' = "toggled"
    BY <1>1, Zenon DEF HandOver, writer, Signalled
  <2>2. new \in 0..1 /\ adjust \in {1, 17}
    BY <2>1 DEF Control, Use
  <2>3. BothInUse(new + adjust) => new = 1
    BY <2>2 DEF BothInUse
  <2>4. new = 1 => Use' = 2
    BY <2>1, <2>2 DEF Use
  <2> QED
    BY <2>1, <2>3, <2>4 DEF Waits
<1>2. ASSUME AwaitBuffer PROVE Waits'
  <2>1. /\ UNCHANGED <<wpc, new>> /\ pc = "await" /\ "walker" \notin waiting
        /\ \/ BothInUse(new) /\ waiting' = waiting \cup {"walker"} /\ pc' = "await"
           \/ waiting' = waiting /\ pc' = "toggled"
    BY <1>2, Zenon DEF AwaitBuffer, writer
  <2>2. BothInUse(new) => Use' = 2
    BY <2>1 DEF Control, BothInUse, Use
  <2> QED
    BY <2>1, <2>2 DEF Waits
<1>3. ASSUME UNCHANGED <<waiting, new, wpc>>, pc = "await" => pc' = "await" PROVE Waits'
  BY <1>3 DEF Waits, Use
<1>4. ASSUME mdb_env_cwalk \/ mdb_env_copyfd1 \/ UNCHANGED vars \/ Toggled PROVE Waits'
  <2>1. UNCHANGED <<waiting, new, wpc>>
    BY <1>4, Zenon DEF mdb_env_cwalk, mdb_env_copyfd1, WalkFails, WalkDown, WalkNode, WalkBig, WalkPage,
       WalkFull, mdb_txn_begin, BeginFails, Finish, Join, Toggled, vars, writer
  <2>2. pc # "await" \/ UNCHANGED pc
    BY <1>4, Zenon DEF mdb_env_cwalk, mdb_env_copyfd1, WalkFails, WalkDown, WalkNode, WalkBig, WalkPage,
       WalkFull, mdb_txn_begin, BeginFails, Finish, Join, Toggled, vars, walker, AtNode, Walking
  <2> QED
    BY <1>3, <2>1, <2>2
<1>5. ASSUME mdb_env_copythr PROVE Waits'
  <2>0. UNCHANGED pc
    BY <1>5, Zenon DEF mdb_env_copythr, WriterStarts, SigmaskFails, NextBuffer, WriterWakes, Write,
                       WriteFails, BufferWritten, walker
  <2>1. CASE WriterStarts \/ WriterWakes
    <3>1. UNCHANGED <<new, waiting>> /\ "writer" \notin waiting
      BY <2>1, Zenon DEF WriterStarts, WriterWakes, Waits
    <3> QED
      BY <2>0, <3>1 DEF Waits, Use
  <2>2. CASE SigmaskFails \/ Write \/ WriteFails
    <3>1. UNCHANGED <<waiting, new, wpc>>
      BY <2>2, Zenon DEF SigmaskFails, Write, WriteFails, writer
    <3> QED
      BY <1>3, <2>0, <3>1
  <2>3. CASE NextBuffer
    <3>1. /\ UNCHANGED new /\ wpc = "next"
          /\ \/ new = 0 /\ waiting' = waiting \cup {"writer"} /\ wpc' = "await"
             \/ waiting' = waiting
      BY <2>3, Zenon DEF NextBuffer
    <3> QED
      BY <2>0, <3>1 DEF Waits, Use
  <2>4. CASE BufferWritten
    <3>1. /\ wpc = "write"
          /\ \/ UNCHANGED <<new, waiting, wpc>>
             \/ new' = new - 1 /\ waiting' = waiting \ {"walker"}
      BY <2>4, Zenon DEF BufferWritten
    <3> QED
      BY <2>0, <3>1 DEF Waits, Use
  <2> QED
    BY <1>5, <2>1, <2>2, <2>3, <2>4 DEF mdb_env_copythr
<1> QED
  BY <1>1, <1>2, <1>4, <1>5, Zenon DEF Next, mdb_env_cthr_toggle

(***************************************************************************)
(* Types, and what the walker puts in the buffers.                         *)
(***************************************************************************)
\* The pages that WalkBig and WalkPage make.
LEMMA Made ==
    ASSUME TypeOK, StackOK, pc = "walk"
    PROVE  /\ Image(next_pgno, Top.p, 0, Top.refs) \in Images
           /\ AtNode /\ Here.t = "big" =>
                 LET n == src.pages[Here.p].n
                     tail == [j \in 1..(n - 1) |-> Image(next_pgno + j, Here.p, j, <<>>)]
                 IN /\ n \in Nat \ {0} /\ Image(next_pgno, Here.p, 0, <<>>) \in Images
                    /\ tail \in Seq(Images) /\ Len(tail) = n - 1
                    /\ \A j \in 1..(n - 1) : tail[j] = Image(next_pgno + j, Here.p, j, <<>>)
<1>0. next_pgno \in Nat
  BY DEF TypeOK
<1>1. Image(next_pgno, Top.p, 0, Top.refs) \in Images
  <2>1. Top \in Frames
    BY TopFine DEF Fine
  <2>2. Top.p \in Nat /\ Top.refs \in Seq(Refs)
    BY <2>1 DEF Frames
  <2> QED
    BY <1>0, <2>2 DEF Image, Images
<1>2. ASSUME AtNode, Here.t = "big"
      PROVE  LET n == src.pages[Here.p].n
                 tail == [j \in 1..(n - 1) |-> Image(next_pgno + j, Here.p, j, <<>>)]
             IN /\ n \in Nat \ {0} /\ Image(next_pgno, Here.p, 0, <<>>) \in Images
                /\ tail \in Seq(Images) /\ Len(tail) = n - 1
                /\ \A j \in 1..(n - 1) : tail[j] = Image(next_pgno + j, Here.p, j, <<>>)
  <2> DEFINE q == Here.p
             n == src.pages[q].n
             tail == [j \in 1..(n - 1) |-> Image(next_pgno + j, q, j, <<>>)]
  <2>1. q \in DOMAIN src.pages /\ n \in Nat \ {0}
    BY <1>2, TopFine DEF AtNode, Sound
  <2>2. q \in Nat
    BY <2>1, PageRefs
  <2> HIDE DEF q, n
  <2>3. <<>> \in Seq(Refs)
    BY EmptySeq
  <2>4. Image(next_pgno, q, 0, <<>>) \in Images
    BY <1>0, <2>2, <2>3 DEF Image, Images
  <2>5. ASSUME NEW j \in 1..(n - 1)
        PROVE  Image(next_pgno + j, q, j, <<>>) \in Images
    BY <1>0, <2>2, <2>3, <2>5 DEF Image, Images
  <2>6. tail \in [1..(n - 1) -> Images] /\ n - 1 \in Nat
    BY <2>1, <2>5
  <2>7. \A j \in 1..(n - 1) : tail[j] = Image(next_pgno + j, q, j, <<>>)
    BY Zenon
  <2> HIDE DEF tail
  <2>8. tail \in Seq(Images) /\ Len(tail) = n - 1
    BY <2>6
  <2> QED
    BY <2>1, <2>4, <2>7, <2>8, Zenon DEF q, n, tail
<1> QED
  BY <1>1, <1>2, ZenonT(60)

\* The two meta pages.
LEMMA Metas ==
    ASSUME TypeOK
    PROVE  LET m == <<Image(0, 0, 0, <<>>), Image(1, 0, 0, <<Ref("main", new_root)>>)>>
           IN m \in Seq(Images) /\ Len(m) = 2 /\ Numbered(m, 0) /\ m[2].refs = <<Ref("main", new_root)>>
<1> DEFINE a == Image(0, 0, 0, <<>>)
           b == Image(1, 0, 0, <<Ref("main", new_root)>>)
<1>1. new_root \in Int
  <2>1. src.next_pgno \in Nat /\ src.freecount \in Nat
    BY SourcesAssumption, Zenon DEF TypeOK
  <2> QED
    BY <2>1 DEF new_root, P_INVALID
<1>2. <<Ref("main", new_root)>> \in Seq(Refs) /\ <<>> \in Seq(Refs)
  <2>1. Ref("main", new_root) \in Refs
    BY <1>1 DEF Ref, Refs
  <2> QED
    BY <2>1
<1>3. a \in Images /\ b \in Images /\ a.pgno = 0 /\ b.pgno = 1 /\ b.refs = <<Ref("main", new_root)>>
  BY <1>2 DEF Image, Images
<1> HIDE DEF a, b
<1>4. <<a, b>> \in Seq(Images) /\ Len(<<a, b>>) = 2 /\ <<a, b>>[1] = a /\ <<a, b>>[2] = b
  BY <1>3
<1>5. Numbered(<<a, b>>, 0)
  BY <1>3, <1>4 DEF Numbered
<1> QED
  BY <1>3, <1>4, <1>5, Zenon DEF a, b

\* Every step keeps the types.
LEMMA TypeNext ==
    ASSUME TypeOK, StackOK, Control, [Next]_vars
    PROVE  TypeOK'
<1>0. toggle \in 0..1 /\ wtoggle \in 0..1 /\ toggle' \in 0..1
  BY ControlNext DEF Control
<1>1. ASSUME NEW b \in 0..1, NEW s \in Seq(Images)
      PROVE  /\ [wbuf EXCEPT ![b] = s] \in [0..1 -> Seq(Images)]
             /\ [over EXCEPT ![b] = s] \in [0..1 -> Seq(Images)]
  BY DEF TypeOK
<1>2. wbuf[toggle] \in Seq(Images) /\ over[toggle] \in Seq(Images) /\ <<>> \in Seq(Images)
      /\ wbuf[wtoggle] \in Seq(Images) /\ over[wtoggle] \in Seq(Images)
  BY <1>0 DEF TypeOK
<1>3. ASSUME UNCHANGED <<src, wbuf, over, next_pgno, todo, file>> PROVE TypeOK'
  BY <1>3, Zenon DEF TypeOK
<1>4. ASSUME mdb_txn_begin PROVE TypeOK'
  <2>1. UNCHANGED <<src, over, next_pgno, todo, file>>
        /\ wbuf' = [wbuf EXCEPT ![0] = <<Image(0, 0, 0, <<>>), Image(1, 0, 0, <<Ref("main", new_root)>>)>>]
    BY <1>4, Zenon DEF mdb_txn_begin, writer
  <2>2. 0 \in 0..1
    OBVIOUS
  <2> QED
    BY <1>1, <2>1, <2>2, Metas, Zenon DEF TypeOK
<1>5. ASSUME WalkPage PROVE TypeOK'
  <2>1. /\ UNCHANGED <<src, over, todo, file>> /\ next_pgno' = next_pgno + 1 /\ pc = "walk"
        /\ wbuf' = [wbuf EXCEPT ![toggle] = Append(wbuf[toggle], Image(next_pgno, Top.p, 0, Top.refs))]
    BY <1>5, Zenon DEF WalkPage, writer, Walking
  <2>2. Append(wbuf[toggle], Image(next_pgno, Top.p, 0, Top.refs)) \in Seq(Images)
    BY <1>2, <2>1, Made, AppendProperties, SMTT(30)
  <2>3. next_pgno' \in Nat
    BY <2>1 DEF TypeOK
  <2> QED
    BY <1>0, <1>1, <2>1, <2>2, <2>3, Zenon DEF TypeOK
<1>6. ASSUME WalkBig PROVE TypeOK'
  <2> DEFINE n == src.pages[Here.p].n
             tail == [j \in 1..(n - 1) |-> Image(next_pgno + j, Here.p, j, <<>>)]
             im == Image(next_pgno, Here.p, 0, <<>>)
  <2>1. /\ UNCHANGED <<src, todo, file>> /\ next_pgno' = next_pgno + n /\ pc = "walk"
        /\ AtNode /\ Here.t = "big"
        /\ wbuf' = [wbuf EXCEPT ![toggle] = Append(wbuf[toggle], im)]
        /\ over' = [over EXCEPT ![toggle] = IF n > 1 THEN tail ELSE over[toggle]]
    BY <1>6, Zenon DEF WalkBig, writer, AtNode, Walking
  <2>2. n \in Nat \ {0} /\ im \in Images /\ tail \in Seq(Images)
    BY <2>1, Made, SMTT(30)
  <2> HIDE DEF n, tail, im
  <2>3. Append(wbuf[toggle], im) \in Seq(Images)
    BY <1>2, <2>2, AppendProperties, SMTT(30)
  <2>4. next_pgno' \in Nat
    BY <2>1, <2>2 DEF TypeOK
  <2>5. (IF n > 1 THEN tail ELSE over[toggle]) \in Seq(Images)
    BY <1>2, <2>2
  <2> QED
    BY <1>0, <1>1, <2>1, <2>3, <2>4, <2>5, Zenon DEF TypeOK
<1>7. ASSUME Toggled PROVE TypeOK'
  <2>1. /\ UNCHANGED <<src, over, next_pgno, todo, file>>
        /\ wbuf' = [wbuf EXCEPT ![toggle'] = <<>>]
    BY <1>7, Zenon DEF Toggled, writer
  <2> QED
    BY <1>0, <1>1, <1>2, <2>1, Zenon DEF TypeOK
<1>8. ASSUME NextBuffer PROVE TypeOK'
  <2>1. /\ UNCHANGED <<src, wbuf, over, next_pgno, file>>
        /\ todo' = todo \/ todo' = wbuf[wtoggle]
    BY <1>8, Zenon DEF NextBuffer
  <2> QED
    BY <1>2, <2>1, Zenon DEF TypeOK
<1>9. ASSUME Write PROVE TypeOK'
  <2>1. PICK n \in 1..Len(todo) : /\ file' = file \o SubSeq(todo, 1, n)
                                  /\ todo' = SubSeq(todo, n + 1, Len(todo))
    BY <1>9, Zenon DEF Write
  <2>2. UNCHANGED <<src, wbuf, over, next_pgno>>
    BY <1>9, Zenon DEF Write
  <2>3. todo \in Seq(Images) /\ file \in Seq(Images)
    BY DEF TypeOK
  <2>4. SubSeq(todo, 1, n) \in Seq(Images) /\ SubSeq(todo, n + 1, Len(todo)) \in Seq(Images)
    BY <2>3
  <2>5. file' \in Seq(Images) /\ todo' \in Seq(Images)
    BY <2>1, <2>3, <2>4, ConcatProperties
  <2> QED
    BY <2>2, <2>5, Zenon DEF TypeOK
<1>10. ASSUME BufferWritten PROVE TypeOK'
  <2>1. /\ UNCHANGED <<src, next_pgno, file>>
        /\ \/ todo' = over[wtoggle] /\ over' = [over EXCEPT ![wtoggle] = <<>>] /\ UNCHANGED wbuf
           \/ todo' = <<>> /\ wbuf' = [wbuf EXCEPT ![wtoggle] = <<>>] /\ UNCHANGED over
    BY <1>10, Zenon DEF BufferWritten
  <2> QED
    BY <1>0, <1>1, <1>2, <2>1, ZenonT(60) DEF TypeOK
<1>11. ASSUME BeginFails \/ WalkFails \/ WalkDown \/ WalkNode \/ WalkFull \/ Finish \/ HandOver
              \/ AwaitBuffer \/ Join \/ WriterStarts \/ SigmaskFails \/ WriterWakes \/ WriteFails
              \/ UNCHANGED vars
       PROVE  TypeOK'
  <2>1. UNCHANGED <<src, wbuf, over, next_pgno, todo, file>>
    BY <1>11, Zenon DEF BeginFails, WalkFails, WalkDown, WalkNode, WalkFull, Finish, HandOver,
       AwaitBuffer, Join, WriterStarts, SigmaskFails, WriterWakes, WriteFails, vars, writer
  <2> QED
    BY <1>3, <2>1
<1> QED
  BY <1>4, <1>5, <1>6, <1>7, <1>8, <1>9, <1>10, <1>11, Zenon
     DEF Next, mdb_env_cwalk, mdb_env_cthr_toggle, mdb_env_copyfd1, mdb_env_copythr

(***************************************************************************)
(* The order of the pages.                                                 *)
(***************************************************************************)
\* Every step keeps the result of the walk.
LEMMA ResultNext ==
    ASSUME Control, Result, [Next]_vars
    PROVE  Result'
<1>1. ASSUME UNCHANGED <<rc, pc, adjust>>, error' = "" => error = "" PROVE Result'
  BY <1>1, Zenon DEF Result, Resumes
<1>2. ASSUME rc = "", UNCHANGED rc PROVE Result'
  BY <1>2, Zenon DEF Result
<1>3. ASSUME pc' \in {"finish", "done"} PROVE Result'
  BY Zenon, <1>3 DEF Result, Resumes
<1>4. ASSUME mdb_txn_begin \/ BeginFails \/ WalkFails \/ Join PROVE Result'
  <2>1. pc' \in {"finish", "done"} \/ (rc = "" /\ UNCHANGED rc)
    BY <1>4, Zenon DEF mdb_txn_begin, BeginFails, WalkFails, Join, Result
  <2> QED
    BY Zenon, <1>2, <1>3, <2>1
<1>5. ASSUME WalkDown \/ WalkNode \/ WalkBig \/ WalkPage \/ WalkFull PROVE Result'
  <2>1. pc = "walk" /\ (pc' \in {"finish", "done"} \/ UNCHANGED rc)
    BY <1>5, Zenon DEF WalkDown, WalkNode, WalkBig, WalkPage, WalkFull, AtNode, Walking
  <2>2. rc = ""
    BY Zenon, <2>1 DEF Result, Resumes
  <2> QED
    BY Zenon, <1>2, <1>3, <2>1, <2>2
<1>6. ASSUME Finish PROVE Result'
  <2>1. UNCHANGED rc /\ error' = (IF rc # "" THEN rc ELSE error) /\ pc' = "toggle" /\ adjust' = 1 + MDB_EOF
    BY <1>6, Zenon DEF Finish
  <2>2. adjust' # 1
    <3>1. 1 + MDB_EOF # 1
      BY DEF MDB_EOF
    <3> QED
      BY <2>1, <3>1, Zenon
  <2>3. ~Resumes' /\ pc' # "begin" /\ (error' = "" => rc' = "")
    BY <2>1, <2>2, Zenon DEF Resumes
  <2> QED
    BY <2>3, Zenon DEF Result
<1>7. ASSUME HandOver \/ AwaitBuffer PROVE Result'
  <2>1. /\ UNCHANGED <<rc, error, adjust>> /\ pc \in {"toggle", "await"}
        /\ pc' \in {"await", "toggled"}
    BY <1>7, Zenon DEF HandOver, AwaitBuffer
  <2> QED
    BY Zenon, <2>1 DEF Result, Resumes
<1>8. ASSUME Toggled PROVE Result'
  <2>1. /\ UNCHANGED <<error, adjust>> /\ pc = "toggled"
        /\ pc' = IF adjust >= MDB_EOF THEN "join" ELSE IF error # "" THEN "finish" ELSE "walk"
        /\ rc' = IF adjust < MDB_EOF /\ error # "" THEN error ELSE rc
    BY <1>8, Zenon DEF Toggled
  <2>2. adjust \in {1, 17} /\ (adjust >= MDB_EOF <=> adjust = 17) /\ (adjust < MDB_EOF <=> adjust = 1)
    <3>1. adjust \in {1, 17}
      BY <2>1, Zenon DEF Control
    <3> QED
      BY <3>1 DEF MDB_EOF
  <2>3. 1 # 17
    OBVIOUS
  <2>4. CASE adjust = 17
    <3>1. pc' = "join" /\ rc' = rc /\ ~Resumes'
      BY <2>1, <2>2, <2>3, <2>4, Zenon DEF Resumes
    <3> QED
      BY Zenon, <2>1, <3>1 DEF Result
  <2>5. CASE adjust = 1 /\ error = ""
    <3>1. rc' = rc
      BY <2>1, <2>5, Zenon
    <3> QED
      BY Zenon, <1>2, <2>1, <2>5, <3>1 DEF Result, Resumes
  <2>6. CASE adjust = 1 /\ error # ""
    <3>1. pc' = "finish"
      BY <2>1, <2>2, <2>3, <2>6, Zenon
    <3> QED
      BY <1>3, <3>1
  <2> QED
    BY Zenon, <2>2, <2>4, <2>5, <2>6
<1>9. ASSUME mdb_env_copythr \/ UNCHANGED vars PROVE Result'
  <2>1. UNCHANGED walker /\ (error' = "" => error = "")
    BY <1>9, Zenon DEF mdb_env_copythr, WriterStarts, SigmaskFails, NextBuffer, WriterWakes, Write,
                WriteFails, BufferWritten, vars
  <2> QED
    BY Zenon, <1>1, <2>1 DEF walker
<1> QED
  BY <1>4, <1>5, <1>6, <1>7, <1>8, <1>9, Zenon
     DEF Next, mdb_env_cwalk, mdb_env_cthr_toggle, mdb_env_copyfd1

(***************************************************************************)
(* The pages of the copy.                                                  *)
(***************************************************************************)
\* Pieces of the copy, put together.
LEMMA Joins ==
    /\ <<>> \in Seq(Images)
    /\ \A a, b \in Seq(Images) : a \o b \in Seq(Images) /\ a \o <<>> = a /\ <<>> \o a = a
<1>1. <<>> \in Seq(Images)
  BY EmptySeq
<1>2. ASSUME NEW a \in Seq(Images), NEW b \in Seq(Images)
      PROVE  a \o b \in Seq(Images) /\ a \o <<>> = a /\ <<>> \o a = a
  BY ConcatProperties, ConcatEmptySeq, Zenon
<1> QED
  BY <1>1, <1>2, Zenon

\* Concatenation is associative.
LEMMA Regroup ==
    ASSUME NEW a \in Seq(Images), NEW b \in Seq(Images), NEW c \in Seq(Images)
    PROVE  (a \o b) \o c = a \o (b \o c)
BY ConcatAssociative

\* The sequence s starts with a, also when more is added.
Starts(a, s) == \E rest \in Seq(Images) : s = a \o rest

\* What starts with the file starts with it when more is added.
LEMMA StartsMore ==
    ASSUME NEW a \in Seq(Images), NEW s, NEW d \in Seq(Images), Starts(a, s)
    PROVE  Starts(a, s \o d)
<1>1. PICK x \in Seq(Images) : s = a \o x
  BY Zenon DEF Starts
<1>2. (a \o x) \o d = a \o (x \o d)
  BY <1>1, Regroup, Zenon
<1>3. x \o d \in Seq(Images)
  BY <1>1, Joins, Zenon
<1> QED
  BY <1>1, <1>2, <1>3, Zenon DEF Starts

\* One more page at the end of a piece, and a tail after it.
LEMMA JoinsMore ==
    ASSUME NEW a \in Seq(Images), NEW b \in Seq(Images), NEW im \in Images, NEW tail \in Seq(Images)
    PROVE  (a \o Append(b, im)) \o tail = (a \o b) \o (<<im>> \o tail)
<1> DEFINE u == <<im>>
           ab == a \o b
<1>1. u \in Seq(Images)
  OBVIOUS
<1>2. Append(b, im) = b \o u
  BY AppendIsConcat
<1> HIDE DEF u
<1>3. ab \in Seq(Images)
  BY Joins, Zenon
<1>4. ab \o u = a \o (b \o u)
  BY <1>1, Regroup, ZenonT(60)
<1> HIDE DEF ab
<1>5. (ab \o u) \o tail = ab \o (u \o tail)
  BY <1>1, <1>3, Regroup, Zenon
<1>6. (a \o Append(b, im)) \o tail = ab \o (u \o tail)
  BY <1>2, <1>4, <1>5, Zenon
<1> QED
  BY <1>6, Zenon DEF u, ab

\* The types of the pieces; the file is the beginning of the copy.
LEMMA Pieces ==
    ASSUME TypeOK, Control
    PROVE  /\ cur \in Seq(Images) /\ over[wtoggle] \in Seq(Images)
           /\ wbuf[1 - wtoggle] \in Seq(Images) /\ over[1 - wtoggle] \in Seq(Images)
           /\ 1 - wtoggle \in 0..1 /\ 1 - (1 - wtoggle) = wtoggle /\ wtoggle \in 0..1
           /\ file \in Seq(Images) /\ Out \in Seq(Images) /\ Len(Out) \in Nat
           /\ Len(file) <= Len(Out) /\ \A i \in 1 .. Len(file) : Out[i] = file[i]
<1>1. wtoggle \in 0..1 /\ 1 - wtoggle \in 0..1 /\ 1 - (1 - wtoggle) = wtoggle
  BY DEF Control
<1>2. /\ cur \in Seq(Images) /\ over[wtoggle] \in Seq(Images) /\ file \in Seq(Images)
      /\ wbuf[1 - wtoggle] \in Seq(Images) /\ over[1 - wtoggle] \in Seq(Images)
  BY <1>1 DEF TypeOK, cur
<1>4. PICK rest \in Seq(Images) : Out = file \o rest
  <2>1. Starts(file, file \o cur)
    BY <1>2, Zenon DEF Starts
  <2>2. Starts(file, (file \o cur) \o over[wtoggle])
    BY <1>2, <2>1, StartsMore, Zenon
  <2>3. Starts(file, ((file \o cur) \o over[wtoggle]) \o wbuf[1 - wtoggle])
    BY <1>2, <2>2, StartsMore, Zenon
  <2>4. Starts(file, Out)
    BY <1>2, <2>3, StartsMore, Zenon DEF Out
  <2> QED
    BY <2>4, Zenon DEF Starts
<1>5. /\ file \o rest \in Seq(Images) /\ Len(file \o rest) = Len(file) + Len(rest)
      /\ \A i \in 1 .. Len(file) + Len(rest) :
            (file \o rest)[i] = IF i <= Len(file) THEN file[i] ELSE rest[i - Len(file)]
      /\ Len(file) \in Nat /\ Len(rest) \in Nat
  BY <1>2, ConcatProperties, LenProperties
<1>6. \A i \in 1 .. Len(file) : i \in 1 .. Len(file) + Len(rest) /\ i <= Len(file)
  BY <1>5
<1>7. Len(file) <= Len(file) + Len(rest) /\ Len(file) + Len(rest) \in Nat
  BY <1>5
<1> QED
  BY <1>1, <1>2, <1>4, <1>5, <1>6, <1>7, Zenon

\* The walker puts a page in the buffer it fills, and maybe a tail after it.
Fills(im, tail) ==
    /\ pc = "walk"
    /\ wbuf' = [wbuf EXCEPT ![toggle] = Append(wbuf[toggle], im)]
    /\ over' = [over EXCEPT ![toggle] = tail]
    /\ UNCHANGED <<wtoggle, wpc, todo, file>>

\* They come after all the others.
LEMMA Fill ==
    ASSUME TypeOK, Control, Buffers, NEW im \in Images, NEW tail \in Seq(Images), Fills(im, tail)
    PROVE  Out' = Out \o (<<im>> \o tail)
<1>0. toggle \in 0..1 /\ wtoggle \in 0..1
  BY DEF Control
<1>1. wbuf[toggle] \in Seq(Images)
  BY <1>0 DEF TypeOK
<1>2. over[toggle] = <<>>
  BY Zenon DEF Buffers, Filling, Fills
<1>3. CASE toggle = wtoggle
  <2>0. Use = 0
    BY Zenon, <1>3 DEF Control, Fills
  <2>1. wpc # "write" /\ ~Held(1 - wtoggle)
    <3>1. wpc # "write"
      BY <2>0 DEF Control
    <3>2. 1 - wtoggle # toggle
      BY <1>0, <1>3
    <3> QED
      BY <2>0, <3>1, <3>2 DEF Held
  <2>2. /\ cur = wbuf[toggle] /\ wbuf[1 - wtoggle] = <<>> /\ over[1 - wtoggle] = <<>>
    BY <1>3, <2>1, Pieces, Zenon DEF Buffers, cur
  <2>3. /\ cur' = Append(wbuf[toggle], im) /\ over'[wtoggle'] = tail /\ file' = file
        /\ wbuf'[1 - wtoggle'] = <<>> /\ over'[1 - wtoggle'] = <<>>
    <3>1. wbuf'[wtoggle] = Append(wbuf[toggle], im) /\ over'[wtoggle] = tail
      BY Zenon, <1>0, <1>3 DEF TypeOK, Fills
    <3>2. wbuf'[1 - wtoggle] = wbuf[1 - wtoggle] /\ over'[1 - wtoggle] = over[1 - wtoggle]
      <4>1. 1 - wtoggle \in 0..1 /\ 1 - wtoggle # toggle
        BY <1>0, <1>3
      <4> QED
        BY Zenon, <4>1 DEF TypeOK, Fills
    <3> QED
      BY <2>1, <2>2, <3>1, <3>2, Zenon DEF cur, Fills
  <2>4. Out = file \o wbuf[toggle]
    <3>1. file \o wbuf[toggle] \in Seq(Images)
      BY <1>1, Joins, Pieces, Zenon
    <3>2. Out = (((file \o wbuf[toggle]) \o <<>>) \o <<>>) \o <<>>
      BY <1>2, <1>3, <2>2, Zenon DEF Out
    <3> QED
      BY <3>1, <3>2, Joins, Zenon
  <2>5. Out' = (file \o Append(wbuf[toggle], im)) \o tail
    <3>1. (file \o Append(wbuf[toggle], im)) \o tail \in Seq(Images)
      BY <1>1, Joins, Pieces, AppendProperties
    <3>2. Out' = (((file \o Append(wbuf[toggle], im)) \o tail) \o <<>>) \o <<>>
      BY <2>3, Zenon DEF Out
    <3> QED
      BY <3>1, <3>2, Joins, Zenon
  <2>6. file \in Seq(Images)
    BY Pieces, Zenon
  <2> DEFINE w == wbuf[toggle]
  <2>7. w \in Seq(Images) /\ Out = file \o w /\ Out' = (file \o Append(w, im)) \o tail
    BY <1>1, <2>4, <2>5, Zenon
  <2> HIDE DEF w
  <2>8. (file \o Append(w, im)) \o tail = (file \o w) \o (<<im>> \o tail)
    BY <2>6, <2>7, JoinsMore, Zenon
  <2> QED
    BY <2>7, <2>8, Zenon
<1>4. CASE toggle # wtoggle
  <2>1. toggle = 1 - wtoggle
    BY <1>0, <1>4
  <2>3. /\ wbuf'[wtoggle] = wbuf[wtoggle] /\ over'[wtoggle] = over[wtoggle]
        /\ wbuf'[1 - wtoggle] = Append(wbuf[toggle], im) /\ over'[1 - wtoggle] = tail
    BY Zenon, <1>0, <2>1, <1>4 DEF TypeOK, Fills
  <2> DEFINE P == (file \o cur) \o over[wtoggle]
  <2>4. P \in Seq(Images)
    BY Joins, Pieces, Zenon
  <2>5. Out' = (P \o Append(wbuf[toggle], im)) \o tail
    BY <2>3, Zenon DEF Out, cur, Fills
  <2>6. Out = (P \o wbuf[toggle]) \o <<>>
    BY <1>2, <2>1, Zenon DEF Out
  <2> HIDE DEF P
  <2>7. Out = P \o wbuf[toggle]
    BY <1>1, <2>4, <2>6, Joins, Zenon
  <2> QED
    BY <1>1, <2>4, <2>5, <2>7, JoinsMore, Zenon
<1> QED
  BY <1>3, <1>4

\* The meta pages come first.
LEMMA OutBegin ==
    ASSUME TypeOK, Control, Buffers, mdb_txn_begin
    PROVE  Out' = <<Image(0, 0, 0, <<>>), Image(1, 0, 0, <<Ref("main", new_root)>>)>>
<1> DEFINE m == <<Image(0, 0, 0, <<>>), Image(1, 0, 0, <<Ref("main", new_root)>>)>>
<1>1. /\ pc = "begin" /\ wbuf' = [wbuf EXCEPT ![0] = m]
      /\ UNCHANGED <<over, wtoggle, wpc, file, next_pgno, todo>>
  BY Zenon DEF mdb_txn_begin, writer
<1>2. m \in Seq(Images)
  BY Metas
<1> HIDE DEF m
<1>3. toggle = 0 /\ new = 0 /\ file = <<>>
  BY <1>1 DEF Control, Buffers
<1>4. wtoggle = 0 /\ wpc # "write" /\ ~Held(1)
  BY <1>1, <1>3 DEF Control, Use, Held
<1>5. 1 - 0 = 1 /\ 0 # 1 /\ 0 \in 0..1 /\ 1 \in 0..1
  OBVIOUS
<1>6. over[0] = <<>> /\ wbuf[1] = <<>> /\ over[1] = <<>>
  BY <1>1, <1>3, <1>4, <1>5, Zenon DEF Buffers, Filling
<1>7. wbuf'[0] = m /\ wbuf'[1] = wbuf[1]
  BY <1>1, <1>5 DEF TypeOK
<1>8. /\ cur' = m /\ over'[wtoggle'] = <<>> /\ wbuf'[1 - wtoggle'] = <<>> /\ over'[1 - wtoggle'] = <<>>
  BY <1>1, <1>4, <1>5, <1>6, <1>7, Zenon DEF cur
<1>9. Out' = (((<<>> \o m) \o <<>>) \o <<>>) \o <<>>
  BY <1>1, <1>3, <1>8, Zenon DEF Out
<1>10. Out' = m
  BY <1>2, <1>9, Joins, Zenon
<1> QED
  BY <1>10, Zenon DEF m

\* The walker adds to the end.
LEMMA OutWalk ==
    ASSUME TypeOK, StackOK, Control, Buffers
    PROVE  /\ WalkPage => Out' = Out \o (<<Image(next_pgno, Top.p, 0, Top.refs)>> \o <<>>)
           /\ WalkBig => LET n == src.pages[Here.p].n
                             tail == [j \in 1..(n - 1) |-> Image(next_pgno + j, Here.p, j, <<>>)]
                         IN Out' = Out \o (<<Image(next_pgno, Here.p, 0, <<>>)>> \o tail)
<1>0. toggle \in 0..1
  BY DEF Control
<1>1. ASSUME WalkPage PROVE Out' = Out \o (<<Image(next_pgno, Top.p, 0, Top.refs)>> \o <<>>)
  <2> DEFINE im == Image(next_pgno, Top.p, 0, Top.refs)
  <2>1. /\ wbuf' = [wbuf EXCEPT ![toggle] = Append(wbuf[toggle], im)]
        /\ UNCHANGED <<over, wtoggle, wpc, todo, file>> /\ pc = "walk"
    BY <1>1, Zenon DEF WalkPage, writer, Walking
  <2>2. im \in Images
    BY <2>1, Made, SMTT(30)
  <2> HIDE DEF im
  <2>3. over[toggle] = <<>>
    BY <2>1, Zenon DEF Buffers, Filling
  <2>4. over = [over EXCEPT ![toggle] = <<>>]
    BY <1>0, <2>3 DEF TypeOK
  <2>5. Fills(im, <<>>)
    BY <2>1, <2>4, Zenon DEF Fills
  <2>6. Out' = Out \o (<<im>> \o <<>>)
    BY <2>2, <2>5, Fill, Joins, Zenon
  <2> QED
    BY <2>6, Zenon DEF im
<1>2. ASSUME WalkBig
      PROVE  LET n == src.pages[Here.p].n
                 tail == [j \in 1..(n - 1) |-> Image(next_pgno + j, Here.p, j, <<>>)]
             IN Out' = Out \o (<<Image(next_pgno, Here.p, 0, <<>>)>> \o tail)
  <2> DEFINE n == src.pages[Here.p].n
             tail == [j \in 1..(n - 1) |-> Image(next_pgno + j, Here.p, j, <<>>)]
             im == Image(next_pgno, Here.p, 0, <<>>)
  <2>1. /\ wbuf' = [wbuf EXCEPT ![toggle] = Append(wbuf[toggle], im)]
        /\ over' = [over EXCEPT ![toggle] = IF n > 1 THEN tail ELSE over[toggle]]
        /\ UNCHANGED <<wtoggle, wpc, todo, file>>
        /\ AtNode /\ Here.t = "big" /\ pc = "walk"
    BY <1>2, Zenon DEF WalkBig, writer, AtNode, Walking
  <2>2. n \in Nat \ {0} /\ im \in Images /\ tail \in Seq(Images) /\ Len(tail) = n - 1
    BY <2>1, Made, SMTT(30)
  <2> HIDE DEF im, n, tail
  <2>3. over[toggle] = <<>>
    BY <2>1, Zenon DEF Buffers, Filling
  <2>4. (IF n > 1 THEN tail ELSE over[toggle]) = tail
    <3>1. CASE n > 1
      BY <3>1
    <3>2. CASE ~(n > 1)
      <4>1. Len(tail) = 0
        BY <2>2, <3>2
      <4>2. tail = <<>>
        BY <2>2, <4>1, EmptySeq
      <4> QED
        BY <2>3, <3>2, <4>2, Zenon
    <3> QED
      BY <3>1, <3>2
  <2>5. Fills(im, tail)
    BY <2>1, <2>4, Zenon DEF Fills
  <2>6. Out' = Out \o (<<im>> \o tail)
    BY <2>2, <2>5, Fill, Zenon
  <2> QED
    BY <2>6, Zenon DEF im, n, tail
<1> QED
  BY <1>1, <1>2, Zenon

\* The buffer the walker goes on with is empty already.
LEMMA ToggledKeeps ==
    ASSUME TypeOK, Control, Buffers, Toggled
    PROVE  wbuf' = wbuf
<1>0. Control'
  BY ControlNext DEF Next, mdb_env_cthr_toggle
<1>1. /\ UNCHANGED <<wtoggle, new, over>> /\ pc = "toggled"
      /\ toggle' \in {toggle, 1 - toggle} /\ wbuf' = [wbuf EXCEPT ![toggle'] = <<>>]
      /\ pc' \in {"join", "finish", "walk"}
  BY Zenon DEF Toggled, writer
<1>2. Use \in 0..1 /\ (toggle = wtoggle <=> Use = 1) /\ toggle \in 0..1 /\ wtoggle \in 0..1
  BY <1>1 DEF Control
<1>3. toggle' = 1 - toggle
  BY <1>0, <1>1, <1>2 DEF Control, Use
<1>4. ~Held(toggle') /\ toggle' \in 0..1
  BY <1>1, <1>2, <1>3 DEF Held
<1>5. wbuf[toggle'] = <<>>
  BY <1>4, Zenon DEF Buffers
<1> QED
  BY <1>1, <1>4, <1>5 DEF TypeOK

\* mc_error is not set.
NoError == error = ""

\* The writer moves pages to the file, and nothing is added or lost.
LEMMA OutKept ==
    ASSUME TypeOK, Control, Buffers, NoError, [Next]_vars, ~mdb_txn_begin, ~WalkPage, ~WalkBig
    PROVE  Out' = Out /\ UNCHANGED <<src, next_pgno>>
<1>1. ASSUME UNCHANGED <<wbuf, over, wtoggle, file>>, cur' = cur PROVE Out' = Out
  BY <1>1, Zenon DEF Out
<1>2. CASE BeginFails \/ WalkFails \/ WalkDown \/ WalkNode \/ WalkFull \/ Finish \/ HandOver \/ AwaitBuffer
           \/ Join \/ SigmaskFails \/ WriteFails \/ UNCHANGED vars
  <2>1. UNCHANGED <<wbuf, over, wtoggle, todo, file, wpc, src, next_pgno>>
    BY <1>2, Zenon DEF BeginFails, WalkFails, WalkDown, WalkNode, WalkFull, Finish, HandOver, AwaitBuffer,
       Join, SigmaskFails, WriteFails, vars, writer
  <2> QED
    BY <1>1, <2>1, Zenon DEF cur
<1>3. CASE WriterStarts \/ WriterWakes
  <2>1. /\ UNCHANGED <<wbuf, over, wtoggle, todo, file, src, next_pgno>>
        /\ wpc \in {"start", "await"} /\ wpc' = "next"
    BY <1>3, Zenon DEF WriterStarts, WriterWakes
  <2>2. wpc # "write" /\ wpc' # "write"
    BY <2>1
  <2> QED
    BY <1>1, <2>1, <2>2, Zenon DEF cur
<1>4. CASE Toggled
  <2>1. UNCHANGED <<over, wtoggle, todo, file, wpc, src, next_pgno>>
    BY <1>4, Zenon DEF Toggled, writer
  <2>2. UNCHANGED wbuf
    BY <1>4, ToggledKeeps
  <2> QED
    BY <1>1, <2>1, <2>2, Zenon DEF cur
<1>5. CASE NextBuffer
  <2>1. UNCHANGED <<wbuf, over, wtoggle, file, src, next_pgno>> /\ wpc = "next"
    BY <1>5, Zenon DEF NextBuffer
  <2>2. wpc' = "write" => todo' = wbuf[wtoggle]
    BY <1>5 DEF NextBuffer, MDB_EOF
  <2>3. wpc # "write"
    BY <2>1
  <2> QED
    BY <1>1, <2>1, <2>2, <2>3, Zenon DEF cur
<1>6. CASE Write
  <2>1. PICK n \in 1..Len(todo) : /\ file' = file \o SubSeq(todo, 1, n)
                                  /\ todo' = SubSeq(todo, n + 1, Len(todo))
    BY <1>6, Zenon DEF Write
  <2>2. UNCHANGED <<wbuf, over, wtoggle, wpc, src, next_pgno>> /\ wpc = "write"
    BY <1>6, Zenon DEF Write
  <2>3. todo \in Seq(Images) /\ file \in Seq(Images) /\ n \in 1..Len(todo)
    BY <2>1, Zenon DEF TypeOK
  <2> DEFINE a == SubSeq(todo, 1, n)
             b == SubSeq(todo, n + 1, Len(todo))
  <2>4. a \in Seq(Images) /\ b \in Seq(Images)
    BY <2>3
  <2>5. a \o b = todo
    <3>1. 1 \in 1 .. Len(todo) + 1 /\ n \in 1 - 1 .. Len(todo) /\ Len(todo) \in n .. Len(todo)
      BY <2>3
    <3>2. a \o b = SubSeq(todo, 1, Len(todo))
      BY <2>3, <3>1, ConcatAdjacentSubSeq
    <3> QED
      BY <2>3, <3>2, SubSeqFull
  <2> HIDE DEF a, b
  <2>6. (file \o a) \o b = file \o todo
    BY <2>3, <2>4, <2>5, Regroup, Zenon
  <2>7. file' \o cur' = file \o cur
    BY <2>1, <2>2, <2>6, Zenon DEF cur, a, b
  <2> QED
    BY <2>2, <2>7, Zenon DEF Out
<1>7. CASE BufferWritten
  <2>0. UNCHANGED <<file, src, next_pgno>> /\ wpc = "write"
    BY <1>7, Zenon DEF BufferWritten
  <2>1. todo = <<>> /\ cur = <<>>
    BY Zenon, <1>7, <2>0 DEF BufferWritten, cur, NoError
  <2>2. wtoggle \in 0..1 /\ 1 - wtoggle \in 0..1 /\ 1 - wtoggle # wtoggle /\ 1 - (1 - wtoggle) = wtoggle
    <3>1. wtoggle \in 0..1
      BY Zenon DEF Control
    <3> QED
      BY <3>1
  <2>3. /\ file \in Seq(Images) /\ over[wtoggle] \in Seq(Images) /\ wbuf[1 - wtoggle] \in Seq(Images)
        /\ over[1 - wtoggle] \in Seq(Images) /\ file \o over[wtoggle] \in Seq(Images)
        /\ file \o <<>> = file
    BY Pieces, Joins, Zenon
  <2>4. CASE over[wtoggle] # <<>>
    <3>1. /\ todo' = over[wtoggle] /\ over' = [over EXCEPT ![wtoggle] = <<>>]
          /\ UNCHANGED <<wbuf, wpc, wtoggle>>
      BY <1>7, <2>4, Zenon DEF BufferWritten
    <3>2. over'[wtoggle] = <<>> /\ over'[1 - wtoggle] = over[1 - wtoggle]
      BY <2>2, <3>1 DEF TypeOK
    <3>3. cur' = over[wtoggle]
      BY <2>0, <3>1, Zenon DEF cur
    <3>4. (file' \o cur') \o over'[wtoggle'] = (file \o cur) \o over[wtoggle]
      <4>1. (file' \o cur') \o over'[wtoggle'] = (file \o over[wtoggle]) \o <<>>
        BY <2>0, <3>1, <3>2, <3>3, Zenon
      <4>2. (file \o over[wtoggle]) \o <<>> = file \o over[wtoggle]
        BY <2>3, Joins, Zenon
      <4> QED
        BY <2>1, <2>3, <4>1, <4>2, Zenon
    <3> QED
      BY <2>0, <3>1, <3>2, <3>4, Zenon DEF Out
  <2>5. CASE over[wtoggle] = <<>>
    <3>1. /\ wbuf' = [wbuf EXCEPT ![wtoggle] = <<>>] /\ UNCHANGED over
          /\ wtoggle' = 1 - wtoggle /\ wpc' = "next"
      BY <1>7, <2>5, Zenon DEF BufferWritten
    <3>2. wbuf'[wtoggle] = <<>> /\ wbuf'[1 - wtoggle] = wbuf[1 - wtoggle]
      BY <2>2, <3>1 DEF TypeOK
    <3>3. /\ cur' = wbuf[1 - wtoggle] /\ over'[wtoggle'] = over[1 - wtoggle]
          /\ wbuf'[1 - wtoggle'] = <<>> /\ over'[1 - wtoggle'] = <<>>
      <4>1. wpc' # "write"
        BY <3>1
      <4> QED
        BY <2>2, <2>5, <3>1, <3>2, <4>1, Zenon DEF cur
    <3> DEFINE x == (file \o wbuf[1 - wtoggle]) \o over[1 - wtoggle]
    <3>4. x \in Seq(Images)
      BY <2>3, Joins, Zenon
    <3>5. Out = x
      <4>1. Out = (((file \o <<>>) \o <<>>) \o wbuf[1 - wtoggle]) \o over[1 - wtoggle]
        BY <2>1, <2>5, Zenon DEF Out
      <4> QED
        BY <2>3, <4>1, Zenon
    <3>6. Out' = (x \o <<>>) \o <<>>
      BY <2>0, <3>3, Zenon DEF Out
    <3> HIDE DEF x
    <3>7. (x \o <<>>) \o <<>> = x
      BY <3>4, Joins, Zenon
    <3> QED
      BY <2>0, <3>5, <3>6, <3>7, Zenon
  <2> QED
    BY <2>4, <2>5
<1> QED
  BY <1>2, <1>3, <1>4, <1>5, <1>6, <1>7, Zenon
     DEF Next, mdb_env_cwalk, mdb_env_cthr_toggle, mdb_env_copyfd1, mdb_env_copythr

\* Where the pages of two pieces are.
LEMMA ConcatFacts ==
    ASSUME NEW a \in Seq(Images), NEW b \in Seq(Images)
    PROVE  /\ a \o b \in Seq(Images) /\ Len(a \o b) = Len(a) + Len(b) /\ Len(a) \in Nat /\ Len(b) \in Nat
           /\ \A i \in 1 .. Len(a) : (a \o b)[i] = a[i]
           /\ \A j \in 1 .. Len(b) : (a \o b)[Len(a) + j] = b[j]
<1>1. /\ a \o b \in Seq(Images) /\ Len(a \o b) = Len(a) + Len(b) /\ Len(a) \in Nat /\ Len(b) \in Nat
      /\ \A i \in 1 .. Len(a) + Len(b) : (a \o b)[i] = IF i <= Len(a) THEN a[i] ELSE b[i - Len(a)]
  BY ConcatProperties
<1>2. ASSUME NEW i \in 1 .. Len(a) PROVE (a \o b)[i] = a[i]
  <2>1. i \in 1 .. Len(a) + Len(b) /\ i <= Len(a)
    BY <1>1
  <2> QED
    BY <1>1, <2>1, Zenon
<1>3. ASSUME NEW j \in 1 .. Len(b) PROVE (a \o b)[Len(a) + j] = b[j]
  <2>1. Len(a) + j \in 1 .. Len(a) + Len(b) /\ ~(Len(a) + j <= Len(a)) /\ (Len(a) + j) - Len(a) = j
    BY <1>1
  <2>2. (a \o b)[Len(a) + j] = b[(Len(a) + j) - Len(a)]
    BY <1>1, <2>1, Zenon
  <2> QED
    BY <2>1, <2>2, Zenon
<1> QED
  BY <1>1, <1>2, <1>3, Zenon

\* The page im and its tail are added to the copy.
Adds(out, im, tail, out2) == out2 = out \o (<<im>> \o tail)
Follows(out, im, tail, out2) ==
    /\ out2 \in Seq(Images) /\ Len(out2) = Len(out) + 1 + Len(tail)
    /\ Len(out) \in Nat /\ Len(tail) \in Nat
    /\ \A i \in 1 .. Len(out) : out2[i] = out[i]
    /\ out2[Len(out) + 1] = im
    /\ \A j \in 1 .. Len(tail) : out2[Len(out) + (1 + j)] = tail[j]

\* Where the pages are that the walker adds.
LEMMA Added ==
    ASSUME NEW out \in Seq(Images), NEW im \in Images, NEW tail \in Seq(Images), NEW out2,
           Adds(out, im, tail, out2)
    PROVE  Follows(out, im, tail, out2)
<1> DEFINE u == <<im>>
           v == u \o tail
<1>1. u \in Seq(Images) /\ Len(u) = 1 /\ u[1] = im
  OBVIOUS
<1> HIDE DEF u
<1>2. /\ v \in Seq(Images) /\ Len(v) = Len(u) + Len(tail) /\ Len(tail) \in Nat
      /\ \A i \in 1 .. Len(u) : v[i] = u[i]
      /\ \A j \in 1 .. Len(tail) : v[Len(u) + j] = tail[j]
  BY <1>1, ConcatFacts, Zenon
<1> HIDE DEF v
<1>3. Len(v) = 1 + Len(tail) /\ \A j \in 1 .. Len(tail) : v[1 + j] = tail[j]
  BY <1>1, <1>2, Zenon
<1>4. v[1] = im
  <2>1. 1 \in 1 .. Len(u)
    BY <1>1
  <2> QED
    BY <1>1, <1>2, <2>1, Zenon
<1>5. out2 = out \o v
  BY Zenon DEF u, v, Adds
<1>60. v \in Seq(Images)
  BY <1>2
<1>61. /\ out \o v \in Seq(Images) /\ Len(out \o v) = Len(out) + Len(v) /\ Len(out) \in Nat
       /\ \A i \in 1 .. Len(out) : (out \o v)[i] = out[i]
       /\ \A j \in 1 .. Len(v) : (out \o v)[Len(out) + j] = v[j]
  BY <1>60, ConcatFacts, Zenon
<1>6. /\ out2 \in Seq(Images) /\ Len(out2) = Len(out) + Len(v) /\ Len(out) \in Nat
      /\ \A i \in 1 .. Len(out) : out2[i] = out[i]
      /\ \A j \in 1 .. Len(v) : out2[Len(out) + j] = v[j]
  BY <1>61, <1>5, Zenon
<1>70. Len(v) = 1 + Len(tail) /\ Len(tail) \in Nat /\ Len(out) \in Nat
  BY <1>2, <1>3, <1>6, Zenon
<1>7. 1 \in 1 .. Len(v) /\ (\A j \in 1 .. Len(tail) : 1 + j \in 1 .. Len(v))
      /\ Len(out) + Len(v) = Len(out) + 1 + Len(tail)
  BY <1>70
<1> QED
  BY <1>2, <1>3, <1>4, <1>6, <1>7, Zenon DEF Follows

\* The page im and its tail are numbered on from n.
CopiesOf(im, tail, n) ==
    /\ im.pgno = n /\ im.part = 0
    /\ \A j \in 1 .. Len(tail) : tail[j].pgno = n + j /\ tail[j].from = im.from /\ tail[j].part = j

\* They extend the copy.
Longer(out, im, tail, out2) ==
    /\ out2 \in Seq(Images) /\ Len(out2) = Len(out) + 1 + Len(tail)
    /\ Extended(out, out2, im.from)
    /\ \A i \in Len(out) + 1 .. Len(out2) : out2[i] = im \/ \E j \in 1 .. Len(tail) : out2[i] = tail[j]
    /\ out2[Len(out) + 1] = im

\* The pages that the walker adds come after the others, numbered on.
LEMMA Grows ==
    ASSUME NEW out \in Seq(Images), NEW im \in Images, NEW tail \in Seq(Images), NEW out2,
           Adds(out, im, tail, out2), CopiesOf(im, tail, Len(out))
    PROVE  Longer(out, im, tail, out2)
<1>1. /\ out2 \in Seq(Images) /\ Len(out2) = Len(out) + 1 + Len(tail)
      /\ Len(out) \in Nat /\ Len(tail) \in Nat
      /\ \A i \in 1 .. Len(out) : out2[i] = out[i]
      /\ out2[Len(out) + 1] = im
      /\ \A j \in 1 .. Len(tail) : out2[Len(out) + (1 + j)] = tail[j]
  <2>1. Follows(out, im, tail, out2)
    BY Added, Zenon
  <2> QED
    BY <2>1, Zenon DEF Follows
<1>2. ASSUME NEW i \in Len(out) + 1 .. Len(out2)
      PROVE  /\ out2[i].pgno = i - 1 /\ out2[i].from = im.from /\ out2[i].part = i - Len(out) - 1
             /\ out2[i] = im \/ \E j \in 1 .. Len(tail) : out2[i] = tail[j]
  <2>1. CASE i = Len(out) + 1
    <3>1. i - 1 = Len(out) /\ i - Len(out) - 1 = 0
      BY <1>1, <2>1
    <3> QED
      BY <1>1, <2>1, <3>1, Zenon DEF CopiesOf
  <2>2. CASE i # Len(out) + 1
    <3> DEFINE j == i - Len(out) - 1
    <3>1. j \in 1 .. Len(tail) /\ Len(out) + (1 + j) = i /\ Len(out) + j = i - 1
      BY <1>1, <2>2, SMTT(30)
    <3> HIDE DEF j
    <3>2. out2[i] = tail[j]
      BY <1>1, <3>1, Zenon
    <3>3. out2[i].pgno = i - 1 /\ out2[i].from = im.from /\ out2[i].part = j
      BY <3>1, <3>2, Zenon DEF CopiesOf
    <3> QED
      BY <3>1, <3>2, <3>3, Zenon DEF j
  <2> QED
    BY <2>1, <2>2, SMTT(30)
<1>3. Len(out2) > Len(out)
  BY <1>1
<1> QED
  BY <1>1, <1>2, <1>3, Zenon DEF Extended, Longer

\* Pages that follow are numbered on.
LEMMA NumberedMore ==
    ASSUME NEW out \in Seq(Images), NEW out2 \in Seq(Images), NEW q, Extended(out, out2, q), Numbered(out, 0)
    PROVE  Numbered(out2, 0)
<1>0. Len(out) \in Nat /\ Len(out2) \in Nat
  BY LenProperties
<1>1. ASSUME NEW i \in 1 .. Len(out2) PROVE out2[i].pgno = 0 + i - 1
  <2>1. i \in 1 .. Len(out) \/ i \in Len(out) + 1 .. Len(out2)
    BY <1>0
  <2>2. 0 + i - 1 = i - 1
    BY <1>0
  <2> QED
    BY <2>1, <2>2, Zenon DEF Extended, Numbered
<1> QED
  BY <1>1, Zenon DEF Numbered

\* WalkPage: the page on top of the stack is copied, and its parent goes on.
PagePut(out, im, st, st2) ==
    /\ Len(st) > 0 /\ st[Len(st)].ki > Len(st[Len(st)].refs)
    /\ im = Image(Len(out), st[Len(st)].p, 0, st[Len(st)].refs)
    /\ Len(st2) = Len(st) - 1
    /\ \A i \in 1 .. Len(st2) : st2[i] = IF i = Len(st2) THEN Bump(st[i], Len(out)) ELSE st[i]

\* It is the page the walk is at, with the references of the original.
LEMMA PutsPage ==
    ASSUME NEW s \in Sources, NEW out \in Seq(Images), NEW im \in Images, NEW out2 \in Seq(Images),
           NEW st \in Seq(Frames), NEW st2 \in Seq(Frames),
           Walked(s, out, st), PagePut(out, im, st, st2),
           Extended(out, out2, im.from), \A i \in Len(out) + 1 .. Len(out2) : out2[i] = im
    PROVE  Puts(s, out, out2, st, st2, im.from)
<1> DEFINE m == Len(st)
           f == st[m]
<1>0. m \in Nat \ {0} /\ m \in 1 .. m /\ Len(st2) = m - 1 /\ Len(out) \in Nat
  BY LenProperties, SMTT(30) DEF PagePut
<1>1. im.from = f.p /\ im.part = 0 /\ im.refs = f.refs /\ f.ki > Len(f.refs)
  BY Zenon DEF PagePut, Image
<1>2. FrameOK(s, out, f)
  BY <1>0, Zenon DEF Walked
<1>3. f \in Frames
  BY <1>0, ElementOfSeq, Zenon
<1>4. f.ki \in Nat \ {0} /\ Len(f.refs) \in Nat
  BY <1>3, SMTT(30) DEF Frames
<1>5. PageOK(s, out, im)
  <2>1. \A k \in 1 .. Len(f.refs) : k < f.ki
    BY <1>1, <1>4, SMTT(30)
  <2> QED
    BY <1>1, <1>2, <2>1, Zenon DEF PageOK, FrameOK
<1>6. \A i \in 1 .. m : st[i].p = f.p => i = m
  BY <1>0, Zenon DEF Walked, Linked
<1>7. \A i \in 1 .. Len(st2) : i \in 1 .. m /\ i # m
  BY <1>0
<1>8. \A i \in Len(st2) + 1 .. m : i = m
  BY <1>0
<1>9. ASSUME Len(st2) > 0
      PROVE  /\ st2[Len(st2)] = Bump(st[Len(st2)], Len(out))
             /\ Points(s, st[Len(st2)], f.p)
             /\ s.pages[st[Len(st2)].p].refs[st[Len(st2)].ki].t # "big"
  <2>1. Len(st2) \in 1 .. Len(st2) /\ m \in 2 .. m /\ m - 1 = Len(st2)
    BY <1>0, <1>9
  <2>2. st2[Len(st2)] = Bump(st[Len(st2)], Len(out))
    BY <2>1, Zenon DEF PagePut
  <2>3. Points(s, st[m - 1], f.p) /\ s.pages[st[m - 1].p].refs[st[m - 1].ki].t # "big"
    BY <2>1, Zenon DEF Walked, Linked
  <2> QED
    BY <2>1, <2>2, <2>3, Zenon
<1>10. Len(st2) = 0 => f.p = s.root
  <2>1. Len(st2) = 0 => m = 1 /\ m > 0
    BY <1>0
  <2> QED
    BY <2>1, Zenon DEF Walked, Linked
<1>11. ~Copied(out, f.p)
  BY <1>2, Zenon DEF FrameOK
<1>12. \A i \in Len(out) + 1 .. Len(out2) : PageOK(s, out, out2[i])
  BY <1>5, Zenon
<1>13. m > 0 /\ Len(st2) <= m
  BY <1>0
<1>14. \A i \in 1 .. Len(st2) : i < Len(st2) => st2[i] = st[i]
  <2>1. \A i \in 1 .. Len(st2) : i < Len(st2) => i # Len(st2)
    BY <1>0
  <2> QED
    BY <2>1, Zenon DEF PagePut
<1> HIDE DEF f, m
<1>15. /\ \A i \in 1 .. Len(st2) : st[i].p # f.p
       /\ \A i \in Len(st2) + 1 .. m : st[i].p = f.p
  BY <1>6, <1>7, <1>8, Zenon DEF f
<1> QED
  BY <1>1, <1>9, <1>10, <1>11, <1>12, <1>13, <1>14, <1>15, Zenon DEF Puts, m

\* WalkBig: the overflow page that the top is at is copied.
BigPut(s, out, im, st, st2, q) ==
    /\ Len(st) > 0 /\ Points(s, st[Len(st)], q)
    /\ im.from = q
    /\ Len(st2) = Len(st)
    /\ \A i \in 1 .. Len(st) : st2[i] = IF i = Len(st) THEN Bump(st[i], Len(out)) ELSE st[i]

\* It is a page that was not copied, and it refers to nothing.
LEMMA PutsBig ==
    ASSUME NEW s \in Sources, NEW out \in Seq(Images), NEW im \in Images, NEW out2 \in Seq(Images),
           NEW st \in Seq(Frames), NEW st2 \in Seq(Frames), NEW q,
           Walked(s, out, st), BigPut(s, out, im, st, st2, q), Extended(out, out2, q),
           Len(out2) = Len(out) + s.pages[q].n, s.pages[q].refs = <<>>,
           \A i \in Len(out) + 1 .. Len(out2) : out2[i].from = q /\ out2[i].refs = <<>>
    PROVE  Puts(s, out, out2, st, st2, q)
<1> DEFINE m == Len(st)
<1>0. m \in Nat \ {0} /\ m \in 1 .. m /\ Len(st2) = m /\ Len(out) \in Nat
  BY LenProperties, SMTT(30) DEF BigPut
<1>1. Points(s, st[m], q) /\ Len(st) > 0
  BY Zenon DEF BigPut
<1>2. q \in DOMAIN s.pages /\ ~Copied(out, q) /\ \A i \in 1 .. m : st[i].p # q
  BY <1>1, HereNew, Zenon
<1>3. \A i \in Len(out) + 1 .. Len(out2) : PageOK(s, out, out2[i])
  <2>1. Len(<<>>) = 0 /\ 1 .. 0 = {}
    OBVIOUS
  <2>2. ASSUME NEW x, x.from = q, x.refs = <<>> PROVE PageOK(s, out, x)
    <3>1. Len(x.refs) = 0 /\ Len(s.pages[x.from].refs) = 0 /\ x.from \in DOMAIN s.pages
      BY <1>2, <2>1, <2>2, Zenon
    <3>2. Len(x.refs) = IF x.part = 0 THEN Len(s.pages[x.from].refs) ELSE 0
      BY <3>1, Zenon
    <3>3. \A k \in 1 .. Len(x.refs) : FALSE
      BY <3>1, SMTT(30)
    <3> QED
      BY <3>1, <3>2, <3>3, Zenon DEF PageOK
  <2> QED
    BY <2>2, Zenon
<1>4. \A i \in m + 1 .. m : FALSE
  BY <1>0, SMTT(30)
<1>5. \A i \in 1 .. m : i < m => i # m
  BY <1>0, SMTT(30)
<1>6. \A i \in 1 .. m : i < m => st2[i] = st[i]
  BY <1>5, Zenon DEF BigPut
<1>7. st2[m] = Bump(st[m], Len(out))
  BY <1>0, Zenon DEF BigPut
<1>8. m > 0 /\ m <= m /\ m # 0
  BY <1>0, SMTT(30)
<1> HIDE DEF m
<1>9. Len(st) = m /\ Len(st2) = m
  BY <1>0, Zenon DEF m
<1> QED
  BY <1>1, <1>2, <1>3, <1>4, <1>6, <1>7, <1>8, <1>9, Zenon DEF Puts

\* A failure is not undone.
LEMMA ErrorStays ==
    ASSUME [Next]_vars, NoError'
    PROVE  NoError
<1>1. error' = error \/ error' \in {"EINVAL", "EIO"} \/ (rc # "" /\ error' = rc)
  BY Zenon DEF Next, mdb_env_cwalk, mdb_env_cthr_toggle, mdb_env_copyfd1, mdb_env_copythr, vars,
     mdb_txn_begin, BeginFails, WalkFails, WalkDown, WalkNode, WalkBig, WalkPage, WalkFull, Finish,
     HandOver, AwaitBuffer, Toggled, Join, WriterStarts, SigmaskFails, NextBuffer, WriterWakes, Write,
     WriteFails, BufferWritten
<1> QED
  BY <1>1, Zenon DEF NoError

\* While nothing fails, the walk has started if it has after the step.
LEMMA CountedStays ==
    ASSUME Result, NoError, [Next]_vars, ~mdb_txn_begin, Counted'
    PROVE  Counted
<1>1. pc' # "begin" /\ rc' = ""
  BY Zenon DEF Counted
<1>2. CASE UNCHANGED <<pc, rc>>
  BY <1>1, <1>2, Zenon DEF Counted
<1>3. CASE ~UNCHANGED <<pc, rc>>
  <2>1. WalkFails \/ WalkDown \/ WalkNode \/ WalkBig \/ WalkPage \/ WalkFull \/ BeginFails \/ Finish
        \/ HandOver \/ AwaitBuffer \/ Toggled \/ Join
    BY <1>3, Zenon DEF Next, mdb_env_cwalk, mdb_env_cthr_toggle, mdb_env_copyfd1, mdb_env_copythr, vars,
       walker, WriterStarts, SigmaskFails, NextBuffer, WriterWakes, Write, WriteFails, BufferWritten
  <2>2. ~BeginFails /\ ~WalkFails
    BY <1>1, Zenon DEF BeginFails, WalkFails
  <2>3. CASE WalkDown \/ WalkNode \/ WalkBig \/ WalkPage \/ WalkFull
    <3>1. pc = "walk"
      BY <2>3, Zenon DEF WalkDown, WalkNode, WalkBig, WalkPage, WalkFull, AtNode, Walking
    <3>2. rc = ""
      BY <3>1, Zenon DEF Result, Resumes
    <3> QED
      BY <3>1, <3>2, Zenon DEF Counted
  <2>4. CASE Finish \/ HandOver \/ AwaitBuffer
    <3>1. pc \in {"finish", "toggle", "await"} /\ rc' = rc
      BY <2>4, Zenon DEF Finish, HandOver, AwaitBuffer
    <3> QED
      BY <1>1, <3>1, Zenon DEF Counted
  <2>5. CASE Toggled \/ Join
    <3>1. pc \in {"toggled", "join"}
      BY <2>5, Zenon DEF Toggled, Join
    <3>2. rc = ""
      BY <3>1, Zenon DEF Result, NoError
    <3> QED
      BY <3>1, <3>2, Zenon DEF Counted
  <2> QED
    BY <2>1, <2>2, <2>3, <2>4, <2>5, Zenon
<1> QED
  BY <1>2, <1>3

\* Where the walk is when nothing has failed.
LEMMA AtWalk ==
    ASSUME TypeOK, StackOK, Control, Result, Order, Progress, NoError, pc = "walk"
    PROVE  /\ src \in Sources /\ Out \in Seq(Images) /\ stack \in Seq(Frames)
           /\ Len(stack) \in Nat \ {0} /\ Len(stack) > 0 /\ stack # <<>>
           /\ Numbered(Out, 0) /\ Len(Out) = next_pgno /\ next_pgno \in Nat /\ Len(Out) >= 2
           /\ Walked(src, Out, stack) /\ Out[2].refs = <<Ref("main", new_root)>> /\ src.root # P_INVALID
<1>1. Counted
  <2>1. pc # "begin"
    OBVIOUS
  <2> QED
    BY <2>1, Zenon DEF Counted, Result, Resumes
<1>2. Numbered(Out, 0) /\ Len(Out) = next_pgno
  BY <1>1, Zenon DEF Order, NoError
<1>3. stack # <<>> /\ stack \in Seq(Frames)
  BY Zenon DEF StackOK, Resumes
<1>4. Len(stack) \in Nat \ {0}
  BY TopFine, Zenon
<1>5. Walked(src, Out, stack) /\ Out[2].refs = <<Ref("main", new_root)>> /\ src.root # P_INVALID
  BY <1>1, <1>3, Zenon DEF Progress, NoError
<1>6. Len(stack) > 0
  BY <1>4
<1> QED
  BY <1>2, <1>3, <1>4, <1>5, <1>6, Pieces, Zenon DEF TypeOK, Walked

\* The reference that the top of the stack is at is the snapshot's.
LEMMA AtHere ==
    ASSUME TypeOK, StackOK, pc = "walk", Top.ki <= Len(Top.refs), NEW out, Walked(src, out, stack)
    PROVE  /\ Top.ki \in 1 .. Len(src.pages[Top.p].refs) /\ src.pages[Top.p].refs[Top.ki] = Here
           /\ Top.p \in DOMAIN src.pages
<1>1. Len(stack) \in Nat \ {0} /\ Fine(Top)
  BY TopFine, Zenon
<1>2. Top \in Frames
  BY <1>1, Zenon DEF Fine
<1>3. Top.ki \in Nat \ {0} /\ Len(Top.refs) \in Nat
  BY <1>2 DEF Frames
<1>4. Top.ki \in 1 .. Len(Top.refs) /\ Top.ki >= Top.ki /\ Len(stack) \in 1 .. Len(stack)
  BY <1>1, <1>3
<1>5. FrameOK(src, out, Top)
  BY <1>4, Zenon DEF Walked, Top
<1> QED
  BY <1>4, <1>5, Zenon DEF FrameOK, Here

\* WalkPage adds a copy of the page on top.
LEMMA StepPage ==
    ASSUME TypeOK, StackOK, Control, Buffers, Result, Order, Progress, NoError, WalkPage
    PROVE  /\ Out' \in Seq(Images) /\ Extended(Out, Out', Top.p) /\ Len(Out') = Len(Out) + 1
           /\ Out'[Len(Out) + 1].from = Top.p /\ Out'[Len(Out) + 1].part = 0
           /\ Walked(src, Out', stack')
           /\ Len(stack) = 1 => stack' = <<>> /\ Top.p = src.root
           /\ Len(stack) # 1 => stack' # <<>>
<1> DEFINE im == Image(next_pgno, Top.p, 0, Top.refs)
           up == Len(stack) - 1
<1>1. /\ pc = "walk" /\ Top.ki > Len(Top.refs)
      /\ stack' = IF up = 0 THEN <<>>
                  ELSE SubSeq([stack EXCEPT ![up].refs[stack[up].ki].p = next_pgno, ![up].ki = @ + 1], 1, up)
  BY Zenon DEF WalkPage, Walking
<1>2. /\ src \in Sources /\ Out \in Seq(Images) /\ stack \in Seq(Frames) /\ Len(stack) \in Nat \ {0}
      /\ Len(stack) > 0 /\ Len(Out) = next_pgno /\ next_pgno \in Nat /\ Walked(src, Out, stack)
  BY <1>1, AtWalk, Zenon
<1>3. im \in Images /\ im.pgno = next_pgno /\ im.from = Top.p /\ im.part = 0
  BY <1>1, Made, SMTT(30) DEF Image
<1>4. /\ stack' \in Seq(Frames) /\ Len(stack') = up
      /\ \A i \in 1 .. up : stack'[i] = IF i = up THEN Bump(stack[i], next_pgno) ELSE stack[i]
      /\ (up = 0 => stack' = <<>>) /\ (up # 0 => stack' # <<>>)
  <2>1. CASE up = 0
    <3>1. stack' = <<>>
      BY <1>1, <2>1, Zenon
    <3>2. <<>> \in Seq(Frames) /\ Len(<<>>) = 0 /\ 1 .. 0 = {}
      OBVIOUS
    <3> QED
      BY <2>1, <3>1, <3>2, Zenon
  <2>2. CASE up # 0
    <3>1. up \in Nat \ {0} /\ Len(stack) = up + 1
      BY <1>2, <2>2
    <3>2. stack' = SubSeq([stack EXCEPT ![up].refs[stack[up].ki].p = next_pgno, ![up].ki = @ + 1], 1, up)
      BY <1>1, <2>2, Zenon
    <3> HIDE DEF up
    <3>3. /\ stack' \in Seq(Frames) /\ stack' # <<>> /\ Len(stack') = up
          /\ Popped(stack', up, next_pgno)
      <4>1. next_pgno \in Nat
        BY <1>2, Zenon
      <4> QED
        BY <3>1, <3>2, <4>1, PopFine, Zenon
    <3> QED
      BY <2>2, <3>3, Zenon DEF Popped
  <2> QED
    BY <2>1, <2>2
<1>5. PagePut(Out, im, stack, stack')
  BY <1>1, <1>2, <1>4, ZenonT(60) DEF PagePut, Top
<1>6. Adds(Out, im, <<>>, Out')
  BY OutWalk, Zenon DEF Adds
<1>7. CopiesOf(im, <<>>, Len(Out)) /\ <<>> \in Seq(Images)
  <2>1. 1 .. Len(<<>>) = {}
    OBVIOUS
  <2> QED
    BY <1>2, <1>3, <2>1, Joins, Zenon DEF CopiesOf
<1> HIDE DEF im
<1>8. /\ Out' \in Seq(Images) /\ Len(Out') = Len(Out) + 1 + Len(<<>>) /\ Extended(Out, Out', im.from)
      /\ \A i \in Len(Out) + 1 .. Len(Out') : Out'[i] = im \/ \E j \in 1 .. Len(<<>>) : Out'[i] = <<>>[j]
      /\ Out'[Len(Out) + 1] = im
  <2>1. Out \in Seq(Images) /\ im \in Images
    BY <1>2, <1>3, Zenon
  <2>2. Longer(Out, im, <<>>, Out')
    BY <1>6, <1>7, <2>1, Grows, Zenon
  <2> QED
    BY <2>2, Zenon DEF Longer
<1>9. Len(Out') = Len(Out) + 1 /\ \A j \in 1 .. Len(<<>>) : FALSE
  BY <1>2, <1>8
<1>10. \A i \in Len(Out) + 1 .. Len(Out') : Out'[i] = im
  BY <1>8, <1>9, Zenon
<1>11. Puts(src, Out, Out', stack, stack', im.from)
  BY <1>2, <1>3, <1>4, <1>5, <1>8, <1>10, PutsPage, Zenon
<1>12. Walked(src, Out', stack')
  BY <1>2, <1>4, <1>8, <1>11, WalkedPut, Zenon
<1>13. Len(stack) = 1 <=> up = 0
  BY <1>2
<1>14. Len(stack) = 1 => Top.p = src.root
  BY <1>2, Zenon DEF Walked, Linked, Top
<1> QED
  BY <1>3, <1>4, <1>8, <1>9, <1>12, <1>13, <1>14, Zenon

\* WalkBig adds the copies of an overflow run.
LEMMA StepBig ==
    ASSUME TypeOK, StackOK, Control, Buffers, Result, Order, Progress, NoError, WalkBig
    PROVE  /\ Out' \in Seq(Images) /\ Extended(Out, Out', Here.p) /\ Len(Out') = next_pgno'
           /\ Walked(src, Out', stack') /\ stack' # <<>>
<1> DEFINE q == Here.p
           n == src.pages[q].n
           tail == [j \in 1..(n - 1) |-> Image(next_pgno + j, q, j, <<>>)]
           im == Image(next_pgno, q, 0, <<>>)
<1>1. /\ pc = "walk" /\ AtNode /\ Here.t = "big" /\ Top.ki <= Len(Top.refs)
      /\ stack' = SetTop(Stepped(next_pgno)) /\ next_pgno' = next_pgno + n
  BY Zenon DEF WalkBig, AtNode, Walking
<1>2. /\ src \in Sources /\ Out \in Seq(Images) /\ stack \in Seq(Frames) /\ Len(stack) \in Nat \ {0}
      /\ Len(stack) > 0 /\ stack # <<>>
      /\ Len(Out) = next_pgno /\ next_pgno \in Nat /\ Walked(src, Out, stack)
  BY <1>1, AtWalk, Zenon
<1>3. /\ n \in Nat \ {0} /\ im \in Images /\ tail \in Seq(Images) /\ Len(tail) = n - 1
      /\ \A j \in 1 .. (n - 1) : tail[j] = Image(next_pgno + j, q, j, <<>>)
  BY <1>1, Made, Zenon
<1>4. im.pgno = next_pgno /\ im.from = q /\ im.part = 0 /\ im.refs = <<>>
  BY Zenon DEF Image
<1>5. Adds(Out, im, tail, Out')
  BY OutWalk, Zenon DEF Adds
<1>6. \A j \in 1 .. Len(tail) : /\ tail[j].pgno = next_pgno + j /\ tail[j].from = q
                                /\ tail[j].part = j /\ tail[j].refs = <<>>
  BY <1>3, Zenon DEF Image
<1> HIDE DEF tail, im
<1>7. CopiesOf(im, tail, Len(Out))
  BY <1>2, <1>4, <1>6, Zenon DEF CopiesOf
<1>8. /\ Out' \in Seq(Images) /\ Len(Out') = Len(Out) + 1 + Len(tail) /\ Extended(Out, Out', im.from)
      /\ \A i \in Len(Out) + 1 .. Len(Out') : Out'[i] = im \/ \E j \in 1 .. Len(tail) : Out'[i] = tail[j]
  <2>1. Out \in Seq(Images) /\ im \in Images /\ tail \in Seq(Images)
    BY <1>2, <1>3, Zenon
  <2>2. Longer(Out, im, tail, Out')
    BY <1>5, <1>7, <2>1, Grows, Zenon
  <2> QED
    BY <2>2, Zenon DEF Longer
<1>9. Len(Out') = Len(Out) + n
  <2> HIDE DEF n
  <2>1. Len(Out') = Len(Out) + 1 + Len(tail) /\ n \in Nat /\ Len(tail) = n - 1 /\ Len(Out) \in Nat
    BY <1>2, <1>3, <1>8, Zenon
  <2> QED
    BY <2>1
<1>10. \A i \in Len(Out) + 1 .. Len(Out') : Out'[i].from = q /\ Out'[i].refs = <<>>
  <2> SUFFICES ASSUME NEW i \in Len(Out) + 1 .. Len(Out') PROVE Out'[i].from = q /\ Out'[i].refs = <<>>
    BY Zenon
  <2>1. Out'[i] = im \/ \E j \in 1 .. Len(tail) : Out'[i] = tail[j]
    BY <1>8, Zenon
  <2> QED
    BY <1>4, <1>6, <2>1, Zenon
<1>11. Fine(Top) /\ Top \in Frames
  BY <1>1, TopFine, Zenon DEF Fine
<1>12. Stepped(next_pgno) = Bump(Top, next_pgno)
  BY <1>11, Zenon DEF Stepped, Bump
<1>13. Fine(Stepped(next_pgno))
  BY <1>2, <1>11, <1>12, BumpFine, Zenon
<1>14. /\ stack' \in Seq(Frames) /\ stack' # <<>> /\ Len(stack') = Len(stack)
       /\ \A i \in 1 .. Len(stack) : stack'[i] = IF i = Len(stack) THEN Stepped(next_pgno) ELSE stack[i]
  BY <1>1, <1>2, <1>13, SetTopFine, Zenon
<1>15. /\ Top.ki \in 1 .. Len(src.pages[Top.p].refs) /\ src.pages[Top.p].refs[Top.ki] = Here
       /\ Top.p \in DOMAIN src.pages
  BY <1>1, <1>2, AtHere, Zenon
<1>16. q # P_INVALID /\ src.pages[q].refs = <<>>
  BY <1>1, <1>2, <1>15, SourceRef, ZenonT(60)
<1>17. Points(src, Top, q)
  BY <1>15, <1>16, Zenon DEF Points
<1>18. BigPut(src, Out, im, stack, stack', q)
  BY <1>2, <1>4, <1>12, <1>14, <1>17, Zenon DEF BigPut, Top
<1> HIDE DEF q, n
<1>19. Extended(Out, Out', q) /\ Len(Out') = Len(Out) + src.pages[q].n /\ src.pages[q].refs = <<>>
  BY <1>4, <1>8, <1>9, <1>16, Zenon DEF n
<1>20. Puts(src, Out, Out', stack, stack', q)
  BY <1>2, <1>3, <1>8, <1>10, <1>14, <1>18, <1>19, PutsBig, ZenonT(60)
<1>21. Walked(src, Out', stack')
  BY <1>2, <1>8, <1>14, <1>20, WalkedPut, Zenon
<1> QED
  BY <1>1, <1>2, <1>8, <1>9, <1>14, <1>19, <1>21, Zenon DEF q

\* The file is the beginning of the copy.
FileFirst ==
    /\ file \in Seq(Images) /\ Len(Out) \in Nat /\ Len(file) <= Len(Out)
    /\ \A i \in 1 .. Len(file) : Out[i] = file[i]

\* The writer writes the copy from its beginning.
LEMMA FileIsFirst == TypeOK /\ Control => FileFirst
BY Pieces, Zenon DEF FileFirst

\* Every step keeps the order of the pages.
LEMMA OrderNext ==
    ASSUME TypeOK, StackOK, Control, Buffers, Result, WrittenInOrder, Order, Progress, [Next]_vars
    PROVE  WrittenInOrder' /\ Order'
<1>1. TypeOK' /\ Control'
  BY TypeNext, ControlNext
<1>2. ASSUME NoError'
      PROVE  Numbered(Out', 0) /\ (Counted' => Len(Out') = next_pgno')
  <2>0. NoError
    BY <1>2, ErrorStays
  <2>1. Numbered(Out, 0) /\ (Counted => Len(Out) = next_pgno)
    BY <2>0, Zenon DEF Order, NoError
  <2>2. CASE mdb_txn_begin
    <3> DEFINE m == <<Image(0, 0, 0, <<>>), Image(1, 0, 0, <<Ref("main", new_root)>>)>>
    <3>1. Out' = m
      BY <2>2, OutBegin, Zenon
    <3>2. Len(m) = 2 /\ Numbered(m, 0)
      BY Metas, Zenon
    <3> HIDE DEF m
    <3>3. next_pgno' = 2
      BY <2>2, Zenon DEF mdb_txn_begin, Buffers
    <3> QED
      BY <3>1, <3>2, <3>3, Zenon
  <2>3. CASE WalkPage
    <3>1. pc = "walk" /\ next_pgno' = next_pgno + 1
      BY <2>3, Zenon DEF WalkPage, Walking
    <3>2. Out \in Seq(Images) /\ Len(Out) = next_pgno
      BY <2>0, <3>1, AtWalk, Zenon
    <3>3. Out' \in Seq(Images) /\ Extended(Out, Out', Top.p) /\ Len(Out') = Len(Out) + 1
      BY <2>0, <2>3, StepPage, Zenon
    <3>4. Numbered(Out', 0)
      BY <2>1, <3>2, <3>3, NumberedMore, Zenon
    <3> QED
      BY <3>1, <3>2, <3>3, <3>4, Zenon
  <2>4. CASE WalkBig
    <3>1. pc = "walk"
      BY <2>4, Zenon DEF WalkBig, AtNode, Walking
    <3>2. Out \in Seq(Images)
      BY <2>0, <3>1, AtWalk, Zenon
    <3>3. Out' \in Seq(Images) /\ Extended(Out, Out', Here.p) /\ Len(Out') = next_pgno'
      BY <2>0, <2>4, StepBig, Zenon
    <3>4. Numbered(Out', 0)
      BY <2>1, <3>2, <3>3, NumberedMore, Zenon
    <3> QED
      BY <3>3, <3>4, Zenon
  <2>5. CASE ~mdb_txn_begin /\ ~WalkPage /\ ~WalkBig
    <3>1. Out' = Out /\ UNCHANGED next_pgno
      BY <2>0, <2>5, OutKept, Zenon
    <3>2. Counted' => Counted
      BY <2>0, <2>5, CountedStays, Zenon
    <3> QED
      BY <2>1, <3>1, <3>2, Zenon
  <2> QED
    BY <2>2, <2>3, <2>4, <2>5, Zenon
<1>3. Order'
  BY <1>2, Zenon DEF Order, NoError
<1>4. WrittenInOrder'
  <2>1. CASE Write
    <3>1. NoError'
      BY <2>1, Zenon DEF Write, NoError
    <3>2. Numbered(Out', 0)
      BY <1>2, <3>1
    <3>3. /\ file' \in Seq(Images) /\ Len(Out') \in Nat /\ Len(file') <= Len(Out')
          /\ \A i \in 1 .. Len(file') : Out'[i] = file'[i]
      <4>1. FileFirst'
        BY <1>1, FileIsFirst, PTL
      <4> QED
        BY <4>1, Zenon DEF FileFirst
    <3>4. Len(file') \in Nat
      BY <3>3, LenProperties
    <3>5. \A i \in 1 .. Len(file') : i \in 1 .. Len(Out') /\ 0 + i - 1 = i - 1
      BY <3>3, <3>4
    <3> QED
      BY <3>2, <3>3, <3>5, Zenon DEF Numbered, WrittenInOrder
  <2>2. CASE ~Write
    <3>1. UNCHANGED file
      BY <2>2, ZenonT(60) DEF Next, mdb_env_cwalk, mdb_env_cthr_toggle, mdb_env_copyfd1, mdb_env_copythr, vars,
         mdb_txn_begin, BeginFails, WalkFails, WalkDown, WalkNode, WalkBig, WalkPage, WalkFull, Finish,
         HandOver, AwaitBuffer, Toggled, Join, WriterStarts, SigmaskFails, NextBuffer, WriterWakes,
         WriteFails, BufferWritten
    <3> QED
      BY <3>1, Zenon DEF WrittenInOrder
  <2> QED
    BY <2>1, <2>2
<1> QED
  BY <1>3, <1>4

\* The walk goes on from a page.
LEMMA GoesOn ==
    ASSUME UNCHANGED src, Walked(src, Out', stack'), Out'[2].refs = <<Ref("main", new_root)>>,
           src.root # P_INVALID, stack' # <<>>, Resumes'
    PROVE  Progress'
BY Zenon DEF Progress, new_root

\* While nothing fails, the walk is taken up again after each hand-over.
LEMMA ResumesStays ==
    ASSUME Control, NoError, [Next]_vars, Counted', Resumes, ~WalkPage
    PROVE  Resumes'
<1>1. pc' # "begin" /\ rc' = ""
  BY Zenon DEF Counted
<1>2. CASE UNCHANGED <<pc, adjust>>
  BY <1>2, Zenon DEF Resumes
<1>3. CASE ~UNCHANGED <<pc, adjust>>
  <2>1. pc = "walk" \/ (pc \in {"toggle", "await", "toggled"} /\ adjust = 1)
    BY Zenon DEF Resumes
  <2>2. pc \notin {"begin", "finish", "join"}
    BY <2>1
  <2>3. ~mdb_txn_begin /\ ~BeginFails /\ ~Finish /\ ~Join
    BY <2>2, Zenon DEF mdb_txn_begin, BeginFails, Finish, Join
  <2>4. ~WalkFails
    BY <1>1, Zenon DEF WalkFails
  <2>5. WalkDown \/ WalkNode \/ WalkBig \/ WalkFull \/ HandOver \/ AwaitBuffer \/ Toggled
    BY <1>3, <2>3, <2>4, ZenonT(60) DEF Next, mdb_env_cwalk, mdb_env_cthr_toggle, mdb_env_copyfd1,
       mdb_env_copythr, vars, walker, WriterStarts, SigmaskFails, NextBuffer, WriterWakes, Write,
       WriteFails, BufferWritten
  <2>6. CASE WalkDown \/ WalkNode \/ WalkBig \/ WalkFull
    <3>1. pc' = pc \/ (pc' = "toggle" /\ adjust' = 1)
      <4>1. WalkBig => (pc' = pc \/ pc' = "toggle") /\ adjust' = 1
        BY Zenon DEF WalkBig
      <4>2. WalkFull => pc' = "toggle" /\ adjust' = 1
        BY Zenon DEF WalkFull
      <4>3. WalkDown \/ WalkNode => pc' = pc
        BY Zenon DEF WalkDown, WalkNode
      <4> QED
        BY <2>6, <4>1, <4>2, <4>3, Zenon
    <3>2. pc = "walk"
      BY <2>6, Zenon DEF WalkDown, WalkNode, WalkBig, WalkFull, AtNode, Walking
    <3> QED
      BY <3>1, <3>2, Zenon DEF Resumes
  <2>7. CASE HandOver \/ AwaitBuffer
    <3>1. pc \in {"toggle", "await"} /\ pc' \in {"await", "toggled"} /\ adjust' = adjust
      BY <2>7, Zenon DEF HandOver, AwaitBuffer
    <3>2. adjust = 1
      BY <2>1, <3>1
    <3> QED
      BY <3>1, <3>2, Zenon DEF Resumes
  <2>8. CASE Toggled
    <3>1. pc = "toggled"
      BY <2>8, Zenon DEF Toggled
    <3>2. adjust = 1
      BY <2>1, <3>1
    <3>3. ~(adjust >= MDB_EOF)
      BY <3>2 DEF MDB_EOF
    <3>4. pc' = "walk"
      BY <2>8, <3>3, Zenon DEF Toggled, NoError
    <3> QED
      BY <3>4, Zenon DEF Resumes
  <2> QED
    BY <2>5, <2>6, <2>7, <2>8, Zenon
<1> QED
  BY <1>2, <1>3

\* Every step keeps the walk's progress.
LEMMA ProgressNext ==
    ASSUME TypeOK, StackOK, Control, Buffers, Result, Order, Progress, [Next]_vars
    PROVE  Progress'
<1> SUFFICES ASSUME NoError', Counted' PROVE Progress'
  BY Zenon DEF Progress, NoError
<1>0. NoError
  BY ErrorStays, Zenon
<1>1. CASE mdb_txn_begin
  <2> DEFINE m == <<Image(0, 0, 0, <<>>), Image(1, 0, 0, <<Ref("main", new_root)>>)>>
  <2>1. Out' = m
    BY <1>1, OutBegin, Zenon
  <2>2. Len(m) = 2 /\ m[2].refs = <<Ref("main", new_root)>>
    BY Metas, Zenon
  <2> HIDE DEF m
  <2>3. /\ UNCHANGED src /\ root = src.root
        /\ stack' = IF root = P_INVALID THEN <<>> ELSE <<Frame(root, TRUE)>>
        /\ pc' = IF root = P_INVALID THEN "finish" ELSE "walk"
    BY <1>1, Zenon DEF mdb_txn_begin, StackOK
  <2>4. src \in Sources /\ Walked(src, m, <<>>)
    <3>1. src \in Sources
      BY Zenon DEF TypeOK
    <3> QED
      BY <2>2, <3>1, WalkedStart, Zenon
  <2>5. CASE root = P_INVALID
    BY <2>1, <2>2, <2>3, <2>4, <2>5, Zenon DEF Progress, new_root
  <2>6. CASE root # P_INVALID
    <3> DEFINE f == Frame(root, TRUE)
    <3>1. root \in DOMAIN src.pages
      BY <2>3, <2>4, <2>6, SourcesAssumption, Zenon
    <3>2. Fine(f) /\ f.p = src.root /\ f.refs = src.pages[f.p].refs /\ f.ki = 1
      BY <2>3, <3>1, FrameFine, Zenon DEF Frame
    <3>3. stack' = <<f>> /\ pc' = "walk"
      BY <2>3, <2>6, Zenon
    <3> HIDE DEF f
    <3>4. f \in Frames /\ f.p \in DOMAIN src.pages
      BY <2>3, <3>1, <3>2, Zenon DEF Fine
    <3>5. Walked(src, m, <<f>>)
      BY <2>2, <2>4, <3>2, <3>4, WalkedStart, Zenon
    <3>6. <<f>> # <<>>
      OBVIOUS
    <3> QED
      BY <2>1, <2>2, <2>3, <2>6, <3>3, <3>5, <3>6, GoesOn, Zenon DEF Resumes
  <2> QED
    BY <2>5, <2>6
<1>2. CASE WalkPage
  <2>1. /\ pc = "walk" /\ UNCHANGED src
        /\ pc' = IF Len(stack) - 1 = 0 THEN "finish" ELSE pc
        /\ rc' = IF Len(stack) - 1 = 0 /\ next_pgno # new_root THEN "INCOMPATIBLE" ELSE rc
    BY <1>2, Zenon DEF WalkPage, Walking
  <2>2. /\ Out \in Seq(Images) /\ Len(stack) \in Nat \ {0} /\ Len(Out) = next_pgno /\ next_pgno \in Nat
        /\ Len(Out) >= 2 /\ Out[2].refs = <<Ref("main", new_root)>> /\ src.root # P_INVALID
    BY <1>0, <2>1, AtWalk, Zenon
  <2>3. /\ Extended(Out, Out', Top.p) /\ Len(Out') = Len(Out) + 1
        /\ Out'[Len(Out) + 1].from = Top.p /\ Out'[Len(Out) + 1].part = 0
        /\ Walked(src, Out', stack')
        /\ Len(stack) = 1 => stack' = <<>> /\ Top.p = src.root
        /\ Len(stack) # 1 => stack' # <<>>
    BY <1>0, <1>2, StepPage, Zenon
  <2>4. 2 \in 1 .. Len(Out)
    BY <2>2
  <2>5. Out'[2].refs = <<Ref("main", new_root)>>
    BY <2>2, <2>3, <2>4, Zenon DEF Extended
  <2>6. CASE Len(stack) = 1
    <3>1. Len(stack) - 1 = 0
      BY <2>6
    <3>2. next_pgno = new_root
      BY <2>1, <3>1, Zenon DEF Counted
    <3>3. Len(Out') >= 3 /\ Len(Out') - 1 = next_pgno /\ Len(Out') = Len(Out) + 1
      BY <2>2, <2>3, SMTT(30)
    <3>4. new_root = Len(Out') - 1 /\ Out'[Len(Out')].from = src.root /\ Out'[Len(Out')].part = 0
      BY <2>3, <2>6, <3>2, <3>3, Zenon
    <3>5. stack' = <<>> /\ Walked(src, Out', stack')
      BY <2>3, <2>6, Zenon
    <3>6. src' = src /\ new_root' = new_root
      BY <2>1, Zenon DEF new_root
    <3> QED
      BY <2>2, <2>5, <3>3, <3>4, <3>5, <3>6, Zenon DEF Progress
  <2>7. CASE Len(stack) # 1
    <3>1. Len(stack) - 1 # 0
      BY <2>2, <2>7
    <3>2. pc' = "walk"
      BY <2>1, <3>1, Zenon
    <3> QED
      BY <2>1, <2>2, <2>3, <2>5, <2>7, <3>2, GoesOn, Zenon DEF Resumes
  <2> QED
    BY <2>6, <2>7
<1>3. CASE WalkBig
  <2>1. pc = "walk" /\ UNCHANGED src
    BY <1>3, Zenon DEF WalkBig, AtNode, Walking
  <2>2. /\ Out \in Seq(Images) /\ Len(Out) = next_pgno /\ next_pgno \in Nat
        /\ Len(Out) >= 2 /\ Out[2].refs = <<Ref("main", new_root)>> /\ src.root # P_INVALID
    BY <1>0, <2>1, AtWalk, Zenon
  <2>3. Extended(Out, Out', Here.p) /\ Walked(src, Out', stack') /\ stack' # <<>>
    BY <1>0, <1>3, StepBig, Zenon
  <2>4. 2 \in 1 .. Len(Out)
    BY <2>2
  <2>5. Out'[2].refs = <<Ref("main", new_root)>>
    BY <2>2, <2>3, <2>4, Zenon DEF Extended
  <2>6. ~WalkPage
    <3>1. Top.ki <= Len(Top.refs) /\ Top.ki \in Nat /\ Len(Top.refs) \in Nat
      <4>1. Top \in Frames
        BY <2>1, TopFine, Zenon DEF Fine
      <4>2. Top.ki \in Nat /\ Len(Top.refs) \in Nat
        BY <4>1 DEF Frames
      <4> QED
        BY <1>3, <4>2, Zenon DEF WalkBig, AtNode
    <3>2. ~(Top.ki > Len(Top.refs))
      BY <3>1
    <3> QED
      BY <3>2, Zenon DEF WalkPage
  <2>7. Resumes'
    BY <1>0, <2>1, <2>6, ResumesStays, Zenon DEF Resumes
  <2> QED
    BY <2>1, <2>2, <2>3, <2>5, <2>7, GoesOn, Zenon
<1>4. CASE WalkDown
  <2>1. /\ pc = "walk" /\ UNCHANGED <<src, pc>> /\ Top.ki <= Len(Top.refs)
        /\ Here.t \in {"child", "sub"} /\ Here.p # P_INVALID
        /\ stack' = Append(stack, Frame(Here.p, Here.t = "sub"))
    BY <1>4, Zenon DEF WalkDown, AtNode, Walking
  <2>2. /\ src \in Sources /\ Out \in Seq(Images) /\ stack \in Seq(Frames) /\ Len(stack) > 0
        /\ Walked(src, Out, stack) /\ Out[2].refs = <<Ref("main", new_root)>> /\ src.root # P_INVALID
    BY <1>0, <2>1, AtWalk, Zenon
  <2>3. ~WalkPage /\ ~WalkBig /\ ~mdb_txn_begin
    <3>1. Here.t # "big" /\ pc # "begin"
      BY <2>1
    <3>2. Top.ki \in Nat /\ Len(Top.refs) \in Nat
      <4>1. Top \in Frames
        BY <2>1, TopFine, Zenon DEF Fine
      <4> QED
        BY <4>1 DEF Frames
    <3>3. ~(Top.ki > Len(Top.refs))
      BY <2>1, <3>2
    <3> QED
      BY <3>1, <3>3, Zenon DEF WalkPage, WalkBig, mdb_txn_begin
  <2>4. Out' = Out
    BY <1>0, <2>3, OutKept, Zenon
  <2> DEFINE f == Frame(Here.p, Here.t = "sub")
  <2>5. /\ Top.ki \in 1 .. Len(src.pages[Top.p].refs) /\ src.pages[Top.p].refs[Top.ki] = Here
        /\ Top.p \in DOMAIN src.pages
    BY <2>1, <2>2, AtHere, Zenon
  <2>6. f.p = Here.p /\ f.refs = src.pages[f.p].refs /\ f.ki = 1
    BY Zenon DEF Frame
  <2>7. f \in Frames
    <3>1. Here.p \in DOMAIN src.pages
      BY <2>1, TopFine, Zenon DEF Sound
    <3>2. (Here.t = "sub") \in BOOLEAN
      BY Zenon
    <3> QED
      BY <3>1, <3>2, FrameFine, Zenon DEF Fine
  <2>8. stack' = Append(stack, f)
    BY <2>1, Zenon
  <2> HIDE DEF f
  <2>9. Points(src, Top, f.p) /\ src.pages[Top.p].refs[Top.ki].t # "big"
    <3>1. Here.t # "big"
      BY <2>1
    <3> QED
      BY <2>1, <2>5, <2>6, <3>1, Zenon DEF Points
  <2>10. Walked(src, Out, Append(stack, f))
    BY <2>2, <2>6, <2>7, <2>9, WalkedDown, Zenon DEF Top
  <2>11. Append(stack, f) # <<>>
    BY <2>2, <2>7, AppendProperties, SMTT(30)
  <2> QED
    BY <2>1, <2>2, <2>4, <2>8, <2>10, <2>11, GoesOn, Zenon DEF Resumes
<1>5. CASE WalkNode
  <2> DEFINE f == [Top EXCEPT !.ki = @ + 1]
  <2>1. /\ pc = "walk" /\ UNCHANGED <<src, pc>> /\ Top.ki <= Len(Top.refs)
        /\ Here.p = P_INVALID /\ stack' = SetTop(f)
    BY <1>5, Zenon DEF WalkNode, AtNode, Walking
  <2>2. /\ src \in Sources /\ Out \in Seq(Images) /\ stack \in Seq(Frames) /\ Len(stack) > 0 /\ stack # <<>>
        /\ Len(stack) \in Nat \ {0}
        /\ Walked(src, Out, stack) /\ Out[2].refs = <<Ref("main", new_root)>> /\ src.root # P_INVALID
    BY <1>0, <2>1, AtWalk, Zenon
  <2>20. Fine(Top) /\ Top \in Frames /\ Sound(Here)
    BY <2>1, TopFine, Zenon DEF Fine
  <2>21. Top.ki \in Nat /\ Len(Top.refs) \in Nat
    BY <2>20 DEF Frames
  <2>3. ~WalkPage /\ ~WalkBig /\ ~mdb_txn_begin
    <3>1. Here.t # "big"
      BY <2>1, <2>20, Zenon DEF Sound
    <3>2. pc # "begin"
      BY <2>1
    <3>3. ~(Top.ki > Len(Top.refs))
      BY <2>1, <2>21
    <3> QED
      BY <3>1, <3>2, <3>3, Zenon DEF WalkPage, WalkBig, mdb_txn_begin
  <2>4. Out' = Out
    BY <1>0, <2>3, OutKept, Zenon
  <2>5. Fine(f) /\ f.p = Top.p /\ f.refs = Top.refs /\ f.ki = Top.ki + 1
    <3>1. Fine(f)
      BY <2>20, BumpFine, Zenon
    <3>2. f.p = Top.p /\ f.refs = Top.refs /\ f.ki = Top.ki + 1
      BY <2>20, Zenon DEF Frames
    <3> QED
      BY <3>1, <3>2
  <2> HIDE DEF f
  <2>6. /\ stack' \in Seq(Frames) /\ stack' # <<>> /\ Len(stack') = Len(stack)
        /\ \A i \in 1 .. Len(stack) : stack'[i] = IF i = Len(stack) THEN f ELSE stack[i]
    BY <2>1, <2>2, <2>5, SetTopFine, Zenon
  <2> DEFINE m == Len(stack)
  <2>7. m \in 1 .. m /\ m = Len(stack)
    BY <2>2
  <2>8. /\ Top = stack[m] /\ stack'[m] = f /\ (\A i \in 1 .. m : i # m => stack'[i] = stack[i])
        /\ stack[m].refs[stack[m].ki].p = P_INVALID
    BY <2>1, <2>6, <2>7, Zenon DEF Top, Here
  <2>9. /\ stack'[m].p = stack[m].p /\ stack'[m].refs = stack[m].refs /\ stack'[m].ki = stack[m].ki + 1
        /\ stack[m].ki <= Len(stack[m].refs)
    BY <2>1, <2>5, <2>8, Zenon
  <2>10. m > 0 /\ Len(stack') = m
    BY <2>2, <2>6, Zenon
  <2> HIDE DEF m
  <2>11. Walked(src, Out, stack')
    BY <2>2, <2>6, <2>7, <2>8, <2>9, <2>10, WalkedNode, Zenon
  <2> QED
    BY <2>1, <2>2, <2>4, <2>6, <2>11, GoesOn, Zenon DEF Resumes
<1>6. CASE ~mdb_txn_begin /\ ~WalkPage /\ ~WalkBig /\ ~WalkDown /\ ~WalkNode
  <2>1. Out' = Out /\ UNCHANGED src
    BY <1>0, <1>6, OutKept, Zenon
  <2>2. UNCHANGED stack
    BY <1>6, Zenon DEF Next, mdb_env_cwalk, mdb_env_cthr_toggle, mdb_env_copyfd1, mdb_env_copythr, vars,
       walker, BeginFails, WalkFails, WalkFull, Finish, HandOver, AwaitBuffer, Toggled, Join, WriterStarts,
       SigmaskFails, NextBuffer, WriterWakes, Write, WriteFails, BufferWritten
  <2>3. Counted
    BY <1>0, <1>6, CountedStays, Zenon
  <2>4. Resumes => Resumes'
    BY <1>0, <1>6, ResumesStays, Zenon
  <2> QED
    BY <1>0, <2>1, <2>2, <2>3, <2>4, Zenon DEF Progress, NoError, new_root
<1> QED
  BY <1>1, <1>2, <1>3, <1>4, <1>5, <1>6, Zenon

\* Nothing changes the result any more.
LEMMA EndedNext ==
    ASSUME TypeOK, Control, Ended, [Next]_vars
    PROVE  Ended'
<1>1. CASE mdb_env_cwalk \/ mdb_env_cthr_toggle \/ mdb_txn_begin \/ BeginFails \/ Finish
  <2>1. pc' \in PCs \ {"done"}
    <3>1. pc # "done"
      BY Zenon, <1>1 DEF mdb_env_cwalk, WalkFails, WalkDown, WalkNode, WalkBig, WalkPage, WalkFull, AtNode, Walking,
         mdb_env_cthr_toggle, HandOver, AwaitBuffer, Toggled, mdb_txn_begin, BeginFails, Finish
    <3>2. pc' \in {pc, "walk", "finish", "toggle", "await", "toggled", "join"}
      BY <1>1, Zenon DEF mdb_env_cwalk, WalkFails, WalkDown, WalkNode, WalkBig, WalkPage, WalkFull,
         mdb_env_cthr_toggle, HandOver, AwaitBuffer, Toggled, mdb_txn_begin, BeginFails, Finish
    <3> QED
      BY <3>1, <3>2 DEF Control, PCs
  <2> QED
    BY <2>1 DEF Ended
<1>2. CASE Join
  BY <1>2, Zenon DEF Join, Ended, writer
<1>3. CASE mdb_env_copythr
  <2>1. wpc # "exited" /\ UNCHANGED pc
    BY Zenon, <1>3 DEF mdb_env_copythr, WriterStarts, SigmaskFails, NextBuffer, WriterWakes, Write, WriteFails,
       BufferWritten, walker
  <2> QED
    BY <2>1, Zenon DEF Ended
<1>4. CASE UNCHANGED vars
  BY <1>4, Zenon DEF vars, walker, writer, Ended
<1> QED
  BY <1>1, <1>2, <1>3, <1>4, Zenon DEF Next, mdb_env_copyfd1

(***************************************************************************)
(* The invariant holds, and what follows from it.                          *)
(***************************************************************************)

\* The invariant holds when mdb_env_copyfd1 has started the writer.
LEMMA InitInv == Init => IInv
<1> SUFFICES ASSUME Init PROVE IInv
  OBVIOUS
<1>1. /\ src \in Sources /\ wbuf = [b \in 0..1 |-> <<>>] /\ over = [b \in 0..1 |-> <<>>]
      /\ next_pgno = 2 /\ toggle = 0 /\ new = 0 /\ error = "" /\ waiting = {}
      /\ pc = "begin" /\ stack = <<>> /\ root = src.root /\ rc = "" /\ adjust = 0
      /\ wpc = "start" /\ wtoggle = 0 /\ todo = <<>> /\ file = <<>>
  BY Zenon DEF Init, NUM_METAS
<1>2. <<>> \in Seq(Images) /\ <<>> \in Seq(Frames) /\ Len(<<>>) = 0 /\ 2 \in Nat
  OBVIOUS
<1>3. TypeOK
  <2>1. \A f : f = [b \in 0..1 |-> <<>>] => f \in [0..1 -> Seq(Images)]
    OBVIOUS
  <2> QED
    BY <1>1, <1>2, <2>1, Zenon DEF TypeOK
<1>4. StackOK
  <2>1. ~Resumes
    BY Zenon, <1>1 DEF Resumes
  <2>2. \A i \in 1 .. Len(stack) : Fine(stack[i])
    <3>1. 1 .. 0 = {}
      OBVIOUS
    <3> QED
      BY <1>1, <1>2, <3>1, Zenon
  <2> QED
    BY <1>1, <1>2, <2>1, <2>2, Zenon DEF StackOK
<1>5. Control
  <2>1. toggle = 0 /\ wtoggle = 0 /\ new = 0 /\ pc = "begin" /\ adjust = 0 /\ wpc = "start"
    BY <1>1, Zenon
  <2>2. Use = 0
    BY <2>1 DEF Use
  <2> QED
    BY <2>1, <2>2 DEF Control, PCs, WPCs
<1>6. 0 \in 0..1 /\ 1 - 0 \in 0..1
  OBVIOUS
<1>7. \A b \in 0..1 : wbuf[b] = <<>> /\ over[b] = <<>>
  BY <1>1, Zenon
<1>8. Buffers /\ Waits
  BY <1>1, <1>6, <1>7, Zenon DEF Buffers, Waits
<1>9. Result /\ Ended
  BY Zenon, <1>1 DEF Result, Ended
<1>10. /\ cur = <<>> /\ over[wtoggle] = <<>> /\ wbuf[1 - wtoggle] = <<>> /\ over[1 - wtoggle] = <<>>
       /\ ~Counted
  <2>1. wpc # "write"
    BY Zenon, <1>1
  <2> QED
    BY <1>1, <1>6, <1>7, <2>1, Zenon DEF cur, Counted
<1>11. WrittenInOrder /\ Order
  <2>1. WrittenInOrder
    <3>1. 1 .. 0 = {}
      OBVIOUS
    <3> QED
      BY <1>1, <1>2, <3>1, Zenon DEF WrittenInOrder
  <2>2. Out = <<>>
    <3>1. Out = (((<<>> \o <<>>) \o <<>>) \o <<>>) \o <<>>
      BY <1>1, <1>10, Zenon DEF Out
    <3> QED
      BY <3>1, Joins, Zenon
  <2>3. Numbered(<<>>, 0)
    BY DEF Numbered
  <2> QED
    BY <1>10, <2>1, <2>2, <2>3, Zenon DEF Order
<1>12. Progress
  BY <1>10, Zenon DEF Progress
<1> QED
  BY <1>3, <1>4, <1>5, <1>8, <1>9, <1>11, <1>12, Zenon DEF IInv

\* Every step of both threads keeps the invariant.
LEMMA NextInv == IInv /\ [Next]_vars => IInv'
  BY TypeNext, StackNext, ControlNext, BuffersNext, WaitsNext, ResultNext, EndedNext, OrderNext,
     ProgressNext, Zenon DEF IInv

\* The invariant holds in every state of a copy.
THEOREM Invariance == Spec => []IInv
  BY InitInv, NextInv, PTL DEF Spec

\* The walker never fills a buffer that the writer has still to write, or a
\* tail of an overflow run, for every snapshot and size of the buffers
\* (mdb_env_cthr_toggle, mdb_env_copythr).
THEOREM BuffersAreApart == Spec => []BuffersApart
<1>1. IInv => BuffersApart
  <2> SUFFICES ASSUME IInv, Filling PROVE InUse \in 0..1 /\ (toggle = wtoggle <=> InUse = 0) /\ over[toggle] = <<>>
    BY DEF BuffersApart
  <2>1. new < 16 /\ new \in Nat /\ Use = new
    BY DEF IInv, Control, Filling, Use
  <2>2. InUse = Use
    BY <2>1 DEF InUse, MDB_EOF
  <2>3. Use \in 0..1 /\ (toggle = wtoggle <=> Use = 0)
    BY DEF IInv, Control, Filling
  <2> QED
    BY <2>2, <2>3 DEF IInv, Buffers
<1> QED
  BY <1>1, Invariance, PTL

\* What is in the file is a prefix of the copy at all times: page i of the
\* file is the page the walker numbered i, whatever write() splits or
\* fails (mdb_env_copythr).
THEOREM PagesAreInOrder == Spec => []WrittenInOrder
<1>1. IInv => WrittenInOrder
  BY DEF IInv
<1> QED
  BY <1>1, Invariance, PTL

\* When the walker ends, nothing is left to write.
LEMMA NothingLeft ==
    ASSUME IInv, pc = "done"
    PROVE  Out = file /\ wpc = "exited"
<1>1. Control /\ Ended /\ Buffers /\ TypeOK
  BY DEF IInv
<1>2. wpc = "exited"
  BY <1>1, Zenon DEF Ended
<1>3. new = 16 /\ wtoggle \in 0..1 /\ 1 - wtoggle \in 0..1
  BY <1>1, <1>2 DEF Control
<1>4. Use = 0
  BY <1>3 DEF Use
<1>5. \A b \in 0..1 : ~Held(b)
  BY <1>4 DEF Held
<1>6. cur = <<>> /\ over[wtoggle] = <<>> /\ wbuf[1 - wtoggle] = <<>> /\ over[1 - wtoggle] = <<>>
  <2>1. wpc # "write"
    BY <1>2
  <2> QED
    BY <1>1, <1>3, <1>5, <2>1, Zenon DEF Buffers, cur
<1>7. file \in Seq(Images)
  BY <1>1, Zenon DEF TypeOK
<1>8. Out = (((file \o <<>>) \o <<>>) \o <<>>) \o <<>>
  BY <1>6, Zenon DEF Out
<1> QED
  BY <1>2, <1>7, <1>8, Joins, Zenon

\* A copy that reports success has written every page the walker numbered,
\* the tails of the overflow runs included (mdb_env_copyfd1).
Complete == pc = "done" /\ rc = "" => Len(file) = next_pgno
THEOREM CopyIsComplete == Spec => []Complete
<1>1. IInv => Complete
  <2> SUFFICES ASSUME IInv, pc = "done", rc = "" PROVE Len(file) = next_pgno
    BY Zenon DEF Complete
  <2>1. error = "" /\ Counted
    BY Zenon DEF IInv, Ended, Counted
  <2>2. next_pgno = Len(Out)
    BY <2>1, Zenon DEF IInv, Order
  <2> QED
    BY <2>2, NothingLeft, Zenon
<1> QED
  BY <1>1, Invariance, PTL

\* A copy that reports success is one: for every snapshot whose pages form
\* trees, the metapage refers to the copy of the main root, every page to the
\* copies of what the original refers to, overflow runs are contiguous, and
\* no page is there twice (mdb_env_cwalk, mdb_env_copyfd1).
THEOREM CopyIsFaithful == Spec => []CopyFaithful
<1>1. IInv => CopyFaithful
  <2> SUFFICES ASSUME IInv PROVE CopyFaithful
    OBVIOUS
  <2>0. WrittenInOrder
    BY Zenon DEF IInv
  <2>1. CASE ~(pc = "done" /\ rc = "")
    BY <2>0, <2>1, Zenon DEF CopyFaithful
  <2>2. CASE pc = "done" /\ rc = ""
    <3>1. error = "" /\ Counted /\ ~Resumes
      BY <2>2, Zenon DEF IInv, Ended, Counted, Resumes
    <3>2. Out = file /\ file \in Seq(Images) /\ Len(file) \in Nat
      <4>1. Out = file
        BY <2>2, NothingLeft, Zenon
      <4>2. file \in Seq(Images)
        BY Zenon DEF IInv, TypeOK
      <4> QED
        BY <4>1, <4>2, LenProperties, Zenon
    <3>3. Len(file) = next_pgno
      BY <3>1, <3>2, Zenon DEF IInv, Order
    <3>4. /\ Walked(src, file, stack) /\ stack = <<>>
          /\ file[2].refs = <<Ref("main", new_root)>>
          /\ src.root # P_INVALID => /\ new_root = Len(file) - 1 /\ Len(file) >= 3
                                     /\ file[Len(file)].from = src.root /\ file[Len(file)].part = 0
      BY <3>1, <3>2, Zenon DEF IInv, Progress
    <3>5. At(1).refs[1].p = IF src.root = P_INVALID THEN P_INVALID ELSE Len(file) - 1
      <4>1. At(1).refs[1].p = new_root
        <5>1. At(1) = file[2]
          BY DEF At
        <5>2. \A x : <<x>>[1] = x
          OBVIOUS
        <5>3. Ref("main", new_root).p = new_root
          BY Zenon DEF Ref
        <5>4. file[2].refs[1] = Ref("main", new_root)
          BY <3>4, <5>2, Zenon
        <5> QED
          BY <5>1, <5>3, <5>4, Zenon
      <4> QED
        BY <3>4, <4>1, Zenon DEF new_root
    <3>6. src.root # P_INVALID => CopyOf(Len(file) - 1, src.root)
      <4> SUFFICES ASSUME src.root # P_INVALID PROVE CopyOf(Len(file) - 1, src.root)
        OBVIOUS
      <4>1. Len(file) - 1 \in NUM_METAS..(Len(file) - 1) /\ (Len(file) - 1) + 1 = Len(file)
        BY <3>2, <3>4 DEF NUM_METAS
      <4> QED
        BY <3>4, <4>1, Zenon DEF CopyOf, At
    <3>7. \A i \in NUM_METAS..(Len(file) - 1) : i + 1 \in 3 .. Len(file) /\ At(i) = file[i + 1]
      BY <3>2 DEF NUM_METAS, At
    <3>8. ASSUME NEW i \in NUM_METAS..(Len(file) - 1), NEW j \in NUM_METAS..(Len(file) - 1),
                 <<At(i).from, At(i).part>> = <<At(j).from, At(j).part>>
          PROVE  i = j
      <4>1. At(i).from = At(j).from /\ At(i).part = At(j).part
        BY <3>8
      <4>2. i + 1 = j + 1
        BY <3>4, <3>7, <4>1, Zenon DEF Walked, Once
      <4>3. i \in Int /\ j \in Int
        BY <3>2 DEF NUM_METAS
      <4> QED
        BY <4>2, <4>3
    <3>9. ASSUME NEW i \in NUM_METAS..(Len(file) - 1)
          PROVE  LET old == src.pages[At(i).from]
                 IN /\ At(i).part = 0 => Len(At(i).refs) = Len(old.refs)
                    /\ \A k \in 1..Len(At(i).refs) :
                          LET r == At(i).refs[k]
                              o == old.refs[k]
                          IN /\ r.t = o.t
                             /\ IF o.p = P_INVALID THEN r.p = P_INVALID ELSE CopyOf(r.p, o.p)
                             /\ o.t = "big" => \A j \in 1..(src.pages[o.p].n - 1) :
                                   At(r.p + j).from = o.p /\ At(r.p + j).part = j
      <4> DEFINE im == At(i)
                 old == src.pages[im.from]
      <4>1. PageOK(src, file, im)
        BY <3>4, <3>7, Zenon DEF Walked
      <4> HIDE DEF im
      <4>2. im.part = 0 => Len(im.refs) = Len(old.refs)
        BY <4>1, Zenon DEF PageOK
      <4>3. ASSUME NEW r, NEW o, Renumbered(src, file, r, o)
            PROVE  /\ r.t = o.t
                   /\ IF o.p = P_INVALID THEN r.p = P_INVALID ELSE CopyOf(r.p, o.p)
                   /\ o.t = "big" => \A j \in 1..(src.pages[o.p].n - 1) :
                         At(r.p + j).from = o.p /\ At(r.p + j).part = j
        BY <4>3, Zenon DEF Renumbered, CopyOf, At, NUM_METAS
      <4>4. \A k \in 1..Len(im.refs) : Renumbered(src, file, im.refs[k], old.refs[k])
        BY <4>1, Zenon DEF PageOK
      <4> QED
        BY <4>2, <4>3, <4>4, Zenon DEF im
    <3> QED
      BY <2>0, <3>3, <3>5, <3>6, <3>8, <3>9, Zenon DEF CopyFaithful
  <2> QED
    BY <2>1, <2>2, Zenon
<1> QED
  BY <1>1, Invariance, PTL

\* The two threads, which share one condition variable and signal it without
\* broadcasting, never both wait; the walker does not wait for a writer that
\* has ended, nor the writer for a walker that will hand over no more
\* buffers (mdb_env_cthr_toggle, mdb_env_copythr).
SomeoneRuns ==
    /\ waiting # {"walker", "writer"}
    /\ "walker" \in waiting => wpc # "exited"
    /\ "writer" \in waiting => pc \notin {"join", "done"}
THEOREM NeverBothWait == Spec => []SomeoneRuns
<1>1. IInv => SomeoneRuns
  <2> SUFFICES ASSUME IInv PROVE SomeoneRuns
    OBVIOUS
  <2>1. "walker" \in waiting => pc = "await" /\ Use = 2 /\ new # 16 /\ new # 0
    BY DEF IInv, Waits, Control, Use
  <2>2. "writer" \in waiting => new = 0 /\ wpc = "await" /\ pc \notin {"join", "done"}
    BY DEF IInv, Waits, Control
  <2>3. pc \in PCs /\ (wpc = "exited" => new = 16)
    BY DEF IInv, Control
  <2> QED
    BY <2>1, <2>2, <2>3, SMTT(30) DEF SomeoneRuns, PCs
<1> QED
  BY <1>1, Invariance, PTL

=============================================================================
