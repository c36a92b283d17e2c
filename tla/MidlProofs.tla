----------------------------- MODULE MidlProofs -----------------------------
(***************************************************************************)
(* Proofs about Midl, for lists of any length and any calls within the     *)
(* functions' contracts: one conjunct of the inductive invariant IInv for  *)
(* each place of a call, one lemma for the steps of each group of          *)
(* functions.                                                              *)
(***************************************************************************)
EXTENDS Midl, WellFoundedInduction, TLAPS

-----------------------------------------------------------------------------
(* The inductive invariant: what holds at each place of a call *)

Len0 == Len(Was)
More == Len(call.merge)

\* The array holds the list it was called with.
Fresh == call.alloc <= alloc /\ Len0 <= alloc /\ Holds(Was, Len0)

AtStart ==
    pc \in Ops => pc = call.op /\ Fresh /\ base = 0 /\ cursor = 1 /\ val = 0

\* The ids up to base are before the one sought, those from base + n + 1
\* after it; the last comparison says on which side of them the cursor is.
AtSearch ==
    pc = "search" =>
        /\ call.op \in {"mdb_midl_search", "mdb_mid2l_search", "mdb_mid2l_insert"}
        /\ Fresh
        /\ base \in Nat /\ n \in Nat /\ base + n <= Len0
        /\ \A x \in 1 .. base : Compared(Was[x]) > 0
        /\ \A x \in base + n + 1 .. Len0 : Compared(Was[x]) < 0
        /\ \/ val > 0 /\ cursor = base
           \/ val < 0 /\ cursor = base + n + 1
           \/ val = 0 /\ cursor = 1 /\ base = 0 /\ n = Len0

AtInsert ==
    pc = "insert" => call.op = "mdb_mid2l_insert" /\ Fresh /\ Located

\* The ids from the cursor on move up one by one, from the last.
AtShift ==
    pc = "shift" =>
        /\ call.op = "mdb_mid2l_insert" /\ rc = 0
        /\ Len0 < alloc /\ ids[0] = Len0 + 1
        /\ cursor \in 1 .. Len0 + 1 /\ i \in cursor .. Len0 + 1
        /\ \A x \in 1 .. cursor - 1 : Was[x] < call.id
        /\ \A x \in cursor .. Len0 : Was[x] > call.id
        /\ \A x \in 1 .. i - 1 : ids[x] = Was[x]
        /\ \A x \in i + 1 .. Len0 + 1 : ids[x] = Was[x - 1]

AtAppend ==
    pc = "append" =>
        /\ call.op \in {"mdb_midl_append", "mdb_mid2l_append"}
        /\ Fresh /\ Len0 < alloc

AtMemcpy ==
    pc = "memcpy" =>
        /\ call.op = "mdb_midl_append_list"
        /\ Fresh /\ Len0 + More <= alloc

AtRange ==
    pc = "range" =>
        /\ call.op = "mdb_midl_append_range" /\ Fresh
        /\ base = Len0 /\ n = call.num /\ a = call.id /\ base + n <= alloc

AtFill ==
    pc = "fill" =>
        /\ call.op = "mdb_midl_append_range" /\ rc = 0
        /\ base = Len0 /\ n \in 0 .. call.num /\ a = call.id + call.num - n
        /\ ids[0] = Len0 + call.num /\ Len0 + call.num <= alloc
        /\ \A x \in 1 .. Len0 : ids[x] = Was[x]
        /\ \A x \in n + 1 .. call.num : ids[Len0 + x] = call.id + call.num - x

AtXappend ==
    pc = "xappend" =>
        /\ call.op = "mdb_midl_need" /\ rc = 0
        /\ n \in 0 .. call.num /\ Len0 + call.num <= alloc
        /\ Holds(Was \o call.merge, Len0 + call.num - n)

-----------------------------------------------------------------------------
(* Merging *)

\* g rearranges the positions 1..m.
Rearranges(g, m) ==
    /\ g \in [1 .. m -> 1 .. m]
    /\ \A x, y \in 1 .. m : g[x] = g[y] => x = y
    /\ \A y \in 1 .. m : \E x \in 1 .. m : g[x] = y

\* v[1..m] is a permutation of w[1..m].
Permuted(v, w, m) ==
    \E g : Rearranges(g, m) /\ \A x \in 1 .. m : v[x] = w[g[x]]

\* The merged list as it would be if the ids of merge that are left were
\* between the ones of the old list that are left and those that are placed.
Merging ==
    [x \in 1 .. n |-> IF x > j /\ x <= k THEN call.merge[x - j] ELSE ids[x]]

AtMerge ==
    pc = "merge" =>
        /\ call.op = "mdb_midl_xmerge" /\ rc = 0
        /\ n = Len0 + More /\ n <= alloc
        /\ i \in 0 .. More /\ j \in 0 .. Len0 /\ k = i + j
        /\ ids[0] = MAX_ID /\ a = ids[j]
        /\ \A x \in 1 .. j : ids[x] = Was[x]
        /\ \A x, y \in k + 1 .. n : x < y => ids[x] >= ids[y]
        /\ \A x \in 1 .. j, y \in k + 1 .. n : ids[x] >= ids[y]
        /\ \A x \in 1 .. i, y \in k + 1 .. n : call.merge[x] >= ids[y]
        /\ Permuted(Merging, Was \o call.merge, n)

-----------------------------------------------------------------------------
(* Sorting *)

\* The list with the id that slides put back.
Cells == IF pc = "slide" THEN [ids EXCEPT ![i + 1] = a] ELSE ids

InStretch(x) == l <= x /\ x <= ir
InPutOff(p, x) == istack[p].l <= x /\ x <= istack[p].ir

\* The stretch at hand and those put off are disjoint parts of the list, and
\* at most as long as the depth of the stack allows.
Stretches ==
    /\ l \in 1 .. Len0 + 1 /\ ir \in 0 .. Len0
    /\ l <= ir \/ (Len0 = 0 /\ istack = << >>)
    /\ (ir - l + 1) * Power2[Len(istack)] <= Len0
    /\ \A p \in 1 .. Len(istack) :
          /\ istack[p] \in [l : Nat, ir : Nat]
          /\ 1 <= istack[p].l /\ istack[p].l <= istack[p].ir /\ istack[p].ir <= Len0
          /\ istack[p].ir < l \/ ir < istack[p].l
          /\ (istack[p].ir - istack[p].l + 1) * Power2[p - 1] <= Len0
          /\ \A q \in 1 .. Len(istack) :
                p # q => istack[p].ir < istack[q].l \/ istack[q].ir < istack[p].l

\* Two ids that are not in order are in the same stretch.
Apart(v) ==
    \A x, y \in 1 .. Len0 :
        x < y => \/ v[x] >= v[y]
                 \/ InStretch(x) /\ InStretch(y)
                 \/ \E p \in 1 .. Len(istack) : InPutOff(p, x) /\ InPutOff(p, y)

Sorting == {"sort", "insertion", "slide", "up", "down", "cross"}

AtSorting ==
    pc \in Sorting =>
        /\ call.op = "mdb_midl_sort" /\ rc = 0
        /\ Len0 <= alloc /\ ids[0] = Len0
        /\ Stretches /\ Apart(Cells) /\ Permuted(Cells, Was, Len0)

\* The ids of the stretch before the j-th are in order.
AtInsertion ==
    pc = "insertion" =>
        /\ j > l /\ (j <= ir + 1 \/ Len0 = 0)
        /\ \A x, y \in l .. j - 1 : x < y /\ y <= ir => ids[x] >= ids[y]

\* So are those up to the j-th, but for the one that slides.
AtSlide ==
    pc = "slide" =>
        /\ j \in l + 1 .. ir /\ i \in l - 1 .. j - 1
        /\ \A x, y \in l .. j : x < y /\ y # i + 1 => Cells[x] >= Cells[y]

\* The ids before i are at least the pivot, those after j at most.  One of
\* each kind is left ahead of each scan.
AtUp ==
    pc = "up" =>
        /\ i \in l + 1 .. ir - 1 /\ j \in l + 2 .. ir /\ a = ids[l + 1]
        /\ \A x \in l .. i : ids[x] >= a
        /\ \A x \in j .. ir : ids[x] <= a

AtDown ==
    pc = "down" =>
        /\ i \in l + 2 .. ir /\ j \in l + 2 .. ir /\ a = ids[l + 1]
        /\ \A x \in l .. i - 1 : ids[x] >= a
        /\ \A x \in j .. ir : ids[x] <= a
        /\ ids[i] <= a

AtCross ==
    pc = "cross" =>
        /\ i \in l + 2 .. ir /\ j \in l + 1 .. ir - 1 /\ a = ids[l + 1]
        /\ \A x \in l .. i - 1 : ids[x] >= a
        /\ \A x \in j + 1 .. ir : ids[x] <= a
        /\ ids[i] <= a /\ ids[j] >= a

-----------------------------------------------------------------------------
Labels == {"search", "insert", "shift", "append", "memcpy", "range", "fill", "xappend",
           "merge", "return"}

Typed ==
    /\ call \in Calls /\ pc \in Ops \cup Labels \cup Sorting /\ rc \in Int
    /\ alloc \in Nat /\ ids \in [0 .. alloc -> Nat]
    /\ base \in Nat /\ cursor \in Nat /\ val \in Int /\ n \in Int
    /\ i \in Int /\ j \in Int /\ k \in Int /\ l \in Int /\ ir \in Int /\ a \in Int
    /\ istack \in Seq([l : Int, ir : Int])
    /\ pc \notin Sorting => istack = << >>
    /\ rc # 0 => pc = "return"

Results == SearchesRight /\ InsertRight /\ AppendsRight /\ MergeRight /\ SortRight

Fits == pc = "return" /\ call.op # "mdb_midl_shrink" => ids[0] <= alloc

IInv ==
    /\ Typed /\ Results /\ Fits
    /\ AtStart /\ AtSearch /\ AtInsert /\ AtShift
    /\ AtAppend /\ AtMemcpy /\ AtRange /\ AtFill /\ AtXappend
    /\ AtMerge
    /\ AtSorting /\ AtInsertion /\ AtSlide /\ AtUp /\ AtDown /\ AtCross

-----------------------------------------------------------------------------
(* Powers of two.  The induction theorems of the library need an operator;  *)
(* Induct, for a set, follows from the well-foundedness of <.               *)

Below == {ss \in Nat \X Nat : ss[1] < ss[2]}

\* f holds the powers of two up to the d-th.
Powers(d, f) ==
    f \in [0 .. d -> Nat] /\ f[0] = 1 /\ \A x \in 1 .. d : f[x] = 2 * f[x - 1]

\* Power2 is what it should be.
LEMMA Power2Facts ==
    /\ Power2[0] = 1
    /\ \A d \in Nat : Power2[d] \in Nat /\ Power2[d] >= 1 /\ Power2[d + 1] = 2 * Power2[d]
    /\ (\A d, e \in Nat : Power2[d] < Power2[e] => d < e)
\* Induction on the natural numbers, for a set.
<1>Induct.
    ASSUME NEW S \in SUBSET Nat, 0 \in S, \A m \in S : m + 1 \in S
    PROVE  S = Nat
  <2> USE <1>Induct
  <2>1. IsWellFoundedOn(Below, Nat)
    BY NatLessThanWellFounded, Zenon DEF OpToRel, Below
  <2>2. SUFFICES ASSUME Nat \ S # {} PROVE FALSE
    BY Zenon
  <2>3. PICK m \in Nat \ S : \A q \in Nat \ S : ~(<<q, m>> \in Below)
    <3>1. Nat \ S \subseteq Nat
      BY Zenon
    <3> QED
      BY Zenon, <2>1, <2>2, <3>1, WFMin
  <2>4. m # 0 /\ m - 1 \in Nat /\ m = (m - 1) + 1 /\ <<m - 1, m>> \in Below
    BY DEF Below
  <2>5. m - 1 \in S
    BY <2>3, <2>4, Zenon
  <2> QED
    BY <2>3, <2>4, <2>5, Zenon
\* There are powers of two.
<1>PowersExist. \A d \in Nat : \E f : Powers(d, f)
  <2> DEFINE S == {d \in Nat : \E f : Powers(d, f)}
  <2>1. 0 \in S
    <3>1. Powers(0, [x \in 0 .. 0 |-> 1])
      BY DEF Powers
    <3> QED
      BY <3>1, Zenon
  <2>2. ASSUME NEW d \in S PROVE d + 1 \in S
    <3>1. PICK f : Powers(d, f)
      BY Zenon
    <3> DEFINE h == [x \in 0 .. d + 1 |-> IF x = d + 1 THEN 2 * f[d] ELSE f[x]]
    <3>2. d \in Nat /\ f \in [0 .. d -> Nat] /\ f[0] = 1 /\ \A x \in 1 .. d : f[x] = 2 * f[x - 1]
      BY <3>1, Zenon DEF Powers
    <3>3. h \in [0 .. d + 1 -> Nat] /\ h[0] = 1
      BY <3>2
    <3>4. ASSUME NEW x \in 1 .. d + 1 PROVE h[x] = 2 * h[x - 1]
      BY <3>2
    <3>5. Powers(d + 1, h)
      BY <3>3, <3>4, Zenon DEF Powers
    <3> QED
      BY <3>5
  <2>3. S \in SUBSET Nat
    BY Zenon
  <2> HIDE DEF S
  <2>4. S = Nat
    BY <2>1, <2>2, <2>3, <1>Induct, Zenon
  <2> QED
    BY <2>4, Zenon DEF S
\* They are unique.
<1>PowersUnique.
    ASSUME NEW d \in Nat, NEW e \in Nat, NEW f, NEW h, Powers(d, f), Powers(e, h),
           NEW x \in Nat, x <= d, x <= e
    PROVE  f[x] = h[x]
  <2> USE <1>PowersUnique
  <2> DEFINE S == {y \in Nat : y <= d /\ y <= e => f[y] = h[y]}
  <2>1. 0 \in S
    BY Zenon DEF Powers
  <2>2. ASSUME NEW y \in S PROVE y + 1 \in S
    <3> SUFFICES ASSUME y + 1 <= d, y + 1 <= e PROVE f[y + 1] = h[y + 1]
      OBVIOUS
    <3>1. f[y] = h[y] /\ y \in Nat /\ y + 1 \in 1 .. d /\ y + 1 \in 1 .. e /\ (y + 1) - 1 = y
      OBVIOUS
    <3> QED
      BY <3>1, Zenon DEF Powers
  <2>3. S \in SUBSET Nat
    BY Zenon
  <2> HIDE DEF S
  <2>4. S = Nat
    BY <2>1, <2>2, <2>3, <1>Induct, Zenon
  <2> QED
    BY <2>4, Zenon DEF S
\* Power2 is well-defined.
<1>Power2Facts.
    /\ Power2[0] = 1
    /\ \A d \in Nat : Power2[d] \in Nat /\ Power2[d] >= 1 /\ Power2[d + 1] = 2 * Power2[d]
  <2> DEFINE D(f) == [d \in Nat |-> IF d = 0 THEN 1 ELSE 2 * f[d - 1]]
             F(d) == CHOOSE f : Powers(d, f)
             G == [d \in Nat |-> F(d)[d]]
  <2>1. ASSUME NEW d \in Nat PROVE Powers(d, F(d))
    BY <1>PowersExist, Zenon
  <2> HIDE DEF F
  <2>2. G = D(G)
    <3>1. G[0] = 1
      BY <2>1, Zenon DEF Powers
    <3>2. ASSUME NEW d \in Nat, d # 0 PROVE G[d] = 2 * G[d - 1]
      <4>1. d - 1 \in Nat /\ d \in 1 .. d /\ d - 1 <= d /\ d - 1 <= d - 1
        BY <3>2
      <4>2. F(d)[d] = 2 * F(d)[d - 1]
        BY <2>1, <4>1, Zenon DEF Powers
      <4>3. F(d)[d - 1] = F(d - 1)[d - 1]
        BY <2>1, <4>1, <1>PowersUnique
      <4> QED
        BY <4>1, <4>2, <4>3, Zenon
    <3> HIDE DEF G
    <3>3. ASSUME NEW d \in Nat PROVE G[d] = IF d = 0 THEN 1 ELSE 2 * G[d - 1]
      BY <3>1, <3>2, Zenon
    <3>4. G = [d \in Nat |-> G[d]]
      BY Zenon DEF G
    <3> QED
      BY <3>3, <3>4, Zenon
  <2>3. Power2 = D(Power2)
    <3>1. Power2 = CHOOSE f : f = D(f)
      BY Zenon DEF Power2
    <3> HIDE DEF D, G
    <3> QED
      BY <2>2, <3>1, Zenon
  <2>4. Power2[0] = 1 /\ \A d \in Nat : Power2[d + 1] = 2 * Power2[d]
    <3>1. ASSUME NEW d \in Nat PROVE D(Power2)[d + 1] = 2 * Power2[d]
      OBVIOUS
    <3>2. D(Power2)[0] = 1
      BY Zenon
    <3> HIDE DEF D
    <3> QED
      BY <2>3, <3>1, <3>2, Zenon
  <2> DEFINE S == {d \in Nat : Power2[d] \in Nat /\ Power2[d] >= 1}
  <2>5. 0 \in S
    BY <2>4
  <2>6. ASSUME NEW d \in S PROVE d + 1 \in S
    BY <2>4
  <2>7. S \in SUBSET Nat
    BY Zenon
  <2> HIDE DEF S
  <2>8. S = Nat
    BY <2>5, <2>6, <2>7, <1>Induct, Zenon
  <2> QED
    BY <2>4, <2>8 DEF S
\* They grow.
<1>Power2Grows.
    \A d, e \in Nat : Power2[d] < Power2[e] => d < e
  <2> SUFFICES ASSUME NEW d \in Nat, NEW e \in Nat, Power2[d] < Power2[e]
               PROVE  d < e
    BY Zenon
  <2> DEFINE S == {x \in Nat : Power2[e + x] >= Power2[e]}
  <2>1. 0 \in S
    BY <1>Power2Facts
  <2>2. ASSUME NEW x \in S PROVE x + 1 \in S
    <3>1. e + x \in Nat /\ e + (x + 1) = (e + x) + 1
      OBVIOUS
    <3>2. Power2[e + (x + 1)] = 2 * Power2[e + x] /\ Power2[e + x] \in Nat /\ Power2[e] \in Nat
      BY <3>1, <1>Power2Facts, Zenon
    <3> QED
      BY <3>2
  <2>3. S \in SUBSET Nat
    BY Zenon
  <2> HIDE DEF S
  <2>4. S = Nat
    BY <2>1, <2>2, <2>3, <1>Induct, Zenon
  <2>5. SUFFICES ASSUME ~(d < e) PROVE FALSE
    BY Zenon
  <2>6. d - e \in Nat /\ d = e + (d - e)
    BY <2>5
  <2>7. Power2[d] >= Power2[e] /\ Power2[d] \in Nat /\ Power2[e] \in Nat
    BY <2>4, <2>6, <1>Power2Facts, Zenon DEF S
  <2> QED
    BY <2>7
<1> QED
  BY <1>Power2Facts, <1>Power2Grows, ZenonT(60)

-----------------------------------------------------------------------------
(* What a call is, and where the invariant has something to say *)

\* What the contract says of the arguments.
LEMMA CallFacts ==
    ASSUME call \in Calls
    PROVE  /\ Contract(call)
           /\ call.op \in Ops /\ call.alloc \in Nat /\ call.id \in Nat /\ call.num \in Nat
           /\ Was \in Seq(MDB_ID) /\ Len0 \in Nat /\ Len0 <= call.alloc
           /\ call.merge \in Seq(MDB_ID) /\ More \in Nat
<1>1. Contract(call)
  BY CallsAssumption, Zenon
<1>2. /\ call \in [op : Ops, alloc : Nat, list : Seq(MDB_ID), id : MDB_ID, num : Nat,
                   merge : Seq(MDB_ID)]
      /\ Len(call.list) <= call.alloc
  BY <1>1, Zenon DEF Contract
<1>3. MDB_ID \subseteq Nat
  BY BoundsAssumption DEF MDB_ID
<1>4. /\ call.op \in Ops /\ call.alloc \in Nat /\ call.list \in Seq(MDB_ID) /\ call.id \in MDB_ID
      /\ call.num \in Nat /\ call.merge \in Seq(MDB_ID)
  BY <1>2, Zenon
<1>5. Len(call.list) \in Nat /\ Len(call.merge) \in Nat
  BY <1>4
<1> QED
  BY <1>1, <1>2, <1>3, <1>4, <1>5, Zenon DEF Was, Len0, More

\* Their ids are numbers up to MAX_ID.
LEMMA ListFacts ==
    ASSUME call \in Calls
    PROVE  /\ \A x \in 1 .. Len0 : Was[x] \in Nat /\ Was[x] <= MAX_ID
           /\ \A x \in 1 .. More : call.merge[x] \in Nat /\ call.merge[x] <= MAX_ID
<1>1. /\ call.list \in Seq(MDB_ID) /\ call.merge \in Seq(MDB_ID) /\ MAX_ID \in Nat
  BY CallFacts, BoundsAssumption, Zenon DEF Was
<1> DEFINE p == call.list
           q == call.merge
<1>2. p \in Seq(MDB_ID) /\ q \in Seq(MDB_ID)
  BY <1>1, Zenon
<1> HIDE DEF p, q
<1>3. /\ \A x \in 1 .. Len(p) : p[x] \in MDB_ID
      /\ \A x \in 1 .. Len(q) : q[x] \in MDB_ID
  BY <1>2
<1>4. \A x \in MDB_ID : x \in Nat /\ x <= MAX_ID
  BY <1>1 DEF MDB_ID
<1> QED
  BY <1>3, <1>4, Zenon DEF Was, Len0, More, p, q

\* The invariant at the end of a call.
LEMMA ToReturn ==
    Typed' /\ pc' = "return" /\ Results' /\ Fits' => IInv'
BY Zenon DEF IInv, AtStart, AtSearch, AtInsert, AtShift, AtAppend, AtMemcpy, AtRange, AtFill,
   AtXappend, AtMerge, AtSorting, AtInsertion, AtSlide, AtUp, AtDown, AtCross,
   Ops, Sorting

\* The length of a fresh list.
LEMMA FreshFacts ==
    ASSUME Typed, Fresh
    PROVE  /\ ids[0] = Len0 /\ Len0 \in Nat /\ Len0 <= alloc /\ alloc \in Nat /\ call \in Calls
           /\ ids \in [0 .. alloc -> Nat] /\ \A x \in 1 .. Len0 : ids[x] = Was[x]
           /\ call.alloc <= alloc /\ call.alloc \in Nat
<1>1. /\ ids[0] = Len0 /\ Len0 <= alloc /\ call \in Calls /\ alloc \in Nat /\ call.alloc <= alloc
      /\ ids \in [0 .. alloc -> Nat] /\ \A x \in 1 .. Len0 : ids[x] = Was[x]
  BY Zenon DEF Typed, Fresh, Holds
<1> QED
  BY <1>1, CallFacts, Zenon

\* Where mdb_midl_append and the others start.
LEMMA StartFacts ==
    ASSUME IInv, pc \in Ops
    PROVE  /\ Typed /\ Fresh /\ rc = 0 /\ pc = call.op /\ call \in Calls
           /\ ids[0] = Len0 /\ Len0 \in Nat /\ Len0 <= alloc /\ alloc \in Nat
           /\ call.alloc <= alloc /\ call.alloc \in Nat
           /\ call.num \in Nat /\ call.id \in Nat /\ More \in Nat
           /\ n \in Int /\ a \in Int /\ base \in Nat
<1>1. Typed /\ AtStart
  BY Zenon DEF IInv
<1>2. pc = call.op /\ Fresh /\ call \in Calls
  BY <1>1, Zenon DEF AtStart, Typed
<1>3. pc # "return"
  BY Zenon DEF Ops
<1>4. rc = 0 /\ n \in Int /\ a \in Int /\ base \in Nat
  BY <1>1, <1>3, Zenon DEF Typed
<1> QED
  BY <1>1, <1>2, <1>4, FreshFacts, CallFacts, Zenon

-----------------------------------------------------------------------------
(* Searching and inserting *)

\* The searches, and the insertion into an ID2L.
LEMMA SearchingInv ==
    /\ (IInv /\ StartSearch => IInv')
    /\ (IInv /\ Search => IInv')
    /\ (IInv /\ SearchEnds => IInv')
    /\ (IInv /\ mdb_mid2l_insert => IInv')
    /\ (IInv /\ Shift => IInv')
\* The invariant at label search.
<1>ToSearch.
    Typed' /\ pc' = "search" /\ AtSearch' => IInv'
  BY Zenon DEF IInv, AtStart, AtInsert, AtShift, AtAppend, AtMemcpy, AtRange, AtFill,
     AtXappend, AtMerge, AtSorting, AtInsertion, AtSlide, AtUp, AtDown, AtCross,
     SearchesRight, InsertRight, AppendsRight, MergeRight, SortRight, Done, Fits,
     Results, Ops, Sorting
\* The invariant at label insert.
<1>ToInsert.
    Typed' /\ pc' = "insert" /\ AtInsert' => IInv'
  BY Zenon DEF IInv, AtStart, AtSearch, AtShift, AtAppend, AtMemcpy, AtRange, AtFill,
     AtXappend, AtMerge, AtSorting, AtInsertion, AtSlide, AtUp, AtDown, AtCross,
     SearchesRight, InsertRight, AppendsRight, MergeRight, SortRight, Done, Fits,
     Results, Ops, Sorting
\* The invariant at label shift.
<1>ToShift.
    Typed' /\ pc' = "shift" /\ AtShift' => IInv'
  BY Zenon DEF IInv, AtStart, AtSearch, AtInsert, AtAppend, AtMemcpy, AtRange, AtFill,
     AtXappend, AtMerge, AtSorting, AtInsertion, AtSlide, AtUp, AtDown, AtCross,
     SearchesRight, InsertRight, AppendsRight, MergeRight, SortRight, Done, Fits,
     Results, Ops, Sorting
\* A call that returns has to be right for its own function only.
<1>ReturnSearch.
    /\ Typed' /\ pc' = "return" /\ call'.op \in {"mdb_midl_search", "mdb_mid2l_search"}
    /\ Fits' /\ SearchesRight'
    => IInv'
  <2> SUFFICES ASSUME Typed', pc' = "return", Fits', SearchesRight',
                      call'.op \in {"mdb_midl_search", "mdb_mid2l_search"}
               PROVE  IInv'
    BY Zenon
  <2>1. Results'
    BY Zenon DEF Results, InsertRight, AppendsRight, MergeRight, SortRight, Done
  <2> QED
    BY <2>1, ToReturn, Zenon
\* The ids of a list in order compare the way their positions do.
<1>ComparedFacts.
    ASSUME call \in Calls,
           call.op \in {"mdb_midl_search", "mdb_mid2l_search", "mdb_mid2l_insert"}
    PROVE  /\ \A x \in 1 .. Len0 : /\ Compared(Was[x]) \in {-1, 0, 1}
                                   /\ Compared(Was[x]) = 0 <=> Was[x] = call.id
           /\ \A x, y \in 1 .. Len0 :
                 x < y => /\ Compared(Was[y]) > 0 => Compared(Was[x]) > 0
                          /\ Compared(Was[x]) < 0 => Compared(Was[y]) < 0
  <2> USE <1>ComparedFacts
  <2>1. /\ call.id \in Nat /\ Len0 \in Nat /\ \A x \in 1 .. Len0 : Was[x] \in Nat
        /\ call.op = "mdb_midl_search" => Descending(Was, Len0)
        /\ call.op \in {"mdb_mid2l_search", "mdb_mid2l_insert"} => Ascending(Was, Len0)
    BY CallFacts, ListFacts, Zenon DEF Contract, Was, Len0
  <2>2. CASE call.op = "mdb_midl_search"
    <3>1. \A x \in 1 .. Len0 : Compared(Was[x]) = CMP(Was[x], call.id)
      BY <2>2, Zenon DEF Compared
    <3>2. \A x, y \in 1 .. Len0 : x < y => Was[x] >= Was[y]
      BY <2>1, <2>2, Zenon DEF Descending
    <3> QED
      BY <2>1, <3>1, <3>2 DEF CMP
  <2>3. CASE call.op # "mdb_midl_search"
    <3>1. \A x \in 1 .. Len0 : Compared(Was[x]) = CMP(call.id, Was[x])
      BY <2>3, Zenon DEF Compared
    <3>2. \A x, y \in 1 .. Len0 : x < y => Was[x] < Was[y]
      BY <2>1, <2>3, Zenon DEF Ascending
    <3> QED
      BY <2>1, <3>1, <3>2 DEF CMP
  <2> QED
    BY <2>2, <2>3, Zenon
\* The search begins with the whole list.
<1>StartSearchInv. IInv /\ StartSearch => IInv'
  <2> SUFFICES ASSUME IInv, StartSearch PROVE IInv'
    BY Zenon
  <2>1. /\ pc \in {"mdb_midl_search", "mdb_mid2l_search", "mdb_mid2l_insert"}
        /\ n' = ids[0] /\ pc' = "search" /\ rc' = rc
        /\ call' = call /\ alloc' = alloc /\ ids' = ids /\ base' = base /\ cursor' = cursor
        /\ val' = val /\ i' = i /\ j' = j /\ k' = k /\ l' = l /\ ir' = ir /\ istack' = istack
        /\ a' = a
    BY Zenon DEF StartSearch, Goto, search_vars, sort_vars
  <2>2. Typed /\ AtStart
    BY Zenon DEF IInv
  <2>3. pc = call.op /\ Fresh /\ base = 0 /\ cursor = 1 /\ val = 0
    BY <2>1, <2>2, Zenon DEF AtStart, Ops
  <2>4. ids[0] = Len0 /\ call \in Calls
    BY <2>2, <2>3, Zenon DEF Fresh, Holds, Typed
  <2>5. Len0 \in Nat
    BY <2>4, CallFacts, Zenon
  <2>6. Typed'
    <3>1. n' \in Int
      BY <2>1, <2>4, <2>5
    <3>2. pc \notin Sorting
      BY <2>1, Zenon DEF Sorting
    <3>3. pc # "return" /\ pc' # "return" /\ pc' \in Labels /\ pc' \notin Sorting
      BY <2>1, Zenon DEF Sorting, Labels
    <3> QED
      BY <2>1, <2>2, <3>1, <3>2, <3>3, Zenon DEF Typed
  <2>7. AtSearch'
    <3>1. Len0' = Len0 /\ Was' = Was /\ Fresh'
      BY <2>1, <2>3, Zenon DEF Len0, Was, Fresh, Holds
    <3>2. /\ base' \in Nat /\ n' \in Nat /\ base' + n' <= Len0 /\ base' = 0 /\ n' = Len0
          /\ \A x \in 1 .. base' : FALSE
          /\ \A x \in base' + n' + 1 .. Len0 : FALSE
      BY <2>1, <2>3, <2>4, <2>5
    <3> QED
      BY <2>1, <2>3, <3>1, <3>2, Zenon DEF AtSearch
  <2> QED
    BY <2>1, <2>6, <2>7, <1>ToSearch, Zenon
\* A search that has found the position goes on to insert, or returns.
<1>SearchedInv.
    /\ Typed' /\ Fresh' /\ Located' /\ call'.op = call.op /\ Searched
    /\ call.op \in {"mdb_midl_search", "mdb_mid2l_search", "mdb_mid2l_insert"}
    => IInv'
  <2> SUFFICES ASSUME Typed', Fresh', Located', Searched, call'.op = call.op,
                      call.op \in {"mdb_midl_search", "mdb_mid2l_search", "mdb_mid2l_insert"}
               PROVE  IInv'
    BY Zenon
  <2>1. CASE call.op = "mdb_mid2l_insert"
    <3>1. pc' = "insert"
      BY <2>1, Zenon DEF Searched, Goto
    <3>2. AtInsert'
      BY <2>1, Zenon DEF AtInsert
    <3> QED
      BY <3>1, <3>2, <1>ToInsert, Zenon
  <2>2. CASE call.op # "mdb_mid2l_insert"
    <3>1. pc' = "return"
      BY <2>2, Zenon DEF Searched, Return
    <3>2. SearchesRight' /\ Fits'
      BY Zenon DEF SearchesRight, Fits, Fresh, Holds, Len0
    <3> QED
      BY <2>2, <3>1, <3>2, <1>ReturnSearch, Zenon
  <2> QED
    BY <2>1, <2>2, Zenon
\* One comparison halves what is left, or finds the id.
<1>SearchInv. IInv /\ Search => IInv'
  <2> SUFFICES ASSUME IInv, Search PROVE IInv'
    BY Zenon
  <2> DEFINE pivot == n \div 2
             c == base + pivot + 1
             v == Compared(ids[c])
  <2>1. /\ pc = "search" /\ 0 < n
        /\ cursor' = c /\ val' = v
        /\ n' = (IF v < 0 THEN pivot ELSE IF v > 0 THEN n - (pivot + 1) ELSE n)
        /\ base' = (IF v > 0 THEN c ELSE base)
        /\ IF v = 0 THEN Searched ELSE Goto("search")
        /\ call' = call /\ alloc' = alloc /\ ids' = ids /\ i' = i /\ j' = j /\ k' = k /\ l' = l
        /\ ir' = ir /\ istack' = istack /\ a' = a
    BY Zenon DEF Search, sort_vars
  <2>2. Typed /\ AtSearch
    BY Zenon DEF IInv
  <2>3. /\ call.op \in {"mdb_midl_search", "mdb_mid2l_search", "mdb_mid2l_insert"}
        /\ Fresh /\ base \in Nat /\ n \in Nat /\ base + n <= Len0
        /\ \A x \in 1 .. base : Compared(Was[x]) > 0
        /\ \A x \in base + n + 1 .. Len0 : Compared(Was[x]) < 0
    BY <2>1, <2>2, Zenon DEF AtSearch
  <2>4. call \in Calls
    BY <2>2, Zenon DEF Typed
  <2>5. Len0 \in Nat
    BY <2>4, CallFacts, Zenon
  <2>6. pivot \in Nat /\ c \in 1 .. Len0 /\ c <= base + n /\ n - (pivot + 1) \in Nat
        /\ base < c /\ c + (n - (pivot + 1)) = base + n /\ base + pivot + 1 = c
    BY <2>1, <2>3, <2>5
  <2> HIDE DEF pivot, c
  <2>7. ids[c] = Was[c]
    BY <2>3, <2>6, Zenon DEF Fresh, Holds
  <2>8. /\ v \in {-1, 0, 1} /\ (v = 0 <=> Was[c] = call.id) /\ v = Compared(Was[c])
        /\ \A x \in 1 .. Len0 : x < c => (v > 0 => Compared(Was[x]) > 0)
        /\ \A y \in 1 .. Len0 : c < y => (v < 0 => Compared(Was[y]) < 0)
    BY <2>3, <2>4, <2>6, <2>7, <1>ComparedFacts, ZenonT(60)
  <2> HIDE DEF v
  <2>9. Len0' = Len0 /\ Was' = Was /\ Fresh' /\ call'.op = call.op
        /\ \A x : Compared(Was[x])' = Compared(Was[x])
    BY <2>1, <2>3, Zenon DEF Len0, Was, Fresh, Holds, Compared
  <2>10. cursor' \in Nat /\ val' \in Int /\ n' \in Int /\ base' \in Nat
    BY <2>1, <2>3, <2>6, <2>8
  <2>11. CASE v = 0
    <3>1. Searched
      BY <2>1, <2>11, Zenon
    <3>2. pc' \in {"insert", "return"} /\ rc' \in {rc, 0}
      BY <3>1, Zenon DEF Searched, Goto, Return
    <3>3. rc \in Int /\ rc = 0
      BY <2>1, <2>2, Zenon DEF Typed
    <3>4. pc' \in Labels /\ pc' \notin Sorting /\ rc' \in Int /\ rc' = 0 /\ pc \notin Sorting
      BY <2>1, <3>2, <3>3, Zenon DEF Labels, Sorting
    <3>5. Typed'
      BY <2>1, <2>2, <2>10, <3>4, Zenon DEF Typed
    <3>6. Located'
      BY <2>1, <2>6, <2>8, <2>9, <2>11, Zenon DEF Located, Len0
    <3> QED
      BY <2>3, <2>9, <3>1, <3>5, <3>6, <1>SearchedInv, Zenon
  <2>12. CASE v # 0
    <3>1. pc' = "search" /\ rc' = rc
      BY <2>1, <2>12, Zenon DEF Goto
    <3>2. rc = 0 /\ rc \in Int
      BY <2>1, <2>2, Zenon DEF Typed
    <3>3. pc' \in Labels /\ pc' \notin Sorting /\ pc \notin Sorting
      BY <2>1, <3>1, Zenon DEF Labels, Sorting
    <3>4. Typed'
      BY <2>1, <2>2, <2>10, <3>1, <3>2, <3>3, Zenon DEF Typed
    <3>5. CASE v > 0
      <4>1. base' = c /\ n' = n - (pivot + 1)
        BY <2>1, <2>8, <3>5
      <4>2. base' \in Nat /\ n' \in Nat /\ base' + n' <= Len0 /\ val' > 0 /\ cursor' = base'
            /\ base' + n' + 1 = base + n + 1
        BY <2>1, <2>3, <2>5, <2>6, <3>5, <4>1
      <4>3. ASSUME NEW x \in 1 .. base' PROVE Compared(Was[x]) > 0
        <5>1. x \in 1 .. Len0 /\ (x < c \/ x = c)
          BY <2>5, <2>6, <4>1
        <5> QED
          BY <2>8, <3>5, <5>1, Zenon
      <4> QED
        BY <2>3, <2>9, <3>1, <3>4, <4>2, <4>3, <1>ToSearch, Zenon DEF AtSearch
    <3>6. CASE v < 0
      <4>1. base' = base /\ n' = pivot
        BY <2>1, <2>8, <3>6
      <4>2. base' \in Nat /\ n' \in Nat /\ base' + n' <= Len0 /\ val' < 0 /\ cursor' = base' + n' + 1
        BY <2>1, <2>3, <2>5, <2>6, <3>6, <4>1
      <4>3. ASSUME NEW x \in base' + n' + 1 .. Len0 PROVE Compared(Was[x]) < 0
        <5>1. x \in 1 .. Len0 /\ (c < x \/ x = c)
          BY <2>3, <2>5, <2>6, <4>1
        <5> QED
          BY <2>8, <3>6, <5>1, Zenon
      <4> QED
        BY <2>3, <2>9, <3>1, <3>4, <4>1, <4>2, <4>3, <1>ToSearch, Zenon DEF AtSearch
    <3> QED
      BY <2>8, <2>12, <3>5, <3>6
  <2> QED
    BY <2>11, <2>12, Zenon
\* When nothing is left the cursor is at, or just before, the position.
<1>SearchEndsInv. IInv /\ SearchEnds => IInv'
  <2> SUFFICES ASSUME IInv, SearchEnds PROVE IInv'
    BY Zenon
  <2>1. /\ pc = "search" /\ n = 0
        /\ cursor' = (IF val > 0 THEN cursor + 1 ELSE cursor)
        /\ Searched
        /\ call' = call /\ alloc' = alloc /\ ids' = ids /\ base' = base /\ val' = val /\ n' = n
        /\ i' = i /\ j' = j /\ k' = k /\ l' = l /\ ir' = ir /\ istack' = istack /\ a' = a
    BY Zenon DEF SearchEnds, sort_vars
  <2>2. Typed /\ AtSearch
    BY Zenon DEF IInv
  <2>3. /\ call.op \in {"mdb_midl_search", "mdb_mid2l_search", "mdb_mid2l_insert"}
        /\ Fresh /\ base \in Nat /\ base + n <= Len0
        /\ \A x \in 1 .. base : Compared(Was[x]) > 0
        /\ \A x \in base + n + 1 .. Len0 : Compared(Was[x]) < 0
        /\ \/ val > 0 /\ cursor = base
           \/ val < 0 /\ cursor = base + n + 1
           \/ val = 0 /\ cursor = 1 /\ base = 0 /\ n = Len0
    BY <2>1, <2>2, Zenon DEF AtSearch
  <2>4. call \in Calls /\ val \in Int /\ rc = 0
    BY <2>1, <2>2, Zenon DEF Typed
  <2>5. Len0 \in Nat
    BY <2>4, CallFacts, Zenon
  <2>6. cursor' = base + 1 /\ cursor' \in 1 .. Len0 + 1 /\ cursor' - 1 = base
        /\ base + n + 1 = cursor' /\ cursor' \in Nat
    BY <2>1, <2>3, <2>4, <2>5
  <2>7. Len0' = Len0 /\ Was' = Was /\ Fresh' /\ call'.op = call.op
        /\ \A x : Compared(Was[x])' = Compared(Was[x])
    BY <2>1, <2>3, Zenon DEF Len0, Was, Fresh, Holds, Compared
  <2>8. Located'
    BY <2>3, <2>6, <2>7, Zenon DEF Located, Len0
  <2>9. Typed'
    <3>1. pc' \in {"insert", "return"} /\ rc' = 0
      BY <2>1, <2>4, Zenon DEF Searched, Goto, Return
    <3>2. pc' \in Labels /\ pc' \notin Sorting /\ rc' \in Int /\ pc \notin Sorting
      BY <2>1, <3>1 DEF Labels, Sorting
    <3> QED
      BY <2>1, <2>2, <2>6, <3>1, <3>2, Zenon DEF Typed
  <2> QED
    BY <2>1, <2>3, <2>7, <2>8, <2>9, <1>SearchedInv, Zenon
\* What is returned for an id that is there, or for want of room.
<1>ReturnInsert.
    Typed' /\ pc' = "return" /\ call'.op = "mdb_mid2l_insert" /\ Fits' /\ InsertRight' => IInv'
  <2> SUFFICES ASSUME Typed', pc' = "return", Fits', InsertRight', call'.op = "mdb_mid2l_insert"
               PROVE  IInv'
    BY Zenon
  <2>1. Results'
    BY Zenon DEF Results, SearchesRight, AppendsRight, MergeRight, SortRight, Done
  <2> QED
    BY <2>1, ToReturn, Zenon
\* An id that is not there and has room makes the list longer.
<1>InsertInv. IInv /\ mdb_mid2l_insert => IInv'
  <2> SUFFICES ASSUME IInv, mdb_mid2l_insert PROVE IInv'
    BY Zenon
  <2>1. /\ pc = "insert"
        /\ call' = call /\ alloc' = alloc /\ base' = base /\ cursor' = cursor /\ val' = val
        /\ n' = n /\ j' = j /\ k' = k /\ l' = l /\ ir' = ir /\ istack' = istack /\ a' = a
    BY Zenon DEF mdb_mid2l_insert, search_vars, sort_vars
  <2>2. Typed /\ AtInsert
    BY Zenon DEF IInv
  <2>3. call.op = "mdb_mid2l_insert" /\ Fresh /\ Located
    BY <2>1, <2>2, Zenon DEF AtInsert
  <2>4. /\ ids[0] = Len0 /\ Len0 \in Nat /\ Len0 <= alloc /\ alloc \in Nat /\ call \in Calls
        /\ ids \in [0 .. alloc -> Nat] /\ \A x \in 1 .. Len0 : ids[x] = Was[x]
    BY <2>2, <2>3, FreshFacts, Zenon
  <2>5. /\ UM_MAX \in Nat /\ call.id \in Nat
        /\ \A x \in 1 .. Len0 : Was[x] \in Nat
    BY <2>4, BoundsAssumption, CallFacts, ListFacts, Zenon
  <2>6. Len0' = Len0 /\ Was' = Was
    BY <2>1, Zenon DEF Len0, Was
  <2>7. cursor \in Nat /\ cursor \in 1 .. Len0 + 1
    BY <2>3, <2>4 DEF Located, Len0
  <2>8. CASE cursor <= ids[0] /\ ids[cursor] = call.id
    <3>1. pc' = "return" /\ rc' = -1 /\ ids' = ids /\ i' = i
      <4>1. ~(cursor < 1)
        BY <2>7
      <4> QED
        BY <2>8, <4>1, Zenon DEF mdb_mid2l_insert, Return
    <3>2. Typed'
      <4>1. pc' \in Labels /\ pc' \notin Sorting /\ rc' \in Int /\ pc \notin Sorting
        BY <2>1, <3>1 DEF Labels, Sorting
      <4> QED
        BY <2>1, <2>2, <3>1, <4>1, Zenon DEF Typed
    <3>3. cursor \in 1 .. Len0 /\ Was[cursor] = call.id
      BY <2>4, <2>7, <2>8
    <3>4. InsertRight' /\ Fits'
      BY <2>1, <2>4, <2>6, <3>1, <3>3, Zenon DEF InsertRight, Fits, Holds, Len0
    <3> QED
      BY <2>1, <2>3, <3>1, <3>2, <3>4, <1>ReturnInsert, Zenon
  <2>9. CASE ~(cursor <= ids[0] /\ ids[cursor] = call.id) /\ ids[0] >= UM_MAX
    <3>1. pc' = "return" /\ rc' = -2 /\ ids' = ids /\ i' = i
      <4>1. ~(cursor < 1)
        BY <2>7
      <4> QED
        BY <2>9, <4>1, Zenon DEF mdb_mid2l_insert, Return
    <3>2. Typed'
      <4>1. pc' \in Labels /\ pc' \notin Sorting /\ rc' \in Int /\ pc \notin Sorting
        BY <2>1, <3>1 DEF Labels, Sorting
      <4> QED
        BY <2>1, <2>2, <3>1, <4>1, Zenon DEF Typed
    <3>3. Len0 = UM_MAX
      <4>1. Len0 <= UM_MAX
        BY <2>3, <2>4, CallFacts, Zenon DEF Contract
      <4> QED
        BY <2>4, <2>5, <2>9, <4>1
    <3>4. InsertRight' /\ Fits'
      BY <2>1, <2>4, <2>6, <3>1, <3>3, Zenon DEF InsertRight, Fits, Holds, Len0
    <3> QED
      BY <2>1, <2>3, <3>1, <3>2, <3>4, <1>ReturnInsert, Zenon
  <2>10. CASE ~(cursor <= ids[0] /\ ids[cursor] = call.id) /\ ~(ids[0] >= UM_MAX)
    <3>1. /\ pc' = "shift" /\ rc' = rc
          /\ ids' = [ids EXCEPT ![0] = @ + 1] /\ i' = ids[0] + 1
      <4>1. ~(cursor < 1)
        BY <2>7
      <4> QED
        BY <2>10, <4>1, Zenon DEF mdb_mid2l_insert, Goto
    <3>2. Len0 < alloc /\ i' = Len0 + 1
      <4>1. call.alloc = UM_MAX /\ call.alloc <= alloc
        BY <2>2, <2>3, <2>4, FreshFacts, CallFacts, Zenon DEF Contract
      <4> QED
        BY <2>4, <2>5, <2>10, <3>1, <4>1
    <3>3. ids' \in [0 .. alloc -> Nat] /\ ids'[0] = Len0 + 1 /\ \A x \in 1 .. Len0 : ids'[x] = Was[x]
      BY <2>4, <3>1
    <3>4. rc = 0
      BY <2>1, <2>2, Zenon DEF Typed
    <3>5. Typed'
      <4>1. pc' \in Labels /\ pc' \notin Sorting /\ rc' \in Int /\ pc \notin Sorting /\ i' \in Int
        BY <2>1, <2>4, <3>1, <3>2, <3>4 DEF Labels, Sorting
      <4> QED
        BY <2>1, <2>2, <3>1, <3>3, <3>4, <4>1, Zenon DEF Typed
    <3>6. /\ \A x \in 1 .. cursor - 1 : Was[x] < call.id
          /\ \A x \in cursor .. Len0 : Was[x] > call.id
      <4>1. ~(cursor \in 1 .. Len0 /\ Was[cursor] = call.id)
        BY <2>4, <2>10
      <4>2. /\ \A x \in 1 .. cursor - 1 : Compared(Was[x]) > 0
            /\ \A x \in cursor .. Len0 : Compared(Was[x]) < 0
        BY <2>3, <4>1, Zenon DEF Located, Len0
      <4>3. \A x : Compared(x) = CMP(call.id, x)
        BY <2>3, Zenon DEF Compared
      <4> QED
        BY <2>4, <2>5, <2>7, <4>2, <4>3, SMTT(30) DEF CMP
    <3>7. /\ i' \in cursor .. Len0 + 1 /\ i' - 1 = Len0
          /\ \A x \in i' + 1 .. Len0 + 1 : FALSE
      BY <2>4, <2>7, <3>2
    <3>8. AtShift'
      BY <2>1, <2>3, <2>6, <2>7, <3>1, <3>2, <3>3, <3>4, <3>6, <3>7, Zenon DEF AtShift
    <3> QED
      BY <3>1, <3>5, <3>8, <1>ToShift, Zenon
  <2> QED
    BY <2>8, <2>9, <2>10, Zenon
\* The ids move up, and then the new one takes its place.
<1>ShiftInv. IInv /\ Shift => IInv'
  <2> SUFFICES ASSUME IInv, Shift PROVE IInv'
    BY Zenon
  <2>1. /\ pc = "shift"
        /\ call' = call /\ alloc' = alloc /\ base' = base /\ cursor' = cursor /\ val' = val
        /\ n' = n /\ j' = j /\ k' = k /\ l' = l /\ ir' = ir /\ istack' = istack /\ a' = a
    BY Zenon DEF Shift, search_vars, sort_vars
  <2>2. Typed /\ AtShift
    BY Zenon DEF IInv
  <2>3. /\ call.op = "mdb_mid2l_insert" /\ rc = 0
        /\ Len0 < alloc /\ ids[0] = Len0 + 1
        /\ cursor \in 1 .. Len0 + 1 /\ i \in cursor .. Len0 + 1
        /\ \A x \in 1 .. cursor - 1 : Was[x] < call.id
        /\ \A x \in cursor .. Len0 : Was[x] > call.id
        /\ \A x \in 1 .. i - 1 : ids[x] = Was[x]
        /\ \A x \in i + 1 .. Len0 + 1 : ids[x] = Was[x - 1]
    BY <2>1, <2>2, Zenon DEF AtShift
  <2>4. /\ call \in Calls /\ alloc \in Nat /\ ids \in [0 .. alloc -> Nat]
    BY <2>2, Zenon DEF Typed
  <2>5. /\ Len0 \in Nat /\ call.id \in Nat /\ \A x \in 1 .. Len0 : Was[x] \in Nat
    BY <2>4, CallFacts, ListFacts, Zenon
  <2>6. Len0' = Len0 /\ Was' = Was
    BY <2>1, Zenon DEF Len0, Was
  <2>7. CASE i > cursor
    <3>1. ids' = [ids EXCEPT ![i] = ids[i - 1]] /\ i' = i - 1 /\ pc' = "shift" /\ rc' = rc
      BY <2>7, Zenon DEF Shift, Goto
    <3>2. /\ ids' \in [0 .. alloc -> Nat] /\ ids'[0] = Len0 + 1
          /\ \A x \in 1 .. i - 2 : ids'[x] = Was[x]
          /\ \A x \in i .. Len0 + 1 : ids'[x] = Was[x - 1]
      <4>1. /\ i - 1 \in 1 .. Len0 /\ i - 1 \in 1 .. i - 1 /\ i \in 0 .. alloc /\ i - 1 \in 0 .. alloc
            /\ i # 0 /\ 0 \in 0 .. alloc /\ i \in Int
        BY <2>3, <2>4, <2>5, <2>7
      <4>2. ids[i - 1] = Was[i - 1] /\ ids[i - 1] \in Nat
        BY <2>3, <2>4, <4>1, Zenon
      <4>3. /\ ids' \in [0 .. alloc -> Nat] /\ ids'[i] = Was[i - 1]
            /\ \A x \in 0 .. alloc : x # i => ids'[x] = ids[x]
        BY <2>4, <3>1, <4>1, <4>2, Zenon
      <4>4. ASSUME NEW x \in i .. Len0 + 1 PROVE ids'[x] = Was[x - 1]
        <5>1. x = i \/ (x # i /\ x \in i + 1 .. Len0 + 1 /\ x \in 0 .. alloc)
          BY <2>3, <2>4, <2>5, <4>1
        <5> QED
          BY <2>3, <4>3, <5>1, Zenon
      <4>5. ASSUME NEW x \in 1 .. i - 2 PROVE ids'[x] = Was[x]
        BY <2>3, <2>4, <2>5, <4>1, <4>3
      <4> QED
        BY <2>3, <4>1, <4>3, <4>4, <4>5, Zenon
    <3>3. i' \in cursor .. Len0 + 1 /\ i' \in Int /\ i' - 1 = i - 2 /\ i' + 1 = i
      BY <2>3, <2>5, <2>7, <3>1
    <3>4. Typed'
      <4>1. pc' \in Labels /\ pc' \notin Sorting /\ pc \notin Sorting
        BY <2>1, <3>1, Zenon DEF Labels, Sorting
      <4> QED
        BY <2>1, <2>2, <2>3, <3>1, <3>2, <3>3, <4>1, Zenon DEF Typed
    <3>5. AtShift'
      BY <2>1, <2>3, <2>6, <3>1, <3>2, <3>3, ZenonT(60) DEF AtShift
    <3> QED
      BY <3>1, <3>4, <3>5, <1>ToShift, Zenon
  <2>8. CASE ~(i > cursor)
    <3>1. ids' = [ids EXCEPT ![cursor] = call.id] /\ i' = i /\ pc' = "return" /\ rc' = 0
      BY <2>8, Zenon DEF Shift, Return
    <3>2. i = cursor
      BY <2>3, <2>5, <2>8
    <3>3. /\ ids' \in [0 .. alloc -> Nat] /\ ids'[0] = Len0 + 1
          /\ \A x \in 1 .. cursor - 1 : ids'[x] = Was[x]
          /\ ids'[cursor] = call.id
          /\ \A x \in cursor + 1 .. Len0 + 1 : ids'[x] = Was[x - 1]
      BY <2>3, <2>4, <2>5, <3>1, <3>2
    <3>4. Typed'
      <4>1. pc' \in Labels /\ pc' \notin Sorting /\ pc \notin Sorting /\ rc' \in Int
        BY <2>1, <3>1 DEF Labels, Sorting
      <4> QED
        BY <2>1, <2>2, <3>1, <3>3, <4>1, Zenon DEF Typed
    <3>5. \A x, y \in 1 .. Len0 : x < y => Was[x] < Was[y]
      BY <2>3, <2>4, CallFacts, Zenon DEF Contract, Ascending, Was, Len0
    <3>6. \A x, y \in 1 .. Len0 + 1 : x < y => ids'[x] < ids'[y]
      <4> SUFFICES ASSUME NEW x \in 1 .. Len0 + 1, NEW y \in 1 .. Len0 + 1, x < y
                   PROVE  ids'[x] < ids'[y]
        BY Zenon
      <4>1. CASE y < cursor
        BY <2>3, <2>5, <3>3, <3>5, <4>1
      <4>2. CASE y = cursor
        BY <2>3, <2>5, <3>3, <3>5, <4>2
      <4>3. CASE y > cursor
        <5>1. y - 1 \in cursor .. Len0 /\ ids'[y] = Was[y - 1]
          BY <2>3, <2>5, <3>3, <4>3
        <5>2. CASE x < cursor
          BY <2>3, <2>5, <3>3, <3>5, <5>1, <5>2, SMTT(30)
        <5>3. CASE x = cursor
          BY <2>3, <2>5, <3>3, <3>5, <5>1, <5>3, Zenon
        <5>4. CASE x > cursor
          BY <2>3, <2>5, <3>3, <3>5, <5>1, <5>4, SMTT(30)
        <5> QED
          BY <2>3, <5>2, <5>3, <5>4
      <4> QED
        BY <2>3, <4>1, <4>2, <4>3
    <3>7. {ids'[x] : x \in 1 .. Len0 + 1} = {Was[x] : x \in 1 .. Len0} \cup {call.id}
      <4>1. ASSUME NEW x \in 1 .. Len0 + 1
            PROVE  ids'[x] \in {Was[y] : y \in 1 .. Len0} \cup {call.id}
        <5>1. CASE x < cursor
          BY <2>3, <2>5, <3>3, <5>1
        <5>2. CASE x = cursor
          BY <3>3, <5>2, Zenon
        <5>3. CASE x > cursor
          <6>1. x - 1 \in 1 .. Len0 /\ ids'[x] = Was[x - 1]
            BY <2>3, <2>5, <3>3, <5>3
          <6> QED
            BY <6>1, Zenon
        <5> QED
          BY <2>3, <5>1, <5>2, <5>3
      <4>2. call.id \in {ids'[x] : x \in 1 .. Len0 + 1}
        BY <2>3, <3>3, Zenon
      <4>3. ASSUME NEW y \in 1 .. Len0
            PROVE  Was[y] \in {ids'[x] : x \in 1 .. Len0 + 1}
        <5>1. CASE y < cursor
          <6>1. y \in 1 .. Len0 + 1 /\ ids'[y] = Was[y]
            BY <2>3, <2>5, <3>3, <5>1
          <6> QED
            BY <6>1, Zenon
        <5>2. CASE ~(y < cursor)
          <6>1. y + 1 \in cursor + 1 .. Len0 + 1 /\ y + 1 \in 1 .. Len0 + 1 /\ (y + 1) - 1 = y
            BY <2>3, <2>5, <5>2
          <6>2. ids'[y + 1] = Was[y]
            BY <3>3, <6>1, Zenon
          <6> QED
            BY <6>1, <6>2, Zenon
        <5> QED
          BY <5>1, <5>2, Zenon
      <4> QED
        BY <4>1, <4>2, <4>3, Zenon
    <3>8. InsertRight'
      <4>1. Len(Was)' = Len0 /\ call'.id = call.id /\ rc' = 0
        BY <2>1, <2>6, <3>1, Zenon DEF Len0
      <4>2. Ascending(ids', ids'[0])
        BY <3>3, <3>6, Zenon DEF Ascending
      <4>3. {ids'[x] : x \in 1 .. ids'[0]} = {Was'[x] : x \in 1 .. Len(Was)'} \cup {call'.id}
        <5>1. ids'[0] = Len0 + 1 /\ Was' = Was
          BY <2>6, <3>3, Zenon
        <5>2. Len(Was)' = Len0 /\ call'.id = call.id
          BY <4>1, Zenon
        <5>3. {ids'[x] : x \in 1 .. ids'[0]} = {ids'[x] : x \in 1 .. Len0 + 1}
          BY <5>1, Zenon
        <5>4. {Was'[x] : x \in 1 .. Len(Was)'} = {Was[x] : x \in 1 .. Len0}
          BY <5>1, <5>2, Zenon
        <5> QED
          BY <3>7, <5>2, <5>3, <5>4, Zenon
      <4> QED
        BY <3>3, <4>1, <4>2, <4>3, Zenon DEF InsertRight, Ascending
    <3>9. Fits'
      <4>1. ids'[0] <= alloc'
        BY <2>1, <2>3, <2>4, <2>5, <3>3
      <4> QED
        BY <4>1, Zenon DEF Fits
    <3> QED
      BY <2>1, <2>3, <3>1, <3>4, <3>8, <3>9, <1>ReturnInsert, Zenon
  <2> QED
    BY <2>7, <2>8, Zenon
<1> QED
  BY <1>StartSearchInv, <1>SearchInv, <1>SearchEndsInv, <1>InsertInv, <1>ShiftInv, Zenon

-----------------------------------------------------------------------------
(* Growing *)

Appends == {"mdb_midl_append", "mdb_mid2l_append", "mdb_midl_append_list",
            "mdb_midl_append_range", "mdb_midl_need"}

\* The invariant at label xappend.
LEMMA ToXappend ==
    Typed' /\ pc' = "xappend" /\ AtXappend' => IInv'
BY Zenon DEF IInv, AtStart, AtSearch, AtInsert, AtShift, AtAppend, AtMemcpy, AtRange, AtFill,
   AtMerge, AtSorting, AtInsertion, AtSlide, AtUp, AtDown, AtCross,
   SearchesRight, InsertRight, AppendsRight, MergeRight, SortRight, Done, Fits,
   Results, Ops, Sorting

\* What is returned by a function that appends.
LEMMA ReturnAppend ==
    Typed' /\ pc' = "return" /\ call'.op \in Appends /\ Fits' /\ AppendsRight' => IInv'
<1> SUFFICES ASSUME Typed', pc' = "return", Fits', AppendsRight', call'.op \in Appends
             PROVE  IInv'
  BY Zenon
<1>1. Results'
  BY Zenon DEF Results, SearchesRight, InsertRight, MergeRight, SortRight, Done, Appends
<1> QED
  BY <1>1, ToReturn, Zenon

\* What the concatenation of two lists holds.
LEMMA ConcatFacts ==
    ASSUME NEW S, NEW s \in Seq(S), NEW t \in Seq(S), NEW x \in 1 .. Len(s) + Len(t)
    PROVE  (s \o t)[x] = IF x <= Len(s) THEN s[x] ELSE t[x - Len(s)]
OBVIOUS

\* The same for the two lists of a call.
LEMMA BothFacts ==
    ASSUME call \in Calls
    PROVE  /\ \A x \in 1 .. Len0 : (Was \o call.merge)[x] = Was[x]
           /\ \A x \in 1 .. More : (Was \o call.merge)[Len0 + x] = call.merge[x]
<1>1. Was \in Seq(MDB_ID) /\ call.merge \in Seq(MDB_ID) /\ Len0 \in Nat /\ More \in Nat
  BY CallFacts, Zenon
<1>2. \A x \in 1 .. Len0 + More :
         (Was \o call.merge)[x] = IF x <= Len0 THEN Was[x] ELSE call.merge[x - Len0]
  BY <1>1, ConcatFacts, Zenon DEF Len0, More
<1>3. ASSUME NEW x \in 1 .. Len0 PROVE (Was \o call.merge)[x] = Was[x]
  <2>1. x \in 1 .. Len0 + More /\ x <= Len0
    BY <1>1
  <2> QED
    BY <1>2, <2>1, Zenon
<1>4. ASSUME NEW x \in 1 .. More PROVE (Was \o call.merge)[Len0 + x] = call.merge[x]
  <2>1. Len0 + x \in 1 .. Len0 + More /\ ~(Len0 + x <= Len0) /\ (Len0 + x) - Len0 = x
    BY <1>1
  <2> QED
    BY <1>2, <2>1, Zenon
<1> QED
  BY <1>3, <1>4, Zenon

\* Room is made for the ids that are appended.
LEMMA GrowingInv ==
    /\ (IInv /\ mdb_midl_append => IInv')
    /\ (IInv /\ mdb_midl_append_list => IInv')
    /\ (IInv /\ mdb_midl_append_range => IInv')
    /\ (IInv /\ mdb_midl_need => IInv')
    /\ (IInv /\ mdb_mid2l_append => IInv')
    /\ (IInv /\ mdb_midl_alloc => IInv')
    /\ (IInv /\ mdb_midl_shrink => IInv')
\* The invariant at label append.
<1>ToAppend.
    Typed' /\ pc' = "append" /\ AtAppend' => IInv'
  BY Zenon DEF IInv, AtStart, AtSearch, AtInsert, AtShift, AtMemcpy, AtRange, AtFill,
     AtXappend, AtMerge, AtSorting, AtInsertion, AtSlide, AtUp, AtDown, AtCross,
     SearchesRight, InsertRight, AppendsRight, MergeRight, SortRight, Done, Fits,
     Results, Ops, Sorting
\* The invariant at label memcpy.
<1>ToMemcpy.
    Typed' /\ pc' = "memcpy" /\ AtMemcpy' => IInv'
  BY Zenon DEF IInv, AtStart, AtSearch, AtInsert, AtShift, AtAppend, AtRange, AtFill,
     AtXappend, AtMerge, AtSorting, AtInsertion, AtSlide, AtUp, AtDown, AtCross,
     SearchesRight, InsertRight, AppendsRight, MergeRight, SortRight, Done, Fits,
     Results, Ops, Sorting
\* The invariant at label range.
<1>ToRange.
    Typed' /\ pc' = "range" /\ AtRange' => IInv'
  BY Zenon DEF IInv, AtStart, AtSearch, AtInsert, AtShift, AtAppend, AtMemcpy, AtFill,
     AtXappend, AtMerge, AtSorting, AtInsertion, AtSlide, AtUp, AtDown, AtCross,
     SearchesRight, InsertRight, AppendsRight, MergeRight, SortRight, Done, Fits,
     Results, Ops, Sorting
\* When there is no memory the list is as it was.
<1>ReturnENOMEM.
    /\ Typed' /\ pc' = "return" /\ rc' = ENOMEM /\ Fresh'
    /\ call'.op \in Appends \ {"mdb_mid2l_append"}
    => IInv'
  <2> SUFFICES ASSUME Typed', pc' = "return", rc' = ENOMEM, Fresh',
                      call'.op \in Appends \ {"mdb_mid2l_append"}
               PROVE  IInv'
    BY Zenon
  <2>1. rc' # 0
    BY DEF ENOMEM
  <2>2. Holds(Was, Len(Was))' /\ (ids[0] <= alloc)'
    BY Zenon DEF Fresh, Len0, Holds
  <2>3. AppendsRight' /\ Fits'
    BY <2>1, <2>2, Zenon DEF AppendsRight, Fits
  <2> QED
    BY <2>3, ReturnAppend, Zenon
\* realloc keeps the cells that are in both arrays.
<1>ReallocFacts.
    ASSUME Typed, NEW size \in Nat, Realloc(size)
    PROVE  /\ alloc' = size /\ ids' \in [0 .. size -> Nat]
           /\ \A x \in 0 .. size : x <= alloc => ids'[x] = ids[x]
  <2> USE <1>ReallocFacts
  <2>1. alloc \in Nat /\ ids \in [0 .. alloc -> Nat]
    BY Zenon DEF Typed
  <2>2. alloc' = size /\ ids' = [x \in 0 .. size |-> IF x <= alloc THEN ids[x] ELSE 0]
    BY Zenon DEF Realloc
  <2>3. ASSUME NEW x \in 0 .. size PROVE (IF x <= alloc THEN ids[x] ELSE 0) \in Nat
    BY <2>1
  <2> QED
    BY <2>2, <2>3, Zenon
\* A list that is reallocated larger, or not at all, keeps its ids.
<1>ResizedFacts.
    ASSUME Typed, Fresh, NEW short, NEW size \in Nat, NEW label,
           short => size >= alloc, Resized(short, size, label), call' = call, rc = 0
    PROVE  /\ Fresh' /\ alloc' \in Nat /\ ids' \in [0 .. alloc' -> Nat] /\ rc' \in Int
           /\ \/ pc' = label /\ rc' = 0 /\ ~short /\ alloc' = alloc
              \/ pc' = label /\ rc' = 0 /\ short /\ alloc' = size
              \/ pc' = "return" /\ rc' = ENOMEM
  <2> USE <1>ResizedFacts
  <2>1. /\ ids[0] = Len0 /\ Len0 \in Nat /\ Len0 <= alloc /\ alloc \in Nat
        /\ ids \in [0 .. alloc -> Nat] /\ \A x \in 1 .. Len0 : ids[x] = Was[x]
        /\ call.alloc <= alloc /\ call.alloc \in Nat
    BY FreshFacts, Zenon
  <2>2. Len0' = Len0 /\ Was' = Was
    BY Zenon DEF Len0, Was
  <2>3. 0 \in Int /\ ENOMEM \in Int
    BY DEF ENOMEM
  <2>4. CASE ~short /\ Goto(label) /\ UNCHANGED <<alloc, ids>>
    BY <2>1, <2>2, <2>3, <2>4, Zenon DEF Goto, Fresh, Holds
  <2>5. CASE short /\ Return(ENOMEM) /\ UNCHANGED <<alloc, ids>>
    BY <2>1, <2>2, <2>3, <2>5, Zenon DEF Return, Fresh, Holds
  <2>6. CASE short /\ Realloc(size) /\ Goto(label)
    <3>1. /\ alloc' = size /\ ids' \in [0 .. size -> Nat]
          /\ \A x \in 0 .. size : x <= alloc => ids'[x] = ids[x]
      BY <2>6, <1>ReallocFacts, Zenon
    <3>2. /\ ids'[0] = Len0 /\ Len0 <= size /\ call.alloc <= size
          /\ \A x \in 1 .. Len0 : ids'[x] = Was[x]
      BY <2>1, <2>6, <3>1
    <3> QED
      BY <2>2, <2>3, <2>6, <3>1, <3>2, Zenon DEF Goto, Fresh, Holds
  <2> QED
    BY <2>4, <2>5, <2>6, Zenon DEF Resized
\* The rest of the types follows from what the append functions leave alone.
<1>TypedResized.
    ASSUME Typed, alloc' \in Nat, ids' \in [0 .. alloc' -> Nat], rc' \in Int,
           pc \in Ops, pc' \in Labels, rc' = 0 \/ pc' = "return",
           call' = call, n' \in Int, a' \in Int, base' \in Nat,
           UNCHANGED <<cursor, val, i, j, k, sort_vars>>
    PROVE  Typed'
  <2> USE <1>TypedResized
  <2>1. pc' \notin Sorting /\ pc \notin Sorting
    BY Zenon DEF Labels, Ops, Sorting
  <2>2. /\ cursor' = cursor /\ val' = val /\ i' = i /\ j' = j /\ k' = k /\ l' = l /\ ir' = ir
        /\ istack' = istack
    BY Zenon DEF sort_vars
  <2> QED
    BY <2>1, <2>2, Zenon DEF Typed
\* The array a resized list of num more ids asks for has room for them.
<1>NeedFacts.
    ASSUME NEW num \in Nat
    PROVE  /\ 256 * ((num + num \div 4 + 258) \div 256) - 2 \in Nat
           /\ 256 * ((num + num \div 4 + 258) \div 256) - 2 >= num
  <2> USE <1>NeedFacts
  <2> DEFINE m == num + num \div 4 + 258
             q == m \div 256
  <2>1. m \in Nat /\ m >= num + 258
    OBVIOUS
  <2> HIDE DEF m
  <2>2. q \in Nat /\ 256 * q > m - 256
    BY <2>1
  <2> HIDE DEF q
  <2>3. 256 * q - 2 \in Nat /\ 256 * q - 2 >= num
    BY <2>1, <2>2
  <2> QED
    BY <2>3, Zenon DEF m, q
\* mdb_midl_append makes room for one id.
<1>AppendInv. IInv /\ mdb_midl_append => IInv'
  <2> SUFFICES ASSUME IInv, mdb_midl_append PROVE IInv'
    BY Zenon
  <2>1. /\ pc = "mdb_midl_append" /\ call' = call /\ n' = n /\ a' = a /\ base' = base
        /\ UNCHANGED <<cursor, val, i, j, k, sort_vars>>
        /\ Resized(ids[0] >= alloc, alloc + UM_MAX, "append")
    BY Zenon DEF mdb_midl_append, search_vars, mdb_midl_grow
  <2>2. pc \in Ops
    BY <2>1, Zenon DEF Ops
  <2>3. /\ Typed /\ Fresh /\ rc = 0 /\ pc = call.op /\ call \in Calls
        /\ ids[0] = Len0 /\ Len0 \in Nat /\ Len0 <= alloc /\ alloc \in Nat
        /\ n \in Int /\ a \in Int /\ base \in Nat
    BY <2>2, StartFacts, Zenon
  <2>4. alloc + UM_MAX \in Nat /\ alloc + UM_MAX >= alloc /\ alloc + UM_MAX > Len0
    BY <2>3, BoundsAssumption
  <2>5. /\ Fresh' /\ alloc' \in Nat /\ ids' \in [0 .. alloc' -> Nat] /\ rc' \in Int
        /\ \/ pc' = "append" /\ rc' = 0 /\ ~(ids[0] >= alloc) /\ alloc' = alloc
           \/ pc' = "append" /\ rc' = 0 /\ ids[0] >= alloc /\ alloc' = alloc + UM_MAX
           \/ pc' = "return" /\ rc' = ENOMEM
    BY <2>1, <2>3, <2>4, <1>ResizedFacts, Zenon
  <2>6. Typed'
    <3>1. pc' \in Labels
      BY <2>5, Zenon DEF Labels
    <3> QED
      BY <2>1, <2>2, <2>3, <2>5, <3>1, <1>TypedResized, Zenon
  <2>7. Len0' = Len0
    BY <2>1, Zenon DEF Len0, Was
  <2>8. CASE pc' = "append"
    <3>1. Len0 < alloc'
      BY <2>3, <2>4, <2>5, <2>8
    <3>2. AtAppend'
      BY <2>1, <2>3, <2>5, <2>7, <3>1, Zenon DEF AtAppend
    <3> QED
      BY <2>6, <2>8, <3>2, <1>ToAppend, Zenon
  <2>9. CASE pc' = "return"
    <3>1. call'.op \in Appends \ {"mdb_mid2l_append"} /\ "append" # "return"
      BY <2>1, <2>3, Zenon DEF Appends
    <3> QED
      BY <2>5, <2>6, <2>9, <3>1, <1>ReturnENOMEM, Zenon
  <2> QED
    BY <2>5, <2>8, <2>9, Zenon
\* mdb_midl_append_list makes room for the ids of the other list.
<1>AppendListInv. IInv /\ mdb_midl_append_list => IInv'
  <2> SUFFICES ASSUME IInv, mdb_midl_append_list PROVE IInv'
    BY Zenon
  <2>1. /\ pc = "mdb_midl_append_list" /\ call' = call /\ n' = n /\ a' = a /\ base' = base
        /\ UNCHANGED <<cursor, val, i, j, k, sort_vars>>
        /\ Resized(ids[0] + More >= alloc, alloc + More, "memcpy")
    BY Zenon DEF mdb_midl_append_list, search_vars, mdb_midl_grow, More
  <2>2. pc \in Ops
    BY <2>1, Zenon DEF Ops
  <2>3. /\ Typed /\ Fresh /\ rc = 0 /\ pc = call.op /\ call \in Calls
        /\ ids[0] = Len0 /\ Len0 \in Nat /\ Len0 <= alloc /\ alloc \in Nat
        /\ n \in Int /\ a \in Int /\ base \in Nat /\ More \in Nat
    BY <2>2, StartFacts, Zenon
  <2>4. alloc + More \in Nat /\ alloc + More >= alloc /\ alloc + More >= Len0 + More
    BY <2>3
  <2>5. /\ Fresh' /\ alloc' \in Nat /\ ids' \in [0 .. alloc' -> Nat] /\ rc' \in Int
        /\ \/ pc' = "memcpy" /\ rc' = 0 /\ ~(ids[0] + More >= alloc) /\ alloc' = alloc
           \/ pc' = "memcpy" /\ rc' = 0 /\ ids[0] + More >= alloc /\ alloc' = alloc + More
           \/ pc' = "return" /\ rc' = ENOMEM
    BY <2>1, <2>3, <2>4, <1>ResizedFacts, Zenon
  <2>6. Typed'
    <3>1. pc' \in Labels
      BY <2>5, Zenon DEF Labels
    <3> QED
      BY <2>1, <2>2, <2>3, <2>5, <3>1, <1>TypedResized, Zenon
  <2>7. Len0' = Len0 /\ More' = More
    BY <2>1, Zenon DEF Len0, Was, More
  <2>8. CASE pc' = "memcpy"
    <3>1. Len0 + More <= alloc'
      BY <2>3, <2>4, <2>5, <2>8
    <3>2. AtMemcpy'
      BY <2>1, <2>3, <2>5, <2>7, <3>1, Zenon DEF AtMemcpy
    <3> QED
      BY <2>6, <2>8, <3>2, <1>ToMemcpy, Zenon
  <2>9. CASE pc' = "return"
    <3>1. call'.op \in Appends \ {"mdb_mid2l_append"}
      BY <2>1, <2>3, Zenon DEF Appends
    <3> QED
      BY <2>5, <2>6, <2>9, <3>1, <1>ReturnENOMEM, Zenon
  <2> QED
    BY <2>5, <2>8, <2>9, Zenon
\* mdb_midl_append_range makes room for the range.
<1>AppendRangeInv. IInv /\ mdb_midl_append_range => IInv'
  <2> SUFFICES ASSUME IInv, mdb_midl_append_range PROVE IInv'
    BY Zenon
  <2> DEFINE more == OrUmMax(call.num)
  <2>1. /\ pc = "mdb_midl_append_range" /\ call' = call
        /\ n' = call.num /\ a' = call.id /\ base' = ids[0]
        /\ UNCHANGED <<cursor, val, i, j, k, sort_vars>>
        /\ Resized(ids[0] + call.num > alloc, alloc + more, "range")
    BY Zenon DEF mdb_midl_append_range, search_vars, mdb_midl_grow
  <2>2. pc \in Ops
    BY <2>1, Zenon DEF Ops
  <2>3. /\ Typed /\ Fresh /\ rc = 0 /\ pc = call.op /\ call \in Calls
        /\ ids[0] = Len0 /\ Len0 \in Nat /\ Len0 <= alloc /\ alloc \in Nat
        /\ call.num \in Nat /\ call.id \in Nat
    BY <2>2, StartFacts, Zenon
  <2>4. more \in Nat /\ more >= call.num
    <3> DEFINE low == call.num % (UM_MAX + 1)
    <3>1. call.num \in Nat /\ UM_MAX \in Nat /\ UM_MAX + 1 \in Nat /\ UM_MAX + 1 > 0
      BY <2>3, BoundsAssumption
    <3>2. low \in 0 .. UM_MAX
      BY <3>1
    <3>3. low <= call.num
      BY <3>1
    <3> HIDE DEF low
    <3>4. call.num - low + UM_MAX \in Nat /\ call.num - low + UM_MAX >= call.num
      BY <3>1, <3>2, <3>3
    <3> QED
      BY <3>4, Zenon DEF OrUmMax, low
  <2> HIDE DEF more
  <2>5. alloc + more \in Nat /\ alloc + more >= alloc /\ alloc + more >= Len0 + call.num
        /\ call.num \in Int /\ call.id \in Int
    BY <2>3, <2>4
  <2>6. /\ Fresh' /\ alloc' \in Nat /\ ids' \in [0 .. alloc' -> Nat] /\ rc' \in Int
        /\ \/ pc' = "range" /\ rc' = 0 /\ ~(ids[0] + call.num > alloc) /\ alloc' = alloc
           \/ pc' = "range" /\ rc' = 0 /\ ids[0] + call.num > alloc /\ alloc' = alloc + more
           \/ pc' = "return" /\ rc' = ENOMEM
    BY <2>1, <2>3, <2>5, <1>ResizedFacts, Zenon
  <2>7. Typed'
    <3>1. pc' \in Labels /\ n' \in Int /\ a' \in Int /\ base' \in Nat /\ (rc' = 0 \/ pc' = "return")
      BY <2>1, <2>3, <2>5, <2>6, Zenon DEF Labels
    <3> QED
      BY <2>1, <2>2, <2>3, <2>6, <3>1, <1>TypedResized, Zenon
  <2>8. Len0' = Len0
    BY <2>1, Zenon DEF Len0, Was
  <2>9. CASE pc' = "range"
    <3>1. Len0 + call.num <= alloc'
      BY <2>3, <2>5, <2>6, <2>9
    <3>2. AtRange'
      BY <2>1, <2>3, <2>6, <2>8, <3>1, Zenon DEF AtRange
    <3> QED
      BY <2>7, <2>9, <3>2, <1>ToRange, Zenon
  <2>10. CASE pc' = "return"
    <3>1. call'.op \in Appends \ {"mdb_mid2l_append"}
      BY <2>1, <2>3, Zenon DEF Appends
    <3> QED
      BY <2>6, <2>7, <2>10, <3>1, <1>ReturnENOMEM, Zenon
  <2> QED
    BY <2>6, <2>9, <2>10, Zenon
\* mdb_midl_need makes room for num ids.
<1>NeedInv. IInv /\ mdb_midl_need => IInv'
  <2> SUFFICES ASSUME IInv, mdb_midl_need PROVE IInv'
    BY Zenon
  <2> DEFINE num == call.num + ids[0]
             size == 256 * ((num + num \div 4 + 258) \div 256) - 2
  <2>1. /\ pc = "mdb_midl_need" /\ call' = call
        /\ n' = call.num /\ a' = a /\ base' = base
        /\ UNCHANGED <<cursor, val, i, j, k, sort_vars>>
        /\ Resized(num > alloc, size, "xappend")
    BY Zenon DEF mdb_midl_need, search_vars
  <2>2. pc \in Ops
    BY <2>1, Zenon DEF Ops
  <2>3. /\ Typed /\ Fresh /\ rc = 0 /\ pc = call.op /\ call \in Calls
        /\ ids[0] = Len0 /\ Len0 \in Nat /\ Len0 <= alloc /\ alloc \in Nat
        /\ call.num \in Nat /\ a \in Int /\ base \in Nat
    BY <2>2, StartFacts, Zenon
  <2>4. num \in Nat /\ num = Len0 + call.num
    BY <2>3
  <2>5. size \in Nat /\ size >= num
    BY <2>4, <1>NeedFacts, ZenonT(60)
  <2> HIDE DEF num, size
  <2>6. /\ num > alloc => size >= alloc
        /\ call.num \in Int
    BY <2>3, <2>4, <2>5
  <2>7. /\ Fresh' /\ alloc' \in Nat /\ ids' \in [0 .. alloc' -> Nat] /\ rc' \in Int
        /\ \/ pc' = "xappend" /\ rc' = 0 /\ ~(num > alloc) /\ alloc' = alloc
           \/ pc' = "xappend" /\ rc' = 0 /\ num > alloc /\ alloc' = size
           \/ pc' = "return" /\ rc' = ENOMEM
    BY <2>1, <2>3, <2>5, <2>6, <1>ResizedFacts, Zenon
  <2>8. Typed'
    <3>1. pc' \in Labels /\ n' \in Int /\ a' \in Int /\ base' \in Nat /\ (rc' = 0 \/ pc' = "return")
      BY <2>1, <2>3, <2>6, <2>7, Zenon DEF Labels
    <3> QED
      BY <2>1, <2>2, <2>3, <2>7, <3>1, <1>TypedResized, Zenon
  <2>9. Len0' = Len0 /\ Was' = Was
    BY <2>1, Zenon DEF Len0, Was
  <2>10. CASE pc' = "xappend"
    <3>1. Len0 + call.num <= alloc' /\ n' \in 0 .. call.num /\ Len0 + call.num - n' = Len0
      BY <2>1, <2>3, <2>4, <2>5, <2>7, <2>10, SMTT(30)
    <3>2. ids'[0] = Len0 /\ \A x \in 1 .. Len0 : ids'[x] = Was[x]
      BY <2>7, <2>9, Zenon DEF Fresh, Holds
    <3>3. \A x \in 1 .. Len0 : ids'[x] = (Was \o call.merge)[x]
      BY <2>3, <3>2, BothFacts, Zenon
    <3>4. Holds(Was \o call.merge, Len0 + call.num - n)'
      BY <2>1, <2>9, <3>1, <3>2, <3>3, Zenon DEF Holds
    <3>5. AtXappend'
      BY <2>1, <2>3, <2>7, <2>9, <3>1, <3>4, Zenon DEF AtXappend
    <3> QED
      BY <2>8, <2>10, <3>5, ToXappend, Zenon
  <2>11. CASE pc' = "return"
    <3>1. call'.op \in Appends \ {"mdb_mid2l_append"}
      BY <2>1, <2>3, Zenon DEF Appends
    <3> QED
      BY <2>7, <2>8, <2>11, <3>1, <1>ReturnENOMEM, Zenon
  <2> QED
    BY <2>7, <2>10, <2>11, Zenon
\* mdb_mid2l_append has UM_MAX cells, no more.
<1>Mid2lAppendInv. IInv /\ mdb_mid2l_append => IInv'
  <2> SUFFICES ASSUME IInv, mdb_mid2l_append PROVE IInv'
    BY Zenon
  <2>1. /\ pc = "mdb_mid2l_append" /\ call' = call /\ n' = n /\ a' = a /\ base' = base
        /\ UNCHANGED <<cursor, val, i, j, k, sort_vars>> /\ alloc' = alloc /\ ids' = ids
        /\ \/ ids[0] >= UM_MAX /\ pc' = "return" /\ rc' = -2
           \/ ~(ids[0] >= UM_MAX) /\ pc' = "append" /\ rc' = rc
    BY Zenon DEF mdb_mid2l_append, search_vars, Return, Goto
  <2>2. pc \in Ops
    BY <2>1, Zenon DEF Ops
  <2>3. /\ Typed /\ Fresh /\ rc = 0 /\ pc = call.op /\ call \in Calls
        /\ ids[0] = Len0 /\ Len0 \in Nat /\ Len0 <= alloc /\ alloc \in Nat
        /\ call.alloc <= alloc /\ call.alloc \in Nat
        /\ n \in Int /\ a \in Int /\ base \in Nat
    BY <2>2, StartFacts, Zenon
  <2>4. call.alloc = UM_MAX /\ Len0 <= call.alloc
    BY <2>1, <2>3, CallFacts, Zenon DEF Contract
  <2>5. ids' \in [0 .. alloc' -> Nat] /\ alloc' \in Nat
    BY <2>1, <2>3, Zenon DEF Typed
  <2>6. Len0' = Len0 /\ Was' = Was /\ Len(Was) = Len0
    BY <2>1, Zenon DEF Len0, Was
  <2>7. Fresh'
    BY <2>1, <2>3, <2>6, Zenon DEF Fresh, Holds
  <2>8. Typed'
    <3>1. pc' \in Labels /\ rc' \in Int /\ (rc' = 0 \/ pc' = "return")
      BY <2>1, <2>3 DEF Labels
    <3> QED
      BY <2>1, <2>2, <2>3, <2>5, <3>1, <1>TypedResized, Zenon
  <2>9. CASE pc' = "append"
    <3>1. Len0 < alloc'
      BY <2>1, <2>3, <2>4, <2>9, BoundsAssumption, SMTT(30)
    <3>2. AtAppend'
      BY <2>1, <2>3, <2>6, <2>7, <3>1, Zenon DEF AtAppend
    <3> QED
      BY <2>8, <2>9, <3>2, <1>ToAppend, Zenon
  <2>10. CASE pc' = "return"
    <3>1. call'.op \in Appends
      BY <2>1, <2>3, Zenon DEF Appends
    <3>2. Len0 = UM_MAX /\ rc' # 0
      BY <2>1, <2>3, <2>4, <2>10, BoundsAssumption, SMTT(30)
    <3>3. AppendsRight' /\ Fits'
      BY <2>6, <2>7, <3>2, Zenon DEF AppendsRight, Fits, Fresh, Holds, Len0
    <3> QED
      BY <2>8, <2>10, <3>1, <3>3, ReturnAppend, Zenon
  <2> QED
    BY <2>1, <2>9, <2>10, Zenon
\* What is returned when an array is allocated or given back in part.
<1>ReturnOther.
    /\ Typed' /\ pc' = "return" /\ call'.op \in {"mdb_midl_alloc", "mdb_midl_shrink"} /\ Fits'
    => IInv'
  <2> SUFFICES ASSUME Typed', pc' = "return", Fits',
                      call'.op \in {"mdb_midl_alloc", "mdb_midl_shrink"}
               PROVE  IInv'
    BY Zenon
  <2>1. Results'
    BY Zenon DEF Results, SearchesRight, InsertRight, AppendsRight, MergeRight, SortRight, Done
  <2> QED
    BY <2>1, ToReturn, Zenon
\* mdb_midl_alloc makes an empty list.
<1>AllocInv. IInv /\ mdb_midl_alloc => IInv'
  <2> SUFFICES ASSUME IInv, mdb_midl_alloc PROVE IInv'
    BY Zenon
  <2>1. /\ pc = "mdb_midl_alloc" /\ pc' = "return" /\ call' = call /\ n' = n /\ a' = a /\ base' = base
        /\ UNCHANGED <<cursor, val, i, j, k, sort_vars>>
        /\ \/ Realloc(call.num) /\ rc' = 0
           \/ UNCHANGED <<alloc, ids>> /\ rc' = ENOMEM
    BY Zenon DEF mdb_midl_alloc, search_vars, Return
  <2>2. pc \in Ops
    BY <2>1, Zenon DEF Ops
  <2>3. /\ Typed /\ rc = 0 /\ pc = call.op /\ call \in Calls
        /\ ids[0] = Len0 /\ Len0 \in Nat /\ Len0 <= alloc /\ alloc \in Nat
        /\ call.num \in Nat /\ n \in Int /\ a \in Int /\ base \in Nat
    BY <2>2, StartFacts, Zenon
  <2>4. Len0 = 0
    <3>1. call.list = << >>
      BY <2>1, <2>3, CallsAssumption, Zenon DEF Contract
    <3> QED
      BY <3>1 DEF Len0, Was
  <2>5. alloc' \in Nat /\ ids' \in [0 .. alloc' -> Nat] /\ rc' \in Int /\ ids'[0] <= alloc'
    <3>1. 0 \in Int /\ ENOMEM \in Int
      BY DEF ENOMEM
    <3>2. CASE Realloc(call.num) /\ rc' = 0
      <4>1. /\ alloc' = call.num /\ ids' \in [0 .. call.num -> Nat]
            /\ \A x \in 0 .. call.num : x <= alloc => ids'[x] = ids[x]
        BY <2>3, <3>2, <1>ReallocFacts, Zenon
      <4>2. ids'[0] <= alloc'
        BY <2>3, <2>4, <4>1
      <4> QED
        BY <2>3, <3>1, <3>2, <4>1, <4>2, Zenon
    <3>3. CASE UNCHANGED <<alloc, ids>> /\ rc' = ENOMEM
      BY <2>3, <3>1, <3>3, Zenon DEF Typed
    <3> QED
      BY <2>1, <3>2, <3>3, Zenon
  <2>6. Typed' /\ Fits'
    <3>1. pc' \in Labels
      BY <2>1, Zenon DEF Labels
    <3>2. Typed'
      BY <2>1, <2>2, <2>3, <2>5, <3>1, <1>TypedResized, Zenon
    <3> QED
      BY <2>5, <3>2, Zenon DEF Fits
  <2> QED
    BY <2>1, <2>3, <2>6, <1>ReturnOther, Zenon
\* mdb_midl_shrink gives cells back.
<1>ShrinkInv. IInv /\ mdb_midl_shrink => IInv'
  <2> SUFFICES ASSUME IInv, mdb_midl_shrink PROVE IInv'
    BY Zenon
  <2>1. /\ pc = "mdb_midl_shrink" /\ pc' = "return" /\ call' = call /\ n' = n /\ a' = a /\ base' = base
        /\ UNCHANGED <<cursor, val, i, j, k, sort_vars>> /\ rc' = 0
        /\ Realloc(UM_MAX) \/ UNCHANGED <<alloc, ids>>
    BY Zenon DEF mdb_midl_shrink, search_vars, Return
  <2>2. pc \in Ops
    BY <2>1, Zenon DEF Ops
  <2>3. /\ Typed /\ rc = 0 /\ pc = call.op /\ n \in Int /\ a \in Int /\ base \in Nat
    BY <2>2, StartFacts, Zenon
  <2>4. alloc' \in Nat /\ ids' \in [0 .. alloc' -> Nat]
    <3>1. UM_MAX \in Nat
      BY BoundsAssumption, Zenon
    <3> QED
      BY <2>1, <2>3, <3>1, <1>ReallocFacts, Zenon DEF Typed
  <2>5. Typed' /\ Fits'
    <3>1. pc' \in Labels /\ rc' \in Int
      BY <2>1 DEF Labels
    <3>2. Typed'
      BY <2>1, <2>2, <2>3, <2>4, <3>1, <1>TypedResized, Zenon
    <3> QED
      BY <2>1, <2>3, <3>2, Zenon DEF Fits
  <2> QED
    BY <2>1, <2>3, <2>5, <1>ReturnOther, Zenon
<1> QED
  BY <1>AppendInv, <1>AppendListInv, <1>AppendRangeInv, <1>NeedInv, <1>Mid2lAppendInv, <1>AllocInv, <1>ShrinkInv, Zenon

\* The ids are appended.
LEMMA AppendingInv ==
    /\ (IInv /\ Append1 => IInv')
    /\ (IInv /\ AppendList => IInv')
    /\ (IInv /\ AppendRange => IInv')
    /\ (IInv /\ Fill => IInv')
    /\ (IInv /\ mdb_midl_xappend => IInv')
\* The invariant at label fill.
<1>ToFill.
    Typed' /\ pc' = "fill" /\ AtFill' => IInv'
  BY Zenon DEF IInv, AtStart, AtSearch, AtInsert, AtShift, AtAppend, AtMemcpy, AtRange,
     AtXappend, AtMerge, AtSorting, AtInsertion, AtSlide, AtUp, AtDown, AtCross,
     SearchesRight, InsertRight, AppendsRight, MergeRight, SortRight, Done, Fits,
     Results, Ops, Sorting
\* An id is appended.
<1>Append1Inv. IInv /\ Append1 => IInv'
  <2> SUFFICES ASSUME IInv, Append1 PROVE IInv'
    BY Zenon
  <2>1. /\ pc = "append" /\ pc' = "return" /\ rc' = 0
        /\ ids' = [ids EXCEPT ![0] = @ + 1, ![ids[0] + 1] = call.id]
        /\ call' = call /\ alloc' = alloc /\ base' = base /\ cursor' = cursor /\ val' = val
        /\ n' = n /\ i' = i /\ j' = j /\ k' = k /\ l' = l /\ ir' = ir /\ istack' = istack /\ a' = a
    BY Zenon DEF Append1, search_vars, sort_vars, Return
  <2>2. Typed /\ AtAppend
    BY Zenon DEF IInv
  <2>3. call.op \in {"mdb_midl_append", "mdb_mid2l_append"} /\ Fresh /\ Len0 < alloc
    BY <2>1, <2>2, Zenon DEF AtAppend
  <2>4. /\ ids[0] = Len0 /\ Len0 \in Nat /\ alloc \in Nat /\ call \in Calls
        /\ ids \in [0 .. alloc -> Nat] /\ \A x \in 1 .. Len0 : ids[x] = Was[x]
    BY <2>2, <2>3, FreshFacts, Zenon
  <2>5. call.id \in Nat /\ call.id \in MDB_ID /\ Was \in Seq(MDB_ID)
    <3>1. call.id \in MDB_ID
      BY <2>4, CallsAssumption, Zenon DEF Contract
    <3> QED
      BY <2>4, <3>1, CallFacts, Zenon
  <2>6. Len0' = Len0 /\ Was' = Was /\ Len(Was) = Len0
    BY <2>1, Zenon DEF Len0, Was
  <2>7. /\ ids' \in [0 .. alloc -> Nat] /\ ids'[0] = Len0 + 1 /\ ids'[Len0 + 1] = call.id
        /\ \A x \in 1 .. Len0 : ids'[x] = Was[x]
    <3>1. /\ 0 \in 0 .. alloc /\ Len0 + 1 \in 0 .. alloc /\ Len0 + 1 # 0 /\ Len0 + 1 \in Nat
          /\ \A x \in 1 .. Len0 : x \in 0 .. alloc /\ x # 0 /\ x # Len0 + 1
      BY <2>3, <2>4
    <3>2. ids' = [ids EXCEPT ![0] = Len0 + 1, ![Len0 + 1] = call.id]
      BY <2>1, <2>4, Zenon
    <3> QED
      BY <2>4, <2>5, <3>1, <3>2, Zenon
  <2>8. Typed'
    <3>1. pc' \in Labels /\ pc' \notin Sorting /\ pc \notin Sorting /\ rc' \in Int
      BY <2>1 DEF Labels, Sorting
    <3> QED
      BY <2>1, <2>2, <2>7, <3>1, Zenon DEF Typed
  <2>9. Appended' = <<call.id>>
    BY <2>1, <2>3, Zenon DEF Appended
  <2>10. <<call.id>> \in Seq(MDB_ID) /\ Len(<<call.id>>) = 1
    BY <2>5
  <2>11. \A x \in 1 .. Len0 + 1 : ids'[x] = (Was \o <<call.id>>)[x]
    <3> SUFFICES ASSUME NEW x \in 1 .. Len0 + 1 PROVE ids'[x] = (Was \o <<call.id>>)[x]
      BY Zenon
    <3>1. (Was \o <<call.id>>)[x] = IF x <= Len0 THEN Was[x] ELSE <<call.id>>[x - Len0]
      BY <2>5, <2>6, <2>10, ConcatFacts, Zenon
    <3>2. CASE x <= Len0
      <4>1. x \in 1 .. Len0
        BY <2>4, <3>2
      <4> QED
        BY <2>7, <3>1, <3>2, <4>1, Zenon
    <3>3. CASE ~(x <= Len0)
      <4>1. x = Len0 + 1 /\ x - Len0 = 1
        BY <2>4, <3>3
      <4>2. <<call.id>>[1] = call.id
        OBVIOUS
      <4> QED
        BY <2>7, <3>1, <3>3, <4>1, <4>2, Zenon
    <3> QED
      BY <3>2, <3>3, Zenon
  <2>12. AppendsRight'
    <3>1. Holds(Was \o Appended, Len(Was) + Len(Appended))'
      BY <2>6, <2>7, <2>9, <2>10, <2>11, Zenon DEF Holds
    <3> QED
      BY <2>1, <3>1, Zenon DEF AppendsRight
  <2>13. Fits'
    <3>1. ids'[0] <= alloc'
      BY <2>1, <2>3, <2>4, <2>7
    <3> QED
      BY <3>1, Zenon DEF Fits
  <2>14. call'.op \in Appends
    BY <2>1, <2>3, Zenon DEF Appends
  <2> QED
    BY <2>1, <2>8, <2>12, <2>13, <2>14, ReturnAppend, Zenon
\* A list is appended.
<1>MemcpyInv. IInv /\ AppendList => IInv'
  <2> SUFFICES ASSUME IInv, AppendList PROVE IInv'
    BY Zenon
  <2>1. /\ pc = "memcpy" /\ pc' = "return" /\ rc' = 0
        /\ ids' = [x \in DOMAIN ids |-> IF x = 0 THEN ids[0] + More
                                        ELSE IF x \in ids[0] + 1 .. ids[0] + More
                                        THEN call.merge[x - ids[0]] ELSE ids[x]]
        /\ call' = call /\ alloc' = alloc /\ base' = base /\ cursor' = cursor /\ val' = val
        /\ n' = n /\ i' = i /\ j' = j /\ k' = k /\ l' = l /\ ir' = ir /\ istack' = istack /\ a' = a
    BY Zenon DEF AppendList, search_vars, sort_vars, Return, More
  <2>2. Typed /\ AtMemcpy
    BY Zenon DEF IInv
  <2>3. call.op = "mdb_midl_append_list" /\ Fresh /\ Len0 + More <= alloc
    BY <2>1, <2>2, Zenon DEF AtMemcpy
  <2>4. /\ ids[0] = Len0 /\ Len0 \in Nat /\ alloc \in Nat /\ call \in Calls
        /\ ids \in [0 .. alloc -> Nat] /\ \A x \in 1 .. Len0 : ids[x] = Was[x]
    BY <2>2, <2>3, FreshFacts, Zenon
  <2>5. More \in Nat /\ \A x \in 1 .. More : call.merge[x] \in Nat
    BY <2>4, CallFacts, ListFacts, Zenon
  <2>6. Len0' = Len0 /\ Was' = Was /\ Len(Was) = Len0 /\ Len(call.merge) = More
    BY <2>1, Zenon DEF Len0, Was, More
  <2>7. /\ ids' \in [0 .. alloc -> Nat] /\ ids'[0] = Len0 + More
        /\ \A x \in 1 .. Len0 : ids'[x] = Was[x]
        /\ \A x \in 1 .. More : ids'[Len0 + x] = call.merge[x]
    <3>1. /\ DOMAIN ids = 0 .. alloc /\ 0 \in 0 .. alloc
          /\ \A x \in 0 .. alloc : ids[x] \in Nat
      BY <2>4
    <3>2. /\ DOMAIN ids' = 0 .. alloc
          /\ \A x \in 0 .. alloc : ids'[x] = IF x = 0 THEN Len0 + More
                                             ELSE IF x \in Len0 + 1 .. Len0 + More
                                             THEN call.merge[x - Len0] ELSE ids[x]
      BY <2>1, <2>4, <3>1, Zenon
    <3>3. ASSUME NEW x \in 0 .. alloc PROVE ids'[x] \in Nat
      <4>1. Len0 + More \in Nat /\ (x \in Len0 + 1 .. Len0 + More => x - Len0 \in 1 .. More)
        BY <2>4, <2>5
      <4> QED
        BY <2>5, <3>1, <3>2, <4>1, Zenon
    <3>4. ids' = [x \in 0 .. alloc |-> ids'[x]]
      BY <2>1, <3>1, Zenon
    <3>5. ids' \in [0 .. alloc -> Nat]
      BY <3>3, <3>4, Zenon
    <3>6. ASSUME NEW x \in 1 .. Len0 PROVE ids'[x] = Was[x]
      BY <2>3, <2>4, <2>5, <3>2, SMTT(30)
    <3>7. ASSUME NEW x \in 1 .. More PROVE ids'[Len0 + x] = call.merge[x]
      <4>1. /\ Len0 + x \in 0 .. alloc /\ Len0 + x # 0 /\ Len0 + x \in Len0 + 1 .. Len0 + More
            /\ (Len0 + x) - Len0 = x
        BY <2>3, <2>4, <2>5
      <4> QED
        BY <3>2, <4>1, Zenon
    <3> QED
      BY <3>1, <3>2, <3>5, <3>6, <3>7, Zenon
  <2>8. Typed'
    <3>1. pc' \in Labels /\ pc' \notin Sorting /\ pc \notin Sorting /\ rc' \in Int
      BY <2>1 DEF Labels, Sorting
    <3> QED
      BY <2>1, <2>2, <2>7, <3>1, Zenon DEF Typed
  <2>9. Appended' = call.merge
    BY <2>1, <2>3, Zenon DEF Appended
  <2>10. \A x \in 1 .. Len0 + More : ids'[x] = (Was \o call.merge)[x]
    <3> SUFFICES ASSUME NEW x \in 1 .. Len0 + More PROVE ids'[x] = (Was \o call.merge)[x]
      BY Zenon
    <3>1. CASE x <= Len0
      <4>1. x \in 1 .. Len0
        BY <2>4, <3>1
      <4> QED
        BY <2>4, <2>7, <4>1, BothFacts, Zenon
    <3>2. CASE ~(x <= Len0)
      <4>1. x - Len0 \in 1 .. More /\ x = Len0 + (x - Len0)
        BY <2>4, <2>5, <3>2
      <4>2. ids'[Len0 + (x - Len0)] = (Was \o call.merge)[Len0 + (x - Len0)]
        BY <2>4, <2>7, <4>1, BothFacts, ZenonT(60)
      <4> QED
        BY <4>1, <4>2, Zenon
    <3> QED
      BY <3>1, <3>2, Zenon
  <2>11. AppendsRight'
    <3>1. Holds(Was \o Appended, Len(Was) + Len(Appended))'
      BY <2>6, <2>7, <2>9, <2>10, Zenon DEF Holds
    <3> QED
      BY <2>1, <3>1, Zenon DEF AppendsRight
  <2>12. Fits'
    <3>1. ids'[0] <= alloc'
      BY <2>1, <2>3, <2>7, Zenon
    <3> QED
      BY <3>1, Zenon DEF Fits
  <2>13. call'.op \in Appends
    BY <2>1, <2>3, Zenon DEF Appends
  <2> QED
    BY <2>1, <2>8, <2>11, <2>12, <2>13, ReturnAppend, Zenon
\* The length of a list that a range is appended to.
<1>RangeInv. IInv /\ AppendRange => IInv'
  <2> SUFFICES ASSUME IInv, AppendRange PROVE IInv'
    BY Zenon
  <2>1. /\ pc = "range" /\ pc' = "fill" /\ rc' = rc /\ ids' = [ids EXCEPT ![0] = base + n]
        /\ call' = call /\ alloc' = alloc /\ base' = base /\ cursor' = cursor /\ val' = val
        /\ n' = n /\ i' = i /\ j' = j /\ k' = k /\ l' = l /\ ir' = ir /\ istack' = istack /\ a' = a
    BY Zenon DEF AppendRange, search_vars, sort_vars, Goto
  <2>2. Typed /\ AtRange
    BY Zenon DEF IInv
  <2>3. /\ call.op = "mdb_midl_append_range" /\ Fresh
        /\ base = Len0 /\ n = call.num /\ a = call.id /\ base + n <= alloc
    BY <2>1, <2>2, Zenon DEF AtRange
  <2>4. /\ ids[0] = Len0 /\ Len0 \in Nat /\ alloc \in Nat /\ call \in Calls
        /\ ids \in [0 .. alloc -> Nat] /\ \A x \in 1 .. Len0 : ids[x] = Was[x]
    BY <2>2, <2>3, FreshFacts, Zenon
  <2>5. call.num \in Nat /\ call.id \in Nat
    BY <2>4, CallFacts, Zenon
  <2>6. Len0' = Len0 /\ Was' = Was
    BY <2>1, Zenon DEF Len0, Was
  <2>7. /\ ids' \in [0 .. alloc -> Nat] /\ ids'[0] = Len0 + call.num
        /\ \A x \in 1 .. Len0 : ids'[x] = Was[x]
    BY <2>1, <2>3, <2>4, <2>5
  <2>8. rc = 0
    BY <2>1, <2>2, Zenon DEF Typed
  <2>9. Typed'
    <3>1. pc' \in Labels /\ pc' \notin Sorting /\ pc \notin Sorting /\ rc' \in Int
      BY <2>1, <2>8 DEF Labels, Sorting
    <3> QED
      BY <2>1, <2>2, <2>7, <2>8, <3>1, Zenon DEF Typed
  <2>10. /\ n \in 0 .. call.num /\ a = call.id + call.num - n
         /\ \A x \in n + 1 .. call.num : FALSE
    BY <2>3, <2>5
  <2>11. AtFill'
    BY <2>1, <2>3, <2>6, <2>7, <2>8, <2>10, Zenon DEF AtFill
  <2> QED
    BY <2>1, <2>9, <2>11, <1>ToFill, Zenon
\* The ids of the range, from the last cell down.
<1>FillInv. IInv /\ Fill => IInv'
  <2> SUFFICES ASSUME IInv, Fill PROVE IInv'
    BY Zenon
  <2>1. /\ pc = "fill"
        /\ call' = call /\ alloc' = alloc /\ base' = base /\ cursor' = cursor /\ val' = val
        /\ i' = i /\ j' = j /\ k' = k /\ l' = l /\ ir' = ir /\ istack' = istack
    BY Zenon DEF Fill, search_vars, sort_vars
  <2>2. Typed /\ AtFill
    BY Zenon DEF IInv
  <2>3. /\ call.op = "mdb_midl_append_range" /\ rc = 0
        /\ base = Len0 /\ n \in 0 .. call.num /\ a = call.id + call.num - n
        /\ ids[0] = Len0 + call.num /\ Len0 + call.num <= alloc
        /\ \A x \in 1 .. Len0 : ids[x] = Was[x]
        /\ \A x \in n + 1 .. call.num : ids[Len0 + x] = call.id + call.num - x
    BY <2>1, <2>2, Zenon DEF AtFill
  <2>4. /\ call \in Calls /\ alloc \in Nat /\ ids \in [0 .. alloc -> Nat]
    BY <2>2, Zenon DEF Typed
  <2>5. Len0 \in Nat /\ call.num \in Nat /\ call.id \in Nat /\ Was \in Seq(MDB_ID)
    BY <2>4, CallFacts, Zenon
  <2>6. Len0' = Len0 /\ Was' = Was /\ Len(Was) = Len0
    BY <2>1, Zenon DEF Len0, Was
  <2>7. CASE n > 0
    <3>1. /\ ids' = [ids EXCEPT ![base + n] = a] /\ n' = n - 1 /\ a' = a + 1
          /\ pc' = "fill" /\ rc' = rc
      BY <2>7, Zenon DEF Fill, Goto
    <3>2. Len0 + n \in 0 .. alloc /\ Len0 + n # 0 /\ a \in Nat /\ 0 \in 0 .. alloc
      <4>1. n \in Nat /\ n <= call.num
        BY <2>3, <2>5
      <4>2. a \in Nat
        BY <2>3, <2>5, <4>1, SMTT(30)
      <4>3. Len0 + n <= Len0 + call.num
        BY <2>5, <4>1
      <4> QED
        BY <2>3, <2>4, <2>5, <2>7, <4>1, <4>2, <4>3, SMTT(30)
    <3>3. /\ ids' \in [0 .. alloc -> Nat] /\ ids'[Len0 + n] = a
          /\ \A x \in 0 .. alloc : x # Len0 + n => ids'[x] = ids[x]
      BY <2>3, <2>4, <3>1, <3>2, Zenon
    <3>4. ASSUME NEW x \in 1 .. Len0 PROVE ids'[x] = Was[x]
      <4>1. x \in 0 .. alloc /\ x # Len0 + n
        <5>1. x \in Nat /\ x <= Len0 /\ Len0 <= alloc /\ n \in Nat
          BY <2>3, <2>4, <2>5, SMTT(30)
        <5>2. Len0 \in Nat /\ alloc \in Nat /\ n > 0
          BY <2>4, <2>5, <2>7, Zenon
        <5> QED
          BY <5>1, <5>2, SMTT(30)
      <4> QED
        BY <2>3, <3>3, <4>1, Zenon
    <3>5. ASSUME NEW x \in n .. call.num PROVE ids'[Len0 + x] = call.id + call.num - x
      <4>1. x = n \/ (x \in n + 1 .. call.num /\ Len0 + x \in 0 .. alloc /\ Len0 + x # Len0 + n)
        <5>1. n \in Nat /\ x \in Nat /\ n <= x /\ x <= call.num
          BY <2>3, <2>5
        <5>2. x = n \/ x \in n + 1 .. call.num
          BY <2>5, <5>1
        <5>3. Len0 + x \in 0 .. alloc /\ (x # n => Len0 + x # Len0 + n)
          BY <2>3, <2>4, <2>5, <5>1, SMTT(30)
        <5> QED
          BY <5>2, <5>3, Zenon
      <4> QED
        BY <2>3, <3>3, <4>1, Zenon
    <3>6. /\ n' \in 0 .. call.num /\ a' = call.id + call.num - n' /\ n' + 1 = n
          /\ n' \in Int /\ a' \in Int
      <4>1. n \in Nat /\ n <= call.num /\ a = call.id + call.num - n
        BY <2>3, <2>5
      <4>2. n' = n - 1 /\ a' = a + 1
        BY <3>1, Zenon
      <4>3. call.num \in Nat /\ call.id \in Nat /\ n > 0
        BY <2>5, <2>7, Zenon
      <4> DEFINE cn == call.num
                 ci == call.id
      <4>4. n \in Nat /\ n <= cn /\ a = ci + cn - n /\ cn \in Nat /\ ci \in Nat
        BY <4>1, <4>3, Zenon
      <4> HIDE DEF cn, ci
      <4>5. /\ n' \in 0 .. cn /\ a' = ci + cn - n' /\ n' + 1 = n
            /\ n' \in Int /\ a' \in Int
        BY <4>2, <4>3, <4>4, SMTT(30)
      <4> QED
        BY <4>5, Zenon DEF cn, ci
    <3>7. Typed'
      <4>1. pc' \in Labels /\ pc' \notin Sorting /\ pc \notin Sorting /\ rc' \in Int
        BY <2>1, <2>3, <3>1 DEF Labels, Sorting
      <4> QED
        BY <2>1, <2>2, <2>3, <3>1, <3>3, <3>6, <4>1, Zenon DEF Typed
    <3>8. ids'[0] = Len0 + call.num
      BY <2>3, <3>2, <3>3, Zenon
    <3>9. AtFill'
      BY <2>1, <2>3, <2>6, <3>1, <3>4, <3>5, <3>6, <3>8, ZenonT(60) DEF AtFill
    <3> QED
      BY <3>1, <3>7, <3>9, <1>ToFill, Zenon
  <2>8. CASE ~(n > 0)
    <3>1. pc' = "return" /\ rc' = 0 /\ ids' = ids /\ n' = n /\ a' = a
      BY <2>8, Zenon DEF Fill, Return
    <3>2. Typed'
      <4>1. pc' \in Labels /\ pc' \notin Sorting /\ pc \notin Sorting /\ rc' \in Int
        BY <2>1, <3>1 DEF Labels, Sorting
      <4> QED
        BY <2>1, <2>2, <3>1, <4>1, Zenon DEF Typed
    <3> DEFINE app == [x \in 1 .. call.num |-> call.id + call.num - x]
    <3>3. Appended' = app
      BY <2>1, <2>3, Zenon DEF Appended
    <3>4. app \in Seq(Int) /\ Len(app) = call.num /\ Was \in Seq(Int)
      <4>1. MDB_ID \subseteq Int
        BY BoundsAssumption DEF MDB_ID
      <4>2. ASSUME NEW s \in Seq(MDB_ID) PROVE s \in Seq(Int)
        <5>1. Len(s) \in Nat /\ s \in [1 .. Len(s) -> MDB_ID]
          OBVIOUS
        <5>2. s \in [1 .. Len(s) -> Int]
          BY <4>1, <5>1, Zenon
        <5>3. ASSUME NEW m \in Nat, NEW f \in [1 .. m -> Int] PROVE f \in Seq(Int)
          OBVIOUS
        <5> QED
          BY <5>1, <5>2, <5>3, Zenon
      <4>3. Was \in Seq(Int)
        BY <2>5, <4>2, Zenon
      <4>4. app \in [1 .. call.num -> Int]
        BY <2>5
      <4>5. app \in Seq(Int) /\ Len(app) = call.num
        <5> HIDE DEF app
        <5> QED
          BY <2>5, <4>4
      <4> QED
        BY <4>3, <4>5, Zenon
    <3>5. \A x \in 1 .. call.num : app[x] = ids[Len0 + x]
      BY <2>3, <2>5, <2>8
    <3> HIDE DEF app
    <3>6. \A x \in 1 .. Len0 + call.num : ids'[x] = (Was \o app)[x]
      <4> SUFFICES ASSUME NEW x \in 1 .. Len0 + call.num PROVE ids'[x] = (Was \o app)[x]
        BY Zenon
      <4>1. (Was \o app)[x] = IF x <= Len0 THEN Was[x] ELSE app[x - Len0]
        BY <2>6, <3>4, ConcatFacts, Zenon
      <4>2. CASE x <= Len0
        BY <2>3, <2>5, <3>1, <4>1, <4>2
      <4>3. CASE ~(x <= Len0)
        <5>1. x - Len0 \in 1 .. call.num /\ x = Len0 + (x - Len0)
          BY <2>5, <4>3
        <5> QED
          BY <3>1, <3>5, <4>1, <4>3, <5>1, Zenon
      <4> QED
        BY <4>2, <4>3, Zenon
    <3>7. AppendsRight'
      <4>1. Holds(Was \o Appended, Len(Was) + Len(Appended))'
        BY <2>3, <2>6, <3>1, <3>3, <3>4, <3>6, Zenon DEF Holds
      <4> QED
        BY <3>1, <4>1, Zenon DEF AppendsRight
    <3>8. Fits'
      BY <2>1, <2>3, <3>1, Zenon DEF Fits
    <3>9. call'.op \in Appends
      BY <2>1, <2>3, Zenon DEF Appends
    <3> QED
      BY <3>1, <3>2, <3>7, <3>8, <3>9, ReturnAppend, Zenon
  <2> QED
    BY <2>7, <2>8, Zenon
\* The ids that mdb_midl_need made room for.
<1>XappendInv. IInv /\ mdb_midl_xappend => IInv'
  <2> SUFFICES ASSUME IInv, mdb_midl_xappend PROVE IInv'
    BY Zenon
  <2>1. /\ pc = "xappend"
        /\ call' = call /\ alloc' = alloc /\ base' = base /\ cursor' = cursor /\ val' = val
        /\ i' = i /\ j' = j /\ k' = k /\ l' = l /\ ir' = ir /\ istack' = istack /\ a' = a
    BY Zenon DEF mdb_midl_xappend, search_vars, sort_vars
  <2>2. Typed /\ AtXappend
    BY Zenon DEF IInv
  <2> DEFINE len == Len0 + call.num - n
             both == Was \o call.merge
  <2>3. /\ call.op = "mdb_midl_need" /\ rc = 0
        /\ n \in 0 .. call.num /\ Len0 + call.num <= alloc
        /\ ids[0] = len /\ \A x \in 1 .. len : ids[x] = both[x]
    BY <2>1, <2>2, Zenon DEF AtXappend, Holds
  <2>4. /\ call \in Calls /\ alloc \in Nat /\ ids \in [0 .. alloc -> Nat]
    BY <2>2, Zenon DEF Typed
  <2>5. /\ Len0 \in Nat /\ call.num \in Nat /\ call.num = More
        /\ \A x \in 1 .. More : call.merge[x] \in Nat
    BY <2>3, <2>4, CallFacts, ListFacts, Zenon DEF Contract, More
  <2>6. Len0' = Len0 /\ Was' = Was /\ Len(Was) = Len0 /\ Len(call.merge) = More
    BY <2>1, Zenon DEF Len0, Was, More
  <2>7. len \in Nat
    BY <2>3, <2>5
  <2>8. CASE n > 0
    <3>1. /\ ids' = [ids EXCEPT ![0] = @ + 1, ![ids[0] + 1] = call.merge[call.num - n + 1]]
          /\ n' = n - 1 /\ pc' = "xappend" /\ rc' = rc
      BY <2>8, Zenon DEF mdb_midl_xappend, Goto
    <3>2. call.num - n + 1 \in 1 .. More /\ Len0 + (call.num - n + 1) = len + 1 /\ len + 1 \in 1 .. alloc
      <4>1. n \in Nat /\ n <= call.num
        BY <2>3, <2>5
      <4>2. call.num - n + 1 \in 1 .. call.num
        BY <2>5, <2>8, <4>1
      <4>3. Len0 + (call.num - n + 1) = len + 1
        BY <2>5, <4>1
      <4>4. Len0 + call.num <= alloc /\ alloc \in Nat /\ Len0 \in Nat /\ call.num \in Nat
        BY <2>3, <2>4, <2>5, Zenon
      <4>5. len + 1 \in 1 .. alloc
        BY <2>8, <4>1, <4>4
      <4> QED
        BY <2>5, <4>2, <4>3, <4>5, Zenon
    <3>3. both[len + 1] = call.merge[call.num - n + 1] /\ call.merge[call.num - n + 1] \in Nat
      <4>1. both[Len0 + (call.num - n + 1)] = call.merge[call.num - n + 1]
        BY <2>4, <3>2, BothFacts, Zenon
      <4> QED
        BY <2>5, <3>2, <4>1, Zenon
    <3> HIDE DEF both
    <3>4. Len0 + call.num - n' = len + 1 /\ n' \in 0 .. call.num /\ n' \in Int
      BY <2>3, <2>5, <2>8, <3>1
    <3> HIDE DEF len
    <3>5. /\ ids' \in [0 .. alloc -> Nat] /\ ids'[0] = len + 1 /\ ids'[len + 1] = both[len + 1]
          /\ \A x \in 1 .. len : ids'[x] = ids[x]
      <4>1. /\ 0 \in 0 .. alloc /\ len + 1 \in 0 .. alloc /\ len + 1 # 0 /\ len + 1 \in Nat
            /\ \A x \in 1 .. len : x \in 0 .. alloc /\ x # 0 /\ x # len + 1
        BY <2>4, <2>7, <3>2
      <4>2. ids' = [ids EXCEPT ![0] = len + 1, ![len + 1] = both[len + 1]]
        BY <2>3, <3>1, <3>3, Zenon
      <4>3. both[len + 1] \in Nat
        BY <3>3, Zenon
      <4> QED
        BY <2>4, <4>1, <4>2, <4>3, Zenon
    <3>6. ASSUME NEW x \in 1 .. len + 1 PROVE ids'[x] = both[x]
      <4>1. x = len + 1 \/ x \in 1 .. len
        BY <2>7
      <4> QED
        BY <2>3, <3>5, <4>1, Zenon
    <3>7. Typed'
      <4>1. pc' \in Labels /\ pc' \notin Sorting /\ pc \notin Sorting /\ rc' \in Int
        BY <2>1, <2>3, <3>1 DEF Labels, Sorting
      <4> QED
        BY <2>1, <2>2, <2>3, <3>1, <3>4, <3>5, <4>1, Zenon DEF Typed
    <3>8. Holds(Was \o call.merge, Len0 + call.num - n)'
      BY <2>1, <2>6, <3>4, <3>5, <3>6, Zenon DEF Holds, both
    <3>9. AtXappend'
      BY <2>1, <2>3, <2>6, <3>1, <3>4, <3>8, Zenon DEF AtXappend
    <3> QED
      BY <3>1, <3>7, <3>9, ToXappend, Zenon
  <2>9. CASE ~(n > 0)
    <3>1. pc' = "return" /\ rc' = 0 /\ ids' = ids /\ n' = n
      BY <2>9, Zenon DEF mdb_midl_xappend, Return
    <3>2. Typed'
      <4>1. pc' \in Labels /\ pc' \notin Sorting /\ pc \notin Sorting /\ rc' \in Int
        BY <2>1, <3>1 DEF Labels, Sorting
      <4> QED
        BY <2>1, <2>2, <3>1, <4>1, Zenon DEF Typed
    <3>3. Appended' = call.merge
      BY <2>1, <2>3, Zenon DEF Appended
    <3>4. len = Len0 + More /\ len <= alloc
      BY <2>3, <2>5, <2>9
    <3> HIDE DEF len
    <3>5. AppendsRight'
      <4>1. Holds(Was \o Appended, Len(Was) + Len(Appended))'
        BY <2>3, <2>6, <3>1, <3>3, <3>4, Zenon DEF Holds, both
      <4> QED
        BY <3>1, <4>1, Zenon DEF AppendsRight
    <3>6. Fits'
      BY <2>1, <2>3, <3>1, <3>4, Zenon DEF Fits
    <3>7. call'.op \in Appends
      BY <2>1, <2>3, Zenon DEF Appends
    <3> QED
      BY <3>1, <3>2, <3>5, <3>6, <3>7, ReturnAppend, Zenon
  <2> QED
    BY <2>8, <2>9, Zenon
<1> QED
  BY <1>Append1Inv, <1>MemcpyInv, <1>RangeInv, <1>FillInv, <1>XappendInv, Zenon

-----------------------------------------------------------------------------
(* Permutations *)

\* A list is a permutation of itself.
LEMMA PermutedSame ==
    ASSUME NEW m \in Nat, NEW v, NEW w, \A x \in 1 .. m : v[x] = w[x]
    PROVE  Permuted(v, w, m)
<1> DEFINE g == [x \in 1 .. m |-> x]
<1>1. \A x \in 1 .. m : g[x] = x
  BY Zenon
<1>2. g \in [1 .. m -> 1 .. m]
  BY Zenon
<1> HIDE DEF g
<1>3. Rearranges(g, m) /\ \A x \in 1 .. m : v[x] = w[g[x]]
  BY <1>1, <1>2, Zenon DEF Rearranges
<1> QED
  BY <1>3, Zenon DEF Permuted

\* Rearranging a permutation gives a permutation.
LEMMA PermutedMoved ==
    ASSUME NEW m \in Nat, NEW u, NEW v, NEW w, NEW h, Permuted(v, w, m), Rearranges(h, m),
           \A x \in 1 .. m : u[x] = v[h[x]]
    PROVE  Permuted(u, w, m)
<1>1. PICK g : Rearranges(g, m) /\ \A x \in 1 .. m : v[x] = w[g[x]]
  BY Zenon DEF Permuted
<1>2. /\ g \in [1 .. m -> 1 .. m] /\ h \in [1 .. m -> 1 .. m]
      /\ \A x, y \in 1 .. m : g[x] = g[y] => x = y
      /\ \A x, y \in 1 .. m : h[x] = h[y] => x = y
      /\ \A y \in 1 .. m : \E x \in 1 .. m : g[x] = y
      /\ \A y \in 1 .. m : \E x \in 1 .. m : h[x] = y
  BY <1>1, Zenon DEF Rearranges
<1> DEFINE f == [x \in 1 .. m |-> g[h[x]]]
<1>3. \A x \in 1 .. m : f[x] = g[h[x]] /\ h[x] \in 1 .. m /\ g[h[x]] \in 1 .. m
  BY <1>2, Zenon
<1>4. f \in [1 .. m -> 1 .. m]
  BY <1>3, Zenon
<1> HIDE DEF f
<1>5. ASSUME NEW x \in 1 .. m, NEW y \in 1 .. m, f[x] = f[y] PROVE x = y
  <2>1. g[h[x]] = g[h[y]] /\ h[x] \in 1 .. m /\ h[y] \in 1 .. m
    BY <1>3, <1>5, Zenon
  <2> DEFINE hx == h[x]
             hy == h[y]
  <2>2. hx = hy
    <3>1. g[hx] = g[hy] /\ hx \in 1 .. m /\ hy \in 1 .. m
      BY <2>1, Zenon
    <3> HIDE DEF hx, hy
    <3> QED
      BY <1>2, <3>1, Zenon
  <2> QED
    BY <1>2, <2>2, Zenon
<1>6. ASSUME NEW y \in 1 .. m PROVE \E x \in 1 .. m : f[x] = y
  <2>1. PICK z \in 1 .. m : g[z] = y
    BY <1>2, Zenon
  <2>2. PICK x \in 1 .. m : h[x] = z
    BY <1>2, <2>1, Zenon
  <2> QED
    BY <1>3, <2>1, <2>2, Zenon
<1>7. ASSUME NEW x \in 1 .. m PROVE u[x] = w[f[x]]
  <2>1. u[x] = v[h[x]] /\ h[x] \in 1 .. m /\ f[x] = g[h[x]]
    BY <1>3, Zenon
  <2>2. v[h[x]] = w[g[h[x]]]
    BY <1>1, <2>1, Zenon
  <2> QED
    BY <2>1, <2>2, Zenon
<1> QED
  BY <1>4, <1>5, <1>6, <1>7, Zenon DEF Permuted, Rearranges

\* Which is what the properties say of a list.
LEMMA PermutedRearranged ==
    ASSUME NEW m \in Nat, NEW v, NEW w, Permuted(v, w, m)
    PROVE  Rearranged(v, w, m)
<1>1. PICK g : Rearranges(g, m) /\ \A x \in 1 .. m : v[x] = w[g[x]]
  BY Zenon DEF Permuted
<1> QED
  BY <1>1, Zenon DEF Rearranges, Rearranged

-----------------------------------------------------------------------------
(* Merging *)

\* mdb_midl_xmerge.
LEMMA MergingInv ==
    /\ (IInv /\ mdb_midl_xmerge => IInv')
    /\ (IInv /\ Merge => IInv')
\* The invariant at label merge.
<1>ToMerge.
    Typed' /\ pc' = "merge" /\ AtMerge' => IInv'
  BY Zenon DEF IInv, AtStart, AtSearch, AtInsert, AtShift, AtAppend, AtMemcpy, AtRange, AtFill,
     AtXappend, AtSorting, AtInsertion, AtSlide, AtUp, AtDown, AtCross,
     SearchesRight, InsertRight, AppendsRight, MergeRight, SortRight, Done, Fits,
     Results, Ops, Sorting
\* What is returned by mdb_midl_xmerge.
<1>ReturnMerge.
    Typed' /\ pc' = "return" /\ call'.op = "mdb_midl_xmerge" /\ Fits' /\ MergeRight' => IInv'
  <2> SUFFICES ASSUME Typed', pc' = "return", Fits', MergeRight', call'.op = "mdb_midl_xmerge"
               PROVE  IInv'
    BY Zenon
  <2>1. Results'
    BY Zenon DEF Results, SearchesRight, InsertRight, AppendsRight, SortRight, Done
  <2> QED
    BY <2>1, ToReturn, Zenon
\* The positions p..q move down by one, and the first of them to the end.
<1>RotateRearranges.
    ASSUME NEW m \in Nat, NEW p \in 1 .. m, NEW q \in 1 .. m
    PROVE  Rearranges([x \in 1 .. m |-> IF p <= x /\ x < q THEN x + 1
                                        ELSE IF p <= q /\ x = q THEN p ELSE x], m)
  <2> USE <1>RotateRearranges
  <2> DEFINE h == [x \in 1 .. m |-> IF p <= x /\ x < q THEN x + 1
                                    ELSE IF p <= q /\ x = q THEN p ELSE x]
  <2>1. \A x \in 1 .. m : h[x] = IF p <= x /\ x < q THEN x + 1
                                 ELSE IF p <= q /\ x = q THEN p ELSE x
    BY Zenon
  <2>2. \A x \in 1 .. m : (IF p <= x /\ x < q THEN x + 1
                           ELSE IF p <= q /\ x = q THEN p ELSE x) \in 1 .. m
    OBVIOUS
  <2>3. h \in [1 .. m -> 1 .. m]
    BY <2>2, Zenon
  <2> HIDE DEF h
  <2>4. ASSUME NEW x \in 1 .. m, NEW y \in 1 .. m, h[x] = h[y] PROVE x = y
    BY <2>1, <2>4
  <2>5. ASSUME NEW y \in 1 .. m PROVE \E x \in 1 .. m : h[x] = y
    <3>1. CASE p <= q /\ y = p
      <4>1. h[q] = y
        BY <2>1, <3>1
      <4> QED
        BY <4>1, Zenon
    <3>2. CASE p < y /\ y <= q
      <4>1. y - 1 \in 1 .. m /\ h[y - 1] = y
        BY <2>1, <3>2
      <4> QED
        BY <4>1, Zenon
    <3>3. CASE y < p \/ y > q
      <4>1. h[y] = y
        BY <2>1, <3>3
      <4> QED
        BY <4>1, Zenon
    <3> QED
      BY <3>1, <3>2, <3>3
  <2>6. Rearranges(h, m)
    BY <2>3, <2>4, <2>5, Zenon DEF Rearranges
  <2> QED
    BY <2>6, Zenon DEF h
\* The merge starts with the ids of the old list in place.
<1>XmergeInv. IInv /\ mdb_midl_xmerge => IInv'
  <2> SUFFICES ASSUME IInv, mdb_midl_xmerge PROVE IInv'
    BY Zenon
  <2>1. /\ pc = "mdb_midl_xmerge" /\ pc' = "merge" /\ rc' = rc
        /\ i' = More /\ j' = ids[0] /\ k' = ids[0] + More /\ n' = ids[0] + More
        /\ ids' = [ids EXCEPT ![0] = MAX_ID] /\ a' = ids'[ids[0]]
        /\ call' = call /\ alloc' = alloc /\ base' = base /\ cursor' = cursor /\ val' = val
        /\ l' = l /\ ir' = ir /\ istack' = istack
    BY Zenon DEF mdb_midl_xmerge, search_vars, sort_vars, Goto, More
  <2>2. pc \in Ops
    BY <2>1, Zenon DEF Ops
  <2>3. /\ Typed /\ Fresh /\ rc = 0 /\ pc = call.op /\ call \in Calls
        /\ ids[0] = Len0 /\ Len0 \in Nat /\ Len0 <= alloc /\ alloc \in Nat
        /\ call.alloc <= alloc /\ call.alloc \in Nat /\ More \in Nat
    BY <2>2, StartFacts, Zenon
  <2>4. ids \in [0 .. alloc -> Nat] /\ \A x \in 1 .. Len0 : ids[x] = Was[x]
    BY <2>3, FreshFacts, Zenon
  <2>5. Len0 + More <= call.alloc /\ MAX_ID \in Nat
    BY <2>1, <2>3, CallsAssumption, BoundsAssumption, Zenon DEF Contract, Len0, Was, More
  <2>6. Len0' = Len0 /\ Was' = Was /\ More' = More
    BY <2>1, Zenon DEF Len0, Was, More
  <2>7. /\ ids' \in [0 .. alloc -> Nat] /\ ids'[0] = MAX_ID
        /\ \A x \in 1 .. Len0 : ids'[x] = Was[x]
    BY <2>1, <2>3, <2>4, <2>5
  <2>8. a' = ids'[j'] /\ a' \in Int
    BY <2>1, <2>3, <2>7
  <2>9. /\ i' \in 0 .. More /\ j' \in 0 .. Len0 /\ k' = i' + j'
        /\ n' = Len0 + More /\ n' <= alloc /\ n' \in Nat /\ j' = Len0 /\ k' = n'
        /\ i' \in Int /\ j' \in Int /\ k' \in Int /\ n' \in Int
    BY <2>1, <2>3, <2>5
  <2>10. Typed'
    <3>1. pc' \in Labels /\ pc' \notin Sorting /\ pc \notin Sorting /\ rc' \in Int
      BY <2>1, <2>3 DEF Labels, Sorting
    <3> QED
      BY <2>1, <2>3, <2>7, <2>8, <2>9, <3>1, Zenon DEF Typed
  <2>11. \A y \in k' + 1 .. n' : FALSE
    <3>1. k' = n' /\ n' \in Nat
      BY <2>9, Zenon
    <3>2. \A q \in Nat : q + 1 .. q = {}
      OBVIOUS
    <3> QED
      BY <3>1, <3>2, Zenon
  <2>12. Permuted(Merging, Was \o call.merge, n)'
    <3> DEFINE both == Was \o call.merge
    <3>1. ASSUME NEW x \in 1 .. n' PROVE Merging'[x] = both[x]
      <4>1. Merging'[x] = IF x > j' /\ x <= k' THEN call.merge[x - j'] ELSE ids'[x]
        <5>1. Merging'[x] = IF x > j' /\ x <= k' THEN call'.merge[x - j'] ELSE ids'[x]
          BY Zenon DEF Merging
        <5> QED
          BY <2>1, <5>1, Zenon
      <4>2. CASE x <= Len0
        <5>1. x \in 1 .. Len0 /\ ~(x > j')
          BY <2>3, <2>9, <4>2
        <5>2. Merging'[x] = ids'[x]
          BY <4>1, <5>1, Zenon
        <5> QED
          BY <2>3, <2>7, <5>1, <5>2, BothFacts, Zenon
      <4>3. CASE ~(x <= Len0)
        <5>1. x > j' /\ x <= k' /\ x - j' \in 1 .. More /\ Len0 + (x - j') = x
          <6>1. j' = Len0 /\ k' = n' /\ n' = Len0 + More /\ Len0 \in Nat /\ More \in Nat
            BY <2>3, <2>9, Zenon
          <6> QED
            BY <4>3, <6>1
        <5>2. Merging'[x] = call.merge[x - j']
          BY <4>1, <5>1, Zenon
        <5>3. both[Len0 + (x - j')] = call.merge[x - j']
          BY <2>3, <5>1, BothFacts, Zenon
        <5> QED
          BY <5>1, <5>2, <5>3, Zenon
      <4> QED
        BY <4>2, <4>3, Zenon
    <3>2. Permuted(Merging', both, n')
      <4> HIDE DEF both
      <4> QED
        BY <2>9, <3>1, PermutedSame, Zenon
    <3> QED
      BY <2>1, <2>6, <3>2, Zenon DEF Permuted
  <2>13. AtMerge'
    BY <2>1, <2>3, <2>6, <2>7, <2>8, <2>9, <2>11, <2>12, Zenon DEF AtMerge
  <2> QED
    BY <2>1, <2>10, <2>13, <1>ToMerge, Zenon
\* What is known while the lists are merged.
<1>MergeFacts.
    ASSUME IInv, pc = "merge"
    PROVE  /\ Typed /\ call \in Calls /\ call.op = "mdb_midl_xmerge" /\ rc = 0
           /\ alloc \in Nat /\ ids \in [0 .. alloc -> Nat]
           /\ Len0 \in Nat /\ More \in Nat /\ n = Len0 + More /\ n <= alloc /\ n \in Nat
           /\ i \in 0 .. More /\ j \in 0 .. Len0 /\ k = i + j /\ k \in 0 .. n
           /\ ids[0] = MAX_ID /\ a = ids[j] /\ a \in Nat /\ MAX_ID \in Nat
           /\ \A x \in 1 .. j : ids[x] = Was[x]
           /\ \A x \in 0 .. alloc : ids[x] \in Nat
           /\ \A x, y \in k + 1 .. n : x < y => ids[x] >= ids[y]
           /\ \A x \in 1 .. j, y \in k + 1 .. n : ids[x] >= ids[y]
           /\ \A x \in 1 .. i, y \in k + 1 .. n : call.merge[x] >= ids[y]
           /\ Permuted(Merging, Was \o call.merge, n)
           /\ \A x, y \in 1 .. Len0 : x < y => Was[x] >= Was[y]
           /\ \A x, y \in 1 .. More : x < y => call.merge[x] >= call.merge[y]
           /\ \A x \in 1 .. Len0 : Was[x] \in Nat
           /\ \A x \in 1 .. More : call.merge[x] \in Nat /\ call.merge[x] <= MAX_ID
  <2> USE <1>MergeFacts
  <2>1. Typed /\ AtMerge
    BY Zenon DEF IInv
  <2>2. call \in Calls /\ alloc \in Nat /\ ids \in [0 .. alloc -> Nat]
    BY <2>1, Zenon DEF Typed
  <2>3. Len0 \in Nat /\ More \in Nat /\ MAX_ID \in Nat
    BY <2>2, CallFacts, BoundsAssumption, Zenon
  <2>4. /\ call.op = "mdb_midl_xmerge" /\ rc = 0
        /\ n = Len0 + More /\ n <= alloc
        /\ i \in 0 .. More /\ j \in 0 .. Len0 /\ k = i + j
        /\ ids[0] = MAX_ID /\ a = ids[j]
        /\ \A x \in 1 .. j : ids[x] = Was[x]
        /\ \A x, y \in k + 1 .. n : x < y => ids[x] >= ids[y]
        /\ \A x \in 1 .. j, y \in k + 1 .. n : ids[x] >= ids[y]
        /\ \A x \in 1 .. i, y \in k + 1 .. n : call.merge[x] >= ids[y]
        /\ Permuted(Merging, Was \o call.merge, n)
    BY <2>1, Zenon DEF AtMerge
  <2>5. n \in Nat /\ k \in 0 .. n /\ j \in 0 .. alloc
    BY <2>2, <2>3, <2>4
  <2>6. \A x \in 0 .. alloc : ids[x] \in Nat
    BY <2>2, Zenon
  <2>7. a \in Nat
    BY <2>4, <2>5, <2>6, Zenon
  <2>8. Descending(Was, Len0) /\ Descending(call.merge, More)
    BY <2>2, <2>4, CallsAssumption, Zenon DEF Contract, Len0, Was, More
  <2> QED
    BY <2>1, <2>2, <2>3, <2>4, <2>5, <2>6, <2>7, <2>8, ListFacts, Zenon DEF Descending
\* An id of the old list is placed.
<1>MergeOldInv.
    ASSUME IInv, pc = "merge", i > 0, a < call.merge[i],
           ids' = [ids EXCEPT ![k] = a],
           k' = k - 1, j' = j - 1, a' = ids'[j - 1], Goto("merge"), i' = i,
           UNCHANGED <<call, alloc, search_vars, n, sort_vars>>
    PROVE  IInv'
  <2> USE <1>MergeOldInv
  <2>1. /\ pc' = "merge" /\ rc' = rc
        /\ call' = call /\ alloc' = alloc /\ base' = base /\ cursor' = cursor /\ val' = val
        /\ n' = n /\ l' = l /\ ir' = ir /\ istack' = istack
    BY Zenon DEF Goto, search_vars, sort_vars
  <2>2. /\ Typed /\ call \in Calls /\ call.op = "mdb_midl_xmerge" /\ rc = 0
        /\ alloc \in Nat /\ ids \in [0 .. alloc -> Nat]
        /\ Len0 \in Nat /\ More \in Nat /\ n = Len0 + More /\ n <= alloc /\ n \in Nat
        /\ i \in 0 .. More /\ j \in 0 .. Len0 /\ k = i + j /\ k \in 0 .. n
        /\ ids[0] = MAX_ID /\ a = ids[j] /\ a \in Nat /\ MAX_ID \in Nat
        /\ \A x \in 1 .. j : ids[x] = Was[x]
        /\ \A x \in 0 .. alloc : ids[x] \in Nat
    BY <1>MergeFacts, Zenon
  <2>3. /\ \A x, y \in k + 1 .. n : x < y => ids[x] >= ids[y]
        /\ \A x \in 1 .. j, y \in k + 1 .. n : ids[x] >= ids[y]
        /\ \A x \in 1 .. i, y \in k + 1 .. n : call.merge[x] >= ids[y]
        /\ Permuted(Merging, Was \o call.merge, n)
        /\ \A x, y \in 1 .. Len0 : x < y => Was[x] >= Was[y]
        /\ \A x, y \in 1 .. More : x < y => call.merge[x] >= call.merge[y]
        /\ \A x \in 1 .. Len0 : Was[x] \in Nat
        /\ \A x \in 1 .. More : call.merge[x] \in Nat /\ call.merge[x] <= MAX_ID
    BY <1>MergeFacts, Zenon
  <2>4. Len0' = Len0 /\ Was' = Was /\ More' = More
    BY <2>1, Zenon DEF Len0, Was, More
  <2>5. i \in 1 .. More /\ i \in 1 .. i
    BY <2>2
  <2>6. call.merge[i] \in Nat /\ call.merge[i] <= MAX_ID
    BY <2>3, <2>5, Zenon
  <2>7. j # 0
    BY <2>2, <2>6
  <2>8. /\ j \in 1 .. j /\ j \in 1 .. Len0 /\ j < k /\ k \in 1 .. n /\ k \in 0 .. alloc /\ j \in 1 .. n
        /\ j - 1 \in 0 .. Len0 /\ j - 1 \in 0 .. alloc /\ k - 1 = i + (j - 1) /\ k - 1 \in Int
        /\ j - 1 # k /\ 0 # k /\ 0 \in 0 .. alloc
    BY <2>2, <2>5, <2>7
  <2>9. /\ ids' \in [0 .. alloc -> Nat] /\ ids'[k] = a
        /\ \A x \in 0 .. alloc : x # k => ids'[x] = ids[x]
    BY <2>2, <2>8, Zenon
  <2>10. ids'[0] = MAX_ID /\ a' = ids'[j'] /\ a' \in Nat /\ a' \in Int
    <3>1. ids'[j - 1] \in Nat
      BY <2>2, <2>8, <2>9, Zenon
    <3> QED
      BY <2>2, <2>8, <2>9, <3>1, SMTT(30)
  <2>11. Typed'
    <3>1. pc' \in Labels /\ pc' \notin Sorting /\ pc \notin Sorting /\ rc' \in Int /\ i' \in Int
          /\ j' \in Int /\ k' \in Int
      BY <2>1, <2>2, <2>8 DEF Labels, Sorting
    <3> QED
      BY <2>1, <2>2, <2>9, <2>10, <3>1, Zenon DEF Typed
  <2>12. ASSUME NEW x \in 1 .. j' PROVE ids'[x] = Was[x] /\ ids'[x] = ids[x] /\ Was[x] >= a
    <3>1. x \in 1 .. j /\ x < j /\ x \in 0 .. alloc /\ x # k /\ x \in 1 .. Len0
      BY <2>2, <2>8, SMTT(30)
    <3>2. ids'[x] = ids[x] /\ ids[x] = Was[x] /\ ids[j] = Was[j] /\ Was[x] >= Was[j]
      BY <2>2, <2>3, <2>8, <2>9, <3>1, Zenon
    <3> QED
      BY <2>2, <3>2, Zenon
  <2>13. ASSUME NEW y \in k' + 1 .. n
         PROVE  \/ y = k /\ ids'[y] = a
                \/ y > k /\ y \in k + 1 .. n /\ ids'[y] = ids[y]
    <3>1. y = k \/ (y > k /\ y \in k + 1 .. n /\ y # k /\ y \in 0 .. alloc)
      BY <2>2, <2>8
    <3> QED
      BY <2>9, <3>1, Zenon
  <2>14. ASSUME NEW x \in k' + 1 .. n, NEW y \in k' + 1 .. n, x < y PROVE ids'[x] >= ids'[y]
    <3>1. y > k /\ y \in k + 1 .. n /\ ids'[y] = ids[y]
      BY <2>2, <2>8, <2>13, <2>14, SMTT(30)
    <3>2. CASE x = k /\ ids'[x] = a
      BY <2>2, <2>3, <2>8, <3>1, <3>2, Zenon
    <3>3. CASE x > k /\ x \in k + 1 .. n /\ ids'[x] = ids[x]
      BY <2>3, <2>14, <3>1, <3>3, Zenon
    <3> QED
      BY <2>13, <3>2, <3>3, Zenon
  <2>15. ASSUME NEW x \in 1 .. j', NEW y \in k' + 1 .. n PROVE ids'[x] >= ids'[y]
    <3>1. x \in 1 .. j
      BY <2>2, <2>8
    <3>2. CASE y = k /\ ids'[y] = a
      BY <2>12, <3>2, Zenon
    <3>3. CASE y > k /\ y \in k + 1 .. n /\ ids'[y] = ids[y]
      BY <2>3, <2>12, <3>1, <3>3, Zenon
    <3> QED
      BY <2>13, <3>2, <3>3, Zenon
  <2>16. ASSUME NEW x \in 1 .. i, NEW y \in k' + 1 .. n PROVE call.merge[x] >= ids'[y]
    <3>1. call.merge[x] >= a
      <4>1. x \in 1 .. More /\ (x = i \/ x < i)
        <5>1. i \in 0 .. More /\ More \in Nat
          BY <2>2, Zenon
        <5> QED
          BY <5>1
      <4>2. (x = i \/ call.merge[x] >= call.merge[i]) /\ call.merge[x] \in Nat
        BY <2>3, <2>5, <4>1, Zenon
      <4>3. a \in Nat
        BY <2>2, Zenon
      <4> QED
        BY <2>6, <4>2, <4>3, SMTT(30)
    <3>2. CASE y = k /\ ids'[y] = a
      BY <3>1, <3>2, Zenon
    <3>3. CASE y > k /\ y \in k + 1 .. n /\ ids'[y] = ids[y]
      BY <2>3, <3>3, Zenon
    <3> QED
      BY <2>13, <3>2, <3>3, Zenon
  <2>17. Permuted(Merging, Was \o call.merge, n)'
    <3> DEFINE h == [x \in 1 .. n |-> IF j <= x /\ x < k THEN x + 1
                                      ELSE IF j <= k /\ x = k THEN j ELSE x]
    <3>1. Rearranges(h, n)
      BY <2>2, <2>8, <1>RotateRearranges, ZenonT(60)
    <3>2. \A x \in 1 .. n : h[x] = IF j <= x /\ x < k THEN x + 1
                                   ELSE IF j <= k /\ x = k THEN j ELSE x
      BY Zenon
    <3> HIDE DEF h
    <3>3. \A x \in 1 .. n : Merging[x] = IF x > j /\ x <= k THEN call.merge[x - j] ELSE ids[x]
      BY Zenon DEF Merging
    <3>4. ASSUME NEW x \in 1 .. n
          PROVE  Merging'[x] = IF x > j' /\ x <= k' THEN call.merge[x - j'] ELSE ids'[x]
      <4>1. x \in 1 .. n'
        BY <2>1, Zenon
      <4>2. Merging'[x] = IF x > j' /\ x <= k' THEN call'.merge[x - j'] ELSE ids'[x]
        BY <4>1, Zenon DEF Merging
      <4> QED
        BY <2>1, <4>2, Zenon
    <3>5. ASSUME NEW x \in 1 .. n PROVE Merging'[x] = Merging[h[x]]
      <4>1. CASE j <= x /\ x < k
        <5>1. /\ x > j' /\ x <= k' /\ x - j' = (x + 1) - j /\ x + 1 \in 1 .. n
              /\ x + 1 > j /\ x + 1 <= k
          BY <2>2, <2>8, <4>1, SMTT(30)
        <5>2. Merging'[x] = call.merge[x - j'] /\ h[x] = x + 1
          BY <3>2, <3>4, <4>1, <5>1, Zenon
        <5>3. Merging[x + 1] = call.merge[(x + 1) - j]
          BY <3>3, <5>1, Zenon
        <5> QED
          BY <5>1, <5>2, <5>3, Zenon
      <4>2. CASE x = k
        <5>1. ~(x <= k') /\ ~(x < k) /\ j <= k /\ ~(j > j)
          BY <2>2, <2>8, <4>2, SMTT(30)
        <5>2. Merging'[x] = ids'[k] /\ h[x] = j
          BY <3>2, <3>4, <4>2, <5>1, Zenon
        <5>3. Merging[j] = ids[j]
          BY <2>8, <3>3, <5>1, Zenon
        <5> QED
          BY <2>2, <2>9, <5>2, <5>3, Zenon
      <4>3. CASE ~(j <= x /\ x < k) /\ x # k
        <5>1. ~(x > j' /\ x <= k') /\ ~(x > j /\ x <= k) /\ x \in 0 .. alloc
          BY <2>2, <2>8, <4>3, SMTT(30)
        <5>2. Merging'[x] = ids'[x] /\ h[x] = x
          BY <3>2, <3>4, <4>3, <5>1, Zenon
        <5>3. Merging[x] = ids[x]
          BY <3>3, <5>1, Zenon
        <5> QED
          BY <2>9, <4>3, <5>1, <5>2, <5>3, Zenon
      <4> QED
        BY <4>1, <4>2, <4>3, Zenon
    <3>6. Permuted(Merging', Was \o call.merge, n)
      <4> DEFINE u == Merging'
                 v == Merging
                 w == Was \o call.merge
      <4>1. Permuted(v, w, n) /\ \A x \in 1 .. n : u[x] = v[h[x]]
        BY <2>3, <3>5, Zenon
      <4> HIDE DEF u, v, w
      <4>2. Permuted(u, w, n)
        BY <2>2, <3>1, <4>1, PermutedMoved, Zenon
      <4> QED
        BY <4>2, Zenon DEF u, w
    <3> QED
      BY <2>1, <2>4, <3>6, Zenon DEF Permuted
  <2>18. AtMerge'
    <3>1. i' \in 0 .. More /\ j' \in 0 .. Len0 /\ k' = i' + j'
      BY <2>2, <2>8, Zenon
    <3> QED
      BY <2>1, <2>2, <2>4, <2>10, <2>12, <2>14, <2>15, <2>16, <2>17, <3>1, ZenonT(60) DEF AtMerge
  <2> QED
    BY <2>1, <2>11, <2>18, <1>ToMerge, Zenon
\* An id of the other list is placed.
<1>MergeNewInv.
    ASSUME IInv, pc = "merge", i > 0, a >= call.merge[i],
           ids' = [ids EXCEPT ![k] = call.merge[i]],
           k' = k - 1, i' = i - 1, Goto("merge"), j' = j, a' = a,
           UNCHANGED <<call, alloc, search_vars, n, sort_vars>>
    PROVE  IInv'
  <2> USE <1>MergeNewInv
  <2>1. /\ pc' = "merge" /\ rc' = rc
        /\ call' = call /\ alloc' = alloc /\ base' = base /\ cursor' = cursor /\ val' = val
        /\ n' = n /\ l' = l /\ ir' = ir /\ istack' = istack
    BY Zenon DEF Goto, search_vars, sort_vars
  <2>2. /\ Typed /\ call \in Calls /\ call.op = "mdb_midl_xmerge" /\ rc = 0
        /\ alloc \in Nat /\ ids \in [0 .. alloc -> Nat]
        /\ Len0 \in Nat /\ More \in Nat /\ n = Len0 + More /\ n <= alloc /\ n \in Nat
        /\ i \in 0 .. More /\ j \in 0 .. Len0 /\ k = i + j /\ k \in 0 .. n
        /\ ids[0] = MAX_ID /\ a = ids[j] /\ a \in Nat /\ MAX_ID \in Nat
        /\ \A x \in 1 .. j : ids[x] = Was[x]
        /\ \A x \in 0 .. alloc : ids[x] \in Nat
    BY <1>MergeFacts, Zenon
  <2>3. /\ \A x, y \in k + 1 .. n : x < y => ids[x] >= ids[y]
        /\ \A x \in 1 .. j, y \in k + 1 .. n : ids[x] >= ids[y]
        /\ \A x \in 1 .. i, y \in k + 1 .. n : call.merge[x] >= ids[y]
        /\ Permuted(Merging, Was \o call.merge, n)
        /\ \A x, y \in 1 .. Len0 : x < y => Was[x] >= Was[y]
        /\ \A x, y \in 1 .. More : x < y => call.merge[x] >= call.merge[y]
        /\ \A x \in 1 .. Len0 : Was[x] \in Nat
        /\ \A x \in 1 .. More : call.merge[x] \in Nat /\ call.merge[x] <= MAX_ID
    BY <1>MergeFacts, Zenon
  <2>4. Len0' = Len0 /\ Was' = Was /\ More' = More
    BY <2>1, Zenon DEF Len0, Was, More
  <2> DEFINE new == call.merge[i]
  <2>5. i \in 1 .. More /\ i \in 1 .. i
    BY <2>2
  <2>6. new \in Nat /\ new <= MAX_ID /\ a >= new
    BY <2>3, <2>5, Zenon
  <2>7. /\ j < k /\ k \in 1 .. n /\ k \in 0 .. alloc /\ j \in 0 .. alloc /\ j # k
        /\ k - 1 = (i - 1) + j /\ k - 1 \in Int /\ i - 1 \in 0 .. More /\ k - j = i
        /\ 0 # k /\ 0 \in 0 .. alloc
    BY <2>2, <2>5
  <2>8. /\ ids' \in [0 .. alloc -> Nat] /\ ids'[k] = new
        /\ \A x \in 0 .. alloc : x # k => ids'[x] = ids[x]
    BY <2>2, <2>6, <2>7, Zenon
  <2> HIDE DEF new
  <2>9. ids'[0] = MAX_ID /\ a' = ids'[j'] /\ a' \in Int
    <3>1. ids'[j] = ids[j]
      BY <2>7, <2>8, Zenon
    <3> QED
      BY <2>2, <2>7, <2>8, <3>1
  <2>10. Typed'
    <3>1. pc' \in Labels /\ pc' \notin Sorting /\ pc \notin Sorting /\ rc' \in Int /\ i' \in Int
          /\ j' \in Int /\ k' \in Int
      BY <2>1, <2>2, <2>7, SMTT(30) DEF Labels, Sorting
    <3> QED
      BY <2>1, <2>2, <2>8, <2>9, <3>1, Zenon DEF Typed
  <2>11. ASSUME NEW x \in 1 .. j PROVE ids'[x] = Was[x] /\ ids'[x] = ids[x] /\ ids[x] >= new
    <3>1. j \in 0 .. Len0 /\ Len0 \in Nat /\ j < k /\ n <= alloc /\ n \in Nat
          /\ alloc \in Nat /\ k \in 1 .. n
      BY <2>2, <2>7, Zenon
    <3>2. x \in 0 .. alloc /\ x # k /\ x \in 1 .. Len0 /\ j \in 1 .. Len0 /\ j \in 1 .. j
          /\ (x = j \/ x < j)
      BY <3>1
    <3>3. /\ ids'[x] = ids[x] /\ ids[x] = Was[x] /\ ids[j] = Was[j] /\ (x = j \/ Was[x] >= Was[j])
          /\ Was[x] \in Nat /\ Was[j] \in Nat /\ a = ids[j]
      BY <2>2, <2>3, <2>8, <3>2, Zenon
    <3> QED
      BY <2>6, <3>3
  <2>12. ASSUME NEW y \in k' + 1 .. n
         PROVE  \/ y = k /\ ids'[y] = new
                \/ y > k /\ y \in k + 1 .. n /\ ids'[y] = ids[y]
    <3>1. y = k \/ (y > k /\ y \in k + 1 .. n /\ y # k /\ y \in 0 .. alloc)
      BY <2>2, <2>7
    <3> QED
      BY <2>8, <3>1, Zenon
  <2>13. ASSUME NEW x \in k' + 1 .. n, NEW y \in k' + 1 .. n, x < y PROVE ids'[x] >= ids'[y]
    <3>1. y > k /\ y \in k + 1 .. n /\ ids'[y] = ids[y]
      BY <2>2, <2>7, <2>12, <2>13, SMTT(30)
    <3>2. CASE x = k /\ ids'[x] = new
      BY <2>3, <2>5, <3>1, <3>2, Zenon DEF new
    <3>3. CASE x > k /\ x \in k + 1 .. n /\ ids'[x] = ids[x]
      BY <2>3, <2>13, <3>1, <3>3, Zenon
    <3> QED
      BY <2>12, <3>2, <3>3, Zenon
  <2>14. ASSUME NEW x \in 1 .. j, NEW y \in k' + 1 .. n PROVE ids'[x] >= ids'[y]
    <3>2. CASE y = k /\ ids'[y] = new
      BY <2>11, <3>2, Zenon
    <3>3. CASE y > k /\ y \in k + 1 .. n /\ ids'[y] = ids[y]
      BY <2>3, <2>11, <3>3, Zenon
    <3> QED
      BY <2>12, <3>2, <3>3, Zenon
  <2>15. ASSUME NEW x \in 1 .. i', NEW y \in k' + 1 .. n PROVE call.merge[x] >= ids'[y]
    <3>1. x \in 1 .. More /\ x < i /\ x \in 1 .. i
      <4>1. i \in 0 .. More /\ More \in Nat
        BY <2>2, Zenon
      <4> QED
        BY <4>1
    <3>2. CASE y = k /\ ids'[y] = new
      BY <2>3, <2>5, <3>1, <3>2, Zenon DEF new
    <3>3. CASE y > k /\ y \in k + 1 .. n /\ ids'[y] = ids[y]
      BY <2>3, <3>1, <3>3, Zenon
    <3> QED
      BY <2>12, <3>2, <3>3, Zenon
  <2>16. Permuted(Merging, Was \o call.merge, n)'
    <3>1. \A x \in 1 .. n : Merging[x] = IF x > j /\ x <= k THEN call.merge[x - j] ELSE ids[x]
      BY Zenon DEF Merging
    <3>2. ASSUME NEW x \in 1 .. n
          PROVE  Merging'[x] = IF x > j' /\ x <= k' THEN call.merge[x - j'] ELSE ids'[x]
      <4>1. x \in 1 .. n'
        BY <2>1, Zenon
      <4>2. Merging'[x] = IF x > j' /\ x <= k' THEN call'.merge[x - j'] ELSE ids'[x]
        BY <4>1, Zenon DEF Merging
      <4> QED
        BY <2>1, <4>2, Zenon
    <3>3. ASSUME NEW x \in 1 .. n PROVE Merging'[x] = Merging[x]
      <4>1. CASE x = k
        <5>1. ~(x <= k') /\ x > j /\ x <= k
          BY <2>2, <2>7, <4>1
        <5> QED
          BY <2>7, <2>8, <3>1, <3>2, <4>1, <5>1, Zenon DEF new
      <4>2. CASE x # k
        <5>1. (x <= k' <=> x <= k) /\ x \in 0 .. alloc
          BY <2>2, <2>7, <4>2, SMTT(30)
        <5> QED
          BY <2>8, <3>1, <3>2, <4>2, <5>1, Zenon
      <4> QED
        BY <4>1, <4>2, Zenon
    <3>4. Permuted(Merging', Was \o call.merge, n)
      BY <2>3, <3>3, ZenonT(60) DEF Permuted
    <3> QED
      BY <2>1, <2>4, <3>4, Zenon DEF Permuted
  <2>17. AtMerge'
    <3>1. i' \in 0 .. More /\ j' \in 0 .. Len0 /\ k' = i' + j'
      BY <2>2, <2>7, Zenon
    <3> QED
      BY <2>1, <2>2, <2>4, <2>9, <2>11, <2>13, <2>14, <2>15, <2>16, <3>1, ZenonT(60) DEF AtMerge
  <2> QED
    BY <2>1, <2>10, <2>17, <1>ToMerge, Zenon
\* All are placed.
<1>MergeEndInv.
    ASSUME IInv, pc = "merge", i = 0, ids' = [ids EXCEPT ![0] = n], Return(0),
           UNCHANGED <<i, j, k, a>>, UNCHANGED <<call, alloc, search_vars, n, sort_vars>>
    PROVE  IInv'
  <2> USE <1>MergeEndInv
  <2>1. /\ pc' = "return" /\ rc' = 0 /\ i' = i /\ j' = j /\ k' = k /\ a' = a
        /\ call' = call /\ alloc' = alloc /\ base' = base /\ cursor' = cursor /\ val' = val
        /\ n' = n /\ l' = l /\ ir' = ir /\ istack' = istack
    BY Zenon DEF Return, search_vars, sort_vars
  <2>2. /\ Typed /\ call \in Calls /\ call.op = "mdb_midl_xmerge"
        /\ alloc \in Nat /\ ids \in [0 .. alloc -> Nat]
        /\ Len0 \in Nat /\ More \in Nat /\ n = Len0 + More /\ n <= alloc /\ n \in Nat
        /\ i \in 0 .. More /\ j \in 0 .. Len0 /\ k = i + j
        /\ \A x \in 1 .. j : ids[x] = Was[x]
    BY <1>MergeFacts, Zenon
  <2>3. /\ \A x, y \in k + 1 .. n : x < y => ids[x] >= ids[y]
        /\ \A x \in 1 .. j, y \in k + 1 .. n : ids[x] >= ids[y]
        /\ Permuted(Merging, Was \o call.merge, n)
        /\ \A x, y \in 1 .. Len0 : x < y => Was[x] >= Was[y]
    BY <1>MergeFacts, Zenon
  <2>4. Len0' = Len0 /\ Was' = Was /\ More' = More
    BY <2>1, Zenon DEF Len0, Was, More
  <2>5. k = j /\ j \in Nat /\ j <= Len0 /\ Len0 \in Nat
    BY <2>2
  <2>6. /\ ids' \in [0 .. alloc -> Nat] /\ ids'[0] = n
        /\ \A x \in 1 .. n : ids'[x] = ids[x]
    <3>1. 0 \in 0 .. alloc /\ \A x \in 1 .. n : x \in 0 .. alloc /\ x # 0
      BY <2>2
    <3> QED
      BY <2>2, <3>1, Zenon
  <2>7. Typed'
    <3>1. pc' \in Labels /\ pc' \notin Sorting /\ pc \notin Sorting /\ rc' \in Int
      BY <2>1 DEF Labels, Sorting
    <3> QED
      BY <2>1, <2>2, <2>6, <3>1, Zenon DEF Typed
  <2>8. ASSUME NEW x \in 1 .. n, NEW y \in 1 .. n, x < y PROVE ids'[x] >= ids'[y]
    <3>1. CASE y <= j
      <4>1. x \in 1 .. j /\ y \in 1 .. j /\ x \in 1 .. Len0 /\ y \in 1 .. Len0
        BY <2>5, <2>8, <3>1
      <4>2. ids'[x] = Was[x] /\ ids'[y] = Was[y]
        BY <2>2, <2>6, <4>1, Zenon
      <4> QED
        BY <2>3, <2>8, <4>1, <4>2, Zenon
    <3>2. CASE x <= j /\ ~(y <= j)
      <4>1. x \in 1 .. j /\ y \in k + 1 .. n
        BY <2>5, <3>2
      <4> QED
        BY <2>3, <2>6, <4>1, Zenon
    <3>3. CASE ~(x <= j)
      <4>1. x \in k + 1 .. n /\ y \in k + 1 .. n
        BY <2>5, <2>8, <3>3
      <4> QED
        BY <2>3, <2>6, <2>8, <4>1, Zenon
    <3> QED
      BY <3>1, <3>2, <3>3, Zenon
  <2>9. Permuted(ids', Was \o call.merge, n)
    <3>1. ASSUME NEW x \in 1 .. n PROVE Merging[x] = ids'[x]
      <4>1. ~(x > j /\ x <= k)
        BY <2>5
      <4> QED
        BY <2>6, <4>1, Zenon DEF Merging
    <3>2. PICK g : Rearranges(g, n) /\ \A x \in 1 .. n : Merging[x] = (Was \o call.merge)[g[x]]
      BY <2>3, Zenon DEF Permuted
    <3>3. \A x \in 1 .. n : ids'[x] = (Was \o call.merge)[g[x]]
      BY <3>1, <3>2, Zenon
    <3> QED
      BY <3>2, <3>3, Zenon DEF Permuted
  <2>10. Rearranged(ids', Was \o call.merge, n)
    <3> DEFINE both == Was \o call.merge
               u == ids'
    <3>1. Permuted(u, both, n)
      BY <2>9, Zenon
    <3> HIDE DEF both, u
    <3>2. Rearranged(u, both, n)
      BY <2>2, <3>1, PermutedRearranged, Zenon
    <3> QED
      BY <3>2, Zenon DEF both, u
  <2>11. MergeRight'
    <3>1. (Len(Was) = Len0 /\ Len(call.merge) = More)'
      BY Zenon DEF Len0, More
    <3>2. ids'[0] = Len0' + More' /\ Descending(ids', ids'[0])
      BY <2>2, <2>4, <2>6, <2>8, Zenon DEF Descending
    <3>3. Rearranged(ids', Was' \o call'.merge, ids'[0])
      BY <2>1, <2>4, <2>6, <2>10, Zenon
    <3> QED
      BY <3>1, <3>2, <3>3, Zenon DEF MergeRight, Descending, Rearranged
  <2>12. Fits'
    BY <2>1, <2>2, <2>6, Zenon DEF Fits
  <2> QED
    BY <2>1, <2>2, <2>7, <2>11, <2>12, <1>ReturnMerge, Zenon
\* The three branches of the loop.
<1>MergeInv. IInv /\ Merge => IInv'
  <2> SUFFICES ASSUME IInv, Merge PROVE IInv'
    BY Zenon
  <2>1. pc = "merge" /\ UNCHANGED <<call, alloc, search_vars, n, sort_vars>>
    BY Zenon DEF Merge
  <2>2. CASE /\ i > 0 /\ a < call.merge[i]
             /\ ids' = [ids EXCEPT ![k] = a]
             /\ k' = k - 1 /\ j' = j - 1 /\ a' = ids'[j - 1]
             /\ Goto("merge") /\ UNCHANGED i
    BY <2>1, <2>2, <1>MergeOldInv, Zenon
  <2>3. CASE /\ i > 0 /\ a >= call.merge[i]
             /\ ids' = [ids EXCEPT ![k] = call.merge[i]]
             /\ k' = k - 1 /\ i' = i - 1
             /\ Goto("merge") /\ UNCHANGED <<j, a>>
    BY <2>1, <2>3, <1>MergeNewInv, Zenon
  <2>4. CASE /\ i = 0
             /\ ids' = [ids EXCEPT ![0] = n]
             /\ Return(0) /\ UNCHANGED <<i, j, k, a>>
    BY <2>1, <2>4, <1>MergeEndInv, Zenon
  <2> QED
    BY <2>2, <2>3, <2>4, Zenon DEF Merge
<1> QED
  BY <1>XmergeInv, <1>MergeInv, Zenon

-----------------------------------------------------------------------------
(* Sorting *)

\* What the sort never loses: the ids, and the order between stretches.
Kept(v) == Apart(v) /\ Permuted(v, Was, Len0)

\* u is v with the positions p and q exchanged.
Swapped(u, v, p, q) ==
    u[p] = v[q] /\ u[q] = v[p] /\ \A x \in 1 .. Len0 : x # p /\ x # q => u[x] = v[x]

\* The stretch at hand is in the array.
InArray ==
    /\ alloc \in Nat /\ Len0 \in Nat /\ Len0 <= alloc
    /\ l \in Nat /\ ir \in Nat /\ 1 <= l /\ ir <= Len0 /\ Stretches

\* g is the array f after an exchange.
SwapResult(g, f, p, q) ==
    /\ g \in [0 .. alloc -> Nat] /\ Kept(g)
    /\ g[p] = f[q] /\ g[q] = f[p]
    /\ \A x \in 0 .. alloc : x # p /\ x # q => g[x] = f[x]
    /\ f[p] \in Nat /\ f[q] \in Nat

\* g is the array f after two ids are put in order.
OrderResult(g, f, p, q) ==
    /\ g \in [0 .. alloc -> Nat] /\ Kept(g)
    /\ \/ g[p] = f[p] /\ g[q] = f[q] /\ f[p] >= f[q]
       \/ g[p] = f[q] /\ g[q] = f[p] /\ f[p] < f[q]
    /\ \A x \in 0 .. alloc : x # p /\ x # q => g[x] = f[x]
    /\ f[p] \in Nat /\ f[q] \in Nat

\* The stretch at hand is split into lo..hi, the shorter, and lo2..hi2.
Parts(lo, hi, lo2, hi2) ==
    /\ lo \in Nat /\ hi \in Nat /\ lo2 \in Nat /\ hi2 \in Nat
    /\ l <= lo /\ lo <= hi /\ hi <= ir
    /\ l <= lo2 /\ lo2 <= hi2 /\ hi2 <= ir
    /\ hi < lo2 \/ hi2 < lo
    /\ hi - lo <= hi2 - lo2
    /\ (hi - lo + 1) + (hi2 - lo2 + 1) <= ir - l + 1

\* Two ids of v that are in the stretch and not in order are in the same part.
Divided(v, lo, hi, lo2, hi2) ==
    \A x, y \in l .. ir : x < y => \/ v[x] >= v[y]
                                   \/ lo <= x /\ x <= hi /\ lo <= y /\ y <= hi
                                   \/ lo2 <= x /\ x <= hi2 /\ lo2 <= y /\ y <= hi2

\* The invariant at label sort.
LEMMA ToSort ==
    Typed' /\ pc' = "sort" /\ AtSorting' => IInv'
BY Zenon DEF IInv, AtStart, AtSearch, AtInsert, AtShift, AtAppend, AtMemcpy, AtRange, AtFill,
   AtXappend, AtMerge, AtInsertion, AtSlide, AtUp, AtDown, AtCross,
   SearchesRight, InsertRight, AppendsRight, MergeRight, SortRight, Done, Fits,
   Results, Ops, Sorting

\* The invariant at label insertion.
LEMMA ToInsertion ==
    Typed' /\ pc' = "insertion" /\ AtSorting' /\ AtInsertion' => IInv'
BY Zenon DEF IInv, AtStart, AtSearch, AtInsert, AtShift, AtAppend, AtMemcpy, AtRange, AtFill,
   AtXappend, AtMerge, AtSlide, AtUp, AtDown, AtCross, SearchesRight,
   InsertRight, AppendsRight, MergeRight, SortRight, Done, Fits, Results, Ops,
   Sorting

\* The invariant at label slide.
LEMMA ToSlide ==
    Typed' /\ pc' = "slide" /\ AtSorting' /\ AtSlide' => IInv'
BY Zenon DEF IInv, AtStart, AtSearch, AtInsert, AtShift, AtAppend, AtMemcpy, AtRange, AtFill,
   AtXappend, AtMerge, AtInsertion, AtUp, AtDown, AtCross, SearchesRight,
   InsertRight, AppendsRight, MergeRight, SortRight, Done, Fits, Results, Ops,
   Sorting

\* What is known while a list is sorted.
LEMMA SortFacts ==
    ASSUME IInv, pc \in Sorting
    PROVE  /\ Typed /\ call \in Calls /\ call.op = "mdb_midl_sort" /\ rc = 0
           /\ alloc \in Nat /\ ids \in [0 .. alloc -> Nat] /\ a \in Int /\ i \in Int /\ j \in Int
           /\ Len0 \in Nat /\ Len0 <= alloc /\ ids[0] = Len0
           /\ Stretches /\ Kept(Cells)
           /\ l \in Nat /\ ir \in Nat /\ 1 <= l /\ ir <= Len0
           /\ \A x : InStretch(x) /\ x \in Int => x \in 1 .. Len0 /\ x \in 0 .. alloc
<1>1. Typed /\ AtSorting
  BY Zenon DEF IInv
<1>2. call \in Calls /\ alloc \in Nat /\ ids \in [0 .. alloc -> Nat] /\ a \in Int
      /\ i \in Int /\ j \in Int
  BY <1>1, Zenon DEF Typed
<1>3. /\ call.op = "mdb_midl_sort" /\ rc = 0 /\ Len0 <= alloc /\ ids[0] = Len0
      /\ Stretches /\ Kept(Cells)
  BY <1>1, Zenon DEF AtSorting, Kept
<1>4. Len0 \in Nat
  BY <1>2, CallFacts, Zenon
<1>5. l \in 1 .. Len0 + 1 /\ ir \in 0 .. Len0
  BY <1>3, Zenon DEF Stretches
<1>6. l \in Nat /\ ir \in Nat /\ 1 <= l /\ ir <= Len0
  BY <1>4, <1>5
<1>7. ASSUME NEW x \in Int, InStretch(x) PROVE x \in 1 .. Len0 /\ x \in 0 .. alloc
  BY <1>2, <1>3, <1>4, <1>6, <1>7 DEF InStretch
<1> QED
  BY <1>1, <1>2, <1>3, <1>4, <1>6, <1>7, Zenon

\* A position is in the stretch at hand or put off, not both.
LEMMA NotPutOff ==
    ASSUME Stretches, l \in Nat, ir \in Nat, NEW x \in Int, InStretch(x),
           NEW p \in 1 .. Len(istack)
    PROVE  ~InPutOff(p, x)
<1>1. /\ istack[p] \in [l : Nat, ir : Nat]
      /\ istack[p].ir < l \/ ir < istack[p].l
  BY Zenon DEF Stretches
<1>2. istack[p].l \in Nat /\ istack[p].ir \in Nat
  BY <1>1, Zenon
<1> QED
  BY <1>1, <1>2 DEF InStretch, InPutOff

\* Two positions are exchanged.
LEMMA SwapRearranges ==
    ASSUME NEW m \in Nat, NEW p \in 1 .. m, NEW q \in 1 .. m
    PROVE  Rearranges([x \in 1 .. m |-> IF x = p THEN q ELSE IF x = q THEN p ELSE x], m)
<1> DEFINE h == [x \in 1 .. m |-> IF x = p THEN q ELSE IF x = q THEN p ELSE x]
<1>1. /\ \A x \in 1 .. m : h[x] = IF x = p THEN q ELSE IF x = q THEN p ELSE x
      /\ \A x \in 1 .. m : h[x] \in 1 .. m
  BY Zenon
<1>2. h \in [1 .. m -> 1 .. m]
  BY <1>1, Zenon
<1> HIDE DEF h
<1>3. \A x, y \in 1 .. m : h[x] = h[y] => x = y
  BY <1>1, Zenon
<1>4. ASSUME NEW y \in 1 .. m PROVE \E x \in 1 .. m : h[x] = y
  <2>1. h[h[y]] = y
    BY <1>1, Zenon
  <2> QED
    BY <1>1, <2>1, Zenon
<1>5. Rearranges(h, m)
  BY <1>2, <1>3, <1>4, Zenon DEF Rearranges
<1> QED
  BY <1>5, Zenon DEF h

\* Ids are moved within the stretch.
LEMMA MovedKept ==
    ASSUME Stretches, l \in Nat, ir \in Nat, Len0 \in Nat, NEW u, NEW v, NEW h, Kept(v),
           Rearranges(h, Len0), \A x \in 1 .. Len0 : u[x] = v[h[x]],
           \A x \in 1 .. Len0 : IF InStretch(x) THEN InStretch(h[x]) ELSE h[x] = x
    PROVE  Kept(u)
<1>1. Permuted(u, Was, Len0)
  <2>1. Permuted(v, Was, Len0)
    BY Zenon DEF Kept
  <2> DEFINE w == Was
  <2>2. Permuted(v, w, Len0)
    BY <2>1, Zenon
  <2> HIDE DEF w
  <2>3. Permuted(u, w, Len0)
    BY <2>2, PermutedMoved, Zenon
  <2> QED
    BY <2>3, Zenon DEF w
<1>2. \A x \in 1 .. Len0 : h[x] \in 1 .. Len0
  BY Zenon DEF Rearranges
<1>3. \A x, y \in 1 .. Len0 :
        x < y => \/ v[x] >= v[y]
                 \/ InStretch(x) /\ InStretch(y)
                 \/ \E p \in 1 .. Len(istack) : InPutOff(p, x) /\ InPutOff(p, y)
  BY Zenon DEF Kept, Apart
<1>4. ASSUME NEW x \in 1 .. Len0, NEW y \in 1 .. Len0, x < y
      PROVE  \/ u[x] >= u[y]
             \/ InStretch(x) /\ InStretch(y)
             \/ \E p \in 1 .. Len(istack) : InPutOff(p, x) /\ InPutOff(p, y)
  <2>1. CASE InStretch(x) /\ InStretch(y)
    BY <2>1, Zenon
  <2>2. CASE ~InStretch(x) /\ ~InStretch(y)
    BY <1>3, <1>4, <2>2, Zenon
  <2>3. CASE InStretch(x) /\ ~InStretch(y)
    <3>1. InStretch(h[x]) /\ h[x] \in 1 .. Len0 /\ h[x] \in Int
      BY <1>2, <2>3
    <3>2. h[x] < y
      BY <1>4, <2>3, <3>1 DEF InStretch
    <3>3. \A p \in 1 .. Len(istack) : ~InPutOff(p, h[x])
      BY <3>1, NotPutOff, Zenon
    <3>4. v[h[x]] >= v[y]
      BY <1>3, <2>3, <3>1, <3>2, <3>3, Zenon
    <3> QED
      BY <2>3, <3>4, Zenon
  <2>4. CASE ~InStretch(x) /\ InStretch(y)
    <3>1. InStretch(h[y]) /\ h[y] \in 1 .. Len0 /\ h[y] \in Int
      BY <1>2, <2>4
    <3>2. x < h[y]
      BY <1>4, <2>4, <3>1 DEF InStretch
    <3>3. \A p \in 1 .. Len(istack) : ~InPutOff(p, h[y])
      BY <3>1, NotPutOff, Zenon
    <3>4. v[x] >= v[h[y]]
      BY <1>3, <2>4, <3>1, <3>2, <3>3, Zenon
    <3> QED
      BY <2>4, <3>4, Zenon
  <2> QED
    BY <2>1, <2>2, <2>3, <2>4, Zenon
<1> QED
  BY <1>1, <1>4, Zenon DEF Kept, Apart

\* MIDL_SWAP within the stretch.
LEMMA SwapKept ==
    ASSUME Stretches, l \in Nat, ir \in Nat, Len0 \in Nat, NEW u, NEW v, Kept(v),
           NEW p \in 1 .. Len0, NEW q \in 1 .. Len0, InStretch(p), InStretch(q),
           Swapped(u, v, p, q)
    PROVE  Kept(u)
<1> DEFINE h == [x \in 1 .. Len0 |-> IF x = p THEN q ELSE IF x = q THEN p ELSE x]
<1>1. Rearranges(h, Len0)
  BY SwapRearranges, Zenon
<1>2. \A x \in 1 .. Len0 : h[x] = IF x = p THEN q ELSE IF x = q THEN p ELSE x
  BY Zenon
<1> HIDE DEF h
<1>3. \A x \in 1 .. Len0 : u[x] = v[h[x]]
  BY <1>2, Zenon DEF Swapped
<1>4. \A x \in 1 .. Len0 : IF InStretch(x) THEN InStretch(h[x]) ELSE h[x] = x
  BY <1>2, Zenon
<1> QED
  BY <1>1, <1>3, <1>4, MovedKept, Zenon

\* A step within the stretch leaves the stretches as they are.
LEMMA SameStretches ==
    ASSUME Stretches, call' = call, l' = l, ir' = ir, istack' = istack, rc' = 0,
           call.op = "mdb_midl_sort", alloc' = alloc, Len0 <= alloc, ids'[0] = Len0,
           NEW u, Kept(u), \A x \in 1 .. Len0 : Cells'[x] = u[x]
    PROVE  AtSorting'
<1>1. Len0' = Len0 /\ Was' = Was
  BY Zenon DEF Len0, Was
<1>2. Stretches'
  BY <1>1, ZenonT(60) DEF Stretches
<1>3. Apart(u) /\ Permuted(u, Was, Len0)
  BY Zenon DEF Kept
<1>4. Apart(Cells)'
  <2>1. ASSUME NEW x \in 1 .. Len0, NEW y \in 1 .. Len0, x < y
        PROVE  \/ Cells'[x] >= Cells'[y]
               \/ InStretch(x)' /\ InStretch(y)'
               \/ \E p \in 1 .. Len(istack') : InPutOff(p, x)' /\ InPutOff(p, y)'
    <3>1. \/ u[x] >= u[y]
          \/ InStretch(x) /\ InStretch(y)
          \/ \E p \in 1 .. Len(istack) : InPutOff(p, x) /\ InPutOff(p, y)
      BY <1>3, <2>1, Zenon DEF Apart
    <3>2. Cells'[x] = u[x] /\ Cells'[y] = u[y]
      BY Zenon
    <3>3. (InStretch(x) => InStretch(x)') /\ (InStretch(y) => InStretch(y)')
      BY Zenon DEF InStretch
    <3>4. ASSUME NEW p PROVE (InPutOff(p, x) => InPutOff(p, x)') /\ (InPutOff(p, y) => InPutOff(p, y)')
      BY Zenon DEF InPutOff
    <3> QED
      BY <3>1, <3>2, <3>3, <3>4, Zenon
  <2> QED
    BY <1>1, <2>1, Zenon DEF Apart
<1>5. Permuted(Cells, Was, Len0)'
  <2>1. PICK g : Rearranges(g, Len0) /\ \A x \in 1 .. Len0 : u[x] = Was[g[x]]
    BY <1>3, Zenon DEF Permuted
  <2>2. \A x \in 1 .. Len0 : Cells'[x] = Was[g[x]]
    BY <2>1, Zenon
  <2> QED
    BY <1>1, <2>1, <2>2, ZenonT(60) DEF Permuted
<1> QED
  BY <1>1, <1>2, <1>4, <1>5, Zenon DEF AtSorting

\* Types of a step of the sort.
LEMMA TypedSorting ==
    ASSUME Typed, pc' \in Sorting, rc = 0, rc' = rc,
           call' = call, alloc' = alloc, ids' \in [0 .. alloc -> Nat],
           UNCHANGED search_vars, n' = n, i' \in Int, j' \in Int, k' \in Int,
           l' \in Int, ir' \in Int, istack' \in Seq([l : Int, ir : Int]), a' \in Int
    PROVE  Typed'
<1>1. base' = base /\ cursor' = cursor /\ val' = val
  BY Zenon DEF search_vars
<1>2. pc' # "return"
  BY Zenon DEF Sorting
<1> QED
  BY <1>1, <1>2, Zenon DEF Typed

\* Nothing slides elsewhere.
LEMMA CellsAre ==
    /\ pc # "slide" => Cells = ids
    /\ pc' # "slide" => Cells' = ids'
BY Zenon DEF Cells

\* MIDL_SWAP in the array.
LEMMA SwapFacts ==
    ASSUME InArray, NEW f \in [0 .. alloc -> Nat], Kept(f),
           NEW p \in Int, NEW q \in Int, InStretch(p), InStretch(q)
    PROVE  SwapResult(MIDL_SWAP(f, p, q), f, p, q)
<1>0. /\ alloc \in Nat /\ Len0 \in Nat /\ Len0 <= alloc
      /\ l \in Nat /\ ir \in Nat /\ 1 <= l /\ ir <= Len0 /\ Stretches
  BY Zenon DEF InArray
<1>1. p \in 1 .. Len0 /\ q \in 1 .. Len0 /\ p \in 0 .. alloc /\ q \in 0 .. alloc
  BY <1>0 DEF InStretch
<1> DEFINE u == MIDL_SWAP(f, p, q)
<1>2. f[p] \in Nat /\ f[q] \in Nat
  BY <1>1, Zenon
<1>3. u = [f EXCEPT ![p] = f[q], ![q] = f[p]]
  BY Zenon DEF MIDL_SWAP
<1>4. /\ u \in [0 .. alloc -> Nat] /\ u[p] = f[q] /\ u[q] = f[p]
      /\ \A x \in 0 .. alloc : x # p /\ x # q => u[x] = f[x]
  BY <1>1, <1>2, <1>3, Zenon
<1> HIDE DEF u
<1>5. \A x \in 1 .. Len0 : x \in 0 .. alloc
  BY <1>0
<1>6. Swapped(u, f, p, q)
  BY <1>4, <1>5, Zenon DEF Swapped
<1>7. Kept(u)
  BY <1>0, <1>1, <1>6, SwapKept, Zenon
<1> QED
  BY <1>2, <1>4, <1>7, Zenon DEF u, SwapResult

\* A stretch is partitioned by its pivot.
LEMMA PartitionInv ==
    /\ (IInv /\ mdb_midl_sort => IInv')
    /\ (IInv /\ ScanUp => IInv')
    /\ (IInv /\ ScanDown => IInv')
    /\ (IInv /\ Exchange => IInv')
    /\ (IInv /\ Stretch => IInv')
\* The invariant at label up.
<1>ToUp.
    Typed' /\ pc' = "up" /\ AtSorting' /\ AtUp' => IInv'
  BY Zenon DEF IInv, AtStart, AtSearch, AtInsert, AtShift, AtAppend, AtMemcpy, AtRange, AtFill,
     AtXappend, AtMerge, AtInsertion, AtSlide, AtDown, AtCross, SearchesRight,
     InsertRight, AppendsRight, MergeRight, SortRight, Done, Fits, Results, Ops,
     Sorting
\* The invariant at label down.
<1>ToDown.
    Typed' /\ pc' = "down" /\ AtSorting' /\ AtDown' => IInv'
  BY Zenon DEF IInv, AtStart, AtSearch, AtInsert, AtShift, AtAppend, AtMemcpy, AtRange, AtFill,
     AtXappend, AtMerge, AtInsertion, AtSlide, AtUp, AtCross, SearchesRight,
     InsertRight, AppendsRight, MergeRight, SortRight, Done, Fits, Results, Ops,
     Sorting
\* The invariant at label cross.
<1>ToCross.
    Typed' /\ pc' = "cross" /\ AtSorting' /\ AtCross' => IInv'
  BY Zenon DEF IInv, AtStart, AtSearch, AtInsert, AtShift, AtAppend, AtMemcpy, AtRange, AtFill,
     AtXappend, AtMerge, AtInsertion, AtSlide, AtUp, AtDown, SearchesRight,
     InsertRight, AppendsRight, MergeRight, SortRight, Done, Fits, Results, Ops,
     Sorting
\* The sort starts with the whole list.
<1>SortInv. IInv /\ mdb_midl_sort => IInv'
  <2> SUFFICES ASSUME IInv, mdb_midl_sort PROVE IInv'
    BY Zenon
  <2>1. /\ pc = "mdb_midl_sort" /\ pc' = "sort" /\ rc' = rc
        /\ ir' = ids[0] /\ l' = 1 /\ istack' = << >>
        /\ call' = call /\ alloc' = alloc /\ ids' = ids
        /\ base' = base /\ cursor' = cursor /\ val' = val
        /\ n' = n /\ i' = i /\ j' = j /\ k' = k /\ a' = a
    BY Zenon DEF mdb_midl_sort, search_vars, Goto
  <2>2. pc \in Ops
    BY <2>1, Zenon DEF Ops
  <2>3. /\ Typed /\ Fresh /\ rc = 0 /\ pc = call.op /\ call \in Calls
        /\ ids[0] = Len0 /\ Len0 \in Nat /\ Len0 <= alloc /\ alloc \in Nat
    BY <2>2, StartFacts, Zenon
  <2>4. ids \in [0 .. alloc -> Nat] /\ \A x \in 1 .. Len0 : ids[x] = Was[x]
    BY <2>3, FreshFacts, Zenon
  <2>5. Typed'
    <3>1. pc' \in Sorting /\ rc' \in Int /\ ir' \in Int /\ l' \in Int /\ pc' # "return"
          /\ istack' \in Seq([l : Int, ir : Int])
      BY <2>1, <2>3 DEF Sorting
    <3> QED
      BY <2>1, <2>3, <3>1, Zenon DEF Typed
  <2>6. Len0' = Len0 /\ Was' = Was /\ Cells' = ids
    <3>1. pc' # "slide"
      BY <2>1, Zenon
    <3> QED
      BY <2>1, <3>1, Zenon DEF Len0, Was, Cells
  <2>7. Stretches'
    <3>1. Len(istack') = 0 /\ Power2[Len(istack')] = 1
      BY <2>1, Power2Facts, Zenon
    <3>2. l' \in 1 .. Len0 + 1 /\ ir' \in 0 .. Len0 /\ (l' <= ir' \/ Len0 = 0)
      BY <2>1, <2>3
    <3>3. (ir' - l' + 1) * Power2[Len(istack')] <= Len0
      BY <2>1, <2>3, <3>1
    <3>4. \A p \in 1 .. Len(istack') : FALSE
      BY <3>1
    <3> QED
      BY <2>1, <2>6, <3>2, <3>3, <3>4, Zenon DEF Stretches
  <2>8. Apart(Cells)'
    <3>1. \A x \in 1 .. Len0 : l' <= x /\ x <= ir'
      BY <2>1, <2>3
    <3> QED
      BY <2>6, <3>1, Zenon DEF Apart, InStretch
  <2>9. Permuted(Cells, Was, Len0)'
    <3> DEFINE v == ids
               w == Was
    <3>1. \A x \in 1 .. Len0 : v[x] = w[x]
      BY <2>4, Zenon
    <3> HIDE DEF v, w
    <3>2. Permuted(v, w, Len0)
      BY <2>3, <3>1, PermutedSame, Zenon
    <3> QED
      BY <2>6, <3>2, Zenon DEF v, w, Permuted
  <2>10. AtSorting'
    BY <2>1, <2>3, <2>6, <2>7, <2>8, <2>9, Zenon DEF AtSorting
  <2> QED
    BY <2>1, <2>5, <2>10, ToSort, Zenon
\* The scan upwards stops before the end of the stretch.
<1>ScanUpInv. IInv /\ ScanUp => IInv'
  <2> SUFFICES ASSUME IInv, ScanUp PROVE IInv'
    BY Zenon
  <2>1. /\ pc = "up" /\ i' = i + 1 /\ rc' = rc
        /\ pc' = IF ids[i + 1] > a THEN "up" ELSE "down"
        /\ call' = call /\ alloc' = alloc /\ ids' = ids /\ UNCHANGED search_vars
        /\ n' = n /\ j' = j /\ k' = k /\ l' = l /\ ir' = ir /\ istack' = istack /\ a' = a
    BY Zenon DEF ScanUp, sort_vars, Goto
  <2>2. pc \in Sorting /\ pc' \in Sorting /\ pc # "slide" /\ pc' # "slide"
    BY <2>1, Zenon DEF Sorting
  <2>3. /\ Typed /\ call.op = "mdb_midl_sort" /\ rc = 0
        /\ alloc \in Nat /\ ids \in [0 .. alloc -> Nat] /\ a \in Int
        /\ Len0 \in Nat /\ Len0 <= alloc /\ ids[0] = Len0
        /\ Stretches /\ Kept(Cells) /\ l \in Nat /\ ir \in Nat /\ 1 <= l /\ ir <= Len0
    BY <2>2, SortFacts, Zenon
  <2>4. /\ i \in l + 1 .. ir - 1 /\ j \in l + 2 .. ir /\ a = ids[l + 1]
        /\ \A x \in l .. i : ids[x] >= a
        /\ \A x \in j .. ir : ids[x] <= a
    BY <2>1, Zenon DEF IInv, AtUp
  <2>5. i + 1 \in Int /\ i + 1 \in l + 2 .. ir /\ i + 1 \in 0 .. alloc
    BY <2>3, <2>4
  <2>6. Typed'
    BY <2>1, <2>2, <2>3, <2>5, TypedSorting, Zenon DEF Typed
  <2>7. AtSorting'
    BY <2>1, <2>2, <2>3, CellsAre, SameStretches, Zenon
  <2>8. CASE ids[i + 1] > a
    <3>1. ids[i + 1] \in Nat
      BY <2>3, <2>5, Zenon
    <3>2. ids[ir] <= a
      BY <2>3, <2>4
    <3>3. i + 1 # ir
      BY <2>3, <2>8, <3>1, <3>2, SMTT(30)
    <3>4. i' \in l + 1 .. ir - 1
      BY <2>1, <2>3, <2>5, <3>3, SMTT(30)
    <3>5. ASSUME NEW x \in l .. i' PROVE ids[x] >= a
      <4>1. x = i + 1 \/ x \in l .. i
        BY <2>1, <2>3, <2>4, SMTT(30)
      <4>2. CASE x = i + 1
        BY <2>3, <2>8, <3>1, <4>2, SMTT(30)
      <4> QED
        BY <2>4, <4>1, <4>2, Zenon
    <3>6. AtUp'
      BY <2>1, <2>4, <3>4, <3>5, Zenon DEF AtUp
    <3> QED
      BY <2>1, <2>6, <2>7, <2>8, <3>6, <1>ToUp, Zenon
  <2>9. CASE ~(ids[i + 1] > a)
    <3>1. ids[i + 1] \in Nat
      BY <2>3, <2>5, Zenon
    <3>2. ids[i + 1] <= a /\ i' - 1 = i
      BY <2>1, <2>3, <2>4, <2>9, <3>1, SMTT(30)
    <3>3. AtDown'
      BY <2>1, <2>4, <2>5, <3>2, Zenon DEF AtDown
    <3> QED
      BY <2>1, <2>6, <2>7, <2>9, <3>3, <1>ToDown, Zenon
  <2> QED
    BY <2>8, <2>9, Zenon
\* The scan downwards stops at the pivot at the latest.
<1>ScanDownInv. IInv /\ ScanDown => IInv'
  <2> SUFFICES ASSUME IInv, ScanDown PROVE IInv'
    BY Zenon
  <2>1. /\ pc = "down" /\ j' = j - 1 /\ rc' = rc
        /\ pc' = IF ids[j - 1] < a THEN "down" ELSE "cross"
        /\ call' = call /\ alloc' = alloc /\ ids' = ids /\ UNCHANGED search_vars
        /\ n' = n /\ i' = i /\ k' = k /\ l' = l /\ ir' = ir /\ istack' = istack /\ a' = a
    BY Zenon DEF ScanDown, sort_vars, Goto
  <2>2. pc \in Sorting /\ pc' \in Sorting /\ pc # "slide" /\ pc' # "slide"
    BY <2>1, Zenon DEF Sorting
  <2>3. /\ Typed /\ call.op = "mdb_midl_sort" /\ rc = 0
        /\ alloc \in Nat /\ ids \in [0 .. alloc -> Nat] /\ a \in Int
        /\ Len0 \in Nat /\ Len0 <= alloc /\ ids[0] = Len0
        /\ Stretches /\ Kept(Cells) /\ l \in Nat /\ ir \in Nat /\ 1 <= l /\ ir <= Len0
    BY <2>2, SortFacts, Zenon
  <2>4. /\ i \in l + 2 .. ir /\ j \in l + 2 .. ir /\ a = ids[l + 1]
        /\ \A x \in l .. i - 1 : ids[x] >= a
        /\ \A x \in j .. ir : ids[x] <= a
        /\ ids[i] <= a
    BY <2>1, Zenon DEF IInv, AtDown
  <2>5. j - 1 \in Int /\ j - 1 \in l + 1 .. ir - 1 /\ j - 1 \in 0 .. alloc /\ (j - 1) + 1 = j
    BY <2>3, <2>4
  <2>6. Typed'
    BY <2>1, <2>2, <2>3, <2>5, TypedSorting, Zenon DEF Typed
  <2>7. AtSorting'
    BY <2>1, <2>2, <2>3, CellsAre, SameStretches, Zenon
  <2>8. ids[j - 1] \in Nat
    BY <2>3, <2>5, Zenon
  <2>9. CASE ids[j - 1] < a
    <3>1. j - 1 # l + 1
      BY <2>3, <2>4, <2>8, <2>9, SMTT(30)
    <3>2. j' \in l + 2 .. ir
      <4>1. j' = j - 1 /\ j - 1 \in Int /\ l + 1 <= j - 1 /\ j - 1 <= ir - 1
        BY <2>1, <2>3, <2>5, SMTT(30)
      <4> QED
        BY <2>3, <3>1, <4>1, SMTT(30)
    <3>3. ASSUME NEW x \in j' .. ir PROVE ids[x] <= a
      <4>1. x = j - 1 \/ x \in j .. ir
        BY <2>1, <2>3, <2>4, SMTT(30)
      <4>2. CASE x = j - 1
        BY <2>3, <2>8, <2>9, <4>2, SMTT(30)
      <4> QED
        BY <2>4, <4>1, <4>2, Zenon
    <3>4. AtDown'
      BY <2>1, <2>4, <3>2, <3>3, Zenon DEF AtDown
    <3> QED
      BY <2>1, <2>6, <2>7, <2>9, <3>4, <1>ToDown, Zenon
  <2>10. CASE ~(ids[j - 1] < a)
    <3>1. ids[j - 1] >= a
      BY <2>3, <2>8, <2>10, SMTT(30)
    <3>2. AtCross'
      BY <2>1, <2>4, <2>5, <3>1, Zenon DEF AtCross
    <3> QED
      BY <2>1, <2>6, <2>7, <2>10, <3>2, <1>ToCross, Zenon
  <2> QED
    BY <2>9, <2>10, Zenon
\* Two ids on the wrong sides of the pivot change places.
<1>ExchangeInv. IInv /\ Exchange => IInv'
  <2> SUFFICES ASSUME IInv, Exchange PROVE IInv'
    BY Zenon
  <2>1. /\ pc = "cross" /\ j >= i /\ pc' = "up" /\ rc' = rc /\ ids' = MIDL_SWAP(ids, i, j)
        /\ call' = call /\ alloc' = alloc /\ UNCHANGED search_vars
        /\ n' = n /\ i' = i /\ j' = j /\ k' = k /\ l' = l /\ ir' = ir /\ istack' = istack /\ a' = a
    BY Zenon DEF Exchange, sort_vars, Goto
  <2>2. pc \in Sorting /\ pc' \in Sorting /\ pc # "slide" /\ pc' # "slide"
    BY <2>1, Zenon DEF Sorting
  <2>3. /\ Typed /\ call.op = "mdb_midl_sort" /\ rc = 0
        /\ alloc \in Nat /\ ids \in [0 .. alloc -> Nat] /\ a \in Int /\ i \in Int /\ j \in Int
        /\ Len0 \in Nat /\ Len0 <= alloc /\ ids[0] = Len0
        /\ Stretches /\ Kept(Cells) /\ l \in Nat /\ ir \in Nat /\ 1 <= l /\ ir <= Len0
    BY <2>2, SortFacts, Zenon
  <2>4. /\ i \in l + 2 .. ir /\ j \in l + 1 .. ir - 1 /\ a = ids[l + 1]
        /\ \A x \in l .. i - 1 : ids[x] >= a
        /\ \A x \in j + 1 .. ir : ids[x] <= a
        /\ ids[i] <= a /\ ids[j] >= a
    BY <2>1, Zenon DEF IInv, AtCross
  <2>5. /\ InStretch(i) /\ InStretch(j) /\ i \in l + 1 .. ir - 1 /\ j \in l + 2 .. ir
        /\ l + 1 \in 0 .. alloc /\ l + 1 # i /\ l + 1 # j /\ 0 # i /\ 0 # j /\ 0 \in 0 .. alloc
    BY <2>1, <2>3, <2>4, SMTT(30) DEF InStretch
  <2>6. Kept(ids)
    BY <2>2, <2>3, CellsAre, Zenon
  <2>7. /\ ids' \in [0 .. alloc -> Nat] /\ Kept(ids') /\ ids'[i] = ids[j] /\ ids'[j] = ids[i]
        /\ \A x \in 0 .. alloc : x # i /\ x # j => ids'[x] = ids[x]
    <3>1. InArray
      BY <2>3, Zenon DEF InArray
    <3>2. SwapResult(MIDL_SWAP(ids, i, j), ids, i, j)
      BY <2>3, <2>5, <2>6, <3>1, SwapFacts, Zenon
    <3> QED
      BY <2>1, <3>2, Zenon DEF SwapResult
  <2>8. Typed'
    BY <2>1, <2>2, <2>3, <2>7, TypedSorting, Zenon DEF Typed
  <2>9. AtSorting'
    <3>1. ids'[0] = Len0
      BY <2>3, <2>5, <2>7, Zenon
    <3> DEFINE u == ids'
    <3>2. Kept(u) /\ \A x \in 1 .. Len0 : Cells'[x] = u[x]
      BY <2>2, <2>7, CellsAre, Zenon
    <3> HIDE DEF u
    <3> QED
      BY <2>1, <2>3, <3>1, <3>2, SameStretches, Zenon
  <2>10. ASSUME NEW x \in l .. i PROVE ids'[x] >= a
    <3>1. x = i \/ (x \in l .. i - 1 /\ x # i /\ x # j /\ x \in 0 .. alloc)
      BY <2>1, <2>3, <2>4, SMTT(30)
    <3> QED
      BY <2>4, <2>7, <3>1, Zenon
  <2>11. ASSUME NEW x \in j .. ir PROVE ids'[x] <= a
    <3>1. x = j \/ (x \in j + 1 .. ir /\ x # i /\ x # j /\ x \in 0 .. alloc)
      BY <2>1, <2>3, <2>4, SMTT(30)
    <3> QED
      BY <2>4, <2>7, <3>1, Zenon
  <2>12. AtUp'
    BY <2>1, <2>4, <2>5, <2>7, <2>10, <2>11, Zenon DEF AtUp
  <2> QED
    BY <2>1, <2>8, <2>9, <2>12, <1>ToUp, Zenon
\* An exchange of two ids that are not in order.
<1>SwapIfLessFacts.
    ASSUME InArray, NEW f \in [0 .. alloc -> Nat], Kept(f),
           NEW p \in Int, NEW q \in Int, InStretch(p), InStretch(q)
    PROVE  OrderResult(SwapIfLess(f, p, q), f, p, q)
  <2> USE <1>SwapIfLessFacts
  <2>1. SwapResult(MIDL_SWAP(f, p, q), f, p, q)
    BY SwapFacts, Zenon
  <2>2. CASE f[p] < f[q]
    BY <2>1, <2>2, Zenon DEF SwapIfLess, SwapResult, OrderResult
  <2>3. CASE ~(f[p] < f[q])
    <3>1. f[p] \in Nat /\ f[q] \in Nat
      BY <2>1, Zenon DEF SwapResult
    <3>2. f[p] >= f[q]
      BY <2>3, <3>1
    <3> QED
      BY <2>3, <3>1, <3>2, Zenon DEF SwapIfLess, OrderResult
  <2> QED
    BY <2>2, <2>3, Zenon
\* The pivot is between the first id and the last.
<1>MedianFacts.
    ASSUME InArray, ids \in [0 .. alloc -> Nat], Kept(ids), ir - l >= 2
    PROVE  /\ Median(ids) \in [0 .. alloc -> Nat] /\ Kept(Median(ids)) /\ Median(ids)[0] = ids[0]
           /\ Median(ids)[l] >= Median(ids)[l + 1] /\ Median(ids)[l + 1] >= Median(ids)[ir]
  <2> USE <1>MedianFacts
  <2> DEFINE mid == (l + ir) \div 2
             f1 == MIDL_SWAP(ids, mid, l + 1)
             f2 == SwapIfLess(f1, l, ir)
             f3 == SwapIfLess(f2, l + 1, ir)
             f4 == SwapIfLess(f3, l, l + 1)
  <2>1. /\ l \in Nat /\ ir \in Nat /\ 1 <= l /\ ir <= Len0 /\ Len0 \in Nat /\ Len0 <= alloc
        /\ alloc \in Nat
    BY Zenon DEF InArray
  <2>2. /\ mid \in Int /\ l + 1 \in Int /\ l \in Int /\ ir \in Int
        /\ InStretch(mid) /\ InStretch(l + 1) /\ InStretch(l) /\ InStretch(ir)
        /\ 0 # mid /\ 0 # l + 1 /\ 0 # l /\ 0 # ir /\ 0 \in 0 .. alloc
        /\ l # l + 1 /\ l # ir /\ l + 1 # ir
        /\ l \in 0 .. alloc /\ l + 1 \in 0 .. alloc /\ ir \in 0 .. alloc
    BY <2>1 DEF InStretch
  <2>3. Median(ids) = f4
    BY Zenon DEF Median
  <2> HIDE DEF mid
  <2>4. SwapResult(f1, ids, mid, l + 1)
    BY <2>2, SwapFacts, Zenon
  <2> HIDE DEF f1
  <2>5. f1 \in [0 .. alloc -> Nat] /\ Kept(f1) /\ f1[0] = ids[0]
    BY <2>2, <2>4, Zenon DEF SwapResult
  <2>6. OrderResult(f2, f1, l, ir)
    BY <2>2, <2>5, <1>SwapIfLessFacts, Zenon
  <2> HIDE DEF f2
  <2>7. f2 \in [0 .. alloc -> Nat] /\ Kept(f2) /\ f2[0] = f1[0] /\ f2[l + 1] = f1[l + 1]
        /\ \/ f2[l] = f1[l] /\ f2[ir] = f1[ir] /\ f1[l] >= f1[ir]
           \/ f2[l] = f1[ir] /\ f2[ir] = f1[l] /\ f1[l] < f1[ir]
        /\ f1[l] \in Nat /\ f1[ir] \in Nat
    BY <2>2, <2>6, Zenon DEF OrderResult
  <2>8. f2[l] >= f2[ir]
    BY <2>7
  <2>9. OrderResult(f3, f2, l + 1, ir)
    BY <2>2, <2>7, <1>SwapIfLessFacts, Zenon
  <2> HIDE DEF f3
  <2>10. f3 \in [0 .. alloc -> Nat] /\ Kept(f3) /\ f3[0] = f2[0] /\ f3[l] = f2[l]
         /\ \/ f3[l + 1] = f2[l + 1] /\ f3[ir] = f2[ir] /\ f2[l + 1] >= f2[ir]
            \/ f3[l + 1] = f2[ir] /\ f3[ir] = f2[l + 1] /\ f2[l + 1] < f2[ir]
         /\ f2[l + 1] \in Nat /\ f2[ir] \in Nat
    BY <2>2, <2>9, Zenon DEF OrderResult
  <2>11. f2[l] \in Nat
    BY <2>2, <2>7, Zenon
  <2>12. f3[l] >= f3[ir] /\ f3[l + 1] >= f3[ir]
    BY <2>8, <2>10, <2>11, SMTT(30)
  <2>13. OrderResult(f4, f3, l, l + 1)
    BY <2>2, <2>10, <1>SwapIfLessFacts, Zenon
  <2> HIDE DEF f4
  <2>14. f4 \in [0 .. alloc -> Nat] /\ Kept(f4) /\ f4[0] = f3[0] /\ f4[ir] = f3[ir]
         /\ \/ f4[l] = f3[l] /\ f4[l + 1] = f3[l + 1] /\ f3[l] >= f3[l + 1]
            \/ f4[l] = f3[l + 1] /\ f4[l + 1] = f3[l] /\ f3[l] < f3[l + 1]
         /\ f3[l] \in Nat /\ f3[l + 1] \in Nat
    BY <2>2, <2>13, Zenon DEF OrderResult
  <2>15. f4[l] >= f4[l + 1] /\ f4[l + 1] >= f4[ir]
    BY <2>12, <2>14, SMTT(30)
  <2> QED
    BY <2>3, <2>5, <2>7, <2>10, <2>14, <2>15, ZenonT(60)
\* A stretch is sorted by insertion, or its pivot chosen.
<1>StretchInv. IInv /\ Stretch => IInv'
  <2> SUFFICES ASSUME IInv, Stretch PROVE IInv'
    BY Zenon
  <2>1. /\ pc = "sort"
        /\ call' = call /\ alloc' = alloc /\ UNCHANGED search_vars
        /\ n' = n /\ l' = l /\ ir' = ir /\ istack' = istack
    BY Zenon DEF Stretch, sort_vars
  <2>2. pc \in Sorting /\ pc # "slide"
    BY <2>1, Zenon DEF Sorting
  <2>3. /\ Typed /\ call.op = "mdb_midl_sort" /\ rc = 0
        /\ alloc \in Nat /\ ids \in [0 .. alloc -> Nat] /\ a \in Int /\ i \in Int /\ j \in Int
        /\ Len0 \in Nat /\ Len0 <= alloc /\ ids[0] = Len0
        /\ Stretches /\ Kept(Cells) /\ l \in Nat /\ ir \in Nat /\ 1 <= l /\ ir <= Len0
    BY <2>2, SortFacts, Zenon
  <2>4. Kept(ids)
    BY <2>2, <2>3, CellsAre, Zenon
  <2>5. CASE ir - l < SMALL
    <3>1. /\ j' = l + 1 /\ pc' = "insertion" /\ rc' = rc /\ ids' = ids /\ i' = i /\ k' = k /\ a' = a
      BY <2>5, Zenon DEF Stretch, Goto
    <3>2. pc' \in Sorting /\ pc' # "slide" /\ j' \in Int
      BY <2>3, <3>1 DEF Sorting
    <3>3. Typed'
      BY <2>1, <2>3, <3>1, <3>2, TypedSorting, Zenon DEF Typed
    <3>4. AtSorting'
      BY <2>1, <2>3, <2>4, <3>1, <3>2, CellsAre, SameStretches, Zenon
    <3>5. l <= ir \/ Len0 = 0
      BY <2>3, Zenon DEF Stretches
    <3>6. j' > l /\ (j' <= ir + 1 \/ Len0 = 0) /\ j' - 1 = l
      BY <2>3, <3>1, <3>5
    <3>7. \A x, y \in l .. l : ~(x < y)
      BY <2>3
    <3>8. Len0' = Len0
      BY <2>1, Zenon DEF Len0, Was
    <3>9. AtInsertion'
      BY <2>1, <3>6, <3>7, <3>8, Zenon DEF AtInsertion
    <3> QED
      BY <3>1, <3>3, <3>4, <3>9, ToInsertion, Zenon
  <2>6. CASE ~(ir - l < SMALL)
    <3>1. /\ k' = (l + ir) \div 2 /\ ids' = Median(ids) /\ i' = l + 1 /\ j' = ir
          /\ a' = ids'[l + 1] /\ pc' = "up" /\ rc' = rc
      BY <2>6, Zenon DEF Stretch, Goto
    <3>2. ir - l >= 2
      BY <2>3, <2>6, BoundsAssumption
    <3>3. InArray
      BY <2>3, Zenon DEF InArray
    <3>4. /\ ids' \in [0 .. alloc -> Nat] /\ Kept(ids') /\ ids'[0] = Len0
          /\ ids'[l] >= ids'[l + 1] /\ ids'[l + 1] >= ids'[ir]
      BY <2>3, <2>4, <3>1, <3>2, <3>3, <1>MedianFacts, Zenon
    <3>5. /\ pc' \in Sorting /\ pc' # "slide" /\ i' \in Int /\ j' \in Int /\ k' \in Int
          /\ l + 1 \in 0 .. alloc /\ ir \in 0 .. alloc /\ l \in 0 .. alloc
      BY <2>3, <3>1, <3>2, SMTT(30) DEF Sorting
    <3>6. /\ ids'[l] \in Nat /\ ids'[l + 1] \in Nat /\ ids'[ir] \in Nat
      BY <3>4, <3>5, Zenon
    <3>7. a' \in Int
      BY <3>1, <3>6
    <3>8. Typed'
      BY <2>1, <2>3, <3>1, <3>4, <3>5, <3>7, TypedSorting, ZenonT(60) DEF Typed
    <3>9. AtSorting'
      <4> DEFINE u == ids'
      <4>1. Kept(u) /\ \A x \in 1 .. Len0 : Cells'[x] = u[x]
        BY <3>4, <3>5, CellsAre, Zenon
      <4> HIDE DEF u
      <4> QED
        BY <2>1, <2>3, <3>1, <3>4, <4>1, SameStretches, Zenon
    <3>10. /\ i' \in l + 1 .. ir - 1 /\ j' \in l + 2 .. ir
      BY <2>3, <3>1, <3>2, SMTT(30)
    <3>11. ASSUME NEW x \in l .. i' PROVE ids'[x] >= a'
      <4>1. x = l \/ x = l + 1
        BY <2>3, <3>1
      <4> QED
        BY <3>1, <3>4, <3>6, <4>1, SMTT(30)
    <3>12. ASSUME NEW x \in j' .. ir PROVE ids'[x] <= a'
      <4>1. x = ir
        BY <2>3, <3>1
      <4> QED
        BY <3>1, <3>4, <3>6, <4>1, Zenon
    <3>13. AtUp'
      BY <2>1, <3>1, <3>10, <3>11, <3>12, Zenon DEF AtUp
    <3> QED
      BY <3>1, <3>8, <3>9, <3>13, <1>ToUp, Zenon
  <2> QED
    BY <2>5, <2>6, Zenon
<1> QED
  BY <1>SortInv, <1>ScanUpInv, <1>ScanDownInv, <1>ExchangeInv, <1>StretchInv, Zenon

\* The three branches of the outer loop of the insertion sort.
LEMMA InsertionInv ==
    IInv /\ Insertion => IInv'
\* What is returned by mdb_midl_sort.
<1>ReturnSort.
    Typed' /\ pc' = "return" /\ call'.op = "mdb_midl_sort" /\ Fits' /\ SortRight' => IInv'
  <2> SUFFICES ASSUME Typed', pc' = "return", Fits', SortRight', call'.op = "mdb_midl_sort"
               PROVE  IInv'
    BY Zenon
  <2>1. Results'
    BY Zenon DEF Results, SearchesRight, InsertRight, AppendsRight, MergeRight, Done
  <2> QED
    BY <2>1, ToReturn, Zenon
\* What is known between two insertions.
<1>InsertionFacts.
    ASSUME IInv, pc = "insertion"
    PROVE  /\ Typed /\ call \in Calls /\ call.op = "mdb_midl_sort" /\ rc = 0
           /\ alloc \in Nat /\ ids \in [0 .. alloc -> Nat] /\ j \in Int
           /\ Len0 \in Nat /\ Len0 <= alloc /\ ids[0] = Len0
           /\ Stretches /\ Kept(ids) /\ l \in Nat /\ ir \in Nat /\ 1 <= l /\ ir <= Len0
           /\ j > l /\ (j <= ir + 1 \/ Len0 = 0)
           /\ \A x, y \in l .. j - 1 : x < y /\ y <= ir => ids[x] >= ids[y]
  <2> USE <1>InsertionFacts
  <2>1. pc \in Sorting /\ pc # "slide"
    BY Zenon DEF Sorting
  <2>2. /\ j > l /\ (j <= ir + 1 \/ Len0 = 0)
        /\ \A x, y \in l .. j - 1 : x < y /\ y <= ir => ids[x] >= ids[y]
    BY Zenon DEF IInv, AtInsertion
  <2> QED
    BY <2>1, <2>2, SortFacts, CellsAre, Zenon
\* The next id is taken up.
<1>TakeInv.
    ASSUME IInv, pc = "insertion", j <= ir, a' = ids[j], i' = j - 1, Goto("slide"),
           UNCHANGED sort_vars, UNCHANGED <<call, alloc, ids, search_vars, n, j, k>>
    PROVE  IInv'
  <2> USE <1>TakeInv
  <2>1. /\ pc' = "slide" /\ rc' = rc
        /\ call' = call /\ alloc' = alloc /\ ids' = ids /\ UNCHANGED search_vars
        /\ n' = n /\ j' = j /\ k' = k /\ l' = l /\ ir' = ir /\ istack' = istack
    BY Zenon DEF sort_vars, Goto
  <2>2. /\ Typed /\ call \in Calls /\ call.op = "mdb_midl_sort" /\ rc = 0
        /\ alloc \in Nat /\ ids \in [0 .. alloc -> Nat] /\ j \in Int
        /\ Len0 \in Nat /\ Len0 <= alloc /\ ids[0] = Len0
        /\ Stretches /\ Kept(ids) /\ l \in Nat /\ ir \in Nat /\ 1 <= l /\ ir <= Len0
        /\ j > l /\ \A x, y \in l .. j - 1 : x < y /\ y <= ir => ids[x] >= ids[y]
    BY <1>InsertionFacts, Zenon
  <2>3. /\ j \in l + 1 .. ir /\ j \in 0 .. alloc /\ i' \in l - 1 .. j - 1 /\ i' + 1 = j /\ i' \in Int
        /\ pc' \in Sorting
    BY <2>1, <2>2 DEF Sorting
  <2>4. a' \in Int
    BY <2>2, <2>3
  <2>5. Typed'
    BY <2>1, <2>2, <2>3, <2>4, TypedSorting, Zenon DEF Typed
  <2>6. Cells' = ids
    <3>1. Cells' = [ids' EXCEPT ![i' + 1] = a']
      BY <2>1, Zenon DEF Cells
    <3>2. Cells' = [ids EXCEPT ![j] = ids[j]]
      BY <2>1, <2>3, <3>1, Zenon
    <3> QED
      BY <2>2, <2>3, <3>2, Zenon
  <2>7. AtSorting'
    BY <2>1, <2>2, <2>6, SameStretches, Zenon
  <2>8. ASSUME NEW x \in l .. j, NEW y \in l .. j, x < y, y # i' + 1 PROVE ids[x] >= ids[y]
    <3>1. x \in l .. j - 1 /\ y \in l .. j - 1 /\ y <= ir
      BY <2>2, <2>3, <2>8
    <3> QED
      BY <2>2, <2>8, <3>1, Zenon
  <2>9. AtSlide'
    BY <2>1, <2>3, <2>6, <2>8, Zenon DEF AtSlide
  <2> QED
    BY <2>1, <2>5, <2>7, <2>9, ToSlide, Zenon
\* Every stretch is sorted.
<1>SortedInv.
    ASSUME IInv, pc = "insertion", j > ir, istack = << >>, Return(0),
           UNCHANGED <<a, i, sort_vars>>, UNCHANGED <<call, alloc, ids, search_vars, n, j, k>>
    PROVE  IInv'
  <2> USE <1>SortedInv
  <2>1. /\ pc' = "return" /\ rc' = 0 /\ a' = a /\ i' = i
        /\ call' = call /\ alloc' = alloc /\ ids' = ids
        /\ base' = base /\ cursor' = cursor /\ val' = val
        /\ n' = n /\ j' = j /\ k' = k /\ l' = l /\ ir' = ir /\ istack' = istack
    BY Zenon DEF sort_vars, search_vars, Return
  <2>2. /\ Typed /\ call \in Calls /\ call.op = "mdb_midl_sort"
        /\ alloc \in Nat /\ ids \in [0 .. alloc -> Nat] /\ j \in Int
        /\ Len0 \in Nat /\ Len0 <= alloc /\ ids[0] = Len0
        /\ Kept(ids) /\ l \in Nat /\ ir \in Nat /\ 1 <= l /\ ir <= Len0
        /\ \A x, y \in l .. j - 1 : x < y /\ y <= ir => ids[x] >= ids[y]
    BY <1>InsertionFacts, Zenon
  <2>3. Typed'
    <3>1. pc' \in Labels /\ pc' \notin Sorting /\ rc' \in Int
      BY <2>1 DEF Labels, Sorting
    <3> QED
      BY <2>1, <2>2, <3>1, Zenon DEF Typed
  <2>4. ASSUME NEW x \in 1 .. Len0, NEW y \in 1 .. Len0, x < y PROVE ids[x] >= ids[y]
    <3>1. \A p \in 1 .. Len(istack) : FALSE
      OBVIOUS
    <3>2. ids[x] >= ids[y] \/ (InStretch(x) /\ InStretch(y))
      BY <2>2, <2>4, <3>1, Zenon DEF Kept, Apart
    <3>3. CASE InStretch(x) /\ InStretch(y)
      <4>1. x \in l .. j - 1 /\ y \in l .. j - 1 /\ y <= ir
        BY <2>2, <2>4, <3>3 DEF InStretch
      <4> QED
        BY <2>2, <2>4, <4>1, Zenon
    <3> QED
      BY <3>2, <3>3, Zenon
  <2>5. Rearranged(ids, Was, Len0)
    <3> DEFINE v == ids
               w == Was
    <3>1. Permuted(v, w, Len0)
      BY <2>2, Zenon DEF Kept
    <3> HIDE DEF v, w
    <3>2. Rearranged(v, w, Len0)
      BY <2>2, <3>1, PermutedRearranged, Zenon
    <3> QED
      BY <3>2, Zenon DEF v, w
  <2>6. Len(Was)' = Len0 /\ Was' = Was
    BY <2>1, Zenon DEF Len0, Was
  <2>7. SortRight'
    <3>1. ids'[0] = Len0 /\ Descending(ids', Len0)
      BY <2>1, <2>2, <2>4, Zenon DEF Descending
    <3>2. Rearranged(ids', Was', ids'[0])
      BY <2>1, <2>5, <2>6, <3>1, Zenon
    <3> QED
      BY <2>1, <2>6, <3>1, <3>2, Zenon DEF SortRight
  <2>8. Fits'
    BY <2>1, <2>2, Zenon DEF Fits
  <2> QED
    BY <2>1, <2>2, <2>3, <2>7, <2>8, <1>ReturnSort, Zenon
\* The first m elements of a sequence.
<1>PrefixFacts.
    ASSUME NEW S, NEW s, NEW m \in Nat, \A p \in 1 .. m : s[p] \in S
    PROVE  /\ SubSeq(s, 1, m) \in Seq(S)
           /\ Len(SubSeq(s, 1, m)) = m
           /\ \A p \in 1 .. m : SubSeq(s, 1, m)[p] = s[p]
  <2> USE <1>PrefixFacts
  <2>1. 1 \in Int /\ m \in Int
    OBVIOUS
  <2> DEFINE q == SubSeq(s, 1, m)
  <2>2. /\ q \in Seq(S)
        /\ Len(q) = IF 1 <= m THEN m - 1 + 1 ELSE 0
        /\ \A p \in 1 .. m - 1 + 1 : q[p] = s[1 + p - 1]
    BY <2>1, SMT
  <2> HIDE DEF q
  <2>3. (IF 1 <= m THEN m - 1 + 1 ELSE 0) = m
    OBVIOUS
  <2>4. m - 1 + 1 = m /\ \A p \in 1 .. m : 1 + p - 1 = p
    OBVIOUS
  <2>5. q \in Seq(S) /\ Len(q) = m /\ \A p \in 1 .. m : q[p] = s[p]
    BY <2>2, <2>3, <2>4, Zenon
  <2> QED
    BY <2>5, Zenon DEF q
\* The stack without its top.
<1>FrontFacts.
    ASSUME NEW S, NEW s \in Seq(S), s # << >>
    PROVE  /\ Len(s) \in Nat /\ Len(s) \in 1 .. Len(s)
           /\ SubSeq(s, 1, Len(s) - 1) \in Seq(S)
           /\ Len(SubSeq(s, 1, Len(s) - 1)) = Len(s) - 1
           /\ \A p \in 1 .. Len(s) - 1 :
                p \in 1 .. Len(s) /\ SubSeq(s, 1, Len(s) - 1)[p] = s[p]
  <2> USE <1>FrontFacts
  <2>1. Len(s) \in Nat /\ Len(s) # 0
    OBVIOUS
  <2>2. Len(s) \in 1 .. Len(s) /\ \A p \in 1 .. Len(s) - 1 : p \in 1 .. Len(s)
    BY <2>1
  <2>3. Len(s) - 1 \in Nat
    BY <2>1
  <2>4. \A p \in 1 .. Len(s) - 1 : s[p] \in S
    BY <2>1, <2>2
  <2> DEFINE m == Len(s) - 1
  <2>5. /\ SubSeq(s, 1, m) \in Seq(S)
        /\ Len(SubSeq(s, 1, m)) = m
        /\ \A p \in 1 .. m : SubSeq(s, 1, m)[p] = s[p]
    <3>1. m \in Nat /\ \A p \in 1 .. m : s[p] \in S
      BY <2>3, <2>4, Zenon
    <3> HIDE DEF m
    <3> QED
      BY <3>1, <1>PrefixFacts
  <2> QED
    BY <2>1, <2>2, <2>5, Zenon
\* What the last stretch that was put off is.
<1>TopFacts.
    ASSUME Stretches, istack \in Seq([l : Int, ir : Int]), istack # << >>
    PROVE  /\ Len(istack) \in Nat /\ Len(istack) \in 1 .. Len(istack)
           /\ istack[Len(istack)].l \in Nat /\ istack[Len(istack)].ir \in Nat
           /\ 1 <= istack[Len(istack)].l /\ istack[Len(istack)].l <= istack[Len(istack)].ir
           /\ istack[Len(istack)].ir <= Len0
           /\ SubSeq(istack, 1, Len(istack) - 1) \in Seq([l : Int, ir : Int])
           /\ Len(SubSeq(istack, 1, Len(istack) - 1)) = Len(istack) - 1
           /\ \A p \in 1 .. Len(istack) - 1 :
                p \in 1 .. Len(istack) /\ SubSeq(istack, 1, Len(istack) - 1)[p] = istack[p]
  <2> USE <1>TopFacts
  <2> DEFINE R == [l : Int, ir : Int]
  <2>1. istack \in Seq(R)
    BY Zenon
  <2> HIDE DEF R
  <2>2. /\ Len(istack) \in Nat /\ Len(istack) \in 1 .. Len(istack)
        /\ SubSeq(istack, 1, Len(istack) - 1) \in Seq(R)
        /\ Len(SubSeq(istack, 1, Len(istack) - 1)) = Len(istack) - 1
        /\ \A p \in 1 .. Len(istack) - 1 :
             p \in 1 .. Len(istack) /\ SubSeq(istack, 1, Len(istack) - 1)[p] = istack[p]
    BY <2>1, <1>FrontFacts, Zenon
  <2>3. /\ istack[Len(istack)] \in [l : Nat, ir : Nat]
        /\ 1 <= istack[Len(istack)].l /\ istack[Len(istack)].l <= istack[Len(istack)].ir
        /\ istack[Len(istack)].ir <= Len0
    BY <2>2, Zenon DEF Stretches
  <2>4. istack[Len(istack)].l \in Nat /\ istack[Len(istack)].ir \in Nat
    BY <2>3, Zenon
  <2> QED
    BY <2>2, <2>3, <2>4, Zenon DEF R
\* The sort goes on with the last stretch that was put off.
<1>PopInv.
    ASSUME IInv, pc = "insertion", j > ir, istack # << >>,
           l' = istack[Len(istack)].l, ir' = istack[Len(istack)].ir,
           istack' = SubSeq(istack, 1, Len(istack) - 1), Goto("sort"),
           UNCHANGED <<a, i>>, UNCHANGED <<call, alloc, ids, search_vars, n, j, k>>
    PROVE  IInv'
  <2> USE <1>PopInv
  <2> DEFINE top == Len(istack)
  <2>1. /\ pc' = "sort" /\ rc' = rc /\ a' = a /\ i' = i
        /\ call' = call /\ alloc' = alloc /\ ids' = ids /\ UNCHANGED search_vars
        /\ n' = n /\ j' = j /\ k' = k
    BY Zenon DEF Goto
  <2>2. /\ Typed /\ call \in Calls /\ call.op = "mdb_midl_sort" /\ rc = 0
        /\ alloc \in Nat /\ ids \in [0 .. alloc -> Nat] /\ j \in Int
        /\ Len0 \in Nat /\ Len0 <= alloc /\ ids[0] = Len0
        /\ Stretches /\ Kept(ids) /\ l \in Nat /\ ir \in Nat /\ 1 <= l /\ ir <= Len0
        /\ \A x, y \in l .. j - 1 : x < y /\ y <= ir => ids[x] >= ids[y]
    BY <1>InsertionFacts, Zenon
  <2>3. istack \in Seq([l : Int, ir : Int])
    BY <2>2, Zenon DEF Typed
  <2>4. /\ top \in Nat /\ top \in 1 .. top
        /\ l' \in Nat /\ ir' \in Nat /\ 1 <= l' /\ l' <= ir' /\ ir' <= Len0
        /\ istack' \in Seq([l : Int, ir : Int])
        /\ Len(istack') = top - 1
        /\ \A p \in 1 .. top - 1 : p \in 1 .. top /\ istack'[p] = istack[p]
    BY <2>2, <2>3, <1>TopFacts, Zenon
  <2>5. /\ pc' \in Sorting /\ pc' # "slide" /\ l' \in Int /\ ir' \in Int
        /\ l' \in 1 .. Len0 + 1 /\ ir' \in 0 .. Len0
    <3>1. pc' \in Sorting /\ pc' # "slide"
      BY <2>1, Zenon DEF Sorting
    <3>2. Len0 \in Nat /\ l' \in Nat /\ ir' \in Nat /\ 1 <= l' /\ l' <= ir' /\ ir' <= Len0
      BY <2>2, <2>4, Zenon
    <3>3. /\ l' \in Int /\ ir' \in Int
          /\ l' \in 1 .. Len0 + 1 /\ ir' \in 0 .. Len0
      BY <3>2, SMTT(30)
    <3> QED
      BY <3>1, <3>3, Zenon
  <2>6. Typed'
    BY <2>1, <2>2, <2>4, <2>5, TypedSorting, Zenon DEF Typed
  <2>7. Len0' = Len0 /\ Was' = Was /\ Cells' = ids
    BY <2>1, <2>5, CellsAre, Zenon DEF Len0, Was
  <2>8. \A p \in 1 .. top :
            /\ istack[p] \in [l : Nat, ir : Nat]
            /\ 1 <= istack[p].l /\ istack[p].l <= istack[p].ir /\ istack[p].ir <= Len0
            /\ (istack[p].ir - istack[p].l + 1) * Power2[p - 1] <= Len0
            /\ \A q \in 1 .. top :
                  p # q => istack[p].ir < istack[q].l \/ istack[q].ir < istack[p].l
    BY <2>2, Zenon DEF Stretches
  <2>9. (ir' - l' + 1) * Power2[Len(istack')] <= Len0
    BY <2>4, <2>8, Zenon
  <2>10. Stretches'
    <3>1. ASSUME NEW p \in 1 .. Len(istack')
          PROVE  /\ istack'[p] \in [l : Nat, ir : Nat]
                 /\ 1 <= istack'[p].l /\ istack'[p].l <= istack'[p].ir /\ istack'[p].ir <= Len0
                 /\ istack'[p].ir < l' \/ ir' < istack'[p].l
                 /\ (istack'[p].ir - istack'[p].l + 1) * Power2[p - 1] <= Len0
                 /\ \A q \in 1 .. Len(istack') :
                       p # q => istack'[p].ir < istack'[q].l \/ istack'[q].ir < istack'[p].l
      <4>1. p \in 1 .. top /\ istack'[p] = istack[p] /\ \A q \in 1 .. Len(istack') :
               q \in 1 .. top /\ istack'[q] = istack[q]
        BY <2>4, Zenon
      <4>2. p # top
        BY <2>4
      <4>3. istack[p].ir < istack[top].l \/ istack[top].ir < istack[p].l
        BY <2>4, <2>8, <4>1, <4>2, Zenon
      <4> QED
        BY <2>8, <4>1, <4>3, Zenon
    <3> QED
      BY <2>4, <2>5, <2>7, <2>9, <3>1, ZenonT(60) DEF Stretches
  <2>11. ASSUME NEW x \in 1 .. Len0, NEW y \in 1 .. Len0, x < y
         PROVE  \/ ids[x] >= ids[y]
                \/ InStretch(x)' /\ InStretch(y)'
                \/ \E p \in 1 .. Len(istack') : InPutOff(p, x)' /\ InPutOff(p, y)'
    <3>1. \/ ids[x] >= ids[y]
          \/ InStretch(x) /\ InStretch(y)
          \/ \E p \in 1 .. top : InPutOff(p, x) /\ InPutOff(p, y)
      BY <2>2, <2>11, Zenon DEF Kept, Apart
    <3>2. CASE InStretch(x) /\ InStretch(y)
      <4>1. x \in l .. j - 1 /\ y \in l .. j - 1 /\ y <= ir
        BY <2>2, <2>11, <3>2, SMTT(30) DEF InStretch
      <4> QED
        BY <2>2, <2>11, <4>1, Zenon
    <3>3. ASSUME NEW p \in 1 .. top, InPutOff(p, x) /\ InPutOff(p, y)
          PROVE  \/ InStretch(x)' /\ InStretch(y)'
                 \/ \E q \in 1 .. Len(istack') : InPutOff(q, x)' /\ InPutOff(q, y)'
      <4>1. CASE p = top
        BY <3>3, <4>1, Zenon DEF InStretch, InPutOff
      <4>2. CASE p # top
        <5>1. p \in 1 .. top - 1
          BY <2>4, <4>2, SMTT(30)
        <5>2. istack'[p] = istack[p] /\ p \in 1 .. Len(istack')
          BY <2>4, <5>1, Zenon
        <5>3. InPutOff(p, x)' /\ InPutOff(p, y)'
          BY <3>3, <5>2, Zenon DEF InPutOff
        <5> QED
          BY <5>2, <5>3, Zenon
      <4> QED
        BY <4>1, <4>2, Zenon
    <3> QED
      BY <3>1, <3>2, <3>3, Zenon
  <2>12. Apart(Cells)' /\ Permuted(Cells, Was, Len0)'
    <3>1. Apart(Cells)'
      BY <2>7, <2>11, Zenon DEF Apart
    <3>2. Permuted(ids, Was, Len0)
      BY <2>2, Zenon DEF Kept
    <3> QED
      BY <2>7, <3>1, <3>2, Zenon DEF Permuted
  <2>13. AtSorting'
    BY <2>1, <2>2, <2>7, <2>10, <2>12, Zenon DEF AtSorting
  <2> QED
    BY <2>1, <2>6, <2>13, ToSort, Zenon
\* The three branches of the outer loop of the insertion sort.
<1>InsertionInv. IInv /\ Insertion => IInv'
  <2> SUFFICES ASSUME IInv, Insertion PROVE IInv'
    BY Zenon
  <2>1. pc = "insertion" /\ UNCHANGED <<call, alloc, ids, search_vars, n, j, k>>
    BY Zenon DEF Insertion
  <2>2. CASE /\ j <= ir
             /\ a' = ids[j] /\ i' = j - 1
             /\ Goto("slide") /\ UNCHANGED sort_vars
    BY <2>1, <2>2, <1>TakeInv, Zenon
  <2>3. CASE /\ j > ir /\ istack = << >>
             /\ Return(0) /\ UNCHANGED <<a, i, sort_vars>>
    BY <2>1, <2>3, <1>SortedInv, Zenon
  <2>4. CASE /\ j > ir /\ istack # << >>
             /\ l' = istack[Len(istack)].l /\ ir' = istack[Len(istack)].ir
             /\ istack' = SubSeq(istack, 1, Len(istack) - 1)
             /\ Goto("sort") /\ UNCHANGED <<a, i>>
    BY <2>1, <2>4, <1>PopInv, Zenon
  <2> QED
    BY <2>2, <2>3, <2>4, Zenon DEF Insertion
<1> QED
  BY <1>InsertionInv, Zenon

\* The inner loop of the insertion sort.
LEMMA SlideInv ==
    IInv /\ Slide => IInv'
\* What is known while an id slides to its place.
<1>SlideFacts.
    ASSUME IInv, pc = "slide"
    PROVE  /\ Typed /\ call \in Calls /\ call.op = "mdb_midl_sort" /\ rc = 0
           /\ alloc \in Nat /\ ids \in [0 .. alloc -> Nat] /\ a \in Nat /\ i \in Int /\ j \in Int
           /\ Len0 \in Nat /\ Len0 <= alloc /\ ids[0] = Len0
           /\ Stretches /\ Kept(Cells) /\ l \in Nat /\ ir \in Nat /\ 1 <= l /\ ir <= Len0
           /\ j \in l + 1 .. ir /\ i \in l - 1 .. j - 1 /\ i + 1 \in 1 .. Len0
           /\ Cells \in [0 .. alloc -> Int] /\ Cells[i + 1] = a
           /\ \A x \in 0 .. alloc : x # i + 1 => Cells[x] = ids[x]
           /\ \A x, y \in l .. j : x < y /\ y # i + 1 => Cells[x] >= Cells[y]
  <2> USE <1>SlideFacts
  <2>1. pc \in Sorting
    BY Zenon DEF Sorting
  <2>2. /\ j \in l + 1 .. ir /\ i \in l - 1 .. j - 1
        /\ \A x, y \in l .. j : x < y /\ y # i + 1 => Cells[x] >= Cells[y]
    BY Zenon DEF IInv, AtSlide
  <2>3. /\ Typed /\ call \in Calls /\ call.op = "mdb_midl_sort" /\ rc = 0
        /\ alloc \in Nat /\ ids \in [0 .. alloc -> Nat] /\ a \in Int /\ i \in Int /\ j \in Int
        /\ Len0 \in Nat /\ Len0 <= alloc /\ ids[0] = Len0
        /\ Stretches /\ Kept(Cells) /\ l \in Nat /\ ir \in Nat /\ 1 <= l /\ ir <= Len0
    BY <2>1, SortFacts, Zenon
  <2>4. i + 1 \in 1 .. Len0 /\ i + 1 \in 0 .. alloc
    BY <2>2, <2>3
  <2>5. Cells = [ids EXCEPT ![i + 1] = a]
    BY Zenon DEF Cells
  <2>6. /\ Cells \in [0 .. alloc -> Int] /\ Cells[i + 1] = a
        /\ \A x \in 0 .. alloc : x # i + 1 => Cells[x] = ids[x]
    BY <2>3, <2>4, <2>5
  <2>7. a \in Nat
    <3>1. PICK g : Rearranges(g, Len0) /\ \A x \in 1 .. Len0 : Cells[x] = Was[g[x]]
      BY <2>3, Zenon DEF Kept, Permuted
    <3>2. a = Was[g[i + 1]] /\ g[i + 1] \in 1 .. Len0
      BY <2>4, <2>6, <3>1, Zenon DEF Rearranges
    <3> QED
      BY <2>3, <3>2, ListFacts, Zenon
  <2> QED
    BY <2>2, <2>3, <2>4, <2>6, <2>7, Zenon
\* The id that slides does not leave the stretch.
<1>SlideStays.
    ASSUME IInv, pc = "slide", i >= 1, ids[i] < a
    PROVE  i >= l
  <2> USE <1>SlideStays
  <2>1. /\ alloc \in Nat /\ ids \in [0 .. alloc -> Nat] /\ a \in Nat /\ i \in Int /\ j \in Int
        /\ Len0 \in Nat /\ Len0 <= alloc
        /\ Stretches /\ Kept(Cells) /\ l \in Nat /\ ir \in Nat /\ 1 <= l /\ ir <= Len0
        /\ j \in l + 1 .. ir /\ i \in l - 1 .. j - 1 /\ i + 1 \in 1 .. Len0
        /\ Cells[i + 1] = a
        /\ \A x \in 0 .. alloc : x # i + 1 => Cells[x] = ids[x]
    BY <1>SlideFacts, Zenon
  <2>2. SUFFICES ASSUME i < l PROVE FALSE
    BY <2>1
  <2>3. /\ i \in 1 .. Len0 /\ i < i + 1 /\ i \in 0 .. alloc /\ i # i + 1 /\ i + 1 = l /\ i + 1 \in Int
        /\ ~InStretch(i) /\ InStretch(i + 1)
    BY <2>1, <2>2 DEF InStretch
  <2>4. \A p \in 1 .. Len(istack) : ~InPutOff(p, i + 1)
    BY <2>1, <2>3, NotPutOff, Zenon
  <2>5. Cells[i] >= Cells[i + 1]
    BY <2>1, <2>3, <2>4, Zenon DEF Kept, Apart
  <2>6. Cells[i] = ids[i] /\ ids[i] \in Nat
    BY <2>1, <2>3, Zenon
  <2>7. ids[i] >= a
    BY <2>1, <2>5, <2>6, Zenon
  <2> QED
    BY <2>1, <2>6, <2>7, SMTT(30)
\* The id that slides goes down by one.
<1>SlideDownInv.
    ASSUME IInv, pc = "slide", i >= 1, ids[i] < a, ids' = [ids EXCEPT ![i + 1] = ids[i]],
           i' = i - 1, Goto("slide"), UNCHANGED j,
           UNCHANGED <<call, alloc, search_vars, n, k, sort_vars, a>>
    PROVE  IInv'
  <2> USE <1>SlideDownInv
  <2> DEFINE c == Cells
             u == Cells'
  <2>1. /\ pc' = "slide" /\ rc' = rc /\ j' = j
        /\ call' = call /\ alloc' = alloc /\ UNCHANGED search_vars
        /\ n' = n /\ k' = k /\ l' = l /\ ir' = ir /\ istack' = istack /\ a' = a
    BY Zenon DEF Goto, sort_vars
  <2>2. /\ Typed /\ call \in Calls /\ call.op = "mdb_midl_sort" /\ rc = 0
        /\ alloc \in Nat /\ ids \in [0 .. alloc -> Nat] /\ a \in Nat /\ i \in Int /\ j \in Int
        /\ Len0 \in Nat /\ Len0 <= alloc /\ ids[0] = Len0
        /\ Stretches /\ Kept(c) /\ l \in Nat /\ ir \in Nat /\ 1 <= l /\ ir <= Len0
        /\ j \in l + 1 .. ir /\ i \in l - 1 .. j - 1 /\ i + 1 \in 1 .. Len0
        /\ c \in [0 .. alloc -> Int] /\ c[i + 1] = a
        /\ \A x \in 0 .. alloc : x # i + 1 => c[x] = ids[x]
        /\ \A x, y \in l .. j : x < y /\ y # i + 1 => c[x] >= c[y]
    BY <1>SlideFacts, Zenon
  <2>3. i >= l
    BY <1>SlideStays, Zenon
  <2>4. /\ i \in 0 .. alloc /\ i + 1 \in 0 .. alloc /\ i \in 1 .. Len0 /\ i # i + 1
        /\ InStretch(i) /\ InStretch(i + 1) /\ i' \in l - 1 .. j - 1 /\ i' + 1 = i /\ i' \in Int
        /\ 0 # i /\ 0 # i + 1 /\ 0 \in 0 .. alloc /\ a \in Int
        /\ \A x \in 1 .. Len0 : x \in 0 .. alloc
        /\ \A x \in l .. j : x \in 0 .. alloc
    BY <2>2, <2>3, SMTT(30) DEF InStretch
  <2>5. c[i] = ids[i] /\ ids[i] \in Nat
    BY <2>2, <2>4, Zenon
  <2>6. /\ ids' \in [0 .. alloc -> Nat] /\ ids'[i + 1] = ids[i]
        /\ \A x \in 0 .. alloc : x # i + 1 => ids'[x] = ids[x]
    BY <2>2, <2>4, <2>5, Zenon
  <2>7. u = [ids' EXCEPT ![i] = a]
    BY <2>1, <2>4, Zenon DEF Cells
  <2>8. u[i] = a /\ \A x \in 0 .. alloc : x # i => u[x] = ids'[x]
    BY <2>4, <2>6, <2>7, Zenon
  <2> HIDE DEF c, u
  <2>9. u[i] = c[i + 1] /\ u[i + 1] = c[i] /\ \A x \in 0 .. alloc : x # i /\ x # i + 1 => u[x] = c[x]
    <3>1. u[i + 1] = ids'[i + 1]
      BY <2>4, <2>8, Zenon
    <3>2. ASSUME NEW x \in 0 .. alloc, x # i, x # i + 1 PROVE u[x] = c[x]
      BY <2>2, <2>6, <2>8, <3>2, Zenon
    <3> QED
      BY <2>2, <2>5, <2>6, <2>8, <3>1, <3>2, Zenon
  <2>10. Kept(u)
    <3>1. Swapped(u, c, i, i + 1)
      BY <2>4, <2>9, Zenon DEF Swapped
    <3> QED
      BY <2>2, <2>4, <3>1, SwapKept, Zenon
  <2>11. pc' \in Sorting
    BY <2>1, Zenon DEF Sorting
  <2>12. Typed'
    BY <2>1, <2>2, <2>4, <2>6, <2>11, TypedSorting, ZenonT(60) DEF Typed
  <2>13. AtSorting'
    <3>1. ids'[0] = Len0
      BY <2>2, <2>4, <2>6, Zenon
    <3>2. \A x \in 1 .. Len0 : Cells'[x] = u[x]
      BY Zenon DEF u
    <3> QED
      BY <2>1, <2>2, <2>10, <3>1, <3>2, SameStretches, ZenonT(60)
  <2>14. ASSUME NEW x \in l .. j, NEW y \in l .. j, x < y, y # i PROVE u[x] >= u[y]
    <3>1. x \in Int /\ y \in Int /\ x \in 0 .. alloc /\ y \in 0 .. alloc
          /\ i \in l .. j /\ i + 1 \in l .. j /\ x # y
      <4>1. l \in Nat /\ ir \in Nat /\ j \in l + 1 .. ir /\ i \in l - 1 .. j - 1 /\ i \in Int /\ i >= l
        BY <2>2, <2>3, Zenon
      <4>2. x \in Int /\ y \in Int /\ i \in l .. j /\ i + 1 \in l .. j /\ x # y
        BY <2>14, <4>1, SMTT(30)
      <4> QED
        BY <2>4, <4>2, Zenon
    <3>2. CASE y = i + 1
      <4>1. x = i \/ (x # i /\ x # i + 1 /\ x < i)
        BY <2>2, <2>14, <3>1, <3>2, SMTT(30)
      <4>2. CASE x = i
        <5>1. a >= ids[i]
          BY <2>2, <2>5, SMTT(30)
        <5> QED
          BY <2>5, <2>8, <2>9, <3>2, <4>2, <5>1, ZenonT(60)
      <4>3. CASE x # i /\ x # i + 1 /\ x < i
        BY <2>2, <2>4, <2>9, <3>1, <3>2, <4>3, Zenon
      <4> QED
        BY <4>1, <4>2, <4>3, Zenon
    <3>3. CASE y # i + 1
      <4>1. u[y] = c[y]
        BY <2>9, <2>14, <3>1, <3>3, Zenon
      <4>2. CASE x = i
        <5>1. i + 1 < y
          BY <2>2, <2>14, <3>1, <3>3, <4>2, SMTT(30)
        <5> QED
          BY <2>2, <2>9, <3>1, <3>3, <4>1, <4>2, <5>1, ZenonT(60)
      <4>3. CASE x = i + 1
        <5>1. i < y
          BY <2>2, <2>14, <3>1, <4>3, SMTT(30)
        <5> QED
          BY <2>2, <2>9, <3>1, <3>3, <4>1, <4>3, <5>1, ZenonT(60)
      <4>4. CASE x # i /\ x # i + 1
        BY <2>2, <2>9, <2>14, <3>1, <3>3, <4>1, <4>4, ZenonT(60)
      <4> QED
        BY <4>2, <4>3, <4>4, Zenon
    <3> QED
      BY <3>2, <3>3, Zenon
  <2>15. AtSlide'
    <3>1. \A x, y \in l .. j : x < y /\ y # i => Cells'[x] >= Cells'[y]
      BY <2>14, Zenon DEF u
    <3> QED
      BY <2>1, <2>2, <2>4, <3>1, Zenon DEF AtSlide
  <2> QED
    BY <2>1, <2>12, <2>13, <2>15, ToSlide, ZenonT(60)
\* The id is in its place.
<1>SlideEndsInv.
    ASSUME IInv, pc = "slide", ~(i >= 1 /\ ids[i] < a), ids' = [ids EXCEPT ![i + 1] = a],
           j' = j + 1, Goto("insertion"), UNCHANGED i,
           UNCHANGED <<call, alloc, search_vars, n, k, sort_vars, a>>
    PROVE  IInv'
  <2> USE <1>SlideEndsInv
  <2> DEFINE c == Cells
  <2>1. /\ pc' = "insertion" /\ rc' = rc /\ i' = i
        /\ call' = call /\ alloc' = alloc /\ UNCHANGED search_vars
        /\ n' = n /\ k' = k /\ l' = l /\ ir' = ir /\ istack' = istack /\ a' = a
    BY Zenon DEF Goto, sort_vars
  <2>2. /\ Typed /\ call \in Calls /\ call.op = "mdb_midl_sort" /\ rc = 0
        /\ alloc \in Nat /\ ids \in [0 .. alloc -> Nat] /\ a \in Nat /\ i \in Int /\ j \in Int
        /\ Len0 \in Nat /\ Len0 <= alloc /\ ids[0] = Len0
        /\ Stretches /\ Kept(c) /\ l \in Nat /\ ir \in Nat /\ 1 <= l /\ ir <= Len0
        /\ j \in l + 1 .. ir /\ i \in l - 1 .. j - 1 /\ i + 1 \in 1 .. Len0
        /\ c[i + 1] = a
        /\ \A x \in 0 .. alloc : x # i + 1 => c[x] = ids[x]
        /\ \A x, y \in l .. j : x < y /\ y # i + 1 => c[x] >= c[y]
    BY <1>SlideFacts, Zenon
  <2>3. ids' = c
    BY Zenon DEF Cells
  <2>4. /\ pc' \in Sorting /\ pc' # "slide" /\ j' \in Int /\ i + 1 \in 0 .. alloc
        /\ 0 # i + 1 /\ 0 \in 0 .. alloc
    BY <2>1, <2>2, SMTT(30) DEF Sorting
  <2>5. ids' \in [0 .. alloc -> Nat] /\ ids'[0] = Len0
    BY <2>2, <2>4, Zenon
  <2>6. Cells' = c
    BY <2>3, <2>4, CellsAre, Zenon
  <2> HIDE DEF c
  <2>7. Typed'
    BY <2>1, <2>2, <2>4, <2>5, TypedSorting, Zenon DEF Typed
  <2>8. AtSorting'
    BY <2>1, <2>2, <2>5, <2>6, SameStretches, Zenon
  <2>9. ASSUME NEW x \in l .. j, NEW y \in l .. j, x < y PROVE c[x] >= c[y]
    <3>1. CASE y # i + 1
      BY <2>2, <2>9, <3>1, Zenon
    <3>2. CASE y = i + 1
      <4>1. x \in Int /\ i >= 1 /\ i \in l .. j /\ i # i + 1 /\ i \in 0 .. alloc /\ (x = i \/ x < i)
            /\ x \in 0 .. alloc /\ x # i + 1
        BY <2>2, <2>9, <3>2, SMTT(30)
      <4>2. c[i] = ids[i] /\ ids[i] \in Nat /\ c[x] = ids[x] /\ ids[x] \in Nat
        BY <2>2, <4>1, Zenon
      <4>3. ids[i] >= a
        BY <2>2, <4>1, <4>2, SMTT(30)
      <4>4. x < i => c[x] >= c[i]
        BY <2>2, <4>1, Zenon
      <4>5. x < i => ids[x] >= ids[i]
        BY <4>2, <4>4, Zenon
      <4>6. ids[x] >= a
        BY <2>2, <4>1, <4>2, <4>3, <4>5, SMTT(30)
      <4> QED
        BY <2>2, <3>2, <4>2, <4>6, Zenon
    <3> QED
      BY <3>1, <3>2, Zenon
  <2>10. j' > l /\ j' <= ir + 1 /\ j' - 1 = j
    BY <2>2
  <2>11. AtInsertion'
    BY <2>1, <2>3, <2>9, <2>10, Zenon DEF AtInsertion
  <2> QED
    BY <2>1, <2>7, <2>8, <2>11, ToInsertion, ZenonT(60)
\* The inner loop of the insertion sort.
<1>SlideInv. IInv /\ Slide => IInv'
  <2> SUFFICES ASSUME IInv, Slide PROVE IInv'
    BY Zenon
  <2>1. pc = "slide" /\ UNCHANGED <<call, alloc, search_vars, n, k, sort_vars, a>>
    BY Zenon DEF Slide
  <2>2. CASE i >= 1 /\ ids[i] < a
    <3>1. ids' = [ids EXCEPT ![i + 1] = ids[i]] /\ i' = i - 1 /\ Goto("slide") /\ UNCHANGED j
      BY <2>2, Zenon DEF Slide
    <3> QED
      BY <2>1, <2>2, <3>1, <1>SlideDownInv, Zenon
  <2>3. CASE ~(i >= 1 /\ ids[i] < a)
    <3>1. ids' = [ids EXCEPT ![i + 1] = a] /\ j' = j + 1 /\ Goto("insertion") /\ UNCHANGED i
      BY <2>3, Zenon DEF Slide
    <3> QED
      BY <2>1, <2>3, <3>1, <1>SlideEndsInv, Zenon
  <2> QED
    BY <2>2, <2>3, Zenon
<1> QED
  BY <1>SlideInv, Zenon

\* Products keep the order.
LEMMA TimesGrows ==
    ASSUME NEW x \in Nat, NEW y \in Nat, NEW c \in Nat, x <= y
    PROVE  x * c \in Nat /\ y * c \in Nat /\ x * c <= y * c
<1>1. y - x \in Nat /\ (y - x) * c \in Nat /\ y = x + (y - x)
  OBVIOUS
<1>2. x * c \in Nat /\ (x + (y - x)) * c = x * c + (y - x) * c
  BY <1>1
<1> QED
  BY <1>1, <1>2

\* The pivot is put between the parts, and the longer part is put off.
LEMMA SplitInv ==
    IInv /\ Split => IInv'
\* The shorter part of a stretch goes one deeper, the longer one as deep.
<1>HalfFits.
    ASSUME NEW size \in Nat, NEW m \in Nat, NEW o \in Nat, m <= o, m + o <= size,
           NEW d \in Nat, NEW len \in Nat, size * Power2[d] <= len
    PROVE  m * Power2[d + 1] <= len /\ o * Power2[d] <= len
  <2> USE <1>HalfFits
  <2>1. Power2[d] \in Nat /\ Power2[d + 1] = 2 * Power2[d]
    BY Power2Facts, Zenon
  <2> DEFINE c == Power2[d]
  <2>2. c \in Nat /\ Power2[d + 1] = 2 * c /\ size * c <= len
    BY <2>1, Zenon
  <2> HIDE DEF c
  <2>3. 2 * m \in Nat /\ 2 * m <= size /\ o <= size
    OBVIOUS
  <2>4. (2 * m) * c \in Nat /\ size * c \in Nat /\ (2 * m) * c <= size * c
    BY <2>2, <2>3, TimesGrows, Zenon
  <2>5. o * c \in Nat /\ o * c <= size * c
    BY <2>2, <2>3, TimesGrows, Zenon
  <2>6. m * (2 * c) = (2 * m) * c
    BY <2>2
  <2>7. (2 * m) * c <= len /\ o * c <= len
    BY <2>2, <2>4, <2>5
  <2>8. m * Power2[d + 1] <= len
    BY <2>2, <2>6, <2>7, Zenon
  <2> QED
    BY <2>7, <2>8, Zenon DEF c
\* The stack with one more stretch.
<1>PushFacts.
    ASSUME istack \in Seq([l : Int, ir : Int]), NEW lo \in Nat, NEW hi \in Nat,
           istack' = Append(istack, [l |-> lo, ir |-> hi])
    PROVE  /\ Len(istack) \in Nat /\ Len(istack') = Len(istack) + 1
           /\ istack' \in Seq([l : Int, ir : Int])
           /\ \A p \in 1 .. Len(istack) : istack'[p] = istack[p]
           /\ istack'[Len(istack) + 1] = [l |-> lo, ir |-> hi]
  <2> USE <1>PushFacts
  <2> DEFINE R == [l : Int, ir : Int]
             r == [l |-> lo, ir |-> hi]
  <2>1. istack \in Seq(R) /\ r \in R /\ istack' = Append(istack, r)
    OBVIOUS
  <2> HIDE DEF R, r
  <2>2. /\ Append(istack, r) \in Seq(R) /\ Len(Append(istack, r)) = Len(istack) + 1
        /\ \A p \in 1 .. Len(istack) : Append(istack, r)[p] = istack[p]
        /\ Append(istack, r)[Len(istack) + 1] = r
        /\ Len(istack) \in Nat
    BY <2>1, SMT
  <2> QED
    BY <2>1, <2>2, Zenon DEF R, r
\* A split keeps the stretches apart, and short enough for the stack.
<1>SplitStretches.
    ASSUME InArray, istack \in Seq([l : Int, ir : Int]), call' = call,
           NEW lo, NEW hi, NEW lo2, NEW hi2, Parts(lo, hi, lo2, hi2),
           l' = lo, ir' = hi, istack' = Append(istack, [l |-> lo2, ir |-> hi2])
    PROVE  Stretches'
  <2> USE <1>SplitStretches
  <2> DEFINE top == Len(istack)
  <2>1. /\ lo \in Nat /\ hi \in Nat /\ lo2 \in Nat /\ hi2 \in Nat
        /\ l <= lo /\ lo <= hi /\ hi <= ir
        /\ l <= lo2 /\ lo2 <= hi2 /\ hi2 <= ir
        /\ hi < lo2 \/ hi2 < lo
        /\ hi - lo <= hi2 - lo2
        /\ (hi - lo + 1) + (hi2 - lo2 + 1) <= ir - l + 1
    BY Zenon DEF Parts
  <2>2. /\ Len0 \in Nat /\ l \in Nat /\ ir \in Nat /\ 1 <= l /\ ir <= Len0 /\ Stretches
    BY Zenon DEF InArray
  <2>3. /\ top \in Nat /\ Len(istack') = top + 1
        /\ \A p \in 1 .. top : istack'[p] = istack[p]
        /\ istack'[top + 1] = [l |-> lo2, ir |-> hi2]
    BY <2>1, <1>PushFacts, Zenon
  <2>4. /\ (ir - l + 1) * Power2[top] <= Len0
        /\ \A p \in 1 .. top :
            /\ istack[p] \in [l : Nat, ir : Nat]
            /\ 1 <= istack[p].l /\ istack[p].l <= istack[p].ir /\ istack[p].ir <= Len0
            /\ istack[p].ir < l \/ ir < istack[p].l
            /\ (istack[p].ir - istack[p].l + 1) * Power2[p - 1] <= Len0
            /\ \A q \in 1 .. top :
                  p # q => istack[p].ir < istack[q].l \/ istack[q].ir < istack[p].l
    BY <2>2, Zenon DEF Stretches
  <2> HIDE DEF top
  <2>5. /\ hi - lo + 1 \in Nat /\ hi2 - lo2 + 1 \in Nat /\ ir - l + 1 \in Nat
        /\ hi - lo + 1 <= hi2 - lo2 + 1
    BY <2>1, <2>2, SMTT(30)
  <2>6. (hi - lo + 1) * Power2[top + 1] <= Len0 /\ (hi2 - lo2 + 1) * Power2[top] <= Len0
    <3> DEFINE m == hi - lo + 1
               o == hi2 - lo2 + 1
               size == ir - l + 1
    <3>1. m \in Nat /\ o \in Nat /\ size \in Nat /\ m <= o /\ m + o <= size /\ top \in Nat
          /\ size * Power2[top] <= Len0 /\ Len0 \in Nat
      BY <2>1, <2>2, <2>3, <2>4, <2>5, Zenon
    <3> HIDE DEF m, o, size
    <3>2. m * Power2[top + 1] <= Len0 /\ o * Power2[top] <= Len0
      BY <3>1, <1>HalfFits, Zenon
    <3> QED
      BY <3>2, Zenon DEF m, o
  <2>7. Len0' = Len0
    BY Zenon DEF Len0, Was
  <2>8. lo \in 1 .. Len0 + 1 /\ hi \in 0 .. Len0 /\ (top + 1) - 1 = top
    <3>1. lo \in 1 .. Len0 + 1 /\ hi \in 0 .. Len0
      <4>1. /\ Len0 \in Nat /\ lo \in Nat /\ hi \in Nat /\ l \in Nat /\ ir \in Nat
            /\ 1 <= l /\ l <= lo /\ lo <= hi /\ hi <= ir /\ ir <= Len0
        BY <2>1, <2>2, Zenon
      <4> QED
        BY <4>1
    <3>2. top \in Nat
      BY <2>3, Zenon
    <3>3. (top + 1) - 1 = top
      BY <3>2
    <3> QED
      BY <3>1, <3>3, Zenon
  <2>9. \A p \in 1 .. top + 1 : p \in 1 .. top \/ p = top + 1
    BY <2>3
  <2>10. istack'[top + 1] \in [l : Nat, ir : Nat] /\ istack'[top + 1].l = lo2 /\ istack'[top + 1].ir = hi2
    BY <2>1, <2>3, SMTT(30)
  <2>11. 1 <= lo2 /\ hi2 <= Len0
    BY <2>1, <2>2
  <2>12. ASSUME NEW p \in 1 .. top
         PROVE  /\ istack[p].ir < lo \/ hi < istack[p].l
                /\ istack[p].ir < lo2 \/ hi2 < istack[p].l
    <3>1. istack[p] \in [l : Nat, ir : Nat] /\ (istack[p].ir < l \/ ir < istack[p].l)
      BY <2>4, Zenon
    <3>2. istack[p].l \in Nat /\ istack[p].ir \in Nat
      BY <3>1, Zenon
    <3> QED
      <4> DEFINE pl == istack[p].l
                 pr == istack[p].ir
      <4>1. /\ pl \in Nat /\ pr \in Nat /\ (pr < l \/ ir < pl)
            /\ lo \in Nat /\ hi \in Nat /\ lo2 \in Nat /\ hi2 \in Nat /\ l \in Nat /\ ir \in Nat
            /\ l <= lo /\ hi <= ir /\ l <= lo2 /\ hi2 <= ir
        BY <2>1, <2>2, <3>1, <3>2, Zenon
      <4> HIDE DEF pl, pr
      <4>2. (pr < lo \/ hi < pl) /\ (pr < lo2 \/ hi2 < pl)
        BY <4>1
      <4> QED
        BY <4>2, Zenon DEF pl, pr
  <2>13. ASSUME NEW p \in 1 .. top + 1
         PROVE  /\ istack'[p] \in [l : Nat, ir : Nat]
                /\ 1 <= istack'[p].l /\ istack'[p].l <= istack'[p].ir /\ istack'[p].ir <= Len0
                /\ istack'[p].ir < lo \/ hi < istack'[p].l
                /\ (istack'[p].ir - istack'[p].l + 1) * Power2[p - 1] <= Len0
    <3>1. CASE p \in 1 .. top
      <4>1. istack'[p] = istack[p]
        BY <2>3, <3>1, Zenon
      <4> QED
        BY <2>4, <2>12, <3>1, <4>1, Zenon
    <3>2. CASE p = top + 1
      <4>1. (istack'[p].ir - istack'[p].l + 1) * Power2[p - 1] <= Len0
        BY <2>6, <2>8, <2>10, <3>2, Zenon
      <4>2. hi2 < lo \/ hi < lo2
        BY <2>1, Zenon
      <4> QED
        BY <2>1, <2>10, <2>11, <3>2, <4>1, <4>2, Zenon
    <3> QED
      BY <2>9, <3>1, <3>2, Zenon
  <2>14. ASSUME NEW p \in 1 .. top + 1, NEW q \in 1 .. top + 1, p # q
         PROVE  istack'[p].ir < istack'[q].l \/ istack'[q].ir < istack'[p].l
    <3>1. CASE p \in 1 .. top /\ q \in 1 .. top
      BY <2>3, <2>4, <2>14, <3>1, Zenon
    <3>2. CASE p \in 1 .. top /\ q = top + 1
      BY <2>3, <2>10, <2>12, <3>2, Zenon
    <3>3. CASE p = top + 1 /\ q \in 1 .. top
      BY <2>3, <2>10, <2>12, <3>3, Zenon
    <3> QED
      BY <2>9, <2>14, <3>1, <3>2, <3>3, Zenon
  <2> QED
    BY <2>1, <2>3, <2>6, <2>7, <2>8, <2>13, <2>14, ZenonT(60) DEF Stretches
\* Ids that a split separates are in order.
<1>SplitApart.
    ASSUME InArray, istack \in Seq([l : Int, ir : Int]), call' = call,
           NEW lo, NEW hi, NEW lo2, NEW hi2, Parts(lo, hi, lo2, hi2),
           l' = lo, ir' = hi, istack' = Append(istack, [l |-> lo2, ir |-> hi2]),
           pc' # "slide", NEW v, v = ids', Kept(v), Divided(v, lo, hi, lo2, hi2)
    PROVE  Apart(Cells)' /\ Permuted(Cells, Was, Len0)'
  <2> USE <1>SplitApart
  <2> DEFINE top == Len(istack)
             u == v
  <2>1. lo \in Nat /\ hi \in Nat /\ lo2 \in Nat /\ hi2 \in Nat
    BY Zenon DEF Parts
  <2>2. l \in Nat /\ ir \in Nat /\ Len0 \in Nat
    BY Zenon DEF InArray
  <2>3. /\ top \in Nat /\ Len(istack') = top + 1
        /\ \A p \in 1 .. top : istack'[p] = istack[p]
        /\ istack'[top + 1] = [l |-> lo2, ir |-> hi2]
    BY <2>1, <1>PushFacts, Zenon
  <2>4. istack'[top + 1].l = lo2 /\ istack'[top + 1].ir = hi2
    BY <2>3, SMTT(30)
  <2>5. top + 1 \in 1 .. top + 1 /\ \A p \in 1 .. top : p \in 1 .. top + 1
    BY <2>3, SMTT(30)
  <2>6. Len0' = Len0 /\ Was' = Was /\ Cells' = u
    BY CellsAre, Zenon DEF Len0, Was
  <2>7. \A x, y \in 1 .. Len0 :
          x < y => \/ u[x] >= u[y]
                   \/ InStretch(x) /\ InStretch(y)
                   \/ \E p \in 1 .. top : InPutOff(p, x) /\ InPutOff(p, y)
    BY Zenon DEF Kept, Apart
  <2>8. Permuted(u, Was, Len0)
    BY Zenon DEF Kept
  <2>9. \A x, y \in l .. ir : x < y => \/ u[x] >= u[y]
                                       \/ lo <= x /\ x <= hi /\ lo <= y /\ y <= hi
                                       \/ lo2 <= x /\ x <= hi2 /\ lo2 <= y /\ y <= hi2
    BY Zenon DEF Divided
  <2> HIDE DEF top, u
  <2>10. ASSUME NEW x \in 1 .. Len0, NEW y \in 1 .. Len0, x < y
         PROVE  \/ u[x] >= u[y]
                \/ InStretch(x)' /\ InStretch(y)'
                \/ \E p \in 1 .. top + 1 : InPutOff(p, x)' /\ InPutOff(p, y)'
    <3>1. CASE InStretch(x) /\ InStretch(y)
      <4>1. x \in l .. ir /\ y \in l .. ir
        BY <2>2, <3>1 DEF InStretch
      <4>2. CASE lo <= x /\ x <= hi /\ lo <= y /\ y <= hi
        BY <4>2, Zenon DEF InStretch
      <4>3. CASE lo2 <= x /\ x <= hi2 /\ lo2 <= y /\ y <= hi2
        BY <2>4, <2>5, <4>3, Zenon DEF InPutOff
      <4> QED
        BY <2>9, <2>10, <4>1, <4>2, <4>3, Zenon
    <3>2. ASSUME NEW p \in 1 .. top, InPutOff(p, x) /\ InPutOff(p, y)
          PROVE  \E q \in 1 .. top + 1 : InPutOff(q, x)' /\ InPutOff(q, y)'
      <4>1. istack'[p] = istack[p] /\ p \in 1 .. top + 1
        BY <2>3, <2>5, Zenon
      <4>2. InPutOff(p, x)' /\ InPutOff(p, y)'
        BY <3>2, <4>1, Zenon DEF InPutOff
      <4> QED
        BY <4>1, <4>2, Zenon
    <3> QED
      BY <2>7, <2>10, <3>1, <3>2, Zenon
  <2>11. Apart(Cells)'
    BY <2>3, <2>6, <2>10, Zenon DEF Apart
  <2>12. Permuted(Cells, Was, Len0)'
    BY <2>6, <2>8, Zenon DEF Permuted
  <2> QED
    BY <2>11, <2>12, Zenon
\* The pivot is put between the parts, and the longer part is put off.
<1>SplitInv. IInv /\ Split => IInv'
  <2> SUFFICES ASSUME IInv, Split PROVE IInv'
    BY Zenon
  <2> DEFINE u == ids'
  <2>1. /\ pc = "cross" /\ j < i /\ pc' = "sort" /\ rc' = rc
        /\ ids' = [ids EXCEPT ![l + 1] = ids[j], ![j] = a]
        /\ call' = call /\ alloc' = alloc /\ UNCHANGED search_vars
        /\ n' = n /\ i' = i /\ j' = j /\ k' = k /\ a' = a
    BY Zenon DEF Split, Goto
  <2>2. pc \in Sorting /\ pc' \in Sorting /\ pc # "slide" /\ pc' # "slide"
    BY <2>1, Zenon DEF Sorting
  <2>3. /\ Typed /\ call.op = "mdb_midl_sort" /\ rc = 0
        /\ alloc \in Nat /\ ids \in [0 .. alloc -> Nat] /\ a \in Int /\ i \in Int /\ j \in Int
        /\ Len0 \in Nat /\ Len0 <= alloc /\ ids[0] = Len0
        /\ Stretches /\ Kept(Cells) /\ l \in Nat /\ ir \in Nat /\ 1 <= l /\ ir <= Len0
    BY <2>2, SortFacts, Zenon
  <2>4. /\ i \in l + 2 .. ir /\ j \in l + 1 .. ir - 1 /\ a = ids[l + 1]
        /\ \A x \in l .. i - 1 : ids[x] >= a
        /\ \A x \in j + 1 .. ir : ids[x] <= a
        /\ ids[j] >= a
    BY <2>1, Zenon DEF IInv, AtCross
  <2>5. /\ InStretch(l + 1) /\ InStretch(j) /\ l + 1 \in Int
        /\ l + 1 # 0 /\ 0 # j /\ 0 \in 0 .. alloc
    BY <2>3, <2>4, SMTT(30) DEF InStretch
  <2>6. InArray /\ Kept(ids)
    BY <2>2, <2>3, CellsAre, Zenon DEF InArray
  <2>7. /\ u \in [0 .. alloc -> Nat] /\ Kept(u) /\ u[l + 1] = ids[j] /\ u[j] = a
        /\ \A x \in 0 .. alloc : x # l + 1 /\ x # j => u[x] = ids[x]
    <3>1. SwapResult(MIDL_SWAP(ids, l + 1, j), ids, l + 1, j)
      BY <2>3, <2>5, <2>6, SwapFacts, Zenon
    <3>2. u = MIDL_SWAP(ids, l + 1, j)
      BY <2>1, <2>4, Zenon DEF MIDL_SWAP
    <3> QED
      BY <2>4, <3>1, <3>2, Zenon DEF SwapResult
  <2>8. ASSUME NEW x \in l .. i - 1 PROVE u[x] >= a
    <3>1. x = j \/ x = l + 1 \/ (x # l + 1 /\ x # j /\ x \in 0 .. alloc)
      BY <2>3, <2>4
    <3>2. a >= a
      BY <2>3
    <3> QED
      BY <2>4, <2>7, <3>1, <3>2, Zenon
  <2>9. ASSUME NEW x \in j .. ir PROVE u[x] <= a
    <3>1. x = j \/ (x # l + 1 /\ x # j /\ x \in 0 .. alloc /\ x \in j + 1 .. ir)
      BY <2>3, <2>4
    <3>2. a <= a
      BY <2>3
    <3> QED
      BY <2>4, <2>7, <3>1, <3>2, Zenon
  <2>10. ASSUME NEW x \in l .. ir, NEW y \in l .. ir, x < y
         PROVE  \/ u[x] >= u[y]
                \/ l <= x /\ x <= j - 1 /\ l <= y /\ y <= j - 1
                \/ i <= x /\ x <= ir /\ i <= y /\ y <= ir
    <3>1. \/ l <= x /\ x <= j - 1 /\ l <= y /\ y <= j - 1
          \/ i <= x /\ x <= ir /\ i <= y /\ y <= ir
          \/ x \in l .. i - 1 /\ y \in j .. ir
      BY <2>3, <2>4, <2>10, SMTT(30)
    <3>2. x \in 0 .. alloc /\ y \in 0 .. alloc
      BY <2>3
    <3>3. u[x] \in Nat /\ u[y] \in Nat
      BY <2>7, <3>2, Zenon
    <3>4. CASE x \in l .. i - 1 /\ y \in j .. ir
      <4>1. u[x] >= a /\ u[y] <= a
        BY <2>8, <2>9, <3>4, Zenon
      <4> QED
        BY <2>3, <3>3, <4>1, SMTT(30)
    <3> QED
      BY <3>1, <3>4, Zenon
  <2>11. Divided(u, l, j - 1, i, ir) /\ Divided(u, i, ir, l, j - 1)
    <3> HIDE DEF u
    <3> QED
      BY <2>10, Zenon DEF Divided
  <2> HIDE DEF u
  <2>12. u = ids'
    BY Zenon DEF u
  <2>13. u[0] = Len0
    BY <2>3, <2>5, <2>7, Zenon
  <2>14. istack \in Seq([l : Int, ir : Int])
    BY <2>3, Zenon DEF Typed
  <2>15. ASSUME NEW lo, NEW hi, NEW lo2, NEW hi2, Parts(lo, hi, lo2, hi2),
                l' = lo, ir' = hi, istack' = Append(istack, [l |-> lo2, ir |-> hi2]),
                Divided(u, lo, hi, lo2, hi2)
         PROVE  IInv'
    <3>1. Stretches'
      BY <2>1, <2>6, <2>14, <2>15, <1>SplitStretches, Zenon
    <3>2. Apart(Cells)' /\ Permuted(Cells, Was, Len0)'
      BY <2>1, <2>2, <2>6, <2>7, <2>14, <2>15, <2>12, <1>SplitApart, Zenon
    <3>3. lo \in Nat /\ hi \in Nat /\ lo2 \in Nat /\ hi2 \in Nat
      BY <2>15, Zenon DEF Parts
    <3>4. l' \in Int /\ ir' \in Int
      BY <2>15, <3>3
    <3>5. istack' \in Seq([l : Int, ir : Int])
      BY <2>14, <2>15, <3>3, <1>PushFacts, Zenon
    <3>6. Typed'
      BY <2>1, <2>2, <2>3, <2>7, <2>12, <3>4, <3>5, TypedSorting, ZenonT(60) DEF Typed
    <3>7. Len0' = Len0
      BY <2>1, Zenon DEF Len0, Was
    <3>8. AtSorting'
      BY <2>1, <2>3, <2>13, <2>12, <3>1, <3>2, <3>7, Zenon DEF AtSorting
    <3> QED
      BY <2>1, <3>6, <3>8, ToSort, Zenon
  <2>16. CASE ir - i + 1 >= j - l
    <3>1. l' = l /\ ir' = j - 1 /\ istack' = Append(istack, [l |-> i, ir |-> ir])
      BY <2>16, Zenon DEF Split
    <3>2. Parts(l, j - 1, i, ir)
      BY <2>1, <2>3, <2>4, <2>16, SMTT(30) DEF Parts
    <3> QED
      BY <2>15, <2>11, <3>1, <3>2, Zenon
  <2>17. CASE ~(ir - i + 1 >= j - l)
    <3>1. l' = i /\ ir' = ir /\ istack' = Append(istack, [l |-> l, ir |-> j - 1])
      BY <2>17, Zenon DEF Split
    <3>2. Parts(i, ir, l, j - 1)
      BY <2>1, <2>3, <2>4, <2>17, SMTT(30) DEF Parts
    <3> QED
      BY <2>15, <2>11, <3>1, <3>2, Zenon
  <2> QED
    BY <2>16, <2>17, Zenon
<1> QED
  BY <1>SplitInv, Zenon

-----------------------------------------------------------------------------
(* What follows from the invariant *)

\* Nothing is accessed outside of its array.
LEMMA InvNeverOverruns ==
    IInv => NeverOverruns
\* The cells of the searches and of the insertion are in the array.
<1>SearchTouches.
    ASSUME IInv, pc \in {"search", "insert", "shift"}
    PROVE  Touched \subseteq 0 .. alloc
  <2> USE <1>SearchTouches
  <2>1. Typed /\ AtSearch /\ AtInsert /\ AtShift
    BY Zenon DEF IInv
  <2>2. alloc \in Nat /\ call \in Calls /\ Len0 \in Nat
    BY <2>1, CallFacts, Zenon DEF Typed
  <2>3. CASE pc = "search"
    <3>1. Touched = IF n > 0 THEN {base + n \div 2 + 1} ELSE {}
      BY <2>3, Zenon DEF Touched
    <3>2. base \in Nat /\ n \in Nat /\ base + n <= Len0 /\ Len0 <= alloc
      BY <2>1, <2>3, Zenon DEF AtSearch, Fresh
    <3>3. n > 0 => base + n \div 2 + 1 \in 0 .. alloc
      BY <2>2, <3>2
    <3> QED
      BY <3>1, <3>3, Zenon
  <2>4. CASE pc = "insert"
    <3>1. Touched = IF cursor <= ids[0] THEN {cursor} ELSE {}
      BY <2>4, Zenon DEF Touched
    <3>2. cursor \in Nat
      BY <2>1, Zenon DEF Typed
    <3>3. ids[0] = Len0 /\ Len0 <= alloc
      BY <2>1, <2>4, Zenon DEF AtInsert, Fresh, Holds
    <3>4. cursor <= ids[0] => cursor \in 0 .. alloc
      BY <2>2, <3>2, <3>3
    <3> QED
      BY <3>1, <3>4, Zenon
  <2>5. CASE pc = "shift"
    <3>1. Touched = IF i > cursor THEN {i, i - 1} ELSE {cursor}
      BY <2>5, Zenon DEF Touched
    <3>2. Len0 < alloc /\ cursor \in 1 .. Len0 + 1 /\ i \in cursor .. Len0 + 1
      BY <2>1, <2>5, Zenon DEF AtShift
    <3>3. i \in 0 .. alloc /\ i - 1 \in 0 .. alloc /\ cursor \in 0 .. alloc
      BY <2>2, <3>2
    <3> QED
      BY <3>1, <3>3, Zenon
  <2> QED
    BY <2>3, <2>4, <2>5, Zenon
\* So are those of the functions that append.
<1>AppendTouches.
    ASSUME IInv, pc \in {"append", "memcpy", "fill", "xappend"}
    PROVE  Touched \subseteq 0 .. alloc
  <2> USE <1>AppendTouches
  <2>1. Typed /\ AtAppend /\ AtMemcpy /\ AtFill /\ AtXappend
    BY Zenon DEF IInv
  <2>2. alloc \in Nat /\ call \in Calls /\ Len0 \in Nat /\ More \in Nat /\ call.num \in Nat
    BY <2>1, CallFacts, Zenon DEF Typed
  <2>3. CASE pc = "append"
    <3>1. Touched = {ids[0] + 1}
      BY <2>3, Zenon DEF Touched
    <3>2. ids[0] = Len0 /\ Len0 < alloc
      BY <2>1, <2>3, Zenon DEF AtAppend, Fresh, Holds
    <3>3. ids[0] + 1 \in 0 .. alloc
      BY <2>2, <3>2
    <3> QED
      BY <3>1, <3>3, Zenon
  <2>4. CASE pc = "memcpy"
    <3>1. Touched = ids[0] + 1 .. ids[0] + Len(call.merge)
      BY <2>4, Zenon DEF Touched
    <3>2. ids[0] = Len0 /\ Len0 + More <= alloc
      BY <2>1, <2>4, Zenon DEF AtMemcpy, Fresh, Holds
    <3>3. Touched = Len0 + 1 .. Len0 + More
      BY <3>1, <3>2, Zenon DEF More
    <3>4. \A x \in Len0 + 1 .. Len0 + More : x \in 0 .. alloc
      BY <2>2, <3>2
    <3> QED
      BY <3>3, <3>4, Zenon
  <2>5. CASE pc = "fill"
    <3>1. Touched = IF n > 0 THEN {base + n} ELSE {}
      BY <2>5, Zenon DEF Touched
    <3>2. base = Len0 /\ n \in 0 .. call.num /\ Len0 + call.num <= alloc
      BY <2>1, <2>5, Zenon DEF AtFill
    <3>3. base + n \in 0 .. alloc
      BY <2>2, <3>2
    <3> QED
      BY <3>1, <3>3, Zenon
  <2>6. CASE pc = "xappend"
    <3>1. Touched = IF n > 0 THEN {ids[0] + 1} ELSE {}
      BY <2>6, Zenon DEF Touched
    <3>2. n \in 0 .. call.num /\ Len0 + call.num <= alloc /\ ids[0] = Len0 + call.num - n
      BY <2>1, <2>6, Zenon DEF AtXappend, Holds
    <3>3. n > 0 => ids[0] + 1 \in 0 .. alloc
      BY <2>2, <3>2
    <3> QED
      BY <3>1, <3>3, Zenon
  <2> QED
    BY <2>3, <2>4, <2>5, <2>6, Zenon
\* So are those of the merge: the sentinel in cell 0 ends the scan.
<1>MergeTouches.
    ASSUME IInv, pc \in {"mdb_midl_xmerge", "merge"}
    PROVE  Touched \subseteq 0 .. alloc
  <2> USE <1>MergeTouches
  <2>1. Typed /\ AtMerge
    BY Zenon DEF IInv
  <2>2. alloc \in Nat /\ call \in Calls /\ Len0 \in Nat /\ More \in Nat
    BY <2>1, CallFacts, Zenon DEF Typed
  <2>3. CASE pc = "mdb_midl_xmerge"
    <3>1. Touched = {ids[0]}
      BY <2>3, Zenon DEF Touched
    <3>2. pc \in Ops
      BY <2>3, Zenon DEF Ops
    <3>3. ids[0] = Len0 /\ Len0 <= alloc
      BY <3>2, StartFacts, Zenon
    <3>4. ids[0] \in 0 .. alloc
      BY <2>2, <3>3
    <3> QED
      BY <3>1, <3>4, Zenon
  <2>4. CASE pc = "merge"
    <3>1. Touched = IF i = 0 THEN {} ELSE IF a < call.merge[i] THEN {k, j - 1} ELSE {k}
      BY <2>4, Zenon DEF Touched
    <3>2. /\ n = Len0 + More /\ n <= alloc
          /\ i \in 0 .. More /\ j \in 0 .. Len0 /\ k = i + j
          /\ ids[0] = MAX_ID /\ a = ids[j]
      BY <2>1, <2>4, Zenon DEF AtMerge
    <3>3. k \in 0 .. alloc
      BY <2>2, <3>2
    <3>4. ASSUME i # 0, a < call.merge[i] PROVE j - 1 \in 0 .. alloc
      <4>1. i \in 1 .. More
        BY <2>2, <3>2, <3>4
      <4>2. call.merge[i] \in Nat /\ call.merge[i] <= MAX_ID
        BY <2>2, <4>1, ListFacts, Zenon
      <4>3. MAX_ID \in Nat
        BY BoundsAssumption, Zenon
      <4>4. a # MAX_ID
        BY <3>4, <4>2, <4>3
      <4>5. j # 0
        BY <3>2, <4>4, Zenon
      <4> QED
        BY <2>2, <3>2, <4>5
    <3> QED
      BY <3>1, <3>3, <3>4, Zenon
  <2> QED
    BY <2>3, <2>4, Zenon
\* So are those of the sort.
<1>SortTouches.
    ASSUME IInv, pc \in Sorting
    PROVE  Touched \subseteq 0 .. alloc
  <2> USE <1>SortTouches
  <2>1. AtInsertion /\ AtSlide /\ AtUp /\ AtDown /\ AtCross
    BY Zenon DEF IInv
  <2>2. /\ alloc \in Nat /\ Len0 \in Nat /\ Len0 <= alloc /\ i \in Int /\ j \in Int
        /\ l \in Nat /\ ir \in Nat /\ 1 <= l /\ ir <= Len0
    BY SortFacts, Zenon
  <2>3. CASE pc = "sort"
    <3>1. Touched = IF ir - l < SMALL THEN {} ELSE {l, l + 1, (l + ir) \div 2, ir}
      BY <2>3, Zenon DEF Touched
    <3>2. ~(ir - l < SMALL) => /\ l \in 0 .. alloc /\ l + 1 \in 0 .. alloc
                               /\ (l + ir) \div 2 \in 0 .. alloc /\ ir \in 0 .. alloc
      BY <2>2, BoundsAssumption
    <3> QED
      BY <3>1, <3>2, Zenon
  <2>4. CASE pc = "insertion"
    <3>1. Touched = IF j <= ir THEN {j} ELSE {}
      BY <2>4, Zenon DEF Touched
    <3>2. j > l
      BY <2>1, <2>4, Zenon DEF AtInsertion
    <3>3. j <= ir => j \in 0 .. alloc
      BY <2>2, <3>2
    <3> QED
      BY <3>1, <3>3, Zenon
  <2>5. CASE pc = "slide"
    <3>1. Touched = {i + 1} \cup (IF i >= 1 THEN {i} ELSE {})
      BY <2>5, Zenon DEF Touched
    <3>2. j \in l + 1 .. ir /\ i \in l - 1 .. j - 1
      BY <2>1, <2>5, Zenon DEF AtSlide
    <3>3. i + 1 \in 0 .. alloc /\ (i >= 1 => i \in 0 .. alloc)
      BY <2>2, <3>2
    <3> QED
      BY <3>1, <3>3, Zenon
  <2>6. CASE pc = "up"
    <3>1. Touched = {i + 1}
      BY <2>6, Zenon DEF Touched
    <3>2. i \in l + 1 .. ir - 1
      BY <2>1, <2>6, Zenon DEF AtUp
    <3>3. i + 1 \in 0 .. alloc
      BY <2>2, <3>2
    <3> QED
      BY <3>1, <3>3, Zenon
  <2>7. CASE pc = "down"
    <3>1. Touched = {j - 1}
      BY <2>7, Zenon DEF Touched
    <3>2. j \in l + 2 .. ir
      BY <2>1, <2>7, Zenon DEF AtDown
    <3>3. j - 1 \in 0 .. alloc
      BY <2>2, <3>2
    <3> QED
      BY <3>1, <3>3, Zenon
  <2>8. CASE pc = "cross"
    <3>1. Touched = {i, j, l + 1}
      BY <2>8, Zenon DEF Touched
    <3>2. i \in l + 2 .. ir /\ j \in l + 1 .. ir - 1
      BY <2>1, <2>8, Zenon DEF AtCross
    <3>3. i \in 0 .. alloc /\ j \in 0 .. alloc /\ l + 1 \in 0 .. alloc
      BY <2>2, <3>2
    <3> QED
      BY <3>1, <3>3, Zenon
  <2> QED
    BY <2>3, <2>4, <2>5, <2>6, <2>7, <2>8, Zenon DEF Sorting
\* The stack is no deeper than the logarithm of the length.
<1>StackFits.
    ASSUME IInv
    PROVE  /\ istack # << >> => Power2[Len(istack)] <= Len(Was)
           /\ 2 * Len(istack) < 2 * INT_BITS
  <2> USE <1>StackFits
  <2>1. Typed
    BY Zenon DEF IInv
  <2>2. INT_BITS \in Nat /\ INT_BITS >= 2 /\ INT_BITS - 2 \in Nat
    BY BoundsAssumption
  <2>3. CASE istack = << >>
    BY <2>2, <2>3
  <2>4. CASE istack # << >>
    <3>1. pc \in Sorting /\ istack \in Seq([l : Int, ir : Int])
      BY <2>1, <2>4, Zenon DEF Typed
    <3>2. /\ call \in Calls /\ call.op = "mdb_midl_sort" /\ Len0 \in Nat
          /\ l \in Nat /\ ir \in Nat /\ Stretches
      BY <3>1, SortFacts, Zenon
    <3>3. l <= ir /\ (ir - l + 1) * Power2[Len(istack)] <= Len0
      BY <2>4, <3>2, Zenon DEF Stretches
    <3>4. Len(istack) \in Nat
      BY <3>1
    <3> DEFINE d == Len(istack)
               c == Power2[d]
               m == ir - l + 1
    <3>5. d \in Nat /\ m * c <= Len0
      BY <3>3, <3>4, Zenon
    <3>6. 1 \in Nat /\ m \in Nat /\ 1 <= m
      BY <3>2, <3>3
    <3> HIDE DEF d, m
    <3>7. c \in Nat
      BY <3>5, Power2Facts, Zenon
    <3>8. Power2[d] = c
      BY Zenon
    <3> HIDE DEF c
    <3>9. 1 * c \in Nat /\ m * c \in Nat /\ 1 * c <= m * c
      BY <3>6, <3>7, TimesGrows, Zenon
    <3>10. c <= Len0
      BY <3>2, <3>5, <3>7, <3>9
    <3>11. Len0 < Power2[INT_BITS - 2]
      BY <3>2, CallFacts, Zenon DEF Contract, Len0, Was
    <3>12. Power2[INT_BITS - 2] \in Nat
      BY <2>2, Power2Facts, Zenon
    <3>13. Power2[d] < Power2[INT_BITS - 2]
      BY <3>2, <3>7, <3>8, <3>10, <3>11, <3>12, SMTT(30)
    <3>14. d < INT_BITS - 2
      BY <2>2, <3>5, <3>13, Power2Facts, Zenon
    <3>15. 2 * d < 2 * INT_BITS
      BY <2>2, <3>5, <3>14
    <3> QED
      BY <3>8, <3>10, <3>15, Zenon DEF d, Len0
  <2> QED
    BY <2>3, <2>4, Zenon
\* Nothing is accessed outside of its array.
<1>InvNeverOverruns. IInv => NeverOverruns
  <2> SUFFICES ASSUME IInv PROVE NeverOverruns
    BY Zenon
  <2>1. Typed /\ Fits
    BY Zenon DEF IInv
  <2>2. DOMAIN ids = 0 .. alloc /\ pc \in Ops \cup Labels \cup Sorting
    BY <2>1, Zenon DEF Typed
  <2>3. \/ pc \in {"search", "insert", "shift"}
        \/ pc \in {"append", "memcpy", "fill", "xappend"}
        \/ pc \in {"mdb_midl_xmerge", "merge"}
        \/ pc \in Sorting
        \/ pc \in (Ops \ {"mdb_midl_xmerge"}) \cup {"range", "return"}
    BY <2>2, Zenon DEF Labels
  <2>4. ASSUME pc \in (Ops \ {"mdb_midl_xmerge"}) \cup {"range", "return"}
        PROVE  Touched \subseteq 0 .. alloc
    <3>1. Touched = {}
      BY <2>4, Zenon DEF Touched, Ops
    <3> QED
      BY <3>1, Zenon
  <2>5. Touched \subseteq 0 .. alloc
    BY <2>3, <2>4, <1>SearchTouches, <1>AppendTouches, <1>MergeTouches, <1>SortTouches, Zenon
  <2> QED
    BY <2>1, <2>2, <2>5, <1>StackFits, Zenon DEF NeverOverruns, Fits
<1> QED
  BY <1>InvNeverOverruns, Zenon

-----------------------------------------------------------------------------
(* The theorems *)

\* A call starts with the list it is given.
LEMMA InitInv == Init => IInv
<1> SUFFICES ASSUME Init PROVE IInv
  BY Zenon
<1>1. call \in Calls /\ pc = call.op /\ rc = 0 /\ alloc = call.alloc /\ istack = << >>
  BY Zenon DEF Init
<1>2. /\ ids = Array(alloc, Was) /\ base = 0 /\ cursor = 1 /\ val = 0 /\ n = 0
      /\ i = 0 /\ j = 0 /\ k = 0 /\ l = 1 /\ ir = 0 /\ a = 0
  BY Zenon DEF Init, Was
<1>3. /\ Was \in Seq(MDB_ID) /\ Len0 \in Nat /\ Len0 <= alloc /\ alloc \in Nat /\ pc \in Ops
      /\ \A x \in 1 .. Len0 : Was[x] \in Nat
  BY <1>1, CallFacts, ListFacts, Zenon
<1>4. /\ ids \in [0 .. alloc -> Nat] /\ ids[0] = Len0
      /\ \A x \in 1 .. Len0 : ids[x] = Was[x]
  BY <1>2, <1>3 DEF Array, Len0
<1>5. << >> \in Seq([l : Int, ir : Int])
  OBVIOUS
<1>6. pc \notin Sorting /\ pc \notin Labels
  BY <1>3, Zenon DEF Ops, Sorting, Labels
<1>7. rc \in Int /\ base \in Nat /\ cursor \in Nat /\ val \in Int /\ n \in Int
      /\ i \in Int /\ j \in Int /\ k \in Int /\ l \in Int /\ ir \in Int /\ a \in Int
  BY <1>1, <1>2
<1>8. Typed
  BY <1>1, <1>3, <1>4, <1>5, <1>7, Zenon DEF Typed
<1>9. AtStart
  <2>1. call.alloc <= alloc
    BY <1>1, <1>3
  <2> QED
    BY <1>1, <1>2, <1>3, <1>4, <2>1, Zenon DEF AtStart, Fresh, Holds
<1>10. Results /\ Fits
  BY <1>6, Zenon DEF Results, SearchesRight, InsertRight, AppendsRight, MergeRight, SortRight,
     Done, Fits, Labels
<1> QED
  BY <1>6, <1>8, <1>9, <1>10, ZenonT(60) DEF IInv, Labels, Sorting, AtSearch, AtInsert, AtShift,
     AtAppend, AtMemcpy, AtRange, AtFill, AtXappend, AtMerge, AtSorting, AtInsertion, AtSlide,
     AtUp, AtDown, AtCross

\* A step that changes nothing.
LEMMA StutterInv == IInv /\ UNCHANGED vars => IInv'
<1> SUFFICES ASSUME IInv, UNCHANGED vars PROVE IInv'
  BY Zenon
<1>1. /\ call' = call /\ pc' = pc /\ rc' = rc /\ alloc' = alloc /\ ids' = ids
      /\ base' = base /\ cursor' = cursor /\ val' = val /\ n' = n /\ i' = i /\ j' = j /\ k' = k
      /\ l' = l /\ ir' = ir /\ istack' = istack /\ a' = a
  BY Zenon DEF vars, search_vars, sort_vars
<1>2. Typed'
  BY <1>1, Zenon DEF IInv, Typed
<1>3. Fits' /\ AtStart'
  BY <1>1, Zenon DEF IInv, Fits, AtStart, Fresh, Holds, Len0, Was
<1>4. AtSearch' /\ AtInsert' /\ AtShift'
  BY <1>1, ZenonT(60) DEF IInv, AtSearch, AtInsert, AtShift, Fresh, Holds, Len0, Was, Compared, Located
<1>5. AtAppend' /\ AtMemcpy' /\ AtRange' /\ AtFill' /\ AtXappend'
  BY <1>1, Zenon DEF IInv, AtAppend, AtMemcpy, AtRange, AtFill, AtXappend, Fresh, Holds, Len0, More, Was
<1>6. AtMerge'
  BY <1>1, ZenonT(60) DEF IInv, AtMerge, Merging, Len0, More, Was, Permuted
<1>7. AtSorting'
  BY <1>1, SMTT(30) DEF IInv, AtSorting, Stretches, Apart, InStretch, InPutOff, Cells, Permuted, Len0, Was
<1>8. AtInsertion' /\ AtSlide' /\ AtUp' /\ AtDown' /\ AtCross'
  BY <1>1, ZenonT(60) DEF IInv, AtInsertion, AtSlide, AtUp, AtDown, AtCross, Cells, Len0, Was
<1>9. SearchesRight' /\ InsertRight'
  <2>1. SearchesRight'
    BY <1>1, Zenon DEF IInv, Results, SearchesRight, Holds, Located, Compared, Was
  <2>2. InsertRight'
    BY <1>1, ZenonT(60) DEF IInv, Results, InsertRight, Holds, Was, Done, Ascending
  <2> QED
    BY <2>1, <2>2, Zenon
<1>10. AppendsRight'
  BY <1>1, ZenonT(60) DEF IInv, Results, AppendsRight, Holds, Appended, Was
<1>11. MergeRight' /\ SortRight'
  <2>1. MergeRight'
    <3>1. MergeRight
      BY Zenon DEF IInv, Results
    <3> QED
      BY <1>1, <3>1, Zenon DEF MergeRight, Done, Was
  <2>2. SortRight'
    <3>1. SortRight
      BY Zenon DEF IInv, Results
    <3> QED
      BY <1>1, <3>1, Zenon DEF SortRight, Done, Was
  <2> QED
    BY <2>1, <2>2, Zenon
<1> QED
  BY <1>2, <1>3, <1>4, <1>5, <1>6, <1>7, <1>8, <1>9, <1>10, <1>11, ZenonT(60) DEF IInv, Results

\* Every step of every function.
LEMMA NextInv == IInv /\ [Next]_vars => IInv'
<1> SUFFICES ASSUME IInv, [Next]_vars PROVE IInv'
  BY Zenon
<1>1. ASSUME Next PROVE IInv'
  BY <1>1, SearchingInv, GrowingInv, AppendingInv, MergingInv, PartitionInv, InsertionInv,
     SlideInv, SplitInv, Zenon DEF Next
<1> QED
  BY <1>1, StutterInv, Zenon

\* The inductive invariant holds throughout every call.
THEOREM Invariance == Spec => []IInv
<1> QED
  BY InitInv, NextInv, PTL DEF Spec

\* What the functions of midl.c return is right, for lists of any length: the
\* searches find the position, an insertion keeps the ID2L in order, the
\* functions that append add exactly their ids, a merge and a sort order all
\* the ids there were, and no access is outside of the array or the stack.
THEOREM ListsAreRight == Spec => []ListsRight
<1>1. IInv => ListsRight
  BY InvNeverOverruns, Zenon DEF IInv, Results, ListsRight
<1> QED
  BY <1>1, Invariance, PTL

\* The scans of the partition and of the merge, which test no bound, stop
\* inside of the array, and the stretches that mdb_midl_sort puts off fit
\* istack: they are at most the logarithm of the length.
THEOREM ArraysNeverOverrun == Spec => []NeverOverruns
<1>1. IInv => NeverOverruns
  BY InvNeverOverruns, Zenon
<1> QED
  BY <1>1, Invariance, PTL

\* mdb_midl_sort sorts: what it returns is descending and holds the ids it was
\* given, each as often.
THEOREM SortSorts == Spec => []SortRight
<1>1. IInv => SortRight
  BY Zenon DEF IInv, Results
<1> QED
  BY <1>1, Invariance, PTL
=============================================================================
