---------------------------- MODULE BTreeProofs ----------------------------
(***************************************************************************)
(* A search finds every row that was stored and none that was not, when    *)
(* one client works on the tree: SearchExact for any keys, rows, sizes of  *)
(* pages and operations. The invariant, Held, says of the chain of leaves  *)
(* what BTreeScan needs besides.                                           *)
(***************************************************************************)
EXTENDS BTreeTypes

-----------------------------------------------------------------------------
(* The instances the theorem is about.                                     *)

\* One transaction at a time changes the tree.
OneWriter == \E c : Clients = {c}

\* An internal page has room for a cell, ...
NodeFits == InternalLen + SlotSize <= Capacity

\* ... and half the rows of a leaf that is split fit a page: a leaf of n rows, each
\* of the least length at least, takes one more, and the right half, the larger
\* one, has (n + 2) \div 2 rows of the greatest length at most.
RowsFit(least, most) ==
    /\ \A r \in Rows : least <= RowLen[r] /\ RowLen[r] <= most
    /\ \A n \in Nat : n * (least + SlotSize) <= Capacity
                        => ((n + 2) \div 2) * (most + SlotSize) <= Capacity
HalvesFit == \E least, most \in Nat : RowsFit(least, most)

-----------------------------------------------------------------------------
(* What a tree of pages represents.                                        *)

\* The pointers of an internal page; the one left of the first separator above a key is
\* the key's.
Pointer(p, a) == IF a = Len(p.cells) + 1 THEN p.next ELSE p.cells[a].child
Kids(p) == {Pointer(p, a) : a \in 1..(Len(p.cells) + 1)}

\* A page that takes a cell for the child whose pointer is divided keeps its first pointer.
SameFirst(x, v) == v.type = "internal" /\ v.cells # <<>> /\ Pointer(v, 1) = Pointer(x, 1)

\* A leaf has a cell for each key of S that f has a row for, in key order.
LeafHolds(p, S, f) ==
    /\ \A i, j \in DOMAIN p.cells : i < j => p.cells[i].key < p.cells[j].key
    /\ \A i \in DOMAIN p.cells : /\ p.cells[i].key \in S /\ p.cells[i].row = f[p.cells[i].key]
                                 /\ p.cells[i].row # NoRow
    /\ \A k \in S : f[k] # NoRow => \E i \in DOMAIN p.cells : p.cells[i].key = k

Distinct(p) == \A a, b \in 1..(Len(p.cells) + 1) : Pointer(p, a) = Pointer(p, b) => a = b

\* An internal page of height n divides the keys S among its children: loc says which
\* keys the pages T are for, h how high they are.
NodeHolds(p, S, n, T, loc, h) ==
    /\ Distinct(p)
    /\ \A i \in DOMAIN p.cells : p.cells[i].key \in S
    /\ \A q \in Kids(p) : /\ q \in T /\ h[q] + 1 = n
                          /\ \A k \in Keys : k \in loc[q] <=> k \in S /\ FindChildPageID(p, k) = q

Holds(p, S, n, T, loc, h, f) ==
    \/ p.type = "leaf" /\ n = 0 /\ LeafHolds(p, S, f)
    \/ p.type = "internal" /\ n # 0 /\ NodeHolds(p, S, n, T, loc, h)

\* The pages of one height are for different keys; the root is for all.
Frame(D, r, T, loc, h) ==
    /\ T \subseteq D /\ r \in T /\ loc[r] = Keys
    /\ \A p \in T : loc[p] \subseteq Keys /\ h[p] \in Nat /\ h[p] <= h[r]
    /\ \A p, q \in T : h[p] = h[q] /\ p # q => loc[p] \cap loc[q] = {}

\* The leaves L of a chain are in the order of their keys, and every key is one's.
Links(img, loc, N, L) ==
    /\ L[1] = 0
    /\ \A i \in 1..N : img[L[i]].type = "leaf" /\ img[L[i]].next = IF i = N THEN NoPage ELSE L[i + 1]
    /\ \A i, j \in 1..N : i < j => L[i] # L[j] /\ \A k \in loc[L[i]], l \in loc[L[j]] : k < l
    /\ \A k \in Keys : \E i \in 1..N : k \in loc[L[i]]
Chained(img, T, loc) == \E N \in Nat \ {0} : \E L \in [1..N -> T] : Links(img, loc, N, L)

\* The first pointers lead from the root to page 0, the first leaf.  (The rightmost child
\* of an empty page is page 0.)
LeftSpine(img, r, T) ==
    \E Z \in SUBSET T :
      /\ r \in Z
      /\ \A p \in Z : /\ img[p].type = "leaf" => p = 0
                      /\ img[p].type = "internal" =>
                           Pointer(img[p], 1) \in Z /\ (img[p].cells = <<>> => img[p].next = 0)

\* The pages img, from the root r, hold the rows f.
Tree(img, r, T, loc, h, f) ==
    /\ Frame(DOMAIN img, r, T, loc, h)
    /\ \A p \in T : Holds(img[p], loc[p], h[p], T, loc, h, f)
    /\ Chained(img, T, loc) /\ LeftSpine(img, r, T)
HasTree(img, r, f) == \E T, loc, h : Tree(img, r, T, loc, h, f)

\* The keys below a separator, and those from it on.
Below(S, sep) == {k \in S : k < sep}
Above(S, sep) == {k \in S : k >= sep}

\* The page q for the keys of a child is for those below sep only, nq for the others.
Shared(T, loc, h, q, sep, nq, U, loc2, h2) ==
    /\ U = T \cup {nq} /\ nq \notin T /\ h2[nq] = h[q]
    /\ loc2[q] = Below(loc[q], sep) /\ loc2[nq] = Above(loc[q], sep)
    /\ \A p \in T : h2[p] = h[p] /\ (p # q => loc2[p] = loc[p])

\* The chain has both leaves, if the split page is a leaf.
ChainedApart(img, T, loc, h, q, sep, nq) ==
    \A U, loc2, h2 : Shared(T, loc, h, q, sep, nq, U, loc2, h2) => Chained(img, U, loc2)

\* The page q was split at sep: it holds the keys below, the page nq the others, and no
\* pointer leads to nq yet.
Split(img, r, T, loc, h, f, q, sep, nq) ==
    /\ Frame(DOMAIN img, r, T, loc, h)
    /\ \A p \in T : p # q => Holds(img[p], loc[p], h[p], T, loc, h, f)
    /\ q \in T /\ nq \in DOMAIN img /\ nq \notin T /\ sep \in loc[q]
    /\ Holds(img[q], Below(loc[q], sep), h[q], T, loc, h, f)
    /\ Holds(img[nq], Above(loc[q], sep), h[q], T, loc, h, f)
    /\ ChainedApart(img, T, loc, h, q, sep, nq) /\ LeftSpine(img, r, T)

\* The way of an operation w down to its page.
Way(img, r, T, loc, h, w) ==
    /\ w.page \in T /\ w.key \in loc[w.page] /\ h[w.page] + Len(w.path) = h[r]
    /\ w.path = <<>> => w.page = r
    /\ \A i \in DOMAIN w.path :
         /\ w.path[i] \in T /\ w.key \in loc[w.path[i]] /\ h[w.path[i]] + i = h[r] + 1
         /\ img[w.path[i]].type = "internal"
         /\ FindChildPageID(img[w.path[i]], w.key) = IF i = Len(w.path) THEN w.page ELSE w.path[i + 1]
         /\ i = 1 => w.path[i] = r

\* The pages in memory for an operation w that stands at z.
MemHolds(img, r, f, w, z) ==
    CASE z = "idle"    -> HasTree(img, r, f)
      [] z = "descend" -> /\ \E T, loc, h : Tree(img, r, T, loc, h, f) /\ Way(img, r, T, loc, h, w)
                          /\ w.kind = "insert" => f[w.key] = NoRow
      [] z = "grow"    -> \E T, loc, h : /\ Split(img, r, T, loc, h, f, w.page, w.sep, w.right)
                                         /\ Way(img, r, T, loc, h, w)
      [] OTHER         -> TRUE

\* The pages d in the file hold the committed rows g, from the root r or, if the transaction
\* of c created it above an internal page, from a root below: the file has an empty page for r.
HighRoot(d, o, r, c) ==
    /\ o[r] = c /\ d[r] = Blank("internal")
    /\ \E p \in DOMAIN d : p < r /\ d[p].type = "internal"
FileHolds(m, d, o, r, f, g, c) ==
    /\ HighRoot(d, o, r, c) \/ HasTree(d, r, g)
    /\ \E q : HasTree(d, q, g)
    /\ r = 0 \/ m[r].type = "internal"
    /\ \A k \in Keys : TableOf[k] \in TablesOf[c] \/ f[k] = g[k]

\* What an operation w of the client c was told to do.
Sent(w, c) == TableOf[w.key] \in TablesOf[c] /\ (w.kind # "delete" => w.row # NoRow)

\* The cells of a page, deleted ones included, have taken their room.
Taken(p, least) == /\ p.type = "leaf" => p.off + least * Len(p.cells) <= Capacity
                   /\ p.type = "internal" => p.off + InternalLen * Len(p.cells) = Capacity

TakenAll(m, d, least) == \A p \in DOMAIN m : Taken(m[p], least) /\ Taken(d[p], least)

\* The invariant: unless a failure met a place it cannot be undone at, or a split has
\* parted equal separators, the pages hold the rows, in memory and in the file.
Good(m, d, o, r, f, g, w, z, c) ==
    /\ MemHolds(m, r, f, w, z) /\ FileHolds(m, d, o, r, f, g, c)
    /\ z = "descend" => Sent(w, c)
GoodNow(c) == Good(mem, disk, owner, root, rows, saved, op[c], pc[c], c)
AllGood == ~misled /\ ~parted => \A c \in Clients : GoodNow(c)
AllTaken(least) == TakenAll(mem, disk, least)
Held(least) == Shape /\ AllTaken(least) /\ AllGood

-----------------------------------------------------------------------------
(* Searching the tree.                                                     *)

\* FindLeaf follows the pointers from the root.
LEMMA FindLeafUnfold ==
    ASSUME NEW img, NEW k,
           \A p \in DOMAIN img : img[p].type # "leaf" => FindChildPageID(img[p], k) \in DOMAIN img
    PROVE  \E f : /\ FindLeaf(img, k) = f[root]
                  /\ \A p \in DOMAIN img :
                       f[p] = IF img[p].type = "leaf" THEN p ELSE f[FindChildPageID(img[p], k)]
  <1>1. PICK D, Stop, nx : /\ D = DOMAIN img /\ Stop = {p \in D : img[p].type = "leaf"}
                           /\ nx = [p \in D |-> FindChildPageID(img[p], k)]
    OBVIOUS
  <1>2. PICK g : Follows(g, D, Stop, nx)
    <2>1. Inside(D, Stop, nx)
      BY <1>1 DEF Inside
    <2>2. QED
      BY <2>1, WalkExists
  <1>3. ASSUME NEW p \in D
        PROVE g[p] = IF img[p].type = "leaf" THEN p ELSE g[FindChildPageID(img[p], k)]
    <2>1. g[p] = IF p \in Stop THEN p ELSE g[nx[p]]
      BY <1>2 DEF Follows
    <2>2. nx[p] = FindChildPageID(img[p], k) /\ (p \in Stop <=> img[p].type = "leaf")
      BY <1>1
    <2>3. QED
      BY <2>1, <2>2
  <1>4. g = [p \in DOMAIN img |-> IF img[p].type = "leaf" THEN p ELSE g[FindChildPageID(img[p], k)]]
    <2>1. g = [p \in D |-> g[p]]
      BY <1>2 DEF Follows, IsFcn
    <2>2. QED
      BY <1>1, <1>3, <2>1
  <1> DEFINE F == CHOOSE f : f = [p \in DOMAIN img |->
                    IF img[p].type = "leaf" THEN p ELSE f[FindChildPageID(img[p], k)]]
  <1>5. F = [p \in DOMAIN img |-> IF img[p].type = "leaf" THEN p ELSE F[FindChildPageID(img[p], k)]]
    BY <1>4
  <1>6. FindLeaf(img, k) = F[root]
    BY DEF FindLeaf
  <1> HIDE DEF F
  <1>7. \A p \in DOMAIN img : F[p] = IF img[p].type = "leaf" THEN p ELSE F[FindChildPageID(img[p], k)]
    BY <1>5
  <1>8. QED
    BY <1>6, <1>7

\* The child for a key is one of the page's.
LEMMA ChildIsKid ==
    ASSUME NEW S, CellSet(S), NEW p, p.cells \in Seq(S), NEW k \in Nat
    PROVE  FindChildPageID(p, k) \in Kids(p)
  <1>1. PICK n \in Nat : n = Len(p.cells) /\ DOMAIN p.cells = 1..n
    OBVIOUS
  <1>2. PICK a \in 1..(n + 1) : FindChildPageID(p, k) = Pointer(p, a)
    <2>1. ASSUME NEW i \in 1..n PROVE Pointer(p, i) = p.cells[i].child /\ i \in 1..(n + 1)
      BY <1>1 DEF Pointer
    <2>2. Pointer(p, n + 1) = p.next /\ n + 1 \in 1..(n + 1)
      BY <1>1 DEF Pointer
    <2>3. QED
      BY <1>1, <2>1, <2>2, FindChildFacts
  <1>3. QED
    BY <1>1, <1>2 DEF Kids

\* What the lemmas on pages ask of a leaf and of an internal page.
LEMMA PageParts ==
    ASSUME NEW D, NEW p, WellFormed(p, D)
    PROVE  /\ p.type = "leaf" => /\ p.cells \in Seq(LeafCell) /\ Sorted(p.cells)
                                 /\ CellSet(LeafCell)
           /\ p.type = "internal" => /\ p.cells \in Seq(InternalCell(D)) /\ Sorted(p.cells)
                                     /\ CellSet(InternalCell(D))
           /\ p.type = "leaf" \/ p.type = "internal"
           /\ Len(p.cells) \in Nat /\ DOMAIN p.cells = 1..Len(p.cells) /\ p.off \in Nat
  <1>1. CellSet(LeafCell) /\ CellSet(InternalCell(D))
    BY CellSizes DEF SizedCells, CellSet
  <1>2. CASE LeafOK(p, D)
    <2>1. p \in PageSet("leaf", LeafCell, D \cup {NoPage}) /\ Sorted(p.cells)
      BY <1>2 DEF LeafOK, Sound
    <2>2. /\ p.type = "leaf" /\ p.cells \in Seq(LeafCell) /\ p.off \in Nat
          /\ Len(p.cells) \in Nat /\ DOMAIN p.cells = 1..Len(p.cells)
      BY <2>1, PageFields
    <2>3. QED
      BY <1>1, <2>1, <2>2
  <1>3. CASE InternalOK(p, D)
    <2>1. p \in PageSet("internal", InternalCell(D), D) /\ Sorted(p.cells)
      BY <1>3 DEF InternalOK, Sound
    <2>2. /\ p.type = "internal" /\ p.cells \in Seq(InternalCell(D)) /\ p.off \in Nat
          /\ Len(p.cells) \in Nat /\ DOMAIN p.cells = 1..Len(p.cells)
      BY <2>1, PageFields
    <2>3. QED
      BY <1>1, <2>1, <2>2
  <1>4. QED
    BY <1>2, <1>3 DEF WellFormed

\* A search on the right leaf.
LEMMA LeafSearch ==
    ASSUME NEW D, NEW p, WellFormed(p, D), p.type = "leaf", NEW S, NEW f, LeafHolds(p, S, f),
           NEW k \in Nat, k \in S, NEW i, i = SearchInLeaf(p, k)
    PROVE  (IF i = 0 THEN NoRow ELSE p.cells[i].row) = f[k]
  <1>1. p.cells \in Seq(LeafCell) /\ Sorted(p.cells) /\ CellSet(LeafCell) /\ DOMAIN p.cells = 1..Len(p.cells)
    BY PageParts
  <1>2. \/ i \in DOMAIN p.cells /\ p.cells[i].key = k
        \/ i = 0 /\ \A n \in DOMAIN p.cells : p.cells[n].key # k
    BY <1>1, SearchInLeafFacts
  <1>3. QED
    BY <1>1, <1>2 DEF LeafHolds

\* The leaf that FindLeaf comes to is the one for the key.
LEMMA TreeSearch ==
    ASSUME NEW img, NEW f, HasTree(img, root, f), \A p \in DOMAIN img : WellFormed(img[p], DOMAIN img),
           NEW k \in Keys
    PROVE  Search(img, k) = f[k]
  <1>1. k \in Nat
    BY TreeAssumption
  <1>2. PICK T, loc, h : Tree(img, root, T, loc, h, f)
    BY DEF HasTree
  <1>3. \A p \in DOMAIN img : img[p].type # "leaf" => FindChildPageID(img[p], k) \in DOMAIN img
    BY <1>1, PageKinds, ChildInside
  <1>4. PICK F : /\ FindLeaf(img, k) = F[root]
                 /\ \A p \in DOMAIN img :
                      F[p] = IF img[p].type = "leaf" THEN p ELSE F[FindChildPageID(img[p], k)]
    BY <1>3, FindLeafUnfold
  <1> DEFINE Found(p) == F[p] \in T /\ img[F[p]].type = "leaf" /\ k \in loc[F[p]]
             B == {n \in Nat : \E p \in T : h[p] = n /\ k \in loc[p] /\ ~Found(p)}
  <1>5. T \subseteq DOMAIN img /\ root \in T /\ k \in loc[root] /\ \A p \in T : h[p] \in Nat
    BY <1>2 DEF Tree, Frame
  <1>6. ASSUME B # {} PROVE FALSE
    <2>1. PICK n \in B : \A x \in B : n <= x
      <3>1. B \in SUBSET Nat
        OBVIOUS
      <3> HIDE DEF B
      <3>2. QED
        BY <1>6, <3>1, LeastExists
    <2>2. PICK p \in T : h[p] = n /\ k \in loc[p] /\ ~Found(p)
      BY <2>1
    <2>3. Holds(img[p], loc[p], h[p], T, loc, h, f)
      BY <1>2 DEF Tree
    <2>4. CASE img[p].type = "leaf"
      BY <1>4, <1>5, <2>2, <2>4
    <2>5. CASE img[p].type # "leaf"
      <3>1. NodeHolds(img[p], loc[p], h[p], T, loc, h) /\ img[p].type = "internal"
        BY <2>3, <2>5 DEF Holds
      <3>2. PICK q : q = FindChildPageID(img[p], k)
        OBVIOUS
      <3>3. q \in Kids(img[p])
        <4>1. WellFormed(img[p], DOMAIN img)
          BY <1>5
        <4>2. PICK x, D : x = img[p] /\ D = DOMAIN img
          OBVIOUS
        <4>3. x.cells \in Seq(InternalCell(D)) /\ CellSet(InternalCell(D))
          BY <3>1, <4>1, <4>2, PageParts
        <4>4. FindChildPageID(x, k) \in Kids(x)
          BY <1>1, <4>3, ChildIsKid
        <4>5. QED
          BY <3>2, <4>2, <4>4
      <3>4. q \in T /\ h[q] + 1 = n /\ k \in loc[q]
        BY <2>2, <3>1, <3>2, <3>3 DEF NodeHolds
      <3>5. h[q] \in Nat /\ n \in Nat /\ h[q] < n
        BY <1>5, <3>4
      <3>6. Found(q)
        <4>1. h[q] \notin B
          BY <2>1, <3>5
        <4>2. QED
          BY <3>4, <3>5, <4>1
      <3>7. F[p] = F[q]
        BY <1>4, <1>5, <2>5, <3>2
      <3>8. QED
        BY <2>2, <3>6, <3>7
    <2>6. QED
      BY <2>4, <2>5
  <1>7. PICK q : q = FindLeaf(img, k)
    OBVIOUS
  <1>8. q \in T /\ img[q].type = "leaf" /\ k \in loc[q]
    <2>1. Found(root)
      <3>1. root \in T /\ h[root] \in Nat /\ k \in loc[root]
        BY <1>5
      <3>2. h[root] \notin B
        BY <1>6
      <3>3. QED
        BY <3>1, <3>2
    <2>2. QED
      BY <1>4, <1>7, <2>1
  <1>9. LeafHolds(img[q], loc[q], f)
    BY <1>2, <1>8 DEF Tree, Holds
  <1>10. PICK x, S, i : x = img[q] /\ S = loc[q] /\ i = SearchInLeaf(x, k)
    OBVIOUS
  <1>11. WellFormed(x, DOMAIN img)
    BY <1>5, <1>8, <1>10
  <1>12. (IF i = 0 THEN NoRow ELSE x.cells[i].row) = f[k]
    <2>1. PICK D : D = DOMAIN img
      OBVIOUS
    <2>2. WellFormed(x, D) /\ x.type = "leaf" /\ LeafHolds(x, S, f) /\ k \in S
      BY <1>8, <1>9, <1>10, <1>11, <2>1
    <2>3. QED
      BY <1>1, <1>10, <2>2, LeafSearch
  <1>13. QED
    BY <1>7, <1>10, <1>12 DEF Search

-----------------------------------------------------------------------------
(* Leaves.                                                                 *)

\* A leaf does not notice the rows of other pages.
LEMMA LeafUnmoved ==
    ASSUME NEW p, NEW S, NEW f, LeafHolds(p, S, f), NEW g, \A k \in S : g[k] = f[k]
    PROVE  LeafHolds(p, S, g)
  BY DEF LeafHolds

\* The row of one of the keys S changes.
RowChanged(S, f, g, k, row) == \A x \in S : g[x] = IF x = k THEN row ELSE f[x]

\* A row is deleted: its cell is taken off the page.
LEMMA LeafDeletes ==
    ASSUME NEW p, p.cells \in Seq(LeafCell), NEW S, NEW f, LeafHolds(p, S, f), NEW i \in 1..Len(p.cells),
           NEW q, q.cells = RemoveAt(p.cells, i),
           NEW g, RowChanged(S, f, g, p.cells[i].key, NoRow)
    PROVE  LeafHolds(q, S, g)
  <1>1. PICK s, t, n : s = p.cells /\ t = q.cells /\ n = Len(s)
    OBVIOUS
  <1>2. s \in Seq(LeafCell) /\ n \in Nat /\ DOMAIN s = 1..n /\ i \in 1..n
    BY <1>1
  <1>3. DOMAIN t = 1..(n - 1) /\ \A m \in 1..(n - 1) : t[m] = IF m < i THEN s[m] ELSE s[m + 1]
    <2>1. /\ DOMAIN RemoveAt(s, i) = 1..(Len(s) - 1)
          /\ \A m \in 1..(Len(s) - 1) : RemoveAt(s, i)[m] = IF m < i THEN s[m] ELSE s[m + 1]
      BY <1>1, <1>2, RemoveAtFacts
    <2>2. QED
      BY <1>1, <2>1
  <1>4. \A a, b \in 1..n : a < b => s[a].key < s[b].key
    BY <1>1, <1>2 DEF LeafHolds
  <1>5. \A a \in 1..n : s[a].key \in Nat
    <2>1. \A a \in 1..n : s[a] \in LeafCell
      BY <1>2
    <2>2. \A a \in 1..n : s[a].key \in Keys
      BY <2>1 DEF LeafCell
    <2>3. QED
      BY <2>2, TreeAssumption
  <1>6. \A a \in 1..n : s[a].key \in S /\ s[a].row = f[s[a].key] /\ s[a].row # NoRow
    BY <1>1, <1>2 DEF LeafHolds
  <1>7. ASSUME NEW a \in 1..(n - 1), NEW b \in 1..(n - 1), a < b PROVE t[a].key < t[b].key
    <2>1. PICK x, y \in 1..n : t[a] = s[x] /\ t[b] = s[y] /\ x < y
      <3>1. CASE b < i
        <4>1. t[a] = s[a] /\ t[b] = s[b] /\ a \in 1..n /\ b \in 1..n
          BY <1>2, <1>3, <1>7, <3>1
        <4>2. QED
          BY <1>7, <4>1
      <3>2. CASE a < i /\ b >= i
        <4>1. t[a] = s[a] /\ t[b] = s[b + 1] /\ a < b + 1 /\ a \in 1..n /\ b + 1 \in 1..n
          BY <1>2, <1>3, <1>7, <3>2
        <4>2. QED
          BY <4>1
      <3>3. CASE a >= i
        <4>1. t[a] = s[a + 1] /\ t[b] = s[b + 1] /\ a + 1 < b + 1 /\ a + 1 \in 1..n /\ b + 1 \in 1..n
          BY <1>2, <1>3, <1>7, <3>3
        <4>2. QED
          BY <4>1
      <3>4. QED
        BY <1>2, <1>7, <3>1, <3>2, <3>3
    <2>2. QED
      BY <1>4, <2>1
  <1>8. ASSUME NEW a \in 1..(n - 1)
        PROVE  t[a].key \in S /\ t[a].row = g[t[a].key] /\ t[a].row # NoRow
    <2>1. PICK x \in 1..n : t[a] = s[x] /\ x # i
      <3>1. CASE a < i
        BY <1>2, <1>3, <3>1
      <3>2. CASE a >= i
        <4>1. t[a] = s[a + 1] /\ a + 1 \in 1..n /\ a + 1 # i
          BY <1>2, <1>3, <3>2
        <4>2. QED
          BY <4>1
      <3>3. QED
        BY <1>2, <3>1, <3>2
    <2>2. s[x].key # s[i].key
      BY <1>2, <1>4, <1>5, <2>1
    <2>3. QED
      BY <1>1, <1>6, <2>1, <2>2 DEF RowChanged
  <1>9. ASSUME NEW k \in S, g[k] # NoRow PROVE \E a \in 1..(n - 1) : t[a].key = k
    <2>1. k # s[i].key /\ f[k] # NoRow
      BY <1>1, <1>9 DEF RowChanged
    <2>2. PICK x \in 1..n : s[x].key = k
      BY <1>1, <1>2, <2>1 DEF LeafHolds
    <2>3. CASE x < i
      <3>1. x \in 1..(n - 1) /\ t[x] = s[x]
        BY <1>2, <1>3, <2>3
      <3>2. QED
        BY <2>2, <3>1
    <2>4. CASE x > i
      <3>1. x - 1 \in 1..(n - 1) /\ t[x - 1] = s[x]
        BY <1>2, <1>3, <2>4
      <3>2. QED
        BY <2>2, <3>1
    <2>5. QED
      BY <1>2, <2>1, <2>2, <2>3, <2>4
  <1>10. QED
    BY <1>1, <1>3, <1>7, <1>8, <1>9 DEF LeafHolds

\* A row is put: its cell goes behind those of smaller keys.
LEMMA LeafTakes ==
    ASSUME NEW p, p.cells \in Seq(LeafCell), NEW S, NEW f, LeafHolds(p, S, f),
           NEW e \in LeafCell, e.key \in S, f[e.key] = NoRow, e.row # NoRow,
           NEW i, Behind(p.cells, e.key, i), NEW q, q.cells = InsertAt(p.cells, i, e),
           NEW g, RowChanged(S, f, g, e.key, e.row)
    PROVE  LeafHolds(q, S, g)
  <1>1. PICK s, t, n : s = p.cells /\ t = q.cells /\ n = Len(s)
    OBVIOUS
  <1>2. /\ s \in Seq(LeafCell) /\ n \in Nat /\ DOMAIN s = 1..n /\ i \in 1..(n + 1)
        /\ \A m \in 1..n : (m < i => s[m].key <= e.key) /\ (m >= i => s[m].key > e.key)
    BY <1>1 DEF Behind
  <1>3. DOMAIN t = 1..(n + 1) /\ \A m \in 1..(n + 1) : t[m] = IF m < i THEN s[m] ELSE IF m = i THEN e ELSE s[m - 1]
    <2>1. i \in 1..(Len(s) + 1) /\ s \in Seq(LeafCell)
      BY <1>1, <1>2
    <2>2. DOMAIN InsertAt(s, i, e) = 1..(Len(s) + 1)
      BY <2>1, InsertAtFacts
    <2>3. \A m \in 1..(Len(s) + 1) : InsertAt(s, i, e)[m] = IF m < i THEN s[m] ELSE IF m = i THEN e ELSE s[m - 1]
      BY <2>1, InsertAtFacts
    <2>4. QED
      BY <1>1, <2>2, <2>3
  <1>4. \A a, b \in 1..n : a < b => s[a].key < s[b].key
    BY <1>1, <1>2 DEF LeafHolds
  <1>5. e.key \in Nat /\ \A a \in 1..n : s[a].key \in Nat
    <2>1. \A a \in 1..n : s[a] \in LeafCell
      BY <1>2
    <2>2. e.key \in Keys /\ \A a \in 1..n : s[a].key \in Keys
      BY <2>1 DEF LeafCell
    <2>3. QED
      BY <2>2, TreeAssumption
  <1>6. \A a \in 1..n : s[a].key \in S /\ s[a].row = f[s[a].key] /\ s[a].row # NoRow
    BY <1>1, <1>2 DEF LeafHolds
  <1>7. \A a \in 1..n : s[a].key # e.key
    BY <1>6
  <1>8. ASSUME NEW a \in 1..(n + 1), NEW b \in 1..(n + 1), a < b PROVE t[a].key < t[b].key
    <2>1. CASE b < i
      BY <1>2, <1>3, <1>4, <1>8, <2>1
    <2>2. CASE b = i
      <3>1. t[a] = s[a] /\ t[b] = e /\ a \in 1..n
        BY <1>2, <1>3, <1>8, <2>2
      <3>2. QED
        BY <1>2, <1>5, <1>7, <1>8, <2>2, <3>1
    <2>3. CASE b > i /\ a < i
      <3>1. t[a] = s[a] /\ t[b] = s[b - 1] /\ a \in 1..n /\ b - 1 \in 1..n /\ a < b - 1
        BY <1>2, <1>3, <1>8, <2>3
      <3>2. QED
        BY <1>4, <3>1
    <2>4. CASE a = i
      <3>1. t[a] = e /\ t[b] = s[b - 1] /\ b - 1 \in 1..n /\ b - 1 >= i
        BY <1>2, <1>3, <1>8, <2>4
      <3>2. QED
        BY <1>2, <3>1
    <2>5. CASE a > i
      <3>1. t[a] = s[a - 1] /\ t[b] = s[b - 1] /\ a - 1 \in 1..n /\ b - 1 \in 1..n /\ a - 1 < b - 1
        BY <1>2, <1>3, <1>8, <2>5
      <3>2. QED
        BY <1>4, <3>1
    <2>6. QED
      BY <1>2, <1>8, <2>1, <2>2, <2>3, <2>4, <2>5
  <1>9. ASSUME NEW a \in 1..(n + 1)
        PROVE  t[a].key \in S /\ t[a].row = g[t[a].key] /\ t[a].row # NoRow
    <2>1. CASE a = i
      BY <1>3, <2>1 DEF RowChanged
    <2>2. CASE a # i
      <3>1. PICK x \in 1..n : t[a] = s[x]
        <4>1. CASE a < i
          BY <1>2, <1>3, <4>1
        <4>2. CASE a > i
          <5>1. a - 1 \in 1..n /\ t[a] = s[a - 1]
            BY <1>2, <1>3, <4>2
          <5>2. QED
            BY <5>1
        <4>3. QED
          BY <1>2, <2>2, <4>1, <4>2
      <3>2. QED
        BY <1>6, <1>7, <3>1 DEF RowChanged
    <2>3. QED
      BY <2>1, <2>2
  <1>10. ASSUME NEW k \in S, g[k] # NoRow PROVE \E a \in 1..(n + 1) : t[a].key = k
    <2>1. CASE k = e.key
      BY <1>2, <1>3, <2>1
    <2>2. CASE k # e.key
      <3>1. PICK x \in 1..n : s[x].key = k
        BY <1>1, <1>2, <1>10, <2>2 DEF LeafHolds, RowChanged
      <3>2. CASE x < i
        <4>1. x \in 1..(n + 1) /\ t[x] = s[x]
          BY <1>2, <1>3, <3>2
        <4>2. QED
          BY <3>1, <4>1
      <3>3. CASE x >= i
        <4>1. x + 1 \in 1..(n + 1) /\ t[x + 1] = s[x]
          BY <1>2, <1>3, <3>3
        <4>2. QED
          BY <3>1, <4>1
      <3>4. QED
        BY <1>2, <3>2, <3>3
    <2>3. QED
      BY <2>1, <2>2
  <1>11. QED
    BY <1>1, <1>3, <1>8, <1>9, <1>10 DEF LeafHolds

\* The halves of a leaf hold the keys below and from the first key of the right one.
LEMMA LeafParts ==
    ASSUME NEW v, v.cells \in Seq(LeafCell), NEW S, NEW f, LeafHolds(v, S, f), S \subseteq Nat,
           NEW m \in Nat, m < Len(v.cells), NEW sep, sep = v.cells[m + 1].key,
           NEW p, p.cells = SubSeq(v.cells, 1, m),
           NEW q, q.cells = SubSeq(v.cells, m + 1, Len(v.cells))
    PROVE  LeafHolds(p, Below(S, sep), f) /\ LeafHolds(q, Above(S, sep), f) /\ sep \in S
  <1>1. PICK s, n : s = v.cells /\ n = Len(s)
    OBVIOUS
  <1>2. s \in Seq(LeafCell) /\ n \in Nat /\ DOMAIN s = 1..n /\ m + 1 \in 1..n /\ sep = s[m + 1].key
    BY <1>1
  <1>3. DOMAIN p.cells = 1..m /\ \A a \in 1..m : p.cells[a] = s[a]
    <2>1. /\ DOMAIN SubSeq(s, 1, m) = 1..(m - 1 + 1)
          /\ \A a \in 1..(m - 1 + 1) : SubSeq(s, 1, m)[a] = s[1 + a - 1]
      <3>1. 1 \in 1..(Len(s) + 1) /\ m \in (1 - 1)..Len(s)
        BY <1>1, <1>2
      <3>2. QED
        BY <1>2, <3>1, PieceFacts
    <2>2. m - 1 + 1 = m /\ \A a \in 1..m : 1 + a - 1 = a
      OBVIOUS
    <2>3. QED
      BY <1>1, <2>1, <2>2
  <1>4. DOMAIN q.cells = 1..(n - m) /\ \A a \in 1..(n - m) : q.cells[a] = s[a + m]
    <2>1. PICK b, d : b = m + 1 /\ d = n
      OBVIOUS
    <2>2. /\ DOMAIN SubSeq(s, b, d) = 1..(d - b + 1)
          /\ \A a \in 1..(d - b + 1) : SubSeq(s, b, d)[a] = s[b + a - 1]
      <3>1. b \in 1..(Len(s) + 1) /\ d \in (b - 1)..Len(s)
        BY <1>1, <1>2, <2>1
      <3>2. QED
        BY <1>2, <3>1, PieceFacts
    <2>3. d - b + 1 = n - m /\ \A a \in 1..(n - m) : b + a - 1 = a + m
      BY <1>2, <2>1
    <2>4. QED
      BY <1>1, <2>1, <2>2, <2>3
  <1>5. \A a, b \in 1..n : a < b => s[a].key < s[b].key
    BY <1>1, <1>2 DEF LeafHolds
  <1>6. \A a \in 1..n : s[a].key \in S /\ s[a].key \in Nat /\ s[a].row = f[s[a].key] /\ s[a].row # NoRow
    BY <1>1, <1>2 DEF LeafHolds
  <1>7. \A k \in S : f[k] # NoRow => \E a \in 1..n : s[a].key = k
    BY <1>1, <1>2 DEF LeafHolds
  <1>8. \A a \in 1..n : (a <= m => s[a].key < sep) /\ (a > m => s[a].key >= sep)
    <2>1. ASSUME NEW a \in 1..n, a > m PROVE s[a].key >= sep
      <3>1. CASE a = m + 1
        BY <1>2, <1>6, <3>1
      <3>2. CASE a > m + 1
        BY <1>2, <1>5, <1>6, <3>2
      <3>3. QED
        BY <2>1, <3>1, <3>2
    <2>2. QED
      BY <1>2, <1>5, <2>1
  <1>9. LeafHolds(p, {k \in S : k < sep}, f)
    <2>1. \A a, b \in DOMAIN p.cells : a < b => p.cells[a].key < p.cells[b].key
      BY <1>2, <1>3, <1>5
    <2>2. \A a \in DOMAIN p.cells : /\ p.cells[a].key \in {k \in S : k < sep}
                                    /\ p.cells[a].row = f[p.cells[a].key] /\ p.cells[a].row # NoRow
      <3>1. ASSUME NEW a \in 1..m
            PROVE  p.cells[a].key \in S /\ p.cells[a].key < sep
                   /\ p.cells[a].row = f[p.cells[a].key] /\ p.cells[a].row # NoRow
        <4>1. a \in 1..n /\ a <= m /\ p.cells[a] = s[a]
          BY <1>2, <1>3
        <4>2. s[a].key \in S /\ s[a].row = f[s[a].key] /\ s[a].row # NoRow /\ s[a].key < sep
          BY <1>6, <1>8, <4>1
        <4>3. QED
          BY <4>1, <4>2
      <3>2. DOMAIN p.cells = 1..m
        BY <1>3
      <3>3. QED
        BY <3>1, <3>2
    <2>3. ASSUME NEW k \in S, k < sep, f[k] # NoRow PROVE \E a \in DOMAIN p.cells : p.cells[a].key = k
      <3>1. PICK a \in 1..n : s[a].key = k
        BY <1>7, <2>3
      <3>2. a \in 1..m
        <4>1. a > m => k >= sep
          BY <1>8, <3>1
        <4>2. k \in Nat /\ sep \in Nat
          BY <1>2, <1>6, <3>1
        <4>3. ~(a > m)
          BY <2>3, <4>1, <4>2
        <4>4. QED
          BY <1>2, <4>3
      <3>3. QED
        BY <1>3, <3>1, <3>2
    <2>4. QED
      BY <2>1, <2>2, <2>3 DEF LeafHolds
  <1>10. LeafHolds(q, {k \in S : k >= sep}, f)
    <2>1. \A a \in 1..(n - m) : a + m \in 1..n /\ a + m > m
      BY <1>2
    <2>2. ASSUME NEW a \in 1..(n - m), NEW b \in 1..(n - m), a < b PROVE q.cells[a].key < q.cells[b].key
      <3>1. PICK x, y : x = a + m /\ y = b + m
        OBVIOUS
      <3>2. x \in 1..n /\ y \in 1..n /\ x < y
        BY <2>1, <2>2, <3>1
      <3>3. QED
        BY <1>4, <1>5, <3>1, <3>2
    <2>3. ASSUME NEW a \in 1..(n - m)
          PROVE  /\ q.cells[a].key \in {k \in S : k >= sep}
                 /\ q.cells[a].row = f[q.cells[a].key] /\ q.cells[a].row # NoRow
      <3>1. PICK x : x = a + m
        OBVIOUS
      <3>2. x \in 1..n /\ x > m /\ q.cells[a] = s[x]
        BY <1>4, <2>1, <3>1
      <3>3. QED
        BY <1>6, <1>8, <3>2
    <2>4. ASSUME NEW k \in S, k >= sep, f[k] # NoRow PROVE \E a \in DOMAIN q.cells : q.cells[a].key = k
      <3>1. PICK a \in 1..n : s[a].key = k
        BY <1>7, <2>4
      <3>2. a > m
        BY <1>2, <1>6, <1>8, <2>4, <3>1
      <3>3. a - m \in 1..(n - m) /\ (a - m) + m = a
        BY <1>2, <3>2
      <3>4. QED
        BY <1>4, <3>1, <3>3
    <2>5. QED
      BY <1>4, <2>2, <2>3, <2>4 DEF LeafHolds
  <1>11. QED
    BY <1>2, <1>6, <1>9, <1>10 DEF Below, Above

-----------------------------------------------------------------------------
(* Internal pages.                                                         *)

\* The pointer for a key is the one left of the first separator above it.
LEMMA PointerOfKey ==
    ASSUME NEW S, CellSet(S), NEW p, p.cells \in Seq(S), NEW k \in Nat, NEW a, Behind(p.cells, k, a)
    PROVE  FindChildPageID(p, k) = Pointer(p, a)
  <1>1. PICK s, n : s = p.cells /\ n = Len(s)
    OBVIOUS
  <1>2. n \in Nat /\ DOMAIN s = 1..n /\ \A m \in 1..n : s[m] \in S
    BY <1>1
  <1>3. \A m \in 1..n : s[m].key \in Nat
    BY <1>2 DEF CellSet
  <1>4. a \in 1..(n + 1) /\ \A m \in 1..n : (m < a => s[m].key <= k) /\ (m >= a => s[m].key > k)
    BY <1>1, <1>2 DEF Behind
  <1>5. \/ \E i \in 1..n : /\ k < s[i].key /\ FindChildPageID(p, k) = s[i].child
                           /\ \A m \in 1..n : m < i => s[m].key <= k
        \/ (\A m \in 1..n : s[m].key <= k) /\ FindChildPageID(p, k) = p.next
    BY <1>1, <1>2, FindChildFacts
  <1>6. CASE \E i \in 1..n : /\ k < s[i].key /\ FindChildPageID(p, k) = s[i].child
                             /\ \A m \in 1..n : m < i => s[m].key <= k
    <2>1. PICK i \in 1..n : /\ k < s[i].key /\ FindChildPageID(p, k) = s[i].child
                            /\ \A m \in 1..n : m < i => s[m].key <= k
      BY <1>6
    <2>2. ~(i < a)
      BY <1>3, <1>4, <2>1
    <2>3. ~(a < i)
      <3>1. ASSUME a < i PROVE FALSE
        <4>1. a \in 1..n /\ s[a].key > k /\ s[a].key <= k
          BY <1>2, <1>4, <2>1, <3>1
        <4>2. QED
          BY <1>3, <4>1
      <3>2. QED
        BY <3>1
    <2>4. a = i
      BY <1>2, <1>4, <2>2, <2>3
    <2>5. QED
      BY <1>1, <1>2, <2>1, <2>4 DEF Pointer
  <1>7. CASE (\A m \in 1..n : s[m].key <= k) /\ FindChildPageID(p, k) = p.next
    <2>1. a = n + 1
      <3>1. ASSUME a \in 1..n PROVE FALSE
        <4>1. s[a].key > k /\ s[a].key <= k
          BY <1>2, <1>4, <1>7, <3>1
        <4>2. QED
          BY <1>3, <3>1, <4>1
      <3>2. QED
        BY <1>2, <1>4, <3>1
    <2>2. QED
      BY <1>1, <1>7, <2>1 DEF Pointer
  <1>8. QED
    BY <1>5, <1>6, <1>7

\* NodeHolds, position by position.
NodeAt(p, S, n, T, loc, h) ==
    /\ Distinct(p)
    /\ \A i \in 1..Len(p.cells) : p.cells[i].key \in S
    /\ \A a \in 1..(Len(p.cells) + 1) :
         /\ Pointer(p, a) \in T /\ h[Pointer(p, a)] + 1 = n
         /\ \A k \in Keys : k \in loc[Pointer(p, a)] <=> k \in S /\ Behind(p.cells, k, a)

\* A node holds the keys of S exactly when the child the descent takes holds them by position.
LEMMA NodeByPosition ==
    ASSUME NEW C, CellSet(C), NEW p, p.cells \in Seq(C), Sorted(p.cells),
           NEW S, NEW n, NEW T, NEW loc, NEW h
    PROVE  NodeHolds(p, S, n, T, loc, h) <=> NodeAt(p, S, n, T, loc, h)
  <1>1. DOMAIN p.cells = 1..Len(p.cells) /\ Len(p.cells) \in Nat
    OBVIOUS
  <1>2. ASSUME Distinct(p), NEW a \in 1..(Len(p.cells) + 1), NEW k \in Keys
        PROVE  FindChildPageID(p, k) = Pointer(p, a) <=> Behind(p.cells, k, a)
    <2>1. k \in Nat
      BY TreeAssumption
    <2>2. PICK b : Behind(p.cells, k, b)
      BY <2>1, FindInsertPosFacts
    <2>3. b \in 1..(Len(p.cells) + 1)
      BY <1>1, <2>2 DEF Behind
    <2>4. FindChildPageID(p, k) = Pointer(p, b)
      BY <2>1, <2>2, PointerOfKey
    <2>5. ASSUME Behind(p.cells, k, a) PROVE FindChildPageID(p, k) = Pointer(p, a)
      BY <2>1, <2>5, PointerOfKey
    <2>6. ASSUME Pointer(p, b) = Pointer(p, a) PROVE a = b
      BY <1>2, <2>3, <2>6 DEF Distinct
    <2>7. QED
      BY <2>2, <2>4, <2>5, <2>6
  <1>3. ASSUME NodeHolds(p, S, n, T, loc, h) PROVE NodeAt(p, S, n, T, loc, h)
    <2>1. Distinct(p) /\ \A i \in 1..Len(p.cells) : p.cells[i].key \in S
      BY <1>1, <1>3 DEF NodeHolds
    <2>2. ASSUME NEW a \in 1..(Len(p.cells) + 1)
          PROVE  /\ Pointer(p, a) \in T /\ h[Pointer(p, a)] + 1 = n
                 /\ \A k \in Keys : k \in loc[Pointer(p, a)] <=> k \in S /\ Behind(p.cells, k, a)
      <3>1. PICK q : q = Pointer(p, a)
        OBVIOUS
      <3>2. q \in Kids(p)
        BY <3>1 DEF Kids
      <3>3. q \in T /\ h[q] + 1 = n /\ \A k \in Keys : k \in loc[q] <=> k \in S /\ FindChildPageID(p, k) = q
        BY <1>3, <3>2 DEF NodeHolds
      <3>4. QED
        BY <1>2, <2>1, <3>1, <3>3
    <2>3. QED
      BY <2>1, <2>2 DEF NodeAt
  <1>4. ASSUME NodeAt(p, S, n, T, loc, h) PROVE NodeHolds(p, S, n, T, loc, h)
    <2>1. Distinct(p) /\ \A i \in DOMAIN p.cells : p.cells[i].key \in S
      BY <1>1, <1>4 DEF NodeAt
    <2>2. ASSUME NEW q \in Kids(p)
          PROVE  q \in T /\ h[q] + 1 = n /\ \A k \in Keys : k \in loc[q] <=> k \in S /\ FindChildPageID(p, k) = q
      <3>1. PICK a \in 1..(Len(p.cells) + 1) : q = Pointer(p, a)
        BY DEF Kids
      <3>2. Pointer(p, a) \in T /\ h[Pointer(p, a)] + 1 = n
            /\ \A k \in Keys : k \in loc[Pointer(p, a)] <=> k \in S /\ Behind(p.cells, k, a)
        BY <1>4 DEF NodeAt
      <3>3. QED
        BY <1>2, <2>1, <3>1, <3>2
    <2>3. QED
      BY <2>1, <2>2 DEF NodeHolds
  <1>5. QED
    BY <1>3, <1>4

\* An internal page does not notice changes at pages that are not its children.
LEMMA NodeUnmoved ==
    ASSUME NEW p, NEW S, NEW n, NEW T, NEW loc, NEW h, NodeHolds(p, S, n, T, loc, h),
           NEW U, NEW loc2, NEW h2, \A q \in Kids(p) : q \in U /\ loc2[q] = loc[q] /\ h2[q] = h[q]
    PROVE  NodeHolds(p, S, n, U, loc2, h2)
  BY DEF NodeHolds

\* Cells v and pointers of a page on which the pointer j of x was divided at sep: a cell
\* for the keys below it was put before the pointer, which became r.
Divided(x, v, j, sep, r) ==
    /\ Len(v.cells) = Len(x.cells) + 1 /\ DOMAIN v.cells = 1..(Len(x.cells) + 1)
    /\ \A m \in 1..(Len(x.cells) + 1) :
         v.cells[m].key = IF m < j THEN x.cells[m].key ELSE IF m = j THEN sep ELSE x.cells[m - 1].key
    /\ \A m \in 1..(Len(x.cells) + 2) :
         Pointer(v, m) = IF m <= j THEN Pointer(x, m) ELSE IF m = j + 1 THEN r ELSE Pointer(x, m - 1)

\* patchInternalAfterChildSplit divides the pointer to the child.
LEMMA PatchDivides ==
    ASSUME NEW D, NEW x, InternalOK(x, D), Distinct(x), NEW q, NEW r \in D, NEW y, y = PatchedPage(x, q, r),
           NEW sep \in Nat, NEW j, Behind(x.cells, sep, j), Pointer(x, j) = q,
           NEW e \in InternalCell(D), e.key = sep, e.child = q,
           NEW i, Behind(y.cells, sep, i), NEW v, v.cells = InsertAt(y.cells, i, e), v.next = y.next
    PROVE  Divided(x, v, j, sep, r)
  <1>1. PICK s, t, n : s = x.cells /\ t = y.cells /\ n = Len(s)
    OBVIOUS
  <1>2. /\ InternalOK(y, D) /\ Len(t) = n
        /\ \A m \in 1..n : t[m].key = s[m].key
        /\ \/ t = s /\ y.next = r /\ \A m \in 1..n : s[m].child # q
           \/ \E a \in 1..n : /\ s[a].child = q /\ t[a].child = r /\ y.next = x.next
                              /\ \A m \in 1..n : m # a => t[m] = s[m]
    <2>1. /\ InternalOK(y, D) /\ y.off = x.off /\ Len(y.cells) = Len(x.cells) /\ y.type = "internal"
          /\ \A m \in 1..Len(x.cells) : y.cells[m].key = x.cells[m].key
          /\ \/ /\ y.cells = x.cells /\ y.next = r
                /\ \A m \in 1..Len(x.cells) : x.cells[m].child # q
             \/ \E a \in 1..Len(x.cells) :
                  /\ x.cells[a].child = q /\ y.cells[a].child = r /\ y.next = x.next
                  /\ \A m \in 1..Len(x.cells) : m # a => y.cells[m] = x.cells[m]
                  /\ \A m \in 1..Len(x.cells) : x.cells[m].child = q => a <= m
      BY PatchedFacts
    <2>2. QED
      BY <1>1, <2>1
  <1>3. s \in Seq(InternalCell(D)) /\ t \in Seq(InternalCell(D)) /\ CellSet(InternalCell(D))
    <2>1. WellFormed(x, D) /\ WellFormed(y, D) /\ x.type = "internal" /\ y.type = "internal"
      BY <1>2 DEF WellFormed, InternalOK, Sound, PageSet
    <2>2. QED
      BY <1>1, <2>1, PageParts
  <1>4. n \in Nat /\ DOMAIN s = 1..n /\ DOMAIN t = 1..n /\ Len(t) = n
    BY <1>1, <1>2, <1>3
  <1>5. j \in 1..(n + 1) /\ \A m \in 1..n : (m < j => s[m].key <= sep) /\ (m >= j => s[m].key > sep)
    BY <1>1, <1>4 DEF Behind
  <1>6. Behind(t, sep, j)
    BY <1>2, <1>4, <1>5 DEF Behind
  <1>7. i = j
    <2>1. Behind(t, sep, i)
      BY <1>1
    <2>2. QED
      BY <1>3, <1>6, <2>1, BehindUnique
  <1>8. /\ Len(v.cells) = n + 1 /\ DOMAIN v.cells = 1..(n + 1)
        /\ \A m \in 1..(n + 1) : v.cells[m] = IF m < j THEN t[m] ELSE IF m = j THEN e ELSE t[m - 1]
    <2>0. PICK C : C = InternalCell(D)
      OBVIOUS
    <2>1. t \in Seq(C) /\ j \in 1..(Len(t) + 1) /\ e \in C
      BY <1>3, <1>4, <1>5, <2>0
    <2>2. Len(InsertAt(t, j, e)) = Len(t) + 1 /\ DOMAIN InsertAt(t, j, e) = 1..(Len(t) + 1)
      BY <2>1, InsertAtFacts
    <2>3. \A m \in 1..(Len(t) + 1) : InsertAt(t, j, e)[m] = IF m < j THEN t[m] ELSE IF m = j THEN e ELSE t[m - 1]
      BY <2>1, InsertAtFacts
    <2>4. v.cells = InsertAt(t, j, e)
      BY <1>1, <1>7
    <2>5. QED
      BY <1>4, <2>2, <2>3, <2>4
  <1>9. \A m \in 1..(n + 1) : v.cells[m].key = IF m < j THEN s[m].key ELSE IF m = j THEN sep ELSE s[m - 1].key
    <2>1. ASSUME NEW m \in 1..(n + 1)
          PROVE  v.cells[m].key = IF m < j THEN s[m].key ELSE IF m = j THEN sep ELSE s[m - 1].key
      <3>1. CASE m < j
        <4>1. m \in 1..n /\ v.cells[m] = t[m]
          BY <1>4, <1>5, <1>8, <3>1
        <4>2. QED
          BY <1>2, <3>1, <4>1
      <3>2. CASE m = j
        BY <1>8, <3>2
      <3>3. CASE m > j
        <4>1. m - 1 \in 1..n /\ v.cells[m] = t[m - 1]
          BY <1>4, <1>5, <1>8, <3>3
        <4>2. QED
          BY <1>2, <1>5, <3>3, <4>1
      <3>4. QED
        BY <1>5, <3>1, <3>2, <3>3
    <2>2. QED
      BY <2>1
  <1>10. \A m \in 1..n : Pointer(x, m) = s[m].child
    BY <1>1, <1>4 DEF Pointer
  <1>11. Pointer(x, n + 1) = x.next /\ Pointer(v, n + 2) = v.next
    <2>1. n + 2 = Len(v.cells) + 1
      BY <1>4, <1>8
    <2>2. QED
      BY <1>1, <2>1 DEF Pointer
  <1>12. \A m \in 1..(n + 1) : Pointer(v, m) = v.cells[m].child
    <2>1. ASSUME NEW m \in 1..(n + 1) PROVE m # Len(v.cells) + 1
      BY <1>4, <1>8
    <2>2. QED
      BY <2>1 DEF Pointer
  <1>13. ASSUME NEW m \in 1..(n + 2)
         PROVE  Pointer(v, m) = IF m <= j THEN Pointer(x, m) ELSE IF m = j + 1 THEN r ELSE Pointer(x, m - 1)
    <2>1. CASE j = n + 1
      <3>1. t = s /\ y.next = r
        <4>1. \A a \in 1..n : s[a].child # q
          <5>1. ASSUME NEW a \in 1..n, s[a].child = q PROVE FALSE
            <6>1. Pointer(x, a) = Pointer(x, j) /\ a \in 1..(Len(x.cells) + 1) /\ j \in 1..(Len(x.cells) + 1)
              BY <1>1, <1>4, <1>5, <1>10, <5>1
            <6>2. a = j
              BY <6>1 DEF Distinct
            <6>3. QED
              BY <1>4, <2>1, <6>2
          <5>2. QED
            BY <5>1
        <4>2. QED
          BY <1>2, <4>1
      <3>2. CASE m < j
        <4>1. m \in 1..n /\ m \in 1..(n + 1) /\ v.cells[m] = s[m]
          BY <1>4, <1>8, <2>1, <3>1, <3>2
        <4>2. Pointer(v, m) = Pointer(x, m)
          BY <1>10, <1>12, <4>1
        <4>3. QED
          BY <1>4, <2>1, <3>2, <4>2
      <3>3. CASE m = j
        <4>1. m \in 1..(n + 1) /\ v.cells[m] = e
          BY <1>4, <1>5, <1>8, <3>3
        <4>2. QED
          BY <1>5, <1>12, <3>3, <4>1
      <3>4. CASE m = j + 1
        <4>1. m = n + 2 /\ Pointer(v, m) = v.next
          BY <1>4, <1>11, <2>1, <3>4
        <4>2. QED
          BY <1>5, <3>1, <3>4, <4>1
      <3>5. QED
        BY <1>4, <1>5, <2>1, <3>2, <3>3, <3>4
    <2>2. CASE j \in 1..n
      <3>1. t[j].child = r /\ y.next = x.next /\ \A b \in 1..n : b # j => t[b] = s[b]
        <4>1. s[j].child = q
          BY <1>10, <2>2
        <4>2. PICK a \in 1..n : /\ s[a].child = q /\ t[a].child = r /\ y.next = x.next
                                /\ \A b \in 1..n : b # a => t[b] = s[b]
          BY <1>2, <2>2, <4>1
        <4>3. Pointer(x, a) = Pointer(x, j) /\ a \in 1..(Len(x.cells) + 1) /\ j \in 1..(Len(x.cells) + 1)
          BY <1>1, <1>4, <1>5, <1>10, <4>2
        <4>4. a = j
          BY <4>3 DEF Distinct
        <4>5. QED
          BY <4>2, <4>4
      <3>2. CASE m < j
        <4>1. m \in 1..n /\ m \in 1..(n + 1) /\ m # j
          BY <1>4, <2>2, <3>2
        <4>2. v.cells[m] = s[m]
          BY <1>8, <3>1, <3>2, <4>1
        <4>3. QED
          BY <1>10, <1>12, <2>2, <3>2, <4>1, <4>2
      <3>3. CASE m = j
        <4>1. m \in 1..(n + 1) /\ v.cells[m] = e
          BY <1>4, <1>5, <1>8, <3>3
        <4>2. QED
          BY <1>5, <1>12, <3>3, <4>1
      <3>4. CASE m = j + 1
        <4>1. m \in 1..(n + 1) /\ m - 1 = j /\ ~(m < j) /\ m # j
          BY <1>4, <2>2, <3>4
        <4>2. v.cells[m] = t[j]
          BY <1>8, <4>1
        <4>3. QED
          BY <1>12, <2>2, <3>1, <3>4, <4>1, <4>2
      <3>5. CASE m > j + 1 /\ m # n + 2
        <4>1. m \in 1..(n + 1) /\ m - 1 \in 1..n /\ m - 1 # j /\ ~(m < j) /\ m # j
          BY <1>4, <2>2, <3>5
        <4>2. v.cells[m] = s[m - 1]
          BY <1>8, <3>1, <4>1
        <4>3. Pointer(v, m) = Pointer(x, m - 1)
          BY <1>10, <1>12, <4>1, <4>2
        <4>4. QED
          BY <2>2, <3>5, <4>3
      <3>6. CASE m = n + 2
        <4>1. Pointer(v, m) = Pointer(x, m - 1) /\ m > j + 1
          BY <1>4, <1>11, <2>2, <3>1, <3>6
        <4>2. QED
          BY <2>2, <4>1
      <3>7. QED
        BY <1>4, <2>2, <3>2, <3>3, <3>4, <3>5, <3>6
    <2>3. QED
      BY <1>4, <1>5, <2>1, <2>2
  <1>14. QED
    BY <1>1, <1>8, <1>9, <1>13 DEF Divided

\* The page with the divided pointer leads each key to its half.
LEMMA DividedHolds ==
    ASSUME NEW C, CellSet(C), NEW x, x.cells \in Seq(C), Sorted(x.cells),
           NEW v, v.cells \in Seq(C), Sorted(v.cells),
           NEW S, NEW n, NEW T, NEW loc, NEW h, NodeHolds(x, S, n, T, loc, h),
           NEW j, NEW sep \in Nat, Behind(x.cells, sep, j), NEW q, Pointer(x, j) = q, sep \in S, NEW r,
           Divided(x, v, j, sep, r), NEW U, NEW loc2, NEW h2, Shared(T, loc, h, q, sep, r, U, loc2, h2)
    PROVE  NodeHolds(v, S, n, U, loc2, h2)
  <1>1. NodeAt(x, S, n, T, loc, h)
    BY NodeByPosition
  <1>2. PICK s, t, b : s = x.cells /\ t = v.cells /\ b = Len(s)
    OBVIOUS
  <1>3. b \in Nat /\ DOMAIN s = 1..b /\ DOMAIN t = 1..(b + 1) /\ Len(t) = b + 1
    BY <1>2 DEF Divided
  <1>4. j \in 1..(b + 1) /\ \A m \in 1..b : (m < j => s[m].key <= sep) /\ (m >= j => s[m].key > sep)
    BY <1>2, <1>3 DEF Behind
  <1>5. /\ \A m \in 1..(b + 1) : t[m].key = IF m < j THEN s[m].key ELSE IF m = j THEN sep ELSE s[m - 1].key
        /\ \A m \in 1..(b + 2) :
             Pointer(v, m) = IF m <= j THEN Pointer(x, m) ELSE IF m = j + 1 THEN r ELSE Pointer(x, m - 1)
    BY <1>2 DEF Divided
  <1>6. /\ \A m \in 1..b : s[m].key \in S
        /\ \A a, d \in 1..(b + 1) : Pointer(x, a) = Pointer(x, d) => a = d
        /\ \A a \in 1..(b + 1) :
             /\ Pointer(x, a) \in T /\ h[Pointer(x, a)] + 1 = n
             /\ \A k \in Keys : k \in loc[Pointer(x, a)] <=> k \in S /\ Behind(s, k, a)
    BY <1>1, <1>2 DEF NodeAt, Distinct
  <1>7. \A m \in 1..b : s[m].key \in Nat
    BY <1>2, <1>3 DEF CellSet
  <1>8. PICK from : from = [m \in 1..(b + 2) |-> IF m <= j THEN m ELSE m - 1]
    OBVIOUS
  <1>9. ASSUME NEW m \in 1..(b + 2), m # j + 1
        PROVE  from[m] \in 1..(b + 1) /\ Pointer(v, m) = Pointer(x, from[m]) /\ (from[m] = j <=> m = j)
    <2>1. CASE m <= j
      BY <1>3, <1>4, <1>5, <1>8, <2>1
    <2>2. CASE m > j + 1
      <3>1. from[m] = m - 1 /\ m - 1 \in 1..(b + 1) /\ m - 1 # j /\ m # j
        BY <1>3, <1>4, <1>8, <2>2
      <3>2. Pointer(v, m) = Pointer(x, m - 1)
        BY <1>4, <1>5, <2>2
      <3>3. QED
        BY <3>1, <3>2
    <2>3. QED
      BY <1>4, <1>9, <2>1, <2>2
  <1>10. Pointer(v, j + 1) = r /\ j + 1 \in 1..(b + 2) /\ Pointer(v, j) = q /\ j \in 1..(b + 2)
    BY <1>3, <1>4, <1>5
  <1>11. Distinct(v)
    <2>1. ASSUME NEW a \in 1..(b + 2), NEW d \in 1..(b + 2), Pointer(v, a) = Pointer(v, d), a # d PROVE FALSE
      <3>1. CASE a = j + 1
        <4>1. Pointer(v, d) = Pointer(x, from[d]) /\ from[d] \in 1..(b + 1)
          BY <1>9, <2>1, <3>1
        <4>2. QED
          BY <1>6, <1>10, <2>1, <3>1, <4>1 DEF Shared, Below, Above
      <3>2. CASE d = j + 1
        <4>1. Pointer(v, a) = Pointer(x, from[a]) /\ from[a] \in 1..(b + 1)
          BY <1>9, <2>1, <3>2
        <4>2. QED
          BY <1>6, <1>10, <2>1, <3>2, <4>1 DEF Shared, Below, Above
      <3>3. CASE a # j + 1 /\ d # j + 1
        <4>1. Pointer(x, from[a]) = Pointer(x, from[d]) /\ from[a] \in 1..(b + 1) /\ from[d] \in 1..(b + 1)
          BY <1>9, <2>1, <3>3
        <4>2. from[a] = from[d]
          BY <1>6, <4>1
        <4>3. from[a] = (IF a <= j THEN a ELSE a - 1) /\ from[d] = (IF d <= j THEN d ELSE d - 1)
          BY <1>8
        <4>4. j \in Nat /\ a \in Nat /\ d \in Nat
          BY <1>3, <1>4
        <4>5. CASE a <= j /\ d <= j
          BY <2>1, <4>2, <4>3, <4>5
        <4>6. CASE a > j + 1 /\ d <= j
          <5>1. from[a] = a - 1 /\ from[d] = d
            BY <4>3, <4>4, <4>6
          <5>2. a - 1 # d
            BY <4>4, <4>6
          <5>3. QED
            BY <4>2, <5>1, <5>2
        <4>7. CASE a <= j /\ d > j + 1
          <5>1. from[a] = a /\ from[d] = d - 1
            BY <4>3, <4>4, <4>7
          <5>2. d - 1 # a
            BY <4>4, <4>7
          <5>3. QED
            BY <4>2, <5>1, <5>2
        <4>8. CASE a > j + 1 /\ d > j + 1
          <5>1. from[a] = a - 1 /\ from[d] = d - 1
            BY <4>3, <4>4, <4>8
          <5>2. a - 1 # d - 1
            BY <2>1, <4>4
          <5>3. QED
            BY <4>2, <5>1, <5>2
        <4>9. QED
          BY <3>3, <4>4, <4>5, <4>6, <4>7, <4>8
      <3>4. QED
        BY <3>1, <3>2, <3>3
    <2>2. Len(v.cells) + 1 = b + 2
      BY <1>2, <1>3
    <2>3. QED
      BY <2>1, <2>2 DEF Distinct
  <1>12. \A m \in 1..(b + 1) : t[m].key \in S
    <2>1. ASSUME NEW m \in 1..(b + 1) PROVE t[m].key \in S
      <3>1. CASE m < j
        BY <1>3, <1>4, <1>5, <1>6, <3>1
      <3>2. CASE m = j
        BY <1>5, <3>2
      <3>3. CASE m > j
        <4>1. m - 1 \in 1..b /\ t[m].key = s[m - 1].key
          BY <1>3, <1>4, <1>5, <3>3
        <4>2. QED
          BY <1>6, <4>1
      <3>4. QED
        BY <1>4, <3>1, <3>2, <3>3
    <2>2. QED
      BY <2>1
  <1>13. ASSUME NEW k \in Keys, NEW m \in 1..(b + 2)
         PROVE  /\ m = j => (Behind(t, k, m) <=> Behind(s, k, j) /\ k < sep)
                /\ m = j + 1 => (Behind(t, k, m) <=> Behind(s, k, j) /\ k >= sep)
                /\ m # j /\ m # j + 1 => (Behind(t, k, m) <=> Behind(s, k, from[m]))
    <2>1. k \in Nat
      BY TreeAssumption
    <2>2. PICK a : Behind(s, k, a)
      BY <1>2, <2>1, FindInsertPosFacts
    <2>3. a \in 1..(b + 1) /\ \A d \in 1..b : (d < a => s[d].key <= k) /\ (d >= a => s[d].key > k)
      BY <1>2, <1>3, <2>2 DEF Behind
    <2>4. PICK to : to = IF a < j \/ (a = j /\ k < sep) THEN a ELSE a + 1
      OBVIOUS
    <2>5. to \in 1..(b + 2)
      BY <1>3, <2>3, <2>4
    <2>6. ASSUME NEW d \in 1..(b + 1) PROVE (d < to => t[d].key <= k) /\ (d >= to => t[d].key > k)
      <3>1. CASE d = j
        <4>1. t[d].key = sep
          BY <1>5, <3>1
        <4>2. CASE a = j
          BY <1>4, <2>1, <2>4, <3>1, <4>1, <4>2
        <4>3. CASE a < j
          <5>1. a \in 1..b /\ s[a].key <= sep /\ s[a].key > k /\ s[a].key \in Nat
            BY <1>3, <1>4, <1>7, <2>3, <4>3
          <5>2. sep > k /\ to = a
            BY <2>1, <2>4, <4>3, <5>1
          <5>3. QED
            BY <1>3, <1>4, <2>3, <3>1, <4>1, <4>3, <5>2
        <4>4. CASE a > j
          <5>1. j \in 1..b /\ s[j].key > sep /\ s[j].key <= k /\ s[j].key \in Nat
            BY <1>3, <1>4, <1>7, <2>3, <4>4
          <5>2. sep <= k /\ to = a + 1
            BY <1>4, <2>1, <2>3, <2>4, <4>4, <5>1
          <5>3. QED
            BY <1>3, <1>4, <2>3, <3>1, <4>1, <4>4, <5>2
        <4>5. QED
          BY <1>4, <2>3, <4>2, <4>3, <4>4
      <3>2. CASE d < j
        <4>1. d \in 1..b /\ t[d].key = s[d].key
          BY <1>3, <1>4, <1>5, <3>2
        <4>2. d < to <=> d < a
          BY <1>3, <1>4, <2>3, <2>4, <3>2
        <4>3. QED
          BY <2>3, <2>5, <4>1, <4>2
      <3>3. CASE d > j
        <4>1. d - 1 \in 1..b /\ t[d].key = s[d - 1].key
          BY <1>3, <1>4, <1>5, <3>3
        <4>2. d < to <=> d - 1 < a
          BY <1>3, <1>4, <2>3, <2>4, <3>3
        <4>3. (d - 1 < a => s[d - 1].key <= k) /\ (d - 1 >= a => s[d - 1].key > k)
          BY <2>3, <4>1
        <4>4. QED
          BY <2>3, <2>5, <4>1, <4>2, <4>3
      <3>4. QED
        BY <1>4, <3>1, <3>2, <3>3
    <2>7. Behind(t, k, to)
      BY <1>3, <2>5, <2>6 DEF Behind
    <2>8. Behind(t, k, m) <=> m = to
      <3>1. ASSUME Behind(t, k, m) PROVE m = to
        BY <1>2, <2>1, <2>7, <3>1, BehindUnique
      <3>2. QED
        BY <2>7, <3>1
    <2>9. \A d : Behind(s, k, d) <=> d = a
      <3>1. ASSUME NEW d, Behind(s, k, d) PROVE d = a
        BY <1>2, <2>1, <2>2, <3>1, BehindUnique
      <3>2. QED
        BY <2>2, <3>1
    <2>10. from[m] = IF m <= j THEN m ELSE m - 1
      BY <1>8
    <2>11. j \in Nat /\ a \in Nat /\ m \in Nat /\ sep \in Nat
      BY <1>3, <1>4, <2>3
    <2>12. m = j => (m = to <=> j = a /\ k < sep)
      BY <2>1, <2>4, <2>11
    <2>13. m = j + 1 => (m = to <=> j = a /\ k >= sep)
      BY <2>1, <2>4, <2>11
    <2>14. m # j /\ m # j + 1 => (m = to <=> from[m] = a)
      <3>1. CASE m < j
        BY <2>1, <2>4, <2>10, <2>11, <3>1
      <3>2. CASE m > j + 1
        BY <2>1, <2>4, <2>10, <2>11, <3>2
      <3>3. QED
        BY <2>11, <3>1, <3>2
    <2>15. QED
      BY <2>8, <2>9, <2>12, <2>13, <2>14
  <1>14. ASSUME NEW m \in 1..(b + 2)
         PROVE  /\ Pointer(v, m) \in U /\ h2[Pointer(v, m)] + 1 = n
                /\ \A k \in Keys : k \in loc2[Pointer(v, m)] <=> k \in S /\ Behind(t, k, m)
    <2>1. q \in T /\ h[q] + 1 = n /\ \A k \in Keys : k \in loc[q] <=> k \in S /\ Behind(s, k, j)
      BY <1>2, <1>4, <1>6
    <2>2. CASE m = j + 1
      <3>1. r \in U /\ h2[r] = h[q] /\ loc2[r] = {k \in loc[q] : k >= sep}
        BY DEF Shared, Below, Above
      <3>2. QED
        BY <1>10, <1>13, <2>1, <2>2, <3>1
    <2>3. CASE m = j
      <3>1. q \in U /\ h2[q] = h[q] /\ loc2[q] = {k \in loc[q] : k < sep}
        BY <2>1 DEF Shared, Below, Above
      <3>2. QED
        BY <1>10, <1>13, <2>1, <2>3, <3>1
    <2>4. CASE m # j /\ m # j + 1
      <3>1. PICK a, p : a = from[m] /\ p = Pointer(x, a)
        OBVIOUS
      <3>2. a \in 1..(b + 1) /\ Pointer(v, m) = p /\ a # j
        BY <1>9, <2>4, <3>1
      <3>3. p # q
        <4>1. Pointer(x, a) = Pointer(x, j) => a = j
          BY <1>4, <1>6, <3>2
        <4>2. QED
          BY <3>1, <3>2, <4>1
      <3>4. p \in T /\ h[p] + 1 = n /\ \A k \in Keys : k \in loc[p] <=> k \in S /\ Behind(s, k, a)
        BY <1>6, <3>1, <3>2
      <3>5. p \in U /\ h2[p] = h[p] /\ loc2[p] = loc[p]
        BY <3>3, <3>4 DEF Shared, Below, Above
      <3>6. \A k \in Keys : Behind(t, k, m) <=> Behind(s, k, a)
        BY <1>13, <2>4, <3>1
      <3>7. QED
        BY <3>2, <3>4, <3>5, <3>6
    <2>5. QED
      BY <2>2, <2>3, <2>4
  <1>15. NodeAt(v, S, n, U, loc2, h2)
    <2>1. Len(v.cells) + 1 = b + 2 /\ Len(v.cells) = b + 1
      BY <1>2, <1>3
    <2>2. QED
      BY <1>2, <1>11, <1>12, <1>14, <2>1 DEF NodeAt
  <1>16. QED
    BY <1>15, NodeByPosition

\* The cells of v are cut at the one after m, whose child becomes the last of p.
Cut(v, m, sep, p, q) ==
    /\ m >= 1 /\ m < Len(v.cells) /\ sep = v.cells[m + 1].key /\ v.cells[m].key # sep
    /\ p.cells = SubSeq(v.cells, 1, m) /\ p.next = v.cells[m + 1].child
    /\ q.cells = SubSeq(v.cells, m + 2, Len(v.cells)) /\ q.next = v.next

\* The halves of an internal page lead to their keys, if the middle separator is above
\* the one before it.
LEMMA NodeParts ==
    ASSUME NEW C, CellSet(C), NEW v, v.cells \in Seq(C), Sorted(v.cells),
           NEW S, NEW n, NEW T, NEW loc, NEW h, NodeHolds(v, S, n, T, loc, h),
           NEW m \in Nat, NEW sep, NEW p, NEW q, Cut(v, m, sep, p, q)
    PROVE  /\ NodeHolds(p, Below(S, sep), n, T, loc, h) /\ NodeHolds(q, Above(S, sep), n, T, loc, h)
           /\ sep \in S
  <1> /\ m >= 1 /\ m < Len(v.cells) /\ sep = v.cells[m + 1].key /\ v.cells[m].key # sep
      /\ p.cells = SubSeq(v.cells, 1, m) /\ p.next = v.cells[m + 1].child
      /\ q.cells = SubSeq(v.cells, m + 2, Len(v.cells)) /\ q.next = v.next
    BY DEF Cut
  <1>1. NodeAt(v, S, n, T, loc, h)
    BY NodeByPosition
  <1>2. PICK s, b : s = v.cells /\ b = Len(s)
    OBVIOUS
  <1>3. s \in Seq(C) /\ b \in Nat /\ DOMAIN s = 1..b /\ m + 1 \in 1..b /\ m \in 1..b /\ sep = s[m + 1].key
    BY <1>2
  <1>4. \A a \in 1..b : s[a].key \in Nat
    BY <1>3 DEF CellSet
  <1>5. /\ \A a \in 1..b : s[a].key \in S
        /\ \A a, d \in 1..(b + 1) : Pointer(v, a) = Pointer(v, d) => a = d
        /\ \A a \in 1..(b + 1) :
             /\ Pointer(v, a) \in T /\ h[Pointer(v, a)] + 1 = n
             /\ \A k \in Keys : k \in loc[Pointer(v, a)] <=> k \in S /\ Behind(s, k, a)
    BY <1>1, <1>2 DEF NodeAt, Distinct
  <1>6. \A a, d \in 1..b : a < d => s[a].key <= s[d].key
    BY <1>2, <1>3 DEF Sorted
  <1>7. \A a \in 1..b : (a <= m => s[a].key < sep) /\ (a > m => s[a].key >= sep)
    <2>1. s[m].key < sep
      <3>1. s[m].key <= s[m + 1].key
        BY <1>3, <1>6
      <3>2. QED
        BY <1>2, <1>3, <1>4, <3>1
    <2>2. ASSUME NEW a \in 1..b, a <= m PROVE s[a].key < sep
      <3>1. CASE a = m
        BY <2>1, <3>1
      <3>2. CASE a < m
        <4>1. s[a].key <= s[m].key
          BY <1>3, <1>6, <3>2
        <4>2. QED
          BY <1>3, <1>4, <2>1, <4>1
      <3>3. QED
        BY <1>3, <2>2, <3>1, <3>2
    <2>3. ASSUME NEW a \in 1..b, a > m PROVE s[a].key >= sep
      <3>1. CASE a = m + 1
        BY <1>3, <1>4, <3>1
      <3>2. CASE a > m + 1
        <4>1. s[m + 1].key <= s[a].key
          BY <1>3, <1>6, <3>2
        <4>2. QED
          BY <1>3, <1>4, <4>1
      <3>3. QED
        BY <1>3, <2>3, <3>1, <3>2
    <2>4. QED
      BY <2>2, <2>3
  <1>8. \A k \in Keys : k \in Nat
    BY TreeAssumption
  <1>9. NodeHolds(p, {k \in S : k < sep}, n, T, loc, h)
    <2>1. /\ p.cells \in Seq(C) /\ Len(p.cells) = m /\ DOMAIN p.cells = 1..m /\ Sorted(p.cells)
          /\ \A a \in 1..m : p.cells[a] = s[a]
      <3>1. PICK c, d : c = 1 /\ d = m
        OBVIOUS
      <3>2. c \in 1..(Len(s) + 1) /\ d \in (c - 1)..Len(s) /\ Sorted(s)
        BY <1>2, <1>3, <3>1
      <3>3. /\ SubSeq(s, c, d) \in Seq(C) /\ Len(SubSeq(s, c, d)) = d - c + 1
            /\ DOMAIN SubSeq(s, c, d) = 1..(d - c + 1)
            /\ \A a \in 1..(d - c + 1) : SubSeq(s, c, d)[a] = s[c + a - 1]
            /\ Sorted(s) => Sorted(SubSeq(s, c, d))
        BY <1>3, <3>2, PieceFacts
      <3>4. d - c + 1 = m /\ \A a \in 1..m : c + a - 1 = a
        BY <3>1
      <3>5. QED
        BY <1>2, <3>1, <3>2, <3>3, <3>4
    <2>2. ASSUME NEW a \in 1..(m + 1) PROVE Pointer(p, a) = Pointer(v, a) /\ a \in 1..(b + 1)
      <3>1. a \in 1..b /\ Pointer(v, a) = s[a].child
        BY <1>2, <1>3 DEF Pointer
      <3>2. CASE a = m + 1
        BY <1>2, <2>1, <3>1, <3>2 DEF Pointer
      <3>3. CASE a # m + 1
        <4>1. a \in 1..m /\ Pointer(p, a) = p.cells[a].child
          BY <2>1, <3>3 DEF Pointer
        <4>2. QED
          BY <1>3, <2>1, <3>1, <4>1
      <3>4. QED
        BY <3>2, <3>3
    <2>3. ASSUME NEW a \in 1..(m + 1), NEW k \in Keys
          PROVE  Behind(s, k, a) <=> k < sep /\ Behind(p.cells, k, a)
      <3>1. Behind(p.cells, k, a) <=>
              \A d \in 1..m : (d < a => s[d].key <= k) /\ (d >= a => s[d].key > k)
        BY <2>1 DEF Behind
      <3>2. Behind(s, k, a) <=>
              \A d \in 1..b : (d < a => s[d].key <= k) /\ (d >= a => s[d].key > k)
        BY <1>2, <1>3, <2>2 DEF Behind
      <3>3. ASSUME Behind(s, k, a) PROVE k < sep /\ Behind(p.cells, k, a)
        <4>1. s[m + 1].key > k
          BY <1>3, <3>2, <3>3
        <4>2. \A d \in 1..m : d \in 1..b
          BY <1>3
        <4>3. QED
          BY <1>3, <1>4, <1>8, <3>1, <3>2, <3>3, <4>1, <4>2
      <3>4. ASSUME k < sep, Behind(p.cells, k, a) PROVE Behind(s, k, a)
        <4>1. ASSUME NEW d \in 1..b PROVE (d < a => s[d].key <= k) /\ (d >= a => s[d].key > k)
          <5>1. CASE d <= m
            BY <3>1, <3>4, <5>1
          <5>2. CASE d > m
            <6>1. s[d].key >= sep /\ ~(d < a)
              BY <1>7, <5>2
            <6>2. QED
              BY <1>3, <1>4, <1>8, <3>4, <6>1
          <5>3. QED
            BY <5>1, <5>2
        <4>2. QED
          BY <3>2, <4>1
      <3>5. QED
        BY <3>3, <3>4
    <2>4. NodeAt(p, {k \in S : k < sep}, n, T, loc, h)
      <3>1. Distinct(p)
        BY <1>5, <2>1, <2>2 DEF Distinct
      <3>2. \A i \in 1..Len(p.cells) : p.cells[i].key \in {k \in S : k < sep}
        BY <1>3, <1>5, <1>7, <2>1
      <3>3. ASSUME NEW a \in 1..(Len(p.cells) + 1)
            PROVE  /\ Pointer(p, a) \in T /\ h[Pointer(p, a)] + 1 = n
                   /\ \A k \in Keys : k \in loc[Pointer(p, a)]
                                        <=> k \in {x \in S : x < sep} /\ Behind(p.cells, k, a)
        <4>1. a \in 1..(m + 1) /\ Pointer(p, a) = Pointer(v, a) /\ a \in 1..(b + 1)
          BY <2>1, <2>2
        <4>2. QED
          BY <1>5, <2>3, <4>1
      <3>4. QED
        BY <3>1, <3>2, <3>3 DEF NodeAt
    <2>5. QED
      BY <2>1, <2>4, NodeByPosition
  <1>10. NodeHolds(q, {k \in S : k >= sep}, n, T, loc, h)
    <2>1. PICK w : w = b - m - 1
      OBVIOUS
    <2>2. w \in Nat /\ \A a \in 1..w : a + m + 1 \in 1..b
      BY <1>3, <2>1
    <2>3. /\ q.cells \in Seq(C) /\ Len(q.cells) = w /\ DOMAIN q.cells = 1..w /\ Sorted(q.cells)
          /\ \A a \in 1..w : q.cells[a] = s[a + m + 1]
      <3>1. PICK c, d : c = m + 2 /\ d = b
        OBVIOUS
      <3>2. c \in 1..(Len(s) + 1) /\ d \in (c - 1)..Len(s) /\ Sorted(s)
        BY <1>2, <1>3, <3>1
      <3>3. /\ SubSeq(s, c, d) \in Seq(C) /\ Len(SubSeq(s, c, d)) = d - c + 1
            /\ DOMAIN SubSeq(s, c, d) = 1..(d - c + 1)
            /\ \A a \in 1..(d - c + 1) : SubSeq(s, c, d)[a] = s[c + a - 1]
            /\ Sorted(s) => Sorted(SubSeq(s, c, d))
        BY <1>3, <3>2, PieceFacts
      <3>4. d - c + 1 = w /\ \A a \in 1..w : c + a - 1 = a + m + 1
        BY <1>3, <2>1, <3>1
      <3>5. QED
        BY <1>2, <3>1, <3>2, <3>3, <3>4
    <2>4. ASSUME NEW a \in 1..(w + 1) PROVE Pointer(q, a) = Pointer(v, a + m + 1) /\ a + m + 1 \in 1..(b + 1)
      <3>1. a + m + 1 \in 1..(b + 1)
        BY <1>3, <2>1
      <3>2. CASE a = w + 1
        <4>1. a + m + 1 = b + 1
          BY <1>3, <2>1, <3>2
        <4>2. QED
          BY <1>2, <2>3, <3>1, <3>2, <4>1 DEF Pointer
      <3>3. CASE a # w + 1
        <4>0. w \in Nat /\ b \in Nat /\ m \in Nat /\ a \in 1..(w + 1)
          BY <1>3, <2>2
        <4>4. a \in 1..w
          BY <3>3, <4>0
        <4>5. a + m + 1 # b + 1
          <5>1. w + m + 1 = b
            BY <2>1, <4>0
          <5>2. a <= w
            BY <4>4
          <5>3. QED
            BY <4>0, <5>1, <5>2
        <4>1. a \in 1..w /\ a + m + 1 # b + 1
          BY <4>4, <4>5
        <4>2. Pointer(q, a) = q.cells[a].child /\ Pointer(v, a + m + 1) = s[a + m + 1].child
          BY <1>2, <2>3, <3>3, <4>1 DEF Pointer
        <4>3. QED
          BY <2>3, <3>1, <4>1, <4>2
      <3>4. QED
        BY <3>2, <3>3
    <2>5. ASSUME NEW a \in 1..(w + 1), NEW k \in Keys
          PROVE  Behind(s, k, a + m + 1) <=> k >= sep /\ Behind(q.cells, k, a)
      <3>1. Behind(q.cells, k, a) <=>
              \A d \in 1..w : (d < a => q.cells[d].key <= k) /\ (d >= a => q.cells[d].key > k)
        BY <2>3 DEF Behind
      <3>2. PICK z : z = a + m + 1
        OBVIOUS
      <3>3. z \in 1..(b + 1) /\ z > m + 1
        BY <2>4, <3>2
      <3>4. Behind(s, k, z) <=>
              \A d \in 1..b : (d < z => s[d].key <= k) /\ (d >= z => s[d].key > k)
        BY <1>2, <1>3, <3>3 DEF Behind
      <3>5. ASSUME Behind(s, k, z) PROVE k >= sep /\ Behind(q.cells, k, a)
        <4>1. s[m + 1].key <= k
          BY <1>3, <3>3, <3>4, <3>5
        <4>2. ASSUME NEW d \in 1..w PROVE (d < a => q.cells[d].key <= k) /\ (d >= a => q.cells[d].key > k)
          <5>1. PICK y : y = d + m + 1
            OBVIOUS
          <5>2. y \in 1..b /\ q.cells[d] = s[y] /\ (d < a <=> y < z) /\ (d >= a <=> y >= z)
            BY <2>2, <2>3, <3>2, <5>1
          <5>3. QED
            BY <3>4, <3>5, <5>2
        <4>3. QED
          BY <1>3, <1>4, <1>8, <3>1, <4>1, <4>2
      <3>6. ASSUME k >= sep, Behind(q.cells, k, a) PROVE Behind(s, k, z)
        <4>1. ASSUME NEW d \in 1..b PROVE (d < z => s[d].key <= k) /\ (d >= z => s[d].key > k)
          <5>1. CASE d <= m + 1
            <6>1. s[d].key <= sep /\ ~(d >= z) /\ s[d].key \in Nat /\ sep \in Nat
              <7>1. CASE d = m + 1
                BY <1>3, <1>4, <3>3, <7>1
              <7>2. CASE d <= m
                BY <1>3, <1>4, <1>7, <3>3, <7>2
              <7>3. QED
                BY <5>1, <7>1, <7>2
            <6>2. PICK y, z2 \in Nat : y = s[d].key /\ z2 = sep
              BY <6>1
            <6>3. k \in Nat /\ z2 <= k /\ y <= z2
              BY <1>8, <3>6, <6>1, <6>2
            <6>4. s[d].key <= k
              BY <6>2, <6>3
            <6>5. QED
              BY <6>1, <6>4
          <5>2. CASE d > m + 1
            <6>1. PICK y : y = d - m - 1
              OBVIOUS
            <6>2. w \in Nat /\ b \in Nat /\ m \in Nat /\ d \in 1..b /\ a \in 1..(w + 1)
              BY <1>3, <2>2
            <6>3. y \in 1..w /\ d = y + m + 1
              BY <2>1, <5>2, <6>1, <6>2
            <6>4. (y < a <=> d < z) /\ (y >= a <=> d >= z)
              BY <3>2, <6>2, <6>3
            <6>5. q.cells[y] = s[d]
              BY <2>3, <6>3
            <6>6. QED
              BY <3>1, <3>6, <6>3, <6>4, <6>5
          <5>3. QED
            BY <5>1, <5>2
        <4>2. QED
          BY <3>4, <4>1
      <3>7. QED
        BY <3>2, <3>5, <3>6
    <2>6. NodeAt(q, {k \in S : k >= sep}, n, T, loc, h)
      <3>1. Distinct(q)
        <4>1. ASSUME NEW a \in 1..(w + 1), NEW d \in 1..(w + 1), Pointer(q, a) = Pointer(q, d) PROVE a = d
          <5>1. Pointer(v, a + m + 1) = Pointer(v, d + m + 1) /\ a + m + 1 \in 1..(b + 1) /\ d + m + 1 \in 1..(b + 1)
            BY <2>4, <4>1
          <5>2. a + m + 1 = d + m + 1
            BY <1>5, <5>1
          <5>3. QED
            BY <5>2
        <4>2. QED
          BY <2>3, <4>1 DEF Distinct
      <3>2. ASSUME NEW i \in 1..w PROVE q.cells[i].key \in {k \in S : k >= sep}
        <4>1. i + m + 1 \in 1..b /\ i + m + 1 > m /\ q.cells[i] = s[i + m + 1]
          BY <2>2, <2>3
        <4>2. QED
          BY <1>5, <1>7, <4>1
      <3>3. ASSUME NEW a \in 1..(w + 1)
            PROVE  /\ Pointer(q, a) \in T /\ h[Pointer(q, a)] + 1 = n
                   /\ \A k \in Keys : k \in loc[Pointer(q, a)]
                                        <=> k \in {x \in S : x >= sep} /\ Behind(q.cells, k, a)
        <4>1. PICK z : z = a + m + 1
          OBVIOUS
        <4>2. Pointer(q, a) = Pointer(v, z) /\ z \in 1..(b + 1)
          BY <2>4, <4>1
        <4>3. \A k \in Keys : Behind(s, k, z) <=> k >= sep /\ Behind(q.cells, k, a)
          BY <2>5, <4>1
        <4>4. QED
          BY <1>5, <4>2, <4>3
      <3>4. QED
        BY <2>3, <3>1, <3>2, <3>3 DEF NodeAt
    <2>7. QED
      BY <2>3, <2>6, NodeByPosition
  <1>11. QED
    BY <1>3, <1>5, <1>9, <1>10 DEF Below, Above

-----------------------------------------------------------------------------
(* Room on the pages.                                                      *)

\* A cell inserted behind the last.
LEMMA AddedLast ==
    ASSUME NEW S, NEW s \in Seq(S), NEW e \in S, NEW j, j = Len(s) + 1, NEW t, t = InsertAt(s, j, e)
    PROVE  Len(t) = j /\ \A i \in 1..j : t[i] = IF i = j THEN e ELSE s[i]
  <1>1. Len(s) \in Nat /\ j \in 1..(Len(s) + 1)
    OBVIOUS
  <1>2. \A i \in 1..(Len(s) + 1) :
          /\ Len(InsertAt(s, i, e)) = Len(s) + 1
          /\ \A n \in 1..(Len(s) + 1) :
               InsertAt(s, i, e)[n] = IF n < i THEN s[n] ELSE IF n = i THEN e ELSE s[n - 1]
    <2>1. TAKE i \in 1..(Len(s) + 1)
    <2>2. Len(InsertAt(s, i, e)) = Len(s) + 1
      BY InsertAtFacts
    <2>3. \A n \in 1..(Len(s) + 1) :
            InsertAt(s, i, e)[n] = IF n < i THEN s[n] ELSE IF n = i THEN e ELSE s[n - 1]
      BY InsertAtFacts
    <2>4. QED
      BY <2>2, <2>3
  <1>3. QED
    BY <1>1, <1>2

\* Cells that have room together are all added.
LEMMA AddCellsFit ==
    ASSUME NEW ty, NEW S, NEW N, SizedCells(S), NEW p \in PageSet(ty, S, N),
           p.cells = <<>>, p.off = Capacity, NEW cells \in Seq(S),
           NEW least \in Nat, NEW most \in Nat, \A e \in S : least <= CellLen(e) /\ CellLen(e) <= most,
           Len(cells) * (most + SlotSize) <= Capacity, NEW q, q = AddCells(p, cells)
    PROVE  /\ q.cells = cells /\ q.type = p.type /\ q.next = p.next
           /\ q.off + least * Len(cells) <= Capacity /\ Capacity <= q.off + most * Len(cells)
  <1>1. PICK b \in Nat : b = Len(cells) /\ DOMAIN cells = 1..b
    OBVIOUS
  <1>2. PICK f : /\ f[0] = p /\ f[b] = AddCells(p, cells)
                 /\ \A n \in 1..b : f[n] =
                      IF Fits(f[n-1], cells[n])
                      THEN InsertCellAt(f[n-1], Len(f[n-1].cells) + 1, cells[n])
                      ELSE f[n-1]
    BY <1>1, AddCellsUnfold
  <1> DEFINE Fine(n) == /\ f[n] \in PageSet(ty, S, N) /\ f[n].type = p.type /\ f[n].next = p.next
                        /\ Len(f[n].cells) = n /\ \A i \in 1..n : f[n].cells[i] = cells[i]
                        /\ f[n].off + least * n <= Capacity /\ Capacity <= f[n].off + most * n
             T == {n \in Nat : Fine(n)}
  <1>3. Capacity \in Nat /\ SlotSize \in Nat
    BY TreeAssumption
  <1>4. 0 \in T
    <2>1. least * 0 = 0 /\ most * 0 = 0
      OBVIOUS
    <2>2. QED
      BY <1>2, <1>3, <2>1
  <1>5. ASSUME NEW n \in 1..b, n - 1 \in T PROVE n \in T
    <2>1. PICK x, e, y : x = f[n-1] /\ e = cells[n] /\ y = f[n]
      OBVIOUS
    <2>2. PICK k \in Nat : k = n - 1 /\ n = k + 1 /\ k + 1 <= b
      BY <1>1
    <2>3. /\ x \in PageSet(ty, S, N) /\ x.type = p.type /\ x.next = p.next
          /\ Len(x.cells) = k /\ \A i \in 1..k : x.cells[i] = cells[i]
          /\ x.off + least * k <= Capacity /\ Capacity <= x.off + most * k
      BY <1>5, <2>1, <2>2
    <2>4. x.cells \in Seq(S) /\ x.off \in Nat /\ FreeSpace(x) = x.off - SlotSize * k
      BY <2>3, PageFields
    <2>5. e \in S
      BY <1>1, <2>1
    <2>6. PICK g \in Nat : g = CellLen(e) /\ least <= g /\ g <= most
      BY <2>5 DEF SizedCells
    <2>7. (k + 1) * (most + SlotSize) <= Capacity
      <3>1. PICK z \in Nat : z = most + SlotSize
        BY <1>3
      <3>2. z * (k + 1) <= z * b
        BY <2>2, <3>1, TimesGrows
      <3>3. (k + 1) * z = z * (k + 1) /\ b * z = z * b
        BY <1>1, <2>2
      <3>4. b * z <= Capacity /\ (k + 1) * z \in Nat /\ b * z \in Nat
        BY <1>1, <2>2, <3>1
      <3>5. QED
        BY <1>3, <3>1, <3>2, <3>3, <3>4
    <2>8. Fits(x, e)
      <3>1. (k + 1) * (most + SlotSize) = most * k + SlotSize * k + most + SlotSize
        BY <1>3, <2>2
      <3>2. most * k \in Nat /\ SlotSize * k \in Nat
        BY <1>3
      <3>3. x.off - SlotSize * k >= most + SlotSize
        BY <1>3, <2>3, <2>4, <2>7, <3>1, <3>2
      <3>4. x.off - SlotSize * k >= g + SlotSize
        <4>1. PICK z \in Int : z = x.off - SlotSize * k
          BY <2>4, <3>2
        <4>2. z >= most + SlotSize
          BY <3>3, <4>1
        <4>3. z >= g + SlotSize
          BY <1>3, <2>6, <4>2
        <4>4. QED
          BY <4>1, <4>3
      <3>5. QED
        BY <2>4, <2>6, <3>4 DEF Fits
    <2>9. y = InsertCellAt(x, k + 1, e)
      BY <1>2, <2>1, <2>2, <2>3, <2>8
    <2>10. k + 1 \in 1..(Len(x.cells) + 1)
      BY <2>3
    <2>11. /\ y \in PageSet(ty, S, N) /\ y.cells = InsertAt(x.cells, k + 1, e) /\ y.off = x.off - g
           /\ y.type = x.type /\ y.next = x.next
      BY <2>3, <2>5, <2>6, <2>8, <2>9, <2>10, InsertCellFacts
    <2>12. Len(y.cells) = k + 1 /\ \A i \in 1..(k + 1) : y.cells[i] = IF i = k + 1 THEN e ELSE x.cells[i]
      <3>1. PICK s, j : s = x.cells /\ j = k + 1
        OBVIOUS
      <3>2. PICK t : t = InsertAt(s, j, e)
        OBVIOUS
      <3>3. s \in Seq(S) /\ j = Len(s) + 1 /\ e \in S
        BY <2>3, <2>4, <2>5, <3>1
      <3>4. Len(t) = j /\ \A i \in 1..j : t[i] = IF i = j THEN e ELSE s[i]
        BY <3>2, <3>3, AddedLast
      <3>5. QED
        BY <2>11, <3>1, <3>2, <3>4
    <2>13. y.off + least * (k + 1) <= Capacity /\ Capacity <= y.off + most * (k + 1)
      <3>1. least * (k + 1) = least * k + least /\ most * (k + 1) = most * k + most
        OBVIOUS
      <3>2. PICK lk, mk \in Nat : lk = least * k /\ mk = most * k
        OBVIOUS
      <3>3. x.off + lk <= Capacity /\ Capacity <= x.off + mk /\ y.off = x.off - g /\ x.off \in Nat
        BY <2>3, <2>4, <2>11, <3>2
      <3>4. PICK xo, cap \in Nat : xo = x.off /\ cap = Capacity
        BY <1>3, <3>3
      <3>5. xo + lk <= cap /\ cap <= xo + mk
        BY <3>3, <3>4
      <3>6. (xo - g) + (lk + least) <= cap /\ cap <= (xo - g) + (mk + most)
        BY <2>6, <3>5
      <3>7. QED
        BY <3>1, <3>2, <3>3, <3>4, <3>6
    <2>14. ASSUME NEW i \in 1..n PROVE y.cells[i] = cells[i]
      <3>1. CASE i = n
        BY <2>1, <2>2, <2>12, <3>1
      <3>2. CASE i # n
        <4>1. i \in 1..k /\ i \in 1..(k + 1) /\ i # k + 1
          BY <2>2, <3>2
        <4>2. QED
          BY <2>3, <2>12, <4>1
      <3>3. QED
        BY <3>1, <3>2
    <2>15. n \in Nat /\ least * n = least * (k + 1) /\ most * n = most * (k + 1)
      BY <2>2
    <2>16. QED
      BY <2>1, <2>2, <2>3, <2>11, <2>12, <2>13, <2>14, <2>15
  <1>6. b \in T
    <2> HIDE DEF T
    <2>1. \A n \in 0..b : n \in T
      BY <1>4, <1>5, Ascend
    <2>2. QED
      BY <2>1
  <1>7. q = f[b]
    BY <1>2
  <1>8. q.cells = cells
    <2>1. q \in PageSet(ty, S, N) /\ Len(q.cells) = b /\ \A i \in 1..b : q.cells[i] = cells[i]
      BY <1>6, <1>7
    <2>2. q.cells \in Seq(S)
      BY <2>1, PageFields
    <2>3. QED
      BY <1>1, <2>1, <2>2
  <1>9. QED
    BY <1>1, <1>6, <1>7, <1>8

\* A cell is taken off a page: its room stays taken.
LEMMA TakenDelete ==
    ASSUME NEW D, NEW p, LeafOK(p, D), NEW least \in Nat, Taken(p, least), NEW i \in 1..Len(p.cells),
           NEW q, q = DeleteCell(p, i)
    PROVE  LeafOK(q, D) /\ Taken(q, least) /\ q.cells = RemoveAt(p.cells, i) /\ q.next = p.next
  <1>1. PICK N : N = D \cup {NoPage}
    OBVIOUS
  <1>2. Sound(p, "leaf", LeafCell, N)
    BY <1>1 DEF LeafOK
  <1>3. p \in PageSet("leaf", LeafCell, N) /\ Sorted(p.cells) /\ FreeSpace(p) >= 0
    BY <1>2 DEF Sound
  <1>4. /\ Sound(q, "leaf", LeafCell, N)
        /\ q.cells = RemoveAt(p.cells, i) /\ q.off = p.off /\ q.type = p.type /\ q.next = p.next
    BY <1>3, DeleteCellFacts
  <1>5. p.cells \in Seq(LeafCell) /\ p.type = "leaf" /\ p.off \in Nat /\ Len(p.cells) \in Nat
    BY <1>3, PageFields
  <1>6. Len(q.cells) = Len(p.cells) - 1
    <2>1. PICK s : s = p.cells
      OBVIOUS
    <2>2. s \in Seq(LeafCell) /\ i \in 1..Len(s)
      BY <1>5, <2>1
    <2>3. Len(RemoveAt(s, i)) = Len(s) - 1
      BY <2>2, RemoveAtFacts
    <2>4. QED
      BY <1>4, <2>1, <2>3
  <1>7. Taken(q, least)
    <2>1. PICK n \in Nat : n + 1 = Len(p.cells) /\ n = Len(q.cells)
      BY <1>5, <1>6
    <2>2. p.off + least * (n + 1) <= Capacity
      BY <1>5, <2>1 DEF Taken
    <2>3. least * (n + 1) = least * n + least /\ least * n \in Nat
      OBVIOUS
    <2>4. p.off + least * n <= Capacity
      BY <1>5, <2>2, <2>3, TreeAssumption
    <2>5. QED
      BY <1>4, <1>5, <2>1, <2>4 DEF Taken
  <1>8. QED
    BY <1>1, <1>4, <1>7 DEF LeafOK

\* A cell that fits is put on a page.
LEMMA TakenInsert ==
    ASSUME NEW D, NEW p, WellFormed(p, D), NEW least \in Nat, Taken(p, least), NEW e,
           \/ p.type = "leaf" /\ e \in LeafCell /\ least <= CellLen(e)
           \/ p.type = "internal" /\ e \in InternalCell(D),
           Fits(p, e), NEW i \in 1..(Len(p.cells) + 1), NEW q, q = InsertCellAt(p, i, e)
    PROVE  Taken(q, least) /\ q.cells = InsertAt(p.cells, i, e) /\ q.type = p.type /\ q.next = p.next
  <1>1. PICK ty, S, N : /\ p \in PageSet(ty, S, N) /\ e \in S /\ ty = p.type
                        /\ \/ ty = "leaf" /\ S = LeafCell /\ least <= CellLen(e)
                           \/ ty = "internal" /\ S = InternalCell(D) /\ CellLen(e) = InternalLen
    <2>1. CASE p.type = "leaf" /\ e \in LeafCell /\ least <= CellLen(e)
      <3>1. p \in PageSet("leaf", LeafCell, D \cup {NoPage})
        BY <2>1, PageKinds DEF LeafOK, Sound
      <3>2. QED
        BY <2>1, <3>1
    <2>2. CASE p.type = "internal" /\ e \in InternalCell(D)
      <3>1. p \in PageSet("internal", InternalCell(D), D)
        BY <2>2, PageKinds DEF InternalOK, Sound
      <3>2. CellLen(e) = InternalLen
        BY <2>2, CellSizes
      <3>3. QED
        BY <2>2, <3>1, <3>2
    <2>3. QED
      BY <2>1, <2>2
  <1>2. SizedCells(S)
    BY <1>1, CellSizes
  <1>3. q.cells = InsertAt(p.cells, i, e) /\ q.off = p.off - CellLen(e) /\ q.type = p.type /\ q.next = p.next
    BY <1>1, <1>2, InsertCellFacts
  <1>4. PICK n \in Nat : n = Len(p.cells) /\ Len(q.cells) = n + 1
    <2>1. PICK s : s = p.cells
      OBVIOUS
    <2>2. s \in Seq(S) /\ i \in 1..(Len(s) + 1)
      BY <1>1, <2>1, PageFields
    <2>3. Len(InsertAt(s, i, e)) = Len(s) + 1
      BY <1>1, <2>2, InsertAtFacts
    <2>4. QED
      BY <1>3, <2>1, <2>2, <2>3
  <1>5. PICK g, off \in Nat : g = CellLen(e) /\ off = p.off
    BY <1>1, <1>2, PageFields DEF SizedCells
  <1>6. \A a \in Nat : a * (n + 1) = a * n + a /\ a * n \in Nat
    OBVIOUS
  <1>7. InternalLen \in Nat /\ Capacity \in Nat
    BY TreeAssumption
  <1>8. CASE ty = "leaf"
    <2>1. off + least * n <= Capacity /\ least <= g
      BY <1>1, <1>4, <1>5, <1>8 DEF Taken
    <2>2. PICK z \in Nat : z = least * n /\ least * (n + 1) = z + least
      BY <1>6
    <2>3. (off - g) + (z + least) <= Capacity
      BY <1>7, <2>1, <2>2
    <2>4. QED
      BY <1>1, <1>3, <1>4, <1>5, <1>8, <2>2, <2>3 DEF Taken
  <1>9. CASE ty = "internal"
    <2>1. off + InternalLen * n = Capacity /\ g = InternalLen
      BY <1>1, <1>4, <1>5, <1>9 DEF Taken
    <2>2. PICK z \in Nat : z = InternalLen * n /\ InternalLen * (n + 1) = z + InternalLen
      BY <1>6, <1>7
    <2>3. (off - g) + (z + InternalLen) = Capacity
      BY <1>7, <2>1, <2>2
    <2>4. QED
      BY <1>1, <1>3, <1>4, <1>5, <1>9, <2>2, <2>3 DEF Taken
  <1>10. QED
    BY <1>1, <1>3, <1>8, <1>9

\* Halves of a number.
LEMMA HalfFacts ==
    ASSUME NEW n \in Nat, NEW m, m = (n + 1) \div 2
    PROVE  /\ m \in Nat /\ m <= n /\ n - m \in Nat /\ n - m <= n /\ (n >= 1 => m >= 1)
           /\ (n + 2) \div 2 \in Nat /\ m <= (n + 2) \div 2 /\ n + 1 - m \in Nat /\ n + 1 - m <= (n + 2) \div 2
  <1>1. PICK d \in Nat : d = (n + 2) \div 2 /\ (n + 2 = 2 * d \/ n + 2 = 2 * d + 1)
    OBVIOUS
  <1>2. m \in Nat /\ (n + 1 = 2 * m \/ n + 1 = 2 * m + 1)
    OBVIOUS
  <1>3. QED
    BY <1>1, <1>2

\* A full leaf and one more row: both halves fit.
LEMMA LeafRoom ==
    ASSUME NEW D, NEW t, LeafOK(t, D), NEW least \in Nat, NEW most \in Nat, RowsFit(least, most), Taken(t, least),
           NEW mid, mid = (Len(t.cells) + 1) \div 2
    PROVE  /\ mid * (most + SlotSize) <= Capacity
           /\ (Len(t.cells) + 1 - mid) * (most + SlotSize) <= Capacity
  <1>1. t \in PageSet("leaf", LeafCell, D \cup {NoPage}) /\ FreeSpace(t) >= 0
    BY DEF LeafOK, Sound
  <1>2. PICK n, off \in Nat : n = Len(t.cells) /\ off = t.off /\ t.type = "leaf" /\ off - SlotSize * n >= 0
    BY <1>1, PageFields
  <1>3. SlotSize \in Nat /\ Capacity \in Nat
    BY TreeAssumption
  <1>4. off + least * n <= Capacity
    BY <1>2 DEF Taken
  <1>5. n * (least + SlotSize) <= Capacity
    <2>1. n * (least + SlotSize) = least * n + SlotSize * n /\ least * n \in Nat /\ SlotSize * n \in Nat
      BY <1>3
    <2>2. PICK x, y, cap \in Nat : x = least * n /\ y = SlotSize * n /\ cap = Capacity
      BY <1>3, <2>1
    <2>3. off + x <= cap /\ off - y >= 0
      BY <1>2, <1>4, <2>2
    <2>4. x + y <= cap
      BY <2>3
    <2>5. QED
      BY <2>1, <2>2, <2>4
  <1>6. ((n + 2) \div 2) * (most + SlotSize) <= Capacity
    BY <1>5 DEF RowsFit
  <1>7. mid \in Nat /\ mid <= (n + 2) \div 2 /\ n + 1 - mid \in Nat /\ n + 1 - mid <= (n + 2) \div 2 /\ (n + 2) \div 2 \in Nat
    BY <1>2, HalfFacts
  <1>8. PICK z, a, b, d \in Nat : /\ z = most + SlotSize /\ a = mid /\ b = n + 1 - mid /\ d = (n + 2) \div 2
    <2>1. most + SlotSize \in Nat
      BY <1>3
    <2>2. QED
      BY <1>7, <2>1
  <1>9. z * a <= z * d /\ z * b <= z * d
    BY <1>7, <1>8, TimesGrows
  <1>10. z * a = a * z /\ z * b = b * z /\ z * d = d * z /\ z * a \in Nat /\ z * b \in Nat /\ z * d \in Nat
    OBVIOUS
  <1>11. d * z <= Capacity
    BY <1>6, <1>8
  <1>12. a * z <= Capacity /\ b * z <= Capacity
    BY <1>3, <1>9, <1>10, <1>11
  <1>13. QED
    BY <1>2, <1>8, <1>12

\* A full internal page and one more cell: both halves fit.
LEMMA NodeRoom ==
    ASSUME NodeFits, NEW D, NEW t, InternalOK(t, D), NEW least, Taken(t, least), NEW e \in InternalCell(D), ~Fits(t, e),
           NEW mid, mid = (Len(t.cells) + 1) \div 2
    PROVE  /\ mid * (InternalLen + SlotSize) <= Capacity
           /\ (Len(t.cells) - mid) * (InternalLen + SlotSize) <= Capacity
           /\ mid \in Nat /\ mid >= 1 /\ mid <= Len(t.cells)
  <1>1. t \in PageSet("internal", InternalCell(D), D) /\ FreeSpace(t) >= 0
    BY DEF InternalOK, Sound
  <1>2. PICK n, off \in Nat : /\ n = Len(t.cells) /\ off = t.off /\ t.type = "internal"
                              /\ FreeSpace(t) = off - SlotSize * n /\ off - SlotSize * n >= 0
    BY <1>1, PageFields
  <1>3. SlotSize \in Nat /\ Capacity \in Nat /\ InternalLen \in Nat
    BY TreeAssumption
  <1>4. off + InternalLen * n = Capacity
    BY <1>2 DEF Taken
  <1>5. n * (InternalLen + SlotSize) <= Capacity
    <2>1. n * (InternalLen + SlotSize) = InternalLen * n + SlotSize * n /\ InternalLen * n \in Nat /\ SlotSize * n \in Nat
      BY <1>3
    <2>2. PICK x, y, cap \in Nat : x = InternalLen * n /\ y = SlotSize * n /\ cap = Capacity
      BY <1>3, <2>1
    <2>3. off + x = cap /\ off - y >= 0
      BY <1>2, <1>4, <2>2
    <2>4. x + y <= cap
      BY <2>3
    <2>5. QED
      BY <2>1, <2>2, <2>4
  <1>6. n >= 1
    <2>1. ASSUME n = 0 PROVE FALSE
      <3>1. InternalLen * n = 0 /\ SlotSize * n = 0
        BY <1>3, <2>1
      <3>2. CellLen(e) = InternalLen
        BY CellSizes
      <3>3. Fits(t, e)
        BY <1>2, <1>3, <1>4, <3>1, <3>2 DEF Fits, NodeFits
      <3>4. QED
        BY <3>3
    <2>2. QED
      BY <2>1
  <1>7. mid \in Nat /\ mid >= 1 /\ mid <= n /\ n - mid \in Nat /\ n - mid <= n
    BY <1>2, <1>6, HalfFacts
  <1>8. PICK z, a, b \in Nat : z = InternalLen + SlotSize /\ a = mid /\ b = n - mid
    <2>1. InternalLen + SlotSize \in Nat
      BY <1>3
    <2>2. QED
      BY <1>7, <2>1
  <1>9. z * a <= z * n /\ z * b <= z * n
    BY <1>7, <1>8, TimesGrows
  <1>10. z * a = a * z /\ z * b = b * z /\ z * n = n * z /\ z * a \in Nat /\ z * b \in Nat /\ z * n \in Nat
    OBVIOUS
  <1>11. n * z <= Capacity
    BY <1>5, <1>8
  <1>12. a * z <= Capacity /\ b * z <= Capacity
    BY <1>3, <1>9, <1>10, <1>11
  <1>13. QED
    BY <1>2, <1>7, <1>8, <1>12

-----------------------------------------------------------------------------
(* Pages that are split.                                                   *)

WithNext(p, n) == [p EXCEPT !.next = n]
Between(S, least, most) == \A e \in S : least <= CellLen(e) /\ CellLen(e) <= most
Empty(p) == p.cells = <<>> /\ p.off = Capacity
RoomFor(n, most) == n * (most + SlotSize) <= Capacity
Filled(p, least, most) == /\ p.off \in Nat /\ p.off + least * Len(p.cells) <= Capacity
                          /\ Capacity <= p.off + most * Len(p.cells)

\* A page filled anew with cells that have room together.
LEMMA Refilled ==
    ASSUME NEW ty, NEW S, NEW N, SizedCells(S), NEW p, Sound(p, ty, S, N),
           Empty(p), NEW cells \in Seq(S), Sorted(cells),
           NEW least \in Nat, NEW most \in Nat, Between(S, least, most), RoomFor(Len(cells), most),
           NEW a, a = AddCells(p, cells), NEW n, NEW q, q = WithNext(a, n)
    PROVE  /\ q.cells = cells /\ q.type = ty /\ q.next = n
           /\ Filled(q, least, most)
  <1>1. p \in PageSet(ty, S, N) /\ p.type = ty /\ FreeSpace(p) >= 0
    BY PageFields DEF Sound
  <1>2. /\ a.cells = cells /\ a.type = p.type
        /\ a.off + least * Len(cells) <= Capacity /\ Capacity <= a.off + most * Len(cells)
    BY <1>1, AddCellsFit DEF Between, RoomFor, Empty
  <1>3. Sound(a, ty, S, N)
    BY <1>1, AddCellsSound DEF Empty
  <1>4. a.off \in Nat
    BY <1>3, PageFields DEF Sound
  <1>5. PICK M : M = N \cup {n}
    OBVIOUS
  <1>6. Sound(a, ty, S, M)
    BY <1>3, <1>5 DEF Sound, PageSet
  <1>7. q.cells = a.cells /\ q.off = a.off /\ q.type = a.type /\ q.next = n
    <2>1. n \in M
      BY <1>5
    <2>2. QED
      BY <1>6, <2>1, NextSet DEF WithNext
  <1>8. QED
    BY <1>1, <1>2, <1>4, <1>7 DEF Filled

LeftOf(cells, n) == SubSeq(cells, 1, n)
RightOf(cells, n) == SubSeq(cells, n + 1, Len(cells))

\* The pieces of sorted cells left and right of a position a.
LEMMA Pieces ==
    ASSUME NEW S, NEW cells \in Seq(S), Sorted(cells), NEW a \in Nat, a <= Len(cells),
           NEW c, c = LeftOf(cells, a), NEW b \in Nat, b <= Len(cells), NEW d, d = RightOf(cells, b)
    PROVE  /\ c \in Seq(S) /\ Len(c) = a /\ Sorted(c)
           /\ d \in Seq(S) /\ Len(d) = Len(cells) - b /\ Sorted(d)
  <1>1. PICK n \in Nat : n = Len(cells)
    OBVIOUS
  <1>2. \A x \in 1..(n + 1) : \A y \in (x - 1)..n :
          /\ SubSeq(cells, x, y) \in Seq(S) /\ Len(SubSeq(cells, x, y)) = y - x + 1
          /\ Sorted(SubSeq(cells, x, y))
    <2>1. SUFFICES ASSUME NEW x \in 1..(n + 1), NEW y \in (x - 1)..n
                   PROVE  /\ SubSeq(cells, x, y) \in Seq(S) /\ Len(SubSeq(cells, x, y)) = y - x + 1
                          /\ Sorted(SubSeq(cells, x, y))
      OBVIOUS
    <2>2. /\ SubSeq(cells, x, y) \in Seq(S) /\ Len(SubSeq(cells, x, y)) = y - x + 1
          /\ DOMAIN SubSeq(cells, x, y) = 1..(y - x + 1)
          /\ \A m \in 1..(y - x + 1) : SubSeq(cells, x, y)[m] = cells[x + m - 1]
          /\ Sorted(cells) => Sorted(SubSeq(cells, x, y))
      BY <1>1, <2>1, PieceFacts
    <2>3. QED
      BY <2>2
  <1>3. 1 \in 1..(n + 1) /\ a \in (1 - 1)..n /\ a - 1 + 1 = a
    BY <1>1
  <1>4. b + 1 \in 1..(n + 1) /\ n \in ((b + 1) - 1)..n /\ n - (b + 1) + 1 = n - b
    BY <1>1
  <1>5. c \in Seq(S) /\ Len(c) = a /\ Sorted(c)
    BY <1>2, <1>3 DEF LeftOf
  <1>6. d \in Seq(S) /\ Len(d) = n - b /\ Sorted(d)
    BY <1>1, <1>2, <1>4 DEF RightOf
  <1>7. QED
    BY <1>1, <1>5, <1>6

\* The halves l and r of a leaf t that takes the cell e, as splitLeaf makes them: r is on
\* page n.
LeafSplit(t, e, l, r, n, sep) ==
    LET cells == SortCells(Append(t.cells, e))
        mid   == Len(cells) \div 2
    IN /\ l = [AddCells(ResetPage(t), SubSeq(cells, 1, mid)) EXCEPT !.next = n]
       /\ r = [AddCells(Blank("leaf"), SubSeq(cells, mid + 1, Len(cells))) EXCEPT !.next = t.next]
       /\ sep = cells[mid + 1].key

\* The cells of the halves.
LEMMA LeafSplitCells ==
    ASSUME NEW D, NEW t, LeafOK(t, D), NEW least \in Nat, NEW most \in Nat, RowsFit(least, most), Taken(t, least),
           NEW e \in LeafCell, NEW l, NEW r, NEW n, NEW sep, LeafSplit(t, e, l, r, n, sep)
    PROVE  /\ l.type = "leaf" /\ Taken(l, least) /\ r.type = "leaf" /\ Taken(r, least)
           /\ l.next = n /\ r.next = t.next
           /\ \E cells \in Seq(LeafCell), mid \in Nat :
                /\ cells = InsertAt(t.cells, FindInsertPos(t, e.key), e)
                /\ Behind(t.cells, e.key, FindInsertPos(t, e.key))
                /\ mid < Len(cells) /\ sep = cells[mid + 1].key
                /\ l.cells = SubSeq(cells, 1, mid) /\ r.cells = SubSeq(cells, mid + 1, Len(cells))
  <1>1. PICK N : N = D \cup {NoPage} \cup {0}
    OBVIOUS
  <1>2. Sound(t, "leaf", LeafCell, N) /\ t \in PageSet("leaf", LeafCell, N)
    BY <1>1 DEF LeafOK, Sound, PageSet
  <1>3. SizedCells(LeafCell) /\ Between(LeafCell, least, most)
    <2>1. \A x \in LeafCell : CellLen(x) = RowLen[x.row] /\ x.row \in Rows
      BY CellSizes DEF LeafCell
    <2>2. QED
      BY <2>1, CellSizes DEF RowsFit, Between
  <1>4. PICK cells : cells = SortCells(Append(t.cells, e))
    OBVIOUS
  <1>5. /\ cells = InsertAt(t.cells, FindInsertPos(t, e.key), e)
        /\ Behind(t.cells, e.key, FindInsertPos(t, e.key))
        /\ cells \in Seq(LeafCell) /\ Len(cells) = Len(t.cells) + 1 /\ DOMAIN cells = 1..(Len(t.cells) + 1)
        /\ Sorted(cells) /\ Len(cells) \div 2 \in 0..Len(t.cells)
    BY <1>2, <1>3, <1>4, GrownCells
  <1>6. PICK len \in Nat : len = Len(t.cells)
    BY <1>2, PageFields
  <1>7. PICK mid \in Nat : mid = Len(cells) \div 2 /\ mid <= len /\ Len(cells) = len + 1
    <2>1. PICK x : x = Len(cells) \div 2
      OBVIOUS
    <2>2. x \in 0..Len(t.cells) /\ Len(cells) = Len(t.cells) + 1
      BY <1>5, <2>1
    <2>3. x \in Nat /\ x <= len
      BY <1>6, <2>2
    <2>4. QED
      BY <1>6, <2>1, <2>2, <2>3
  <1>7a. mid <= len /\ Len(cells) = len + 1
    BY <1>7
  <1>8. RoomFor(mid, most) /\ RoomFor(len + 1 - mid, most)
    <2>1. mid = (Len(t.cells) + 1) \div 2
      BY <1>6, <1>7
    <2>2. /\ mid * (most + SlotSize) <= Capacity
          /\ (Len(t.cells) + 1 - mid) * (most + SlotSize) <= Capacity
      BY <2>1, LeafRoom
    <2>3. QED
      BY <1>6, <2>2 DEF RoomFor
  <1>9. PICK c, d : c = LeftOf(cells, mid) /\ d = RightOf(cells, mid)
    OBVIOUS
  <1>10. /\ c \in Seq(LeafCell) /\ Len(c) = mid /\ Sorted(c)
         /\ d \in Seq(LeafCell) /\ Len(d) = Len(cells) - mid /\ Sorted(d)
    <2>1. mid <= Len(cells)
      BY <1>7a
    <2>2. cells \in Seq(LeafCell) /\ Sorted(cells)
      BY <1>5
    <2>3. QED
      BY <1>9, <2>1, <2>2, Pieces
  <1>11. Len(d) = len + 1 - mid
    BY <1>7, <1>10
  <1>12. /\ l = [AddCells(ResetPage(t), c) EXCEPT !.next = n]
         /\ r = [AddCells(Blank("leaf"), d) EXCEPT !.next = t.next]
         /\ sep = cells[mid + 1].key
    BY <1>4, <1>7, <1>9 DEF LeafSplit, LeftOf, RightOf
  <1>13. l.cells = c /\ l.type = "leaf" /\ l.next = n /\ l.off + least * Len(l.cells) <= Capacity
    <2>1. PICK n1 : n1 = n /\ l = [AddCells(ResetPage(t), c) EXCEPT !.next = n1]
      BY <1>12
    <2>2. PICK p, a : p = ResetPage(t) /\ a = AddCells(p, c)
      OBVIOUS
    <2>3. Sound(p, "leaf", LeafCell, N) /\ p.cells = <<>> /\ p.off = Capacity
      <3>1. \A u \in PageSet("leaf", LeafCell, N) :
              /\ Sound(ResetPage(u), "leaf", LeafCell, N) /\ ResetPage(u).cells = <<>>
              /\ ResetPage(u).off = Capacity /\ ResetPage(u).type = "leaf" /\ ResetPage(u).next = u.next
        BY EmptyPages
      <3>2. QED
        BY <1>2, <2>2, <3>1
    <2>4. RoomFor(Len(c), most)
      BY <1>8, <1>10
    <2>5. l = WithNext(a, n1) /\ a = AddCells(p, c) /\ c \in Seq(LeafCell) /\ Sorted(c)
      BY <1>10, <2>1, <2>2 DEF WithNext
    <2>6. Empty(p)
      BY <2>3 DEF Empty
    <2>7. /\ l.cells = c /\ l.type = "leaf" /\ l.next = n1
          /\ Filled(l, least, most)
      BY <1>3, <2>3, <2>4, <2>5, <2>6, Refilled
    <2>8. QED
      BY <2>1, <2>7 DEF Filled
  <1>14. r.cells = d /\ r.type = "leaf" /\ r.next = t.next /\ r.off + least * Len(r.cells) <= Capacity
    <2>1. PICK n2 : n2 = t.next /\ r = [AddCells(Blank("leaf"), d) EXCEPT !.next = n2]
      BY <1>12
    <2>2. PICK p, a : p = Blank("leaf") /\ a = AddCells(p, d)
      OBVIOUS
    <2>3. Sound(p, "leaf", LeafCell, N) /\ p.cells = <<>> /\ p.off = Capacity
      <3>1. 0 \in N => Sound(Blank("leaf"), "leaf", LeafCell, N)
        BY EmptyPages
      <3>2. Blank("leaf").cells = <<>> /\ Blank("leaf").off = Capacity
        BY DEF Blank
      <3>3. QED
        BY <1>1, <2>2, <3>1, <3>2
    <2>4. RoomFor(Len(d), most)
      BY <1>8, <1>11
    <2>5. r = WithNext(a, n2) /\ a = AddCells(p, d) /\ d \in Seq(LeafCell) /\ Sorted(d)
      BY <1>10, <2>1, <2>2 DEF WithNext
    <2>6. Empty(p)
      BY <2>3 DEF Empty
    <2>7. /\ r.cells = d /\ r.type = "leaf" /\ r.next = n2
          /\ Filled(r, least, most)
      BY <1>3, <2>3, <2>4, <2>5, <2>6, Refilled
    <2>8. QED
      BY <2>1, <2>7 DEF Filled
  <1>15. Taken(l, least) /\ Taken(r, least)
    BY <1>13, <1>14 DEF Taken
  <1>16. mid < Len(cells)
    BY <1>7a
  <1>17. QED
    BY <1>5, <1>7, <1>9, <1>12, <1>13, <1>14, <1>15, <1>16 DEF LeftOf, RightOf

\* splitLeaf divides the rows at the first key of the right leaf.
LEMMA LeafSplitHolds ==
    ASSUME NEW D, NEW t, LeafOK(t, D), NEW least \in Nat, NEW most \in Nat, RowsFit(least, most), Taken(t, least),
           NEW e \in LeafCell, NEW S, S \subseteq Keys, NEW f, LeafHolds(t, S, f),
           e.key \in S, f[e.key] = NoRow, e.row # NoRow,
           NEW g, RowChanged(S, f, g, e.key, e.row),
           NEW l, NEW r, NEW n, NEW sep, LeafSplit(t, e, l, r, n, sep)
    PROVE  /\ l.type = "leaf" /\ Taken(l, least) /\ LeafHolds(l, Below(S, sep), g)
           /\ r.type = "leaf" /\ Taken(r, least) /\ LeafHolds(r, Above(S, sep), g)
           /\ sep \in S
  <1>1. /\ l.type = "leaf" /\ Taken(l, least) /\ r.type = "leaf" /\ Taken(r, least)
        /\ \E cells \in Seq(LeafCell), mid \in Nat :
             /\ cells = InsertAt(t.cells, FindInsertPos(t, e.key), e)
             /\ Behind(t.cells, e.key, FindInsertPos(t, e.key))
             /\ mid < Len(cells) /\ sep = cells[mid + 1].key
             /\ l.cells = SubSeq(cells, 1, mid) /\ r.cells = SubSeq(cells, mid + 1, Len(cells))
    BY LeafSplitCells
  <1>2. PICK cells \in Seq(LeafCell), mid \in Nat :
             /\ cells = InsertAt(t.cells, FindInsertPos(t, e.key), e)
             /\ Behind(t.cells, e.key, FindInsertPos(t, e.key))
             /\ mid < Len(cells) /\ sep = cells[mid + 1].key
             /\ l.cells = SubSeq(cells, 1, mid) /\ r.cells = SubSeq(cells, mid + 1, Len(cells))
    BY <1>1
  <1>3. PICK v, i : v = [cells |-> cells] /\ i = FindInsertPos(t, e.key)
    OBVIOUS
  <1>4. v.cells = cells
    BY <1>3
  <1>5. t.cells \in Seq(LeafCell)
    BY PageFields DEF LeafOK, Sound
  <1>6. LeafHolds(v, S, g)
    <2>1. Behind(t.cells, e.key, i)
      BY <1>2, <1>3
    <2>2. v.cells = InsertAt(t.cells, i, e)
      BY <1>2, <1>3, <1>4
    <2>3. QED
      BY <1>5, <2>1, <2>2, LeafTakes
  <1>7. S \subseteq Nat
    BY TreeAssumption
  <1>8. LeafHolds(l, Below(S, sep), g) /\ LeafHolds(r, Above(S, sep), g) /\ sep \in S
    <2>1. v.cells \in Seq(LeafCell) /\ mid < Len(v.cells) /\ sep = v.cells[mid + 1].key
      BY <1>2, <1>4
    <2>2. l.cells = SubSeq(v.cells, 1, mid) /\ r.cells = SubSeq(v.cells, mid + 1, Len(v.cells))
      BY <1>2, <1>4
    <2>3. QED
      BY <1>6, <1>7, <2>1, <2>2, LeafParts
  <1>9. QED
    BY <1>1, <1>8

\* What splitting a child leaves to do on its parent x: y is x with the pointer turned to
\* the new page nq, e the cell for the child q.
ToPatch(D, x, y, e, S, n, T, loc, h, q, sep, nq, U, loc2, h2) ==
    /\ InternalOK(x, D) /\ nq \in D /\ y = PatchedPage(x, q, nq)
    /\ e \in InternalCell(D) /\ e.key = sep /\ e.child = q
    /\ NodeHolds(x, S, n, T, loc, h) /\ sep \in S /\ FindChildPageID(x, sep) = q
    /\ Shared(T, loc, h, q, sep, nq, U, loc2, h2)

\* The page that takes the cell for the child, were there room, leads to both halves.
LEMMA ToPatchHolds ==
    ASSUME NEW D, NEW x, NEW y, NEW e, NEW S, NEW n, NEW T, NEW loc, NEW h, NEW q, NEW sep, NEW nq,
           NEW U, NEW loc2, NEW h2, ToPatch(D, x, y, e, S, n, T, loc, h, q, sep, nq, U, loc2, h2),
           S \subseteq Keys, NEW v, v.cells = InsertAt(y.cells, FindInsertPos(y, sep), e), v.next = y.next,
           v.cells \in Seq(InternalCell(D)), Sorted(v.cells)
    PROVE  NodeHolds(v, S, n, U, loc2, h2) /\ v.cells # <<>> /\ Pointer(v, 1) = Pointer(x, 1)
  <1>1. /\ InternalOK(x, D) /\ nq \in D /\ y = PatchedPage(x, q, nq)
        /\ e \in InternalCell(D) /\ e.key = sep /\ e.child = q
        /\ NodeHolds(x, S, n, T, loc, h) /\ sep \in S /\ FindChildPageID(x, sep) = q
        /\ Shared(T, loc, h, q, sep, nq, U, loc2, h2)
    BY DEF ToPatch
  <1>2. PICK C : C = InternalCell(D)
    OBVIOUS
  <1>3. InternalOK(y, D)
    BY <1>1, PatchedFacts
  <1>4. CellSet(C) /\ x.cells \in Seq(C) /\ Sorted(x.cells) /\ y.cells \in Seq(C) /\ Sorted(y.cells)
    <2>1. WellFormed(x, D) /\ x.type = "internal" /\ WellFormed(y, D) /\ y.type = "internal"
      BY <1>1, <1>3 DEF WellFormed, InternalOK, Sound, PageSet
    <2>2. QED
      BY <1>2, <2>1, PageParts
  <1>5. sep \in Nat
    BY <1>1, TreeAssumption
  <1>6. PICK j : Behind(x.cells, sep, j)
    BY <1>4, <1>5, FindInsertPosFacts
  <1>7. Pointer(x, j) = q
    BY <1>1, <1>4, <1>5, <1>6, PointerOfKey
  <1>8. PICK i : i = FindInsertPos(y, sep)
    OBVIOUS
  <1>9. Behind(y.cells, sep, i)
    BY <1>4, <1>5, <1>8, FindInsertPosFacts
  <1>10. Distinct(x)
    BY <1>1 DEF NodeHolds
  <1>11. Divided(x, v, j, sep, nq)
    <2>1. v.cells = InsertAt(y.cells, i, e)
      BY <1>8
    <2>2. QED
      BY <1>1, <1>5, <1>6, <1>7, <1>9, <1>10, <2>1, PatchDivides
  <1>12. v.cells \in Seq(C)
    BY <1>2
  <1>13. NodeHolds(v, S, n, U, loc2, h2)
    BY <1>1, <1>4, <1>5, <1>6, <1>7, <1>11, <1>12, DividedHolds
  <1>14. v.cells # <<>> /\ Pointer(v, 1) = Pointer(x, 1)
    <2>1. PICK len \in Nat : len = Len(x.cells)
      BY <1>4
    <2>2. j \in 1..(len + 1) /\ 1 \in 1..(len + 2)
      BY <1>6, <2>1 DEF Behind
    <2>3. Len(v.cells) = len + 1 /\ Pointer(v, 1) = IF 1 <= j THEN Pointer(x, 1) ELSE IF 1 = j + 1 THEN nq ELSE Pointer(x, 1 - 1)
      BY <1>11, <2>1, <2>2 DEF Divided
    <2>4. Len(v.cells) # 0 /\ 1 <= j
      BY <2>2, <2>3
    <2>5. QED
      BY <2>3, <2>4
  <1>15. QED
    BY <1>13, <1>14

\* Turning a pointer takes no room.
LEMMA TakenPatched ==
    ASSUME NEW D, NEW x, InternalOK(x, D), NEW q, NEW r \in D, NEW y, y = PatchedPage(x, q, r),
           NEW least, Taken(x, least)
    PROVE  InternalOK(y, D) /\ Taken(y, least)
  <1>1. /\ InternalOK(y, D) /\ y.off = x.off /\ Len(y.cells) = Len(x.cells) /\ y.type = "internal"
    BY PatchedFacts
  <1>2. x.type = "internal"
    BY DEF InternalOK, Sound, PageSet
  <1>3. QED
    BY <1>1, <1>2 DEF Taken

\* patchInternalAfterChildSplit puts the cell for the child.
LEMMA NodePutHolds ==
    ASSUME NEW D, NEW x, NEW y, NEW e, NEW S, NEW n, NEW T, NEW loc, NEW h, NEW q, NEW sep, NEW nq,
           NEW U, NEW loc2, NEW h2, ToPatch(D, x, y, e, S, n, T, loc, h, q, sep, nq, U, loc2, h2),
           S \subseteq Keys, Fits(y, e), NEW least \in Nat, Taken(x, least),
           NEW v, v = InsertCellAt(y, FindInsertPos(y, sep), e)
    PROVE  v.type = "internal" /\ Taken(v, least) /\ NodeHolds(v, S, n, U, loc2, h2) /\ SameFirst(x, v)
  <1>1. /\ InternalOK(x, D) /\ nq \in D /\ y = PatchedPage(x, q, nq)
        /\ e \in InternalCell(D) /\ e.key = sep /\ sep \in S
    BY DEF ToPatch
  <1>2. InternalOK(y, D) /\ Taken(y, least)
    BY <1>1, TakenPatched
  <1>3. WellFormed(y, D) /\ y.type = "internal" /\ y \in PageSet("internal", InternalCell(D), D)
    BY <1>2 DEF WellFormed, InternalOK, Sound, PageSet
  <1>4. y.cells \in Seq(InternalCell(D)) /\ Sorted(y.cells) /\ CellSet(InternalCell(D))
    BY <1>3, PageParts
  <1>5. PICK i : i = FindInsertPos(y, sep)
    OBVIOUS
  <1>6. Behind(y.cells, sep, i)
    <2>1. sep \in Nat
      BY <1>1, TreeAssumption
    <2>2. QED
      BY <1>4, <1>5, <2>1, FindInsertPosFacts
  <1>7. i \in 1..(Len(y.cells) + 1)
    BY <1>6 DEF Behind
  <1>8. v = InsertCellAt(y, i, e)
    BY <1>5
  <1>9. Taken(v, least) /\ v.cells = InsertAt(y.cells, i, e) /\ v.type = y.type /\ v.next = y.next
    BY <1>1, <1>2, <1>3, <1>7, <1>8, TakenInsert
  <1>10. v.cells \in Seq(InternalCell(D)) /\ Sorted(v.cells)
    <2>1. SizedCells(InternalCell(D))
      BY CellSizes
    <2>2. /\ v \in PageSet("internal", InternalCell(D), D) /\ FreeSpace(v) >= 0
          /\ v.cells = InsertAt(y.cells, i, e) /\ v.off = y.off - CellLen(e)
          /\ v.type = y.type /\ v.next = y.next
          /\ Sorted(y.cells) /\ Behind(y.cells, e.key, i) => Sorted(v.cells)
      BY <1>1, <1>3, <1>7, <1>8, <2>1, InsertCellFacts
    <2>3. v.cells \in Seq(InternalCell(D))
      BY <2>2, PageFields
    <2>4. QED
      BY <1>1, <1>4, <1>6, <2>2, <2>3
  <1>11. v.cells = InsertAt(y.cells, FindInsertPos(y, sep), e)
    BY <1>5, <1>9
  <1>12. NodeHolds(v, S, n, U, loc2, h2) /\ v.cells # <<>> /\ Pointer(v, 1) = Pointer(x, 1)
    BY <1>9, <1>10, <1>11, ToPatchHolds
  <1>13. QED
    BY <1>3, <1>9, <1>12 DEF SameFirst

\* The halves l and r of an internal page t that takes the cell e, as splitInternal makes
\* them, and the separator between them.
NodeSplit(t, e, l, r, sep) ==
    LET cells == SortCells(Append(t.cells, e))
        mid   == Len(cells) \div 2
    IN /\ l = [AddCells(ResetPage(t), SubSeq(cells, 1, mid)) EXCEPT !.next = cells[mid + 1].child]
       /\ r = [AddCells(Blank("internal"), SubSeq(cells, mid + 2, Len(cells))) EXCEPT !.next = t.next]
       /\ sep = cells[mid + 1].key
Unparted(t, e) ==
    LET cells == SortCells(Append(t.cells, e))
        mid   == Len(cells) \div 2
    IN cells[mid].key # cells[mid + 1].key

\* How the cells v of a page were divided into l and r: around the cell behind the first m.
Around(v, m, l, r, next, sep) ==
    /\ m >= 1 /\ m < Len(v) /\ sep = v[m + 1].key
    /\ l.cells = SubSeq(v, 1, m) /\ l.next = v[m + 1].child
    /\ r.cells = SubSeq(v, m + 2, Len(v)) /\ r.next = next

\* The cells of the halves.
LEMMA NodeSplitCells ==
    ASSUME NodeFits, NEW D, 0 \in D, NEW t, InternalOK(t, D), NEW least, Taken(t, least),
           NEW e \in InternalCell(D), ~Fits(t, e), NEW l, NEW r, NEW sep, NodeSplit(t, e, l, r, sep)
    PROVE  /\ l.type = "internal" /\ Taken(l, least) /\ r.type = "internal" /\ Taken(r, least)
           /\ \E cells \in Seq(InternalCell(D)), m \in Nat :
                /\ cells = InsertAt(t.cells, FindInsertPos(t, e.key), e) /\ Sorted(cells)
                /\ Around(cells, m, l, r, t.next, sep)
                /\ Unparted(t, e) => cells[m].key # sep
  <1>1. PICK C : C = InternalCell(D)
    OBVIOUS
  <1>2. Sound(t, "internal", C, D) /\ t \in PageSet("internal", C, D)
    BY <1>1 DEF InternalOK, Sound
  <1>3. SizedCells(C) /\ Between(C, InternalLen, InternalLen)
    <2>1. SizedCells(C) /\ \A x \in C : CellLen(x) = InternalLen
      BY <1>1, CellSizes
    <2>2. InternalLen \in Nat
      BY TreeAssumption
    <2>3. QED
      BY <2>1, <2>2 DEF Between
  <1>4. PICK cells : cells = SortCells(Append(t.cells, e))
    OBVIOUS
  <1>5. /\ cells = InsertAt(t.cells, FindInsertPos(t, e.key), e)
        /\ Behind(t.cells, e.key, FindInsertPos(t, e.key))
        /\ cells \in Seq(C) /\ Len(cells) = Len(t.cells) + 1 /\ DOMAIN cells = 1..(Len(t.cells) + 1)
        /\ Sorted(cells) /\ Len(cells) \div 2 \in 0..Len(t.cells)
    BY <1>1, <1>2, <1>3, <1>4, GrownCells
  <1>6. PICK n \in Nat : n = Len(t.cells)
    BY <1>2, PageFields
  <1>7. PICK mid \in Nat : mid = Len(cells) \div 2 /\ mid <= n /\ Len(cells) = n + 1
    <2>1. PICK x : x = Len(cells) \div 2
      OBVIOUS
    <2>2. x \in 0..Len(t.cells) /\ Len(cells) = Len(t.cells) + 1
      BY <1>5, <2>1
    <2>3. x \in Nat /\ x <= n
      BY <1>6, <2>2
    <2>4. QED
      BY <1>6, <2>1, <2>2, <2>3
  <1>8. mid <= n /\ Len(cells) = n + 1
    BY <1>7
  <1>9. RoomFor(mid, InternalLen) /\ RoomFor(n - mid, InternalLen) /\ mid >= 1
    <2>1. mid = (Len(t.cells) + 1) \div 2
      BY <1>6, <1>7
    <2>2. /\ mid * (InternalLen + SlotSize) <= Capacity
          /\ (Len(t.cells) - mid) * (InternalLen + SlotSize) <= Capacity
          /\ mid \in Nat /\ mid >= 1 /\ mid <= Len(t.cells)
      BY <2>1, NodeRoom
    <2>3. QED
      BY <1>6, <2>2 DEF RoomFor
  <1>10. PICK k \in Nat : k = mid + 1 /\ k <= Len(cells) /\ k + 1 = mid + 2
    BY <1>8
  <1>11. PICK c, d : c = LeftOf(cells, mid) /\ d = RightOf(cells, k)
    OBVIOUS
  <1>12. /\ c \in Seq(C) /\ Len(c) = mid /\ Sorted(c)
         /\ d \in Seq(C) /\ Len(d) = Len(cells) - k /\ Sorted(d)
    <2>1. mid <= Len(cells) /\ k <= Len(cells)
      BY <1>8, <1>10
    <2>2. cells \in Seq(C) /\ Sorted(cells)
      BY <1>5
    <2>3. QED
      BY <1>11, <2>1, <2>2, Pieces
  <1>13. Len(d) = n - mid
    BY <1>8, <1>10, <1>12
  <1>14. c = SubSeq(cells, 1, mid) /\ d = SubSeq(cells, mid + 2, Len(cells))
    BY <1>10, <1>11 DEF LeftOf, RightOf
  <1>15. PICK n1, n2 : n1 = cells[mid + 1].child /\ n2 = t.next
    OBVIOUS
  <1>16. /\ l = WithNext(AddCells(ResetPage(t), c), n1)
         /\ r = WithNext(AddCells(Blank("internal"), d), n2)
         /\ sep = cells[mid + 1].key
    BY <1>4, <1>7, <1>14, <1>15 DEF NodeSplit, WithNext
  <1>17. InternalLen \in Nat
    BY TreeAssumption
  <1>18. l.cells = c /\ l.type = "internal" /\ l.next = n1 /\ Filled(l, InternalLen, InternalLen)
    <2>1. PICK p, a : p = ResetPage(t) /\ a = AddCells(p, c)
      OBVIOUS
    <2>2. Sound(p, "internal", C, D) /\ Empty(p)
      <3>1. \A u \in PageSet("internal", C, D) :
              /\ Sound(ResetPage(u), "internal", C, D) /\ ResetPage(u).cells = <<>>
              /\ ResetPage(u).off = Capacity /\ ResetPage(u).type = "internal" /\ ResetPage(u).next = u.next
        BY EmptyPages
      <3>2. QED
        BY <1>2, <2>1, <3>1 DEF Empty
    <2>3. RoomFor(Len(c), InternalLen)
      BY <1>9, <1>12
    <2>4. l = WithNext(a, n1) /\ c \in Seq(C) /\ Sorted(c)
      BY <1>12, <1>16, <2>1
    <2>5. QED
      BY <1>3, <1>17, <2>1, <2>2, <2>3, <2>4, Refilled
  <1>19. r.cells = d /\ r.type = "internal" /\ r.next = n2 /\ Filled(r, InternalLen, InternalLen)
    <2>1. PICK p, a : p = Blank("internal") /\ a = AddCells(p, d)
      OBVIOUS
    <2>2. Sound(p, "internal", C, D) /\ Empty(p)
      <3>1. 0 \in D => Sound(Blank("internal"), "internal", C, D)
        BY EmptyPages
      <3>2. Blank("internal").cells = <<>> /\ Blank("internal").off = Capacity
        BY DEF Blank
      <3>3. QED
        BY <2>1, <3>1, <3>2 DEF Empty
    <2>3. RoomFor(Len(d), InternalLen)
      BY <1>9, <1>13
    <2>4. r = WithNext(a, n2) /\ d \in Seq(C) /\ Sorted(d)
      BY <1>12, <1>16, <2>1
    <2>5. QED
      BY <1>3, <1>17, <2>1, <2>2, <2>3, <2>4, Refilled
  <1>20. Taken(l, least) /\ Taken(r, least)
    <2>1. ASSUME NEW p, p.type = "internal", Filled(p, InternalLen, InternalLen), Len(p.cells) \in Nat
          PROVE  Taken(p, least)
      <3>1. PICK off, x \in Nat : off = p.off /\ x = InternalLen * Len(p.cells)
        BY <1>17, <2>1 DEF Filled
      <3>2. off + x <= Capacity /\ Capacity <= off + x /\ Capacity \in Nat
        BY <2>1, <3>1, TreeAssumption DEF Filled
      <3>3. off + x = Capacity
        BY <3>2
      <3>4. QED
        BY <2>1, <3>1, <3>3 DEF Taken
    <2>2. Len(l.cells) \in Nat /\ Len(r.cells) \in Nat
      BY <1>12, <1>18, <1>19
    <2>3. QED
      BY <1>18, <1>19, <2>1, <2>2
  <1>21. Around(cells, mid, l, r, t.next, sep)
    <2>1. mid < Len(cells)
      BY <1>8
    <2>2. QED
      BY <1>9, <1>14, <1>15, <1>16, <1>18, <1>19, <2>1 DEF Around
  <1>22. Unparted(t, e) => cells[mid].key # sep
    BY <1>4, <1>7, <1>16 DEF Unparted
  <1>23. cells \in Seq(InternalCell(D)) /\ cells = InsertAt(t.cells, FindInsertPos(t, e.key), e) /\ Sorted(cells)
    BY <1>1, <1>5
  <1>24. QED
    BY <1>18, <1>19, <1>20, <1>21, <1>22, <1>23

\* splitInternal divides the children at the separator that moves up.
LEMMA NodeSplitHolds ==
    ASSUME NodeFits, NEW D, 0 \in D,
           NEW x, NEW y, NEW e, NEW S, NEW n, NEW T, NEW loc, NEW h, NEW q, NEW sep, NEW nq,
           NEW U, NEW loc2, NEW h2, ToPatch(D, x, y, e, S, n, T, loc, h, q, sep, nq, U, loc2, h2),
           S \subseteq Keys, ~Fits(y, e), NEW least, Taken(x, least),
           NEW l, NEW r, NEW sep2, NodeSplit(y, e, l, r, sep2), Unparted(y, e)
    PROVE  /\ l.type = "internal" /\ Taken(l, least) /\ NodeHolds(l, Below(S, sep2), n, U, loc2, h2)
           /\ r.type = "internal" /\ Taken(r, least) /\ NodeHolds(r, Above(S, sep2), n, U, loc2, h2)
           /\ sep2 \in S /\ SameFirst(x, l)
  <1>1. /\ InternalOK(x, D) /\ nq \in D /\ y = PatchedPage(x, q, nq)
        /\ e \in InternalCell(D) /\ e.key = sep
    BY DEF ToPatch
  <1>2. InternalOK(y, D) /\ Taken(y, least)
    BY <1>1, TakenPatched
  <1>3. /\ l.type = "internal" /\ Taken(l, least) /\ r.type = "internal" /\ Taken(r, least)
        /\ \E cells \in Seq(InternalCell(D)), m \in Nat :
             /\ cells = InsertAt(y.cells, FindInsertPos(y, e.key), e) /\ Sorted(cells)
             /\ Around(cells, m, l, r, y.next, sep2)
             /\ Unparted(y, e) => cells[m].key # sep2
    BY <1>1, <1>2, NodeSplitCells
  <1>4. PICK cells \in Seq(InternalCell(D)), m \in Nat :
             /\ cells = InsertAt(y.cells, FindInsertPos(y, e.key), e) /\ Sorted(cells)
             /\ Around(cells, m, l, r, y.next, sep2)
             /\ Unparted(y, e) => cells[m].key # sep2
    BY <1>3
  <1>5. PICK v : v = [cells |-> cells, next |-> y.next]
    OBVIOUS
  <1>6. v.cells = cells /\ v.next = y.next
    BY <1>5
  <1>7. NodeHolds(v, S, n, U, loc2, h2) /\ Pointer(v, 1) = Pointer(x, 1)
    <2>1. v.cells = InsertAt(y.cells, FindInsertPos(y, sep), e) /\ v.cells \in Seq(InternalCell(D)) /\ Sorted(v.cells)
      BY <1>1, <1>4, <1>6
    <2>2. QED
      BY <1>6, <2>1, ToPatchHolds
  <1>8. CellSet(InternalCell(D))
    BY CellSizes DEF SizedCells, CellSet
  <1>9. v.cells \in Seq(InternalCell(D)) /\ Sorted(v.cells) /\ m \in Nat /\ v.cells[m].key # sep2
    BY <1>4, <1>6
  <1>10. Cut(v, m, sep2, l, r)
    BY <1>4, <1>6, <1>9 DEF Around, Cut
  <1>11. /\ NodeHolds(l, Below(S, sep2), n, U, loc2, h2) /\ NodeHolds(r, Above(S, sep2), n, U, loc2, h2)
         /\ sep2 \in S
    <2>1. PICK C : C = InternalCell(D)
      OBVIOUS
    <2>2. CellSet(C) /\ v.cells \in Seq(C) /\ Sorted(v.cells) /\ m \in Nat
      BY <1>8, <1>9, <2>1
    <2>3. QED
      BY <1>7, <1>10, <2>2, NodeParts
  <1>12. SameFirst(x, l)
    <2>1. PICK len \in Nat : len = Len(cells) /\ m >= 1 /\ m < len /\ l.cells = SubSeq(cells, 1, m)
      <3>1. PICK len \in Nat : len = Len(cells)
        OBVIOUS
      <3>2. m >= 1 /\ m < Len(cells) /\ l.cells = SubSeq(cells, 1, m)
        <4>1. Around(cells, m, l, r, y.next, sep2)
          BY <1>4
        <4>2. QED
          BY <4>1 DEF Around
      <3>3. QED
        BY <3>1, <3>2
    <2>2. Len(l.cells) = m /\ l.cells[1] = cells[1]
      BY <1>4, <2>1
    <2>3. Pointer(l, 1) = cells[1].child
      BY <2>1, <2>2 DEF Pointer
    <2>4. Pointer(v, 1) = cells[1].child
      BY <1>6, <2>1 DEF Pointer
    <2>5. l.cells # <<>>
      BY <2>1, <2>2
    <2>6. QED
      BY <1>3, <1>7, <2>3, <2>4, <2>5 DEF SameFirst
  <1>13. QED
    BY <1>3, <1>11, <1>12

\* The page above a root that was split has one cell.
LEMMA RootRoom ==
    ASSUME NodeFits, NEW D, 0 \in D, NEW e \in InternalCell(D), NEW r,
           NEW v, v = WithNext(AddCells(Blank("internal"), <<e>>), r), NEW least
    PROVE  v.cells = <<e>> /\ v.type = "internal" /\ v.next = r /\ Taken(v, least)
  <1>1. PICK C : C = InternalCell(D)
    OBVIOUS
  <1>2. SizedCells(C) /\ Between(C, InternalLen, InternalLen) /\ InternalLen \in Nat /\ CellSet(C)
    <2>1. SizedCells(C) /\ \A x \in C : CellLen(x) = InternalLen
      BY <1>1, CellSizes
    <2>2. InternalLen \in Nat
      BY TreeAssumption
    <2>3. QED
      BY <2>1, <2>2 DEF Between, SizedCells, CellSet
  <1>3. PICK s : s = <<e>>
    OBVIOUS
  <1>4. s \in Seq(C) /\ Len(s) = 1 /\ s[1] = e /\ DOMAIN s = 1..1
    BY <1>1, <1>3
  <1>5. Sorted(s) /\ s \in Seq(C)
    BY <1>4 DEF Sorted
  <1>6. v.cells = s /\ v.type = "internal" /\ v.next = r /\ Filled(v, InternalLen, InternalLen)
    <2>1. PICK p, a : p = Blank("internal") /\ a = AddCells(p, s)
      OBVIOUS
    <2>2. Sound(p, "internal", C, D) /\ Empty(p)
      <3>1. 0 \in D => Sound(Blank("internal"), "internal", C, D)
        BY EmptyPages
      <3>2. Blank("internal").cells = <<>> /\ Blank("internal").off = Capacity
        BY DEF Blank
      <3>3. QED
        BY <2>1, <3>1, <3>2 DEF Empty
    <2>3. RoomFor(Len(s), InternalLen)
      BY <1>2, <1>4, TreeAssumption DEF RoomFor, NodeFits
    <2>4. v = WithNext(a, r)
      BY <1>3, <2>1
    <2>5. QED
      BY <1>2, <1>5, <2>1, <2>2, <2>3, <2>4, Refilled
  <1>7. Taken(v, least)
    <2>1. PICK off, x \in Nat : off = v.off /\ x = InternalLen * Len(v.cells)
      <3>1. InternalLen * Len(s) \in Nat
        BY <1>2, <1>5
      <3>2. QED
        BY <1>6, <3>1 DEF Filled
    <2>2. off + x <= Capacity /\ Capacity <= off + x /\ Capacity \in Nat
      BY <1>6, <2>1, TreeAssumption DEF Filled
    <2>3. off + x = Capacity
      BY <2>2
    <2>4. QED
      BY <1>6, <2>1, <2>3 DEF Taken
  <1>8. QED
    BY <1>3, <1>6, <1>7

\* The first page above a root that was split.
LEMMA RootHolds ==
    ASSUME NodeFits, NEW D, 0 \in D, NEW e \in InternalCell(D), NEW sep, e.key = sep, NEW q, e.child = q,
           NEW r \in D, q # r, NEW v, v = WithNext(AddCells(Blank("internal"), <<e>>), r),
           NEW n, NEW T, q \in T, r \in T, NEW loc, loc[q] = Below(Keys, sep), loc[r] = Above(Keys, sep),
           NEW h, h[q] + 1 = n, h[r] + 1 = n, NEW least
    PROVE  v.type = "internal" /\ Taken(v, least) /\ NodeHolds(v, Keys, n, T, loc, h)
  <1>1. PICK C : C = InternalCell(D)
    OBVIOUS
  <1>2. CellSet(C)
    BY <1>1, CellSizes DEF SizedCells, CellSet
  <1>3. PICK s : s = <<e>>
    OBVIOUS
  <1>4. s \in Seq(C) /\ Len(s) = 1 /\ s[1] = e /\ DOMAIN s = 1..1
    BY <1>1, <1>3
  <1>5. Sorted(s) /\ s \in Seq(C)
    BY <1>4 DEF Sorted
  <1>7. v.cells = <<e>> /\ v.type = "internal" /\ v.next = r /\ Taken(v, least)
    BY RootRoom
  <1>6. v.cells = s /\ v.type = "internal" /\ v.next = r
    BY <1>3, <1>7
  <1>15. PICK n1 : n1 = Len(s) /\ n1 = 1
    BY <1>4
  <1>16. Len(v.cells) = n1
    <2>1. v.cells = s
      BY <1>6
    <2>2. Len(s) = n1
      BY <1>15
    <2>3. QED
      BY <2>1, <2>2
  <1>17. n1 = 1 /\ n1 + 1 = 2
    BY <1>15
  <1>8. Pointer(v, 1) = q /\ Pointer(v, 2) = r
    <2>1. v.cells[1].child = q /\ v.next = r
      BY <1>4, <1>6
    <2>2. \A a : Pointer(v, a) = IF a = n1 + 1 THEN v.next ELSE v.cells[a].child
      BY <1>16 DEF Pointer
    <2>3. Pointer(v, 1) = v.cells[1].child
      BY <1>17, <2>2
    <2>4. Pointer(v, 2) = v.next
      BY <1>17, <2>2
    <2>5. QED
      BY <2>1, <2>3, <2>4
  <1>9. sep \in Nat /\ sep \in Keys
    BY TreeAssumption DEF InternalCell
  <1>10. ASSUME NEW k \in Keys
         PROVE  (Behind(s, k, 1) <=> k < sep) /\ (Behind(s, k, 2) <=> k >= sep)
    <2>1. k \in Nat
      BY TreeAssumption
    <2>2. QED
      BY <1>4, <1>9, <2>1 DEF Behind
  <1>11. NodeAt(v, Keys, n, T, loc, h)
    <2>1. \A a \in 1..2 : a = 1 \/ a = 2
      OBVIOUS
    <2>2. n1 + 1 = 2 /\ n1 = 1 /\ n1 = Len(v.cells)
      BY <1>16, <1>17
    <2>3. Distinct(v)
      <3>1. \A a, b \in 1..2 : Pointer(v, a) = Pointer(v, b) => a = b
        BY <1>8, <2>1
      <3>2. \A a, b \in 1..(n1 + 1) : Pointer(v, a) = Pointer(v, b) => a = b
        BY <1>17, <3>1
      <3>3. QED
        BY <1>16, <3>2 DEF Distinct
    <2>4. \A i \in 1..1 : v.cells[i].key \in Keys
      BY <1>4, <1>6, <1>9
    <2>5. ASSUME NEW a \in 1..2
          PROVE  /\ Pointer(v, a) \in T /\ h[Pointer(v, a)] + 1 = n
                 /\ \A k \in Keys : k \in loc[Pointer(v, a)] <=> k \in Keys /\ Behind(v.cells, k, a)
      <3>1. CASE a = 1
        BY <1>6, <1>8, <1>10, <3>1 DEF Below
      <3>2. CASE a = 2
        BY <1>6, <1>8, <1>10, <3>2 DEF Above
      <3>3. QED
        BY <2>1, <3>1, <3>2
    <2>6. QED
      BY <2>2, <2>3, <2>4, <2>5 DEF NodeAt
  <1>12. v.cells \in Seq(C) /\ Sorted(v.cells)
    BY <1>4, <1>5, <1>6
  <1>13. NodeHolds(v, Keys, n, T, loc, h)
    BY <1>2, <1>11, <1>12, NodeByPosition
  <1>14. QED
    BY <1>6, <1>7, <1>13

\* Its first pointer.
LEMMA RootFirst ==
    ASSUME NEW e, NEW v, v.cells = <<e>>
    PROVE  v.cells # <<>> /\ Pointer(v, 1) = e.child
  <1>1. PICK s : s = <<e>>
    OBVIOUS
  <1>2. Len(s) = 1 /\ s[1] = e /\ s # <<>>
    BY <1>1
  <1>3. v.cells = s /\ Len(s) + 1 # 1
    BY <1>1, <1>2
  <1>4. QED
    BY <1>2, <1>3 DEF Pointer

-----------------------------------------------------------------------------
(* The chain of the leaves, and the first pointers.                        *)

\* The chain is of leaves only: other pages may change, and pages be added.
LEMMA ChainMoved ==
    ASSUME NEW img, NEW T, NEW loc, Chained(img, T, loc), NEW img2, NEW U, T \subseteq U, NEW loc2,
           \A p \in T : img[p].type = "leaf" =>
               img2[p].type = "leaf" /\ img2[p].next = img[p].next /\ loc2[p] = loc[p]
    PROVE  Chained(img2, U, loc2)
  <1>0. PICK N \in Nat \ {0} : \E L \in [1..N -> T] : Links(img, loc, N, L)
    BY DEF Chained
  <1>1. PICK L \in [1..N -> T] : Links(img, loc, N, L)
    BY <1>0
  <1>2. \A i \in 1..N : /\ L[i] \in T /\ img[L[i]].type = "leaf" /\ img2[L[i]].type = "leaf"
                        /\ img2[L[i]].next = img[L[i]].next /\ loc2[L[i]] = loc[L[i]]
    BY <1>1 DEF Links
  <1>3. L \in [1..N -> U]
    OBVIOUS
  <1>4. Links(img2, loc2, N, L)
    BY <1>1, <1>2 DEF Links
  <1>5. QED
    BY <1>3, <1>4 DEF Chained

\* The first pointers stay, if each page does or keeps its own.
LEMMA SpineMoved ==
    ASSUME NEW img, NEW r, NEW T, LeftSpine(img, r, T), NEW img2, NEW U, T \subseteq U,
           \A p \in T : \/ img2[p] = img[p]
                        \/ img[p].type = "leaf" /\ img2[p].type = "leaf"
                        \/ img[p].type = "internal" /\ SameFirst(img[p], img2[p])
    PROVE  LeftSpine(img2, r, U)
  <1>1. PICK Z \in SUBSET T :
          /\ r \in Z
          /\ \A p \in Z : /\ img[p].type = "leaf" => p = 0
                          /\ img[p].type = "internal" =>
                               Pointer(img[p], 1) \in Z /\ (img[p].cells = <<>> => img[p].next = 0)
    BY DEF LeftSpine
  <1>2. ASSUME NEW p \in Z
        PROVE  /\ img2[p].type = "leaf" => p = 0
               /\ img2[p].type = "internal" =>
                    Pointer(img2[p], 1) \in Z /\ (img2[p].cells = <<>> => img2[p].next = 0)
    <2>1. CASE img2[p] = img[p]
      BY <1>1, <2>1
    <2>2. CASE img[p].type = "leaf" /\ img2[p].type = "leaf"
      BY <1>1, <2>2
    <2>3. CASE img[p].type = "internal" /\ SameFirst(img[p], img2[p])
      BY <1>1, <2>3 DEF SameFirst
    <2>4. QED
      BY <2>1, <2>2, <2>3
  <1>3. Z \in SUBSET U
    OBVIOUS
  <1>4. QED
    BY <1>1, <1>2, <1>3 DEF LeftSpine

\* A new root above the old one begins the way to the first leaf.
LEMMA SpineCrowned ==
    ASSUME NEW img, NEW r, NEW T, LeftSpine(img, r, T), NEW nn, nn \notin T,
           NEW img2, \A p \in T : img2[p] = img[p], NEW V, T \subseteq V, nn \in V,
           img2[nn].type = "internal", Pointer(img2[nn], 1) = r,
           img2[nn].cells = <<>> => img2[nn].next = 0
    PROVE  LeftSpine(img2, nn, V)
  <1>1. PICK Z \in SUBSET T :
          /\ r \in Z
          /\ \A p \in Z : /\ img[p].type = "leaf" => p = 0
                          /\ img[p].type = "internal" =>
                               Pointer(img[p], 1) \in Z /\ (img[p].cells = <<>> => img[p].next = 0)
    BY DEF LeftSpine
  <1>2. PICK Y \in SUBSET V : Y = Z \cup {nn}
    OBVIOUS
  <1>3. ASSUME NEW p \in Y
        PROVE  /\ img2[p].type = "leaf" => p = 0
               /\ img2[p].type = "internal" =>
                    Pointer(img2[p], 1) \in Y /\ (img2[p].cells = <<>> => img2[p].next = 0)
    <2>1. CASE p \in Z
      BY <1>1, <1>2, <2>1
    <2>2. CASE p = nn
      BY <1>1, <1>2, <2>2
    <2>3. QED
      BY <1>2, <2>1, <2>2
  <1>4. QED
    BY <1>2, <1>3 DEF LeftSpine

\* The new leaf of a split follows the old one.
LEMMA ChainParted ==
    ASSUME NEW img, NEW T, NEW loc, Chained(img, T, loc),
           NEW q \in T, NEW k \in loc[q], \A p \in T : loc[p] \subseteq Keys,
           \A p \in T : img[p].type = "leaf" /\ p # q => k \notin loc[p],
           NEW sep, NEW nq, NEW h, NEW U, NEW loc2, NEW h2, Shared(T, loc, h, q, sep, nq, U, loc2, h2),
           sep \in Keys, NEW img2, \A p \in T : p # q => img2[p] = img[p],
           img2[q].type = "leaf", img2[q].next = nq, img2[nq].type = "leaf", img2[nq].next = img[q].next
    PROVE  Chained(img2, U, loc2)
  <1>0. PICK N \in Nat \ {0} : \E L \in [1..N -> T] : Links(img, loc, N, L)
    BY DEF Chained
  <1>1. PICK L \in [1..N -> T] : Links(img, loc, N, L)
    BY <1>0
  <1>2. PICK m \in 1..N : k \in loc[L[m]]
    BY <1>1 DEF Links
  <1>3. L[m] = q
    BY <1>1, <1>2 DEF Links
  <1>4. /\ U = T \cup {nq} /\ nq \notin T
        /\ loc2[q] = Below(loc[q], sep) /\ loc2[nq] = Above(loc[q], sep)
        /\ \A p \in T : p # q => loc2[p] = loc[p]
    BY DEF Shared
  <1>5. Keys \subseteq Nat
    BY TreeAssumption
  <1> DEFINE Old(i) == IF i <= m THEN i ELSE i - 1
             G == [i \in 1..(N + 1) |-> IF i = m + 1 THEN nq ELSE L[Old(i)]]
  <1>6. ASSUME NEW i \in 1..(N + 1), i # m + 1
        PROVE  Old(i) \in 1..N /\ G[i] = L[Old(i)] /\ G[i] \in T /\ (Old(i) = m <=> i = m)
    <2>1. Old(i) \in 1..N /\ (Old(i) = m <=> i = m)
      BY <1>6
    <2>2. G[i] = L[Old(i)]
      BY <1>6
    <2>3. QED
      BY <2>1, <2>2
  <1>7. m + 1 \in 1..(N + 1) /\ m \in 1..(N + 1) /\ G[m + 1] = nq /\ G[m] = q
    BY <1>3
  <1>8. G \in [1..(N + 1) -> U]
    BY <1>4, <1>6
  <1>9. G[1] = 0
    BY <1>1, <1>6, <1>7 DEF Links
  <1>10. ASSUME NEW i \in 1..(N + 1)
         PROVE  img2[G[i]].type = "leaf" /\ img2[G[i]].next = IF i = N + 1 THEN NoPage ELSE G[i + 1]
    <2>1. CASE i = m
      BY <1>7, <2>1
    <2>2. CASE i = m + 1
      <3>1. img2[G[i]].type = "leaf" /\ img2[G[i]].next = IF m = N THEN NoPage ELSE L[m + 1]
        BY <1>1, <1>3, <1>7, <2>2 DEF Links
      <3>2. m # N => i + 1 \in 1..(N + 1) /\ i + 1 # m + 1 /\ Old(i + 1) = m + 1
        BY <2>2
      <3>3. m # N => G[i + 1] = L[m + 1]
        BY <1>6, <3>2
      <3>4. QED
        BY <2>2, <3>1, <3>3
    <2>3. CASE i # m /\ i # m + 1
      <3>1. PICK a \in 1..N : a = Old(i) /\ G[i] = L[a] /\ a # m
        BY <1>6, <2>3
      <3>2. L[a] # q
        <4>1. a < m \/ m < a
          BY <3>1
        <4>2. QED
          BY <1>1, <1>3, <4>1 DEF Links
      <3>3. img2[G[i]] = img[L[a]]
        BY <1>6, <2>3, <3>1, <3>2
      <3>4. img[L[a]].type = "leaf" /\ img[L[a]].next = IF a = N THEN NoPage ELSE L[a + 1]
        BY <1>1 DEF Links
      <3>5. (a = N) <=> (i = N + 1)
        BY <2>3, <3>1
      <3>6. i # N + 1 => i + 1 \in 1..(N + 1) /\ i + 1 # m + 1 /\ Old(i + 1) = a + 1
        BY <2>3, <3>1
      <3>7. i # N + 1 => G[i + 1] = L[a + 1]
        BY <1>6, <3>6
      <3>8. QED
        BY <3>3, <3>4, <3>5, <3>7
    <2>4. QED
      BY <2>1, <2>2, <2>3
  <1>11. ASSUME NEW i \in 1..(N + 1), NEW j \in 1..(N + 1), i < j
         PROVE  G[i] # G[j] /\ \A x \in loc2[G[i]], y \in loc2[G[j]] : x < y
    <2>1. \A a, b \in 1..N : a < b => L[a] # L[b] /\ \A x \in loc[L[a]], y \in loc[L[b]] : x < y
      BY <1>1 DEF Links
    <2>2. loc2[q] \subseteq loc[q] /\ loc2[nq] \subseteq loc[q] /\ \A p \in T : loc2[p] \subseteq loc[p]
      BY <1>4 DEF Below, Above
    <2>3. CASE i = m /\ j = m + 1
      <3>1. \A x \in loc2[q] : x \in Nat /\ x < sep
        BY <1>4, <1>5 DEF Below
      <3>2. \A x \in loc2[nq] : x \in Nat /\ x >= sep
        BY <1>4, <1>5 DEF Above
      <3>3. sep \in Nat
        BY <1>5
      <3>4. QED
        BY <1>4, <1>7, <2>3, <3>1, <3>2, <3>3
    <2>4. CASE i # m + 1 /\ j # m + 1
      <3>1. Old(i) < Old(j) /\ Old(i) \in 1..N /\ Old(j) \in 1..N
        BY <1>6, <1>11, <2>4
      <3>2. G[i] = L[Old(i)] /\ G[j] = L[Old(j)] /\ G[i] \in T /\ G[j] \in T
        BY <1>6, <2>4
      <3>3. QED
        BY <2>1, <2>2, <3>1, <3>2
    <2>5. CASE i = m + 1
      <3>1. j # m + 1 /\ m < Old(j) /\ Old(j) \in 1..N
        BY <1>6, <1>11, <2>5
      <3>2. G[j] = L[Old(j)] /\ G[j] \in T /\ G[i] = nq
        BY <1>6, <1>7, <2>5, <3>1
      <3>3. \A x \in loc[q], y \in loc[L[Old(j)]] : x < y
        BY <1>3, <2>1, <3>1
      <3>4. QED
        BY <1>4, <2>2, <3>2, <3>3
    <2>6. CASE j = m + 1 /\ i # m
      <3>1. i # m + 1 /\ Old(i) < m /\ Old(i) \in 1..N
        BY <1>6, <1>11, <2>6
      <3>2. G[i] = L[Old(i)] /\ G[i] \in T /\ G[j] = nq
        BY <1>6, <1>7, <2>6, <3>1
      <3>3. \A x \in loc[L[Old(i)]], y \in loc[q] : x < y
        BY <1>3, <2>1, <3>1
      <3>4. QED
        BY <1>4, <2>2, <3>2, <3>3
    <2>7. QED
      BY <2>3, <2>4, <2>5, <2>6
  <1>12. ASSUME NEW x \in Keys PROVE \E i \in 1..(N + 1) : x \in loc2[G[i]]
    <2>1. PICK a \in 1..N : x \in loc[L[a]]
      BY <1>1 DEF Links
    <2>2. CASE L[a] = q
      <3>0. x < sep \/ x >= sep
        BY <1>5
      <3>1. x \in loc2[q] \/ x \in loc2[nq]
        BY <1>4, <2>1, <2>2, <3>0 DEF Below, Above
      <3>2. QED
        BY <1>7, <3>1
    <2>3. CASE L[a] # q
      <3>1. PICK i \in 1..(N + 1) : i # m + 1 /\ Old(i) = a
        <4>1. CASE a <= m
          <5>1. a \in 1..(N + 1) /\ a # m + 1 /\ Old(a) = a
            BY <4>1
          <5>2. QED
            BY <5>1
        <4>2. CASE a > m
          <5>1. a + 1 \in 1..(N + 1) /\ a + 1 # m + 1 /\ Old(a + 1) = a
            BY <4>2
          <5>2. QED
            BY <5>1
        <4>3. QED
          BY <4>1, <4>2
      <3>2. G[i] = L[a] /\ L[a] \in T
        BY <1>6, <3>1
      <3>3. QED
        BY <1>4, <2>1, <2>3, <3>2
    <2>4. QED
      BY <2>2, <2>3
  <1> HIDE DEF G, Old
  <1>13. Links(img2, loc2, N + 1, G)
    BY <1>9, <1>10, <1>11, <1>12 DEF Links
  <1>14. N + 1 \in Nat \ {0}
    OBVIOUS
  <1>15. QED
    BY <1>8, <1>13, <1>14 DEF Chained

-----------------------------------------------------------------------------
(* Steps of an operation on a tree.                                        *)

\* The leaf of an operation.
LEMMA LeafOfWay ==
    ASSUME NEW img, NEW r, NEW T, NEW loc, NEW h, NEW f, Tree(img, r, T, loc, h, f),
           NEW w, Way(img, r, T, loc, h, w), img[w.page].type = "leaf"
    PROVE  /\ w.page \in T /\ w.key \in loc[w.page] /\ h[w.page] = 0 /\ loc[w.page] \subseteq Keys
           /\ LeafHolds(img[w.page], loc[w.page], f)
  BY DEF Way, Tree, Frame, Holds

\* The keys of one page change: the others hold what they held.
LEMMA OthersHold ==
    ASSUME NEW img, NEW r, NEW T, NEW loc, NEW h, NEW f, Tree(img, r, T, loc, h, f),
           NEW q \in T, h[q] = 0, NEW k \in loc[q], NEW g, \A x \in Keys : x # k => g[x] = f[x],
           NEW p \in T, p # q
    PROVE  Holds(img[p], loc[p], h[p], T, loc, h, g)
  <1>1. Holds(img[p], loc[p], h[p], T, loc, h, f) /\ loc[p] \subseteq Keys
    BY DEF Tree, Frame
  <1>2. CASE img[p].type = "leaf"
    <2>1. h[p] = 0 /\ LeafHolds(img[p], loc[p], f)
      BY <1>1, <1>2 DEF Holds
    <2>2. loc[p] \cap loc[q] = {}
      BY <2>1 DEF Tree, Frame
    <2>3. \A x \in loc[p] : g[x] = f[x]
      BY <1>1, <2>2
    <2>4. PICK x, S : x = img[p] /\ S = loc[p]
      OBVIOUS
    <2>5. LeafHolds(x, S, g)
      BY <2>1, <2>3, <2>4, LeafUnmoved
    <2>6. QED
      BY <1>2, <2>1, <2>4, <2>5 DEF Holds
  <1>3. CASE img[p].type # "leaf"
    BY <1>1, <1>3 DEF Holds
  <1>4. QED
    BY <1>2, <1>3

\* A row is put into or taken from its leaf.
LEMMA LeafWritten ==
    ASSUME NEW img, NEW r, NEW T, NEW loc, NEW h, NEW f, Tree(img, r, T, loc, h, f),
           NEW q \in T, h[q] = 0, NEW k \in loc[q], NEW g, \A x \in Keys : x # k => g[x] = f[x],
           NEW img2, DOMAIN img2 = DOMAIN img, \A p \in DOMAIN img : p # q => img2[p] = img[p],
           img2[q].type = "leaf", img2[q].next = img[q].next, LeafHolds(img2[q], loc[q], g)
    PROVE  Tree(img2, r, T, loc, h, g)
  <1>1. Frame(DOMAIN img2, r, T, loc, h) /\ T \subseteq DOMAIN img
    BY DEF Tree, Frame
  <1>2. ASSUME NEW p \in T PROVE Holds(img2[p], loc[p], h[p], T, loc, h, g)
    <2>1. CASE p = q
      BY <2>1 DEF Holds
    <2>2. CASE p # q
      <3>1. Holds(img[p], loc[p], h[p], T, loc, h, g)
        BY <2>2, OthersHold
      <3>2. img2[p] = img[p]
        BY <1>1, <2>2
      <3>3. QED
        BY <3>1, <3>2
    <2>3. QED
      BY <2>1, <2>2
  <1>3. img[q].type = "leaf" /\ \A p \in T : p # q => img2[p] = img[p]
    BY <1>1 DEF Tree, Holds
  <1>4. Chained(img2, T, loc) /\ LeftSpine(img2, r, T)
    <2>1. Chained(img, T, loc) /\ LeftSpine(img, r, T)
      BY DEF Tree
    <2>2. Chained(img2, T, loc)
      BY <1>3, <2>1, ChainMoved
    <2>3. LeftSpine(img2, r, T)
      BY <1>3, <2>1, SpineMoved
    <2>4. QED
      BY <2>2, <2>3
  <1>5. QED
    BY <1>1, <1>2, <1>4 DEF Tree

\* Pages that changed except for one; rows that changed except for one.
SameBut(img, img2, par) == \A p \in DOMAIN img : p # par => img2[p] = img[p]
RowsBut(f, g, k) == \A x \in Keys : x # k => g[x] = f[x]

\* A leaf is split for a row it has no room for.
LEMMA LeafParted ==
    ASSUME NEW img, NEW r, NEW T, NEW loc, NEW h, NEW f, Tree(img, r, T, loc, h, f),
           NEW q \in T, h[q] = 0, NEW k \in loc[q], NEW g, RowsBut(f, g, k),
           NEW nq, nq \notin DOMAIN img, NEW img2, DOMAIN img2 = DOMAIN img \cup {nq},
           SameBut(img, img2, q), NEW sep \in loc[q],
           img2[q].type = "leaf", LeafHolds(img2[q], Below(loc[q], sep), g),
           img2[nq].type = "leaf", LeafHolds(img2[nq], Above(loc[q], sep), g),
           img2[q].next = nq, img2[nq].next = img[q].next
    PROVE  Split(img2, r, T, loc, h, g, q, sep, nq)
  <1> /\ \A x \in Keys : x # k => g[x] = f[x]
      /\ \A p \in DOMAIN img : p # q => img2[p] = img[p]
    BY DEF RowsBut, SameBut
  <1>1. Frame(DOMAIN img2, r, T, loc, h) /\ T \subseteq DOMAIN img
    BY DEF Tree, Frame
  <1>2. ASSUME NEW p \in T, p # q PROVE Holds(img2[p], loc[p], h[p], T, loc, h, g)
    <2>1. Holds(img[p], loc[p], h[p], T, loc, h, g)
      BY <1>2, OthersHold
    <2>2. img2[p] = img[p]
      BY <1>1, <1>2
    <2>3. QED
      BY <2>1, <2>2
  <1>3. /\ Holds(img2[q], Below(loc[q], sep), h[q], T, loc, h, g)
        /\ Holds(img2[nq], Above(loc[q], sep), h[q], T, loc, h, g)
    BY DEF Holds
  <1>4. nq \in DOMAIN img2 /\ nq \notin T
    BY <1>1
  <1>5. /\ img[q].type = "leaf" /\ \A p \in T : p # q => img2[p] = img[p]
        /\ \A p \in T : loc[p] \subseteq Keys
        /\ \A p \in T : img[p].type = "leaf" /\ p # q => h[p] = 0 /\ loc[p] \cap loc[q] = {}
    BY <1>1 DEF Tree, Frame, Holds
  <1>6. Chained(img, T, loc) /\ LeftSpine(img, r, T)
    BY DEF Tree
  <1>7. ChainedApart(img2, T, loc, h, q, sep, nq)
    <2>1. ASSUME NEW U, NEW loc2, NEW h2, Shared(T, loc, h, q, sep, nq, U, loc2, h2)
          PROVE  Chained(img2, U, loc2)
      <3>1. (\A p \in T : img[p].type = "leaf" /\ p # q => k \notin loc[p]) /\ sep \in Keys
        BY <1>5
      <3>2. QED
        BY <1>5, <1>6, <2>1, <3>1, ChainParted
    <2>2. QED
      BY <2>1 DEF ChainedApart
  <1>8. LeftSpine(img2, r, T)
    BY <1>5, <1>6, SpineMoved
  <1>9. QED
    BY <1>1, <1>2, <1>3, <1>4, <1>7, <1>8 DEF Split

\* The way stays, if its pages do.
LEMMA WayKept ==
    ASSUME NEW img, NEW r, NEW T, NEW loc, NEW h, NEW w, Way(img, r, T, loc, h, w),
           NEW img2, \A p \in T : img[p].type = "internal" => img2[p] = img[p],
           NEW w2, w2.path = w.path, w2.page = w.page, w2.key = w.key
    PROVE  Way(img2, r, T, loc, h, w2)
  <1>1. \A i \in DOMAIN w.path : img2[w.path[i]] = img[w.path[i]]
    BY DEF Way
  <1>2. QED
    BY <1>1 DEF Way

\* An operation sets out at the root, ...
LEMMA WayBegins ==
    ASSUME NEW img, NEW r, NEW T, NEW loc, NEW h, NEW f, Tree(img, r, T, loc, h, f),
           NEW w, w.path = <<>>, w.page = r, w.key \in Keys
    PROVE  Way(img, r, T, loc, h, w)
  <1>1. r \in T /\ loc[r] = Keys /\ h[r] \in Nat
    BY DEF Tree, Frame
  <1>2. Len(w.path) = 0 /\ DOMAIN w.path = {}
    OBVIOUS
  <1>3. h[w.page] + Len(w.path) = h[r]
    BY <1>1, <1>2
  <1>4. QED
    BY <1>1, <1>2, <1>3 DEF Way

\* ... and descends to the child for its key.
LEMMA WayDescends ==
    ASSUME NEW img, NEW r, NEW T, NEW loc, NEW h, NEW f, Tree(img, r, T, loc, h, f),
           NEW w, Way(img, r, T, loc, h, w), NEW D, w.path \in Seq(D), w.page \in D,
           img[w.page].type = "internal", WellFormed(img[w.page], DOMAIN img),
           NEW w2, w2.path = Append(w.path, w.page), w2.page = FindChildPageID(img[w.page], w.key), w2.key = w.key
    PROVE  Way(img, r, T, loc, h, w2)
  <1>1. PICK x, s, q, k, u : x = img[w.page] /\ s = w.path /\ q = w.page /\ k = w.key /\ u = w2.page
    OBVIOUS
  <1>2. PICK n \in Nat : n = Len(s) /\ DOMAIN s = 1..n
    BY <1>1
  <1>3. q \in T /\ k \in loc[q] /\ h[q] + n = h[r] /\ (s = <<>> => q = r)
    BY <1>1, <1>2 DEF Way
  <1>4. k \in Keys /\ h[q] \in Nat /\ h[r] \in Nat /\ \A p \in T : h[p] \in Nat
    BY <1>3 DEF Tree, Frame
  <1>5. NodeHolds(x, loc[q], h[q], T, loc, h)
    BY <1>1, <1>3 DEF Tree, Holds
  <1>6. u = FindChildPageID(x, k) /\ u \in Kids(x)
    <2>1. PICK E : E = DOMAIN img
      OBVIOUS
    <2>2. x.cells \in Seq(InternalCell(E)) /\ CellSet(InternalCell(E))
      BY <1>1, <2>1, PageParts
    <2>3. k \in Nat
      BY <1>4, TreeAssumption
    <2>4. FindChildPageID(x, k) \in Kids(x)
      BY <2>2, <2>3, ChildIsKid
    <2>5. QED
      BY <1>1, <2>4
  <1>7. u \in T /\ h[u] + 1 = h[q] /\ k \in loc[u]
    BY <1>3, <1>4, <1>5, <1>6 DEF NodeHolds
  <1>14. PICK a, b, d \in Nat : a = h[q] /\ b = h[r] /\ d = h[u]
    BY <1>4, <1>7
  <1>15. a + n = b /\ d + 1 = a
    BY <1>3, <1>7, <1>14
  <1>8. PICK t : t = w2.path
    OBVIOUS
  <1>9. Len(t) = n + 1 /\ DOMAIN t = 1..(n + 1) /\ t # <<>> /\ \A i \in 1..(n + 1) : t[i] = IF i = n + 1 THEN q ELSE s[i]
    BY <1>1, <1>2, <1>8
  <1>10. \A i \in 1..n : /\ s[i] \in T /\ k \in loc[s[i]] /\ h[s[i]] + i = h[r] + 1
                         /\ img[s[i]].type = "internal"
                         /\ FindChildPageID(img[s[i]], k) = IF i = n THEN q ELSE s[i + 1]
                         /\ i = 1 => s[i] = r
    BY <1>1, <1>2 DEF Way
  <1>11. ASSUME NEW i \in 1..(n + 1)
         PROVE  /\ t[i] \in T /\ k \in loc[t[i]] /\ h[t[i]] + i = h[r] + 1
                /\ img[t[i]].type = "internal"
                /\ FindChildPageID(img[t[i]], k) = IF i = n + 1 THEN u ELSE t[i + 1]
                /\ i = 1 => t[i] = r
    <2>1. CASE i = n + 1
      <3>1. t[i] = q
        BY <1>9, <2>1
      <3>2. h[q] + (n + 1) = h[r] + 1
        <4>1. a + (n + 1) = b + 1
          BY <1>15
        <4>2. QED
          BY <1>14, <4>1
      <3>3. n = 0 => q = r
        BY <1>2, <1>3
      <3>4. QED
        BY <1>1, <1>3, <1>6, <2>1, <3>1, <3>2, <3>3
    <2>2. CASE i # n + 1
      <3>1. i \in 1..n /\ i + 1 \in 1..(n + 1) /\ t[i] = s[i]
        BY <1>9, <2>2
      <3>2. t[i + 1] = IF i = n THEN q ELSE s[i + 1]
        <4>1. t[i + 1] = IF i + 1 = n + 1 THEN q ELSE s[i + 1]
          BY <1>9, <3>1
        <4>2. i + 1 = n + 1 <=> i = n
          OBVIOUS
        <4>3. QED
          BY <4>1, <4>2
      <3>3. QED
        BY <1>10, <2>2, <3>1, <3>2
    <2>3. QED
      BY <2>1, <2>2
  <1>12. h[u] + (n + 1) = h[r]
    <2>1. d + (n + 1) = b
      BY <1>15
    <2>2. QED
      BY <1>14, <2>1
  <1>13. w2.page = u /\ w2.key = k /\ w2.path = t /\ Len(t) = n + 1 /\ DOMAIN t = 1..(n + 1) /\ t # <<>>
    BY <1>1, <1>8, <1>9
  <1>16. /\ w2.page \in T /\ w2.key \in loc[w2.page] /\ h[w2.page] + Len(w2.path) = h[r]
         /\ w2.path # <<>>
    BY <1>7, <1>12, <1>13
  <1>17. \A i \in DOMAIN w2.path :
           /\ w2.path[i] \in T /\ w2.key \in loc[w2.path[i]] /\ h[w2.path[i]] + i = h[r] + 1
           /\ img[w2.path[i]].type = "internal"
           /\ FindChildPageID(img[w2.path[i]], w2.key) = IF i = Len(w2.path) THEN w2.page ELSE w2.path[i + 1]
           /\ i = 1 => w2.path[i] = r
    BY <1>11, <1>13
  <1>18. QED
    BY <1>16, <1>17 DEF Way

\* A page holds its keys also when other pages get or lose theirs.
LEMMA HoldsMoved ==
    ASSUME NEW x, NEW S, NEW n, NEW T, NEW loc, NEW h, NEW f, Holds(x, S, n, T, loc, h, f),
           NEW U, NEW loc2, NEW h2,
           x.type = "internal" => \A q \in Kids(x) : q \in U /\ loc2[q] = loc[q] /\ h2[q] = h[q]
    PROVE  Holds(x, S, n, U, loc2, h2, f)
  <1>1. CASE x.type = "leaf"
    BY <1>1 DEF Holds
  <1>2. CASE x.type # "leaf"
    <2>1. x.type = "internal" /\ n # 0 /\ NodeHolds(x, S, n, T, loc, h)
      BY <1>2 DEF Holds
    <2>2. NodeHolds(x, S, n, U, loc2, h2)
      BY <2>1, NodeUnmoved
    <2>3. QED
      BY <2>1, <2>2 DEF Holds
  <1>3. QED
    BY <1>1, <1>2

\* The keys of a page can be shared with a new one.
LEMMA SharedExists ==
    ASSUME NEW T, NEW loc, NEW h, NEW q \in T, NEW sep, NEW nq, nq \notin T, NEW U, U = T \cup {nq}
    PROVE  \E loc2, h2 : Shared(T, loc, h, q, sep, nq, U, loc2, h2)
  <1>1. PICK loc2 : loc2 = [p \in U |-> IF p = q THEN Below(loc[q], sep) ELSE IF p = nq THEN Above(loc[q], sep) ELSE loc[p]]
    OBVIOUS
  <1>2. PICK h2 : h2 = [p \in U |-> IF p = nq THEN h[q] ELSE h[p]]
    OBVIOUS
  <1>3. /\ h2[nq] = h[q] /\ loc2[q] = Below(loc[q], sep) /\ loc2[nq] = Above(loc[q], sep)
        /\ \A p \in T : h2[p] = h[p] /\ (p # q => loc2[p] = loc[p])
    BY <1>1, <1>2
  <1>4. QED
    BY <1>3 DEF Shared

\* The pages hold their keys when the split page has shared its own, but for the one
\* with the pointer to it.
LEMMA SharedHolds ==
    ASSUME NEW img, NEW r, NEW T, NEW loc, NEW h, NEW f, NEW q, NEW sep, NEW nq,
           Split(img, r, T, loc, h, f, q, sep, nq),
           NEW U, NEW loc2, NEW h2, Shared(T, loc, h, q, sep, nq, U, loc2, h2),
           NEW p \in U, \/ p = q \/ p = nq \/ img[p].type = "leaf" \/ q \notin Kids(img[p])
    PROVE  Holds(img[p], loc2[p], h2[p], U, loc2, h2, f)
  <1>1. q \in T /\ nq \notin T /\ h[q] \in Nat /\ U = T \cup {nq}
    BY DEF Split, Frame, Shared
  <1>2. PICK x, S, n : x = img[p] /\ S = loc2[p] /\ n = h2[p]
    OBVIOUS
  <1>3. /\ Holds(x, S, n, T, loc, h, f)
        /\ x.type = "internal" => n = h[q] \/ q \notin Kids(x)
    <2>1. CASE p = q
      BY <1>1, <1>2, <2>1 DEF Split, Shared
    <2>2. CASE p = nq
      BY <1>1, <1>2, <2>2 DEF Split, Shared
    <2>3. CASE p # q /\ p # nq
      <3>1. p \in T /\ S = loc[p] /\ n = h[p]
        BY <1>1, <1>2, <2>3 DEF Shared
      <3>2. Holds(x, S, n, T, loc, h, f)
        BY <1>2, <2>3, <3>1 DEF Split
      <3>3. QED
        BY <1>2, <2>3, <3>2
    <2>4. QED
      BY <2>1, <2>2, <2>3
  <1>4. ASSUME x.type = "internal", NEW k \in Kids(x) PROVE k \in U /\ loc2[k] = loc[k] /\ h2[k] = h[k]
    <2>1. k \in T /\ h[k] + 1 = n
      BY <1>3, <1>4 DEF Holds, NodeHolds
    <2>2. k # q
      <3>1. CASE n = h[q]
        BY <1>1, <2>1, <3>1
      <3>2. CASE q \notin Kids(x)
        BY <1>4, <3>2
      <3>3. QED
        BY <1>3, <1>4, <3>1, <3>2
    <2>3. QED
      BY <1>1, <2>1, <2>2 DEF Shared
  <1>5. Holds(x, S, n, U, loc2, h2, f)
    BY <1>3, <1>4, HoldsMoved
  <1>6. QED
    BY <1>2, <1>5

\* Pages of one height are for different keys still.
LEMMA SharedPlaces ==
    ASSUME NEW img, NEW r, NEW T, NEW loc, NEW h, NEW f, NEW q, NEW sep, NEW nq,
           Split(img, r, T, loc, h, f, q, sep, nq),
           NEW U, NEW loc2, NEW h2, Shared(T, loc, h, q, sep, nq, U, loc2, h2)
    PROVE  /\ U \subseteq DOMAIN img
           /\ \A p \in U : loc2[p] \subseteq Keys /\ h2[p] \in Nat /\ h2[p] <= h[r]
           /\ \A a, b \in U : h2[a] = h2[b] /\ a # b => loc2[a] \cap loc2[b] = {}
  <1>1. /\ U = T \cup {nq} /\ nq \notin T /\ h2[nq] = h[q] /\ q \in T
        /\ loc2[q] = Below(loc[q], sep) /\ loc2[nq] = Above(loc[q], sep)
        /\ \A p \in T : h2[p] = h[p] /\ (p # q => loc2[p] = loc[p])
    BY DEF Shared, Split
  <1>2. /\ T \subseteq DOMAIN img /\ nq \in DOMAIN img
        /\ \A p \in T : loc[p] \subseteq Keys /\ h[p] \in Nat /\ h[p] <= h[r]
        /\ \A a, b \in T : h[a] = h[b] /\ a # b => loc[a] \cap loc[b] = {}
    BY DEF Split, Frame
  <1>3. Below(loc[q], sep) \subseteq loc[q] /\ Above(loc[q], sep) \subseteq loc[q]
    BY DEF Below, Above
  <1>4. Below(loc[q], sep) \cap Above(loc[q], sep) = {}
    <2>1. sep \in Nat /\ \A k \in loc[q] : k \in Nat
      BY <1>1, <1>2, TreeAssumption DEF Split
    <2>2. QED
      BY <2>1 DEF Below, Above
  <1>5. \A p \in T : loc2[p] \subseteq loc[p]
    BY <1>1, <1>3
  <1>6. \A p \in U : loc2[p] \subseteq Keys /\ h2[p] \in Nat /\ h2[p] <= h[r]
    BY <1>1, <1>2, <1>3, <1>5
  <1>7. ASSUME NEW a \in T, h2[a] = h2[nq] PROVE loc2[a] \cap loc2[nq] = {}
    <2>1. CASE a = q
      BY <1>1, <1>4, <2>1
    <2>2. CASE a # q
      <3>1. loc[a] \cap loc[q] = {}
        BY <1>1, <1>2, <1>7, <2>2
      <3>2. QED
        BY <1>1, <1>3, <1>5, <3>1
    <2>3. QED
      BY <2>1, <2>2
  <1>8. ASSUME NEW a \in T, NEW b \in T, h2[a] = h2[b], a # b PROVE loc2[a] \cap loc2[b] = {}
    <2>1. loc[a] \cap loc[b] = {}
      BY <1>1, <1>2, <1>8
    <2>2. QED
      BY <1>5, <2>1
  <1>9. \A a, b \in U : h2[a] = h2[b] /\ a # b => loc2[a] \cap loc2[b] = {}
    <2>1. SUFFICES ASSUME NEW a \in U, NEW b \in U, h2[a] = h2[b], a # b PROVE loc2[a] \cap loc2[b] = {}
      OBVIOUS
    <2>2. CASE a \in T /\ b \in T
      BY <1>8, <2>1, <2>2
    <2>3. CASE a \in T /\ b = nq
      BY <1>7, <2>1, <2>3
    <2>4. CASE a = nq /\ b \in T
      BY <1>7, <2>1, <2>4
    <2>5. QED
      BY <1>1, <2>1, <2>2, <2>3, <2>4
  <1>10. U \subseteq DOMAIN img
    BY <1>1, <1>2
  <1>11. QED
    BY <1>6, <1>9, <1>10

\* The page par is the only one with a pointer to q, which it takes for the keys around sep.
IsParent(img, r, T, loc, h, q, sep, par) ==
    /\ par \in T /\ par # q /\ r # q /\ q \in T /\ h[par] = h[q] + 1
    /\ img[par].type = "internal" /\ NodeHolds(img[par], loc[par], h[par], T, loc, h)
    /\ sep \in loc[par] /\ FindChildPageID(img[par], sep) = q /\ loc[par] \subseteq Keys
    /\ \A p \in T : p # par /\ p # q => img[p].type = "leaf" \/ q \notin Kids(img[p])

\* The last page of the way is the parent of a page that was split.
LEMMA ParentFacts ==
    ASSUME NEW img, NEW r, NEW T, NEW loc, NEW h, NEW f, NEW sep, NEW nq,
           NEW w, Split(img, r, T, loc, h, f, w.page, sep, nq), Way(img, r, T, loc, h, w),
           NEW D, w.path \in Seq(D), w.path # <<>>, NEW par, par = Last(w.path),
           WellFormed(img[par], DOMAIN img)
    PROVE  IsParent(img, r, T, loc, h, w.page, sep, par)
  <1>1. PICK q, s, k : q = w.page /\ s = w.path /\ k = w.key
    OBVIOUS
  <1>2. PICK n \in Nat : n = Len(s) /\ n \in DOMAIN s /\ par = s[n]
    BY <1>1 DEF Last
  <1>3. PICK e : e = n
    OBVIOUS
  <1>4. /\ par \in T /\ k \in loc[par] /\ h[par] + n = h[r] + 1 /\ img[par].type = "internal"
        /\ FindChildPageID(img[par], k) = q
    BY <1>1, <1>2 DEF Way
  <1>5. q \in T /\ k \in loc[q] /\ h[q] + n = h[r]
    BY <1>1, <1>2 DEF Way
  <1>6. PICK a, b, d \in Nat : a = h[q] /\ b = h[r] /\ d = h[par]
    BY <1>1, <1>4, <1>5 DEF Split, Frame
  <1>7. d = a + 1 /\ a # b /\ n >= 1
    <2>1. n >= 1
      BY <1>2
    <2>2. a + n = b /\ d + n = b + 1
      BY <1>4, <1>5, <1>6
    <2>3. QED
      BY <2>1, <2>2
  <1>8. par # q /\ r # q /\ h[par] = h[q] + 1
    <2>1. h[par] = h[q] + 1
      BY <1>6, <1>7
    <2>2. d # a
      BY <1>7
    <2>3. h[par] # h[q] /\ h[r] # h[q]
      BY <1>6, <1>7, <2>2
    <2>4. QED
      BY <2>1, <2>3
  <1>9. NodeHolds(img[par], loc[par], h[par], T, loc, h) /\ loc[par] \subseteq Keys /\ sep \in loc[q]
    BY <1>1, <1>4, <1>8 DEF Split, Holds, Frame
  <1>10. q \in Kids(img[par])
    <2>1. PICK x, E : x = img[par] /\ E = DOMAIN img
      OBVIOUS
    <2>2. x.cells \in Seq(InternalCell(E)) /\ CellSet(InternalCell(E))
      BY <1>4, <2>1, PageParts
    <2>3. k \in Nat
      BY <1>4, <1>9, TreeAssumption
    <2>4. FindChildPageID(x, k) \in Kids(x)
      BY <2>2, <2>3, ChildIsKid
    <2>5. QED
      BY <1>4, <2>1, <2>4
  <1>11. sep \in loc[par] /\ FindChildPageID(img[par], sep) = q
    <2>1. sep \in Keys
      BY <1>1, <1>5, <1>9 DEF Split, Frame
    <2>2. QED
      BY <1>9, <1>10, <2>1 DEF NodeHolds
  <1>12. ASSUME NEW p \in T, p # par, p # q, img[p].type # "leaf", q \in Kids(img[p]) PROVE FALSE
    <2>1. NodeHolds(img[p], loc[p], h[p], T, loc, h)
      BY <1>1, <1>12 DEF Split, Holds
    <2>2. h[q] + 1 = h[p] /\ sep \in loc[p]
      <3>1. sep \in Keys
        BY <1>9, <1>11
      <3>2. QED
        BY <1>9, <1>12, <2>1, <3>1 DEF NodeHolds
    <2>3. loc[p] \cap loc[par] = {}
      BY <1>4, <1>8, <1>12, <2>2 DEF Split, Frame
    <2>4. QED
      BY <1>11, <2>2, <2>3
  <1>13. QED
    BY <1>1, <1>4, <1>5, <1>8, <1>9, <1>11, <1>12 DEF IsParent

\* The last page of the way; the images of the pages differ on one only.
LastOfWay(w, D, par) == w.path \in Seq(D) /\ w.path # <<>> /\ par = Last(w.path)

\* The parent that took the cell for the child completes the tree.
LEMMA PatchDone ==
    ASSUME NEW img, NEW r, NEW T, NEW loc, NEW h, NEW f, NEW sep, NEW nq,
           NEW w, Split(img, r, T, loc, h, f, w.page, sep, nq), Way(img, r, T, loc, h, w),
           NEW D, NEW par, LastOfWay(w, D, par),
           WellFormed(img[par], DOMAIN img),
           NEW U, NEW loc2, NEW h2, Shared(T, loc, h, w.page, sep, nq, U, loc2, h2),
           NEW img2, DOMAIN img2 = DOMAIN img, SameBut(img, img2, par),
           SameFirst(img[par], img2[par]), NodeHolds(img2[par], loc[par], h[par], U, loc2, h2)
    PROVE  Tree(img2, r, U, loc2, h2, f)
  <1>0. /\ w.path \in Seq(D) /\ w.path # <<>> /\ par = Last(w.path)
        /\ \A p \in DOMAIN img : p # par => img2[p] = img[p]
    BY DEF LastOfWay, SameBut
  <1>1. /\ par \in T /\ par # w.page /\ r # w.page /\ w.page \in T /\ h[par] = h[w.page] + 1
        /\ img[par].type = "internal" /\ NodeHolds(img[par], loc[par], h[par], T, loc, h)
        /\ sep \in loc[par] /\ FindChildPageID(img[par], sep) = w.page /\ loc[par] \subseteq Keys
        /\ \A p \in T : p # par /\ p # w.page => img[p].type = "leaf" \/ w.page \notin Kids(img[p])
    <2>1. IsParent(img, r, T, loc, h, w.page, sep, par)
      BY <1>0, ParentFacts
    <2>2. QED
      BY <2>1 DEF IsParent
  <1>2. /\ U \subseteq DOMAIN img
        /\ \A p \in U : loc2[p] \subseteq Keys /\ h2[p] \in Nat /\ h2[p] <= h[r]
        /\ \A a, b \in U : h2[a] = h2[b] /\ a # b => loc2[a] \cap loc2[b] = {}
    BY SharedPlaces
  <1>3. r \in T /\ loc[r] = Keys /\ h[w.page] \in Nat
    BY <1>1 DEF Split, Frame
  <1>4. U = T \cup {nq} /\ \A p \in T : h2[p] = h[p] /\ (p # w.page => loc2[p] = loc[p])
    BY DEF Shared
  <1>5. Frame(DOMAIN img2, r, U, loc2, h2)
    BY <1>1, <1>2, <1>3, <1>4 DEF Frame
  <1>6. ASSUME NEW p \in U PROVE Holds(img2[p], loc2[p], h2[p], U, loc2, h2, f)
    <2>1. CASE p = par
      <3>1. loc2[p] = loc[par] /\ h2[p] = h[par] /\ h[par] # 0
        BY <1>1, <1>3, <1>4, <2>1
      <3>2. QED
        BY <2>1, <3>1 DEF Holds, SameFirst
    <2>2. CASE p # par
      <3>1. \/ p = w.page \/ p = nq \/ img[p].type = "leaf" \/ w.page \notin Kids(img[p])
        BY <1>1, <1>4, <2>2
      <3>2. Holds(img[p], loc2[p], h2[p], U, loc2, h2, f)
        BY <3>1, SharedHolds
      <3>3. img2[p] = img[p]
        BY <1>0, <1>2, <2>2
      <3>4. QED
        BY <3>2, <3>3
    <2>3. QED
      BY <2>1, <2>2
  <1>7. Chained(img2, U, loc2) /\ LeftSpine(img2, r, U)
    <2>1. Chained(img, U, loc2) /\ LeftSpine(img, r, T)
      BY DEF Split, ChainedApart
    <2>2. \A p \in U : p # par => img2[p] = img[p]
      BY <1>0, <1>2
    <2>3. Chained(img2, U, loc2)
      BY <1>1, <2>1, <2>2, ChainMoved
    <2>4. LeftSpine(img2, r, U)
      BY <1>1, <1>4, <2>1, <2>2, SpineMoved
    <2>5. QED
      BY <2>3, <2>4
  <1>8. QED
    BY <1>5, <1>6, <1>7 DEF Tree

\* The operation w goes on as w2 at its parent, the only page of img that is another in img2.
Climbs(img, img2, D, w, w2, par) ==
    /\ w.path \in Seq(D) /\ w.path # <<>> /\ par = Last(w.path)
    /\ \A p \in DOMAIN img : p # par => img2[p] = img[p]
    /\ w2.page = par /\ w2.path = Front(w.path) /\ w2.key = w.key

\* The way ends one page higher when the parent is split, too.
LEMMA WayClimbs ==
    ASSUME NEW img, NEW r, NEW T, NEW loc, NEW h, NEW f, NEW sep, NEW nq,
           NEW w, Split(img, r, T, loc, h, f, w.page, sep, nq), Way(img, r, T, loc, h, w),
           NEW par, IsParent(img, r, T, loc, h, w.page, sep, par),
           NEW U, NEW loc2, NEW h2, Shared(T, loc, h, w.page, sep, nq, U, loc2, h2),
           NEW img2, NEW D, NEW w2, Climbs(img, img2, D, w, w2, par)
    PROVE  Way(img2, r, U, loc2, h2, w2)
  <1>0. /\ w.path \in Seq(D) /\ w.path # <<>> /\ par = Last(w.path)
        /\ \A p \in DOMAIN img : p # par => img2[p] = img[p]
        /\ w2.page = par /\ w2.path = Front(w.path) /\ w2.key = w.key
    BY DEF Climbs
  <1>1. PICK q, s, k, t : q = w.page /\ s = w.path /\ k = w.key /\ t = w2.path
    OBVIOUS
  <1>2. PICK n \in Nat : n = Len(s) /\ DOMAIN s = 1..n /\ n >= 1 /\ par = s[n]
    BY <1>0, <1>1 DEF Last
  <1>3. Len(t) = n - 1 /\ DOMAIN t = 1..(n - 1) /\ \A i \in 1..(n - 1) : t[i] = s[i]
    <2>1. t = SubSeq(s, 1, n - 1) /\ s \in Seq(D)
      BY <1>0, <1>1, <1>2 DEF Front
    <2>2. n - 1 \in Nat /\ n - 1 <= Len(s)
      BY <1>2
    <2>3. QED
      BY <2>1, <2>2
  <1>4. \A i \in 1..n : /\ s[i] \in T /\ k \in loc[s[i]] /\ h[s[i]] + i = h[r] + 1
                        /\ img[s[i]].type = "internal"
                        /\ FindChildPageID(img[s[i]], k) = IF i = n THEN q ELSE s[i + 1]
                        /\ i = 1 => s[i] = r
    BY <1>1, <1>2 DEF Way
  <1>5. q \in T /\ h[q] + n = h[r] /\ par \in T /\ par # q /\ r # q /\ r \in T /\ T \subseteq DOMAIN img
        /\ \A p \in T : h[p] \in Nat
    BY <1>1, <1>2 DEF Way, IsParent, Split, Frame
  <1>6. /\ U = T \cup {nq} /\ \A p \in T : h2[p] = h[p] /\ (p # q => loc2[p] = loc[p])
    BY <1>1 DEF Shared
  <1>7. PICK a, b \in Nat : a = h[q] /\ b = h[r] /\ a + n = b
    BY <1>5
  <1>8. h[par] + n = b + 1 /\ k \in loc[par] /\ (n = 1 => par = r)
    BY <1>2, <1>4, <1>7
  <1>9. PICK d \in Nat : d = h[par] /\ d + n = b + 1
    BY <1>5, <1>8
  <1>10. ASSUME NEW i \in 1..(n - 1)
         PROVE  /\ t[i] \in U /\ k \in loc2[t[i]] /\ h2[t[i]] + i = h2[r] + 1
                /\ img2[t[i]].type = "internal"
                /\ FindChildPageID(img2[t[i]], k) = IF i = n - 1 THEN par ELSE t[i + 1]
                /\ i = 1 => t[i] = r
    <2>1. i \in 1..n /\ t[i] = s[i] /\ i # n
      BY <1>2, <1>3
    <2>2. PICK p : p = s[i]
      OBVIOUS
    <2>3. /\ p \in T /\ k \in loc[p] /\ h[p] + i = h[r] + 1 /\ img[p].type = "internal"
          /\ FindChildPageID(img[p], k) = IF i = n THEN q ELSE s[i + 1]
          /\ i = 1 => p = r
      BY <1>4, <2>1, <2>2
    <2>4. PICK e \in Nat : e = h[p] /\ e + i = b + 1
      BY <1>5, <1>7, <2>3
    <2>5. e # d /\ e # a
      <3>1. a + n = b /\ d + n = b + 1 /\ e + i = b + 1
        BY <1>7, <1>9, <2>4
      <3>2. i # n /\ i <= n
        BY <2>1
      <3>3. QED
        BY <3>1, <3>2
    <2>6. p # par /\ p # q
      BY <1>7, <1>9, <2>4, <2>5
    <2>7. img2[p] = img[p]
      BY <1>0, <1>5, <2>3, <2>6
    <2>8. s[i + 1] = IF i = n - 1 THEN par ELSE t[i + 1]
      <3>1. CASE i = n - 1
        <4>1. i + 1 = n
          BY <1>2, <3>1
        <4>2. QED
          BY <1>2, <3>1, <4>1
      <3>2. CASE i # n - 1
        <4>1. i + 1 \in 1..(n - 1)
          BY <1>2, <3>2
        <4>2. QED
          BY <1>3, <3>2, <4>1
      <3>3. QED
        BY <3>1, <3>2
    <2>9. h2[p] + i = h2[r] + 1 /\ p \in U /\ k \in loc2[p]
      BY <1>5, <1>6, <2>3, <2>6
    <2>10. FindChildPageID(img2[p], k) = IF i = n - 1 THEN par ELSE t[i + 1]
      BY <2>1, <2>3, <2>7, <2>8
    <2>11. QED
      BY <2>1, <2>2, <2>3, <2>7, <2>9, <2>10
  <1>11. par \in U /\ k \in loc2[par] /\ h2[par] + (n - 1) = h2[r]
    <2>1. d + (n - 1) = b
      BY <1>2, <1>9
    <2>2. QED
      BY <1>5, <1>6, <1>7, <1>8, <1>9, <2>1
  <1>12. t = <<>> => par = r
    <2>1. ASSUME t = <<>> PROVE n = 1
      <3>1. PICK x : x = Len(t)
        OBVIOUS
      <3>2. x = 0
        BY <2>1, <3>1
      <3>3. x = n - 1
        BY <1>3, <3>1
      <3>4. QED
        BY <3>2, <3>3
    <2>2. QED
      BY <1>8, <2>1
  <1>13. QED
    BY <1>0, <1>1, <1>3, <1>10, <1>11, <1>12 DEF Way

\* The parent has no room for the cell and is split itself.
LEMMA InternalParted ==
    ASSUME NEW img, NEW r, NEW T, NEW loc, NEW h, NEW f, NEW sep, NEW nq,
           NEW w, Split(img, r, T, loc, h, f, w.page, sep, nq), Way(img, r, T, loc, h, w),
           NEW D, NEW par, LastOfWay(w, D, par),
           WellFormed(img[par], DOMAIN img),
           NEW U, NEW loc2, NEW h2, Shared(T, loc, h, w.page, sep, nq, U, loc2, h2),
           NEW nn, nn \notin DOMAIN img, NEW img2, DOMAIN img2 = DOMAIN img \cup {nn},
           SameBut(img, img2, par), NEW sep2 \in loc[par],
           SameFirst(img[par], img2[par]), NodeHolds(img2[par], Below(loc[par], sep2), h[par], U, loc2, h2),
           img2[nn].type = "internal", NodeHolds(img2[nn], Above(loc[par], sep2), h[par], U, loc2, h2),
           NEW w2, w2.page = par, w2.path = Front(w.path), w2.key = w.key
    PROVE  Split(img2, r, U, loc2, h2, f, par, sep2, nn) /\ Way(img2, r, U, loc2, h2, w2)
  <1>0. /\ w.path \in Seq(D) /\ w.path # <<>> /\ par = Last(w.path)
        /\ \A p \in DOMAIN img : p # par => img2[p] = img[p]
    BY DEF LastOfWay, SameBut
  <1>1. IsParent(img, r, T, loc, h, w.page, sep, par)
    BY <1>0, ParentFacts
  <1>2. /\ par \in T /\ par # w.page /\ r # w.page /\ w.page \in T /\ h[par] = h[w.page] + 1
        /\ sep \in loc[par]
        /\ \A p \in T : p # par /\ p # w.page => img[p].type = "leaf" \/ w.page \notin Kids(img[p])
    BY <1>1 DEF IsParent
  <1>3. /\ U \subseteq DOMAIN img
        /\ \A p \in U : loc2[p] \subseteq Keys /\ h2[p] \in Nat /\ h2[p] <= h[r]
        /\ \A a, b \in U : h2[a] = h2[b] /\ a # b => loc2[a] \cap loc2[b] = {}
    BY SharedPlaces
  <1>4. r \in T /\ loc[r] = Keys /\ h[w.page] \in Nat
    BY <1>2 DEF Split, Frame
  <1>5. U = T \cup {nq} /\ \A p \in T : h2[p] = h[p] /\ (p # w.page => loc2[p] = loc[p])
    BY DEF Shared
  <1>6. Frame(DOMAIN img2, r, U, loc2, h2)
    BY <1>2, <1>3, <1>4, <1>5 DEF Frame
  <1>7. ASSUME NEW p \in U, p # par PROVE Holds(img2[p], loc2[p], h2[p], U, loc2, h2, f)
    <2>1. \/ p = w.page \/ p = nq \/ img[p].type = "leaf" \/ w.page \notin Kids(img[p])
      BY <1>2, <1>5, <1>7
    <2>2. Holds(img[p], loc2[p], h2[p], U, loc2, h2, f)
      BY <2>1, SharedHolds
    <2>3. img2[p] = img[p]
      BY <1>0, <1>3, <1>7
    <2>4. QED
      BY <2>2, <2>3
  <1>8. loc2[par] = loc[par] /\ h2[par] = h[par] /\ h[par] # 0 /\ par \in U
    BY <1>2, <1>4, <1>5
  <1>9. /\ Holds(img2[par], Below(loc2[par], sep2), h2[par], U, loc2, h2, f)
        /\ Holds(img2[nn], Above(loc2[par], sep2), h2[par], U, loc2, h2, f)
    BY <1>8 DEF Holds, SameFirst
  <1>10. nn \in DOMAIN img2 /\ nn \notin U
    BY <1>3
  <1>11. Split(img2, r, U, loc2, h2, f, par, sep2, nn)
    <2>1. Chained(img, U, loc2) /\ LeftSpine(img, r, T)
      BY DEF Split, ChainedApart
    <2>2. img[par].type = "internal" /\ \A p \in U : p # par => img2[p] = img[p]
      BY <1>0, <1>1, <1>3 DEF IsParent
    <2>3. LeftSpine(img2, r, U)
      BY <1>5, <2>1, <2>2, SpineMoved
    <2>4. ChainedApart(img2, U, loc2, h2, par, sep2, nn)
      <3>1. ASSUME NEW V, NEW loc3, NEW h3, Shared(U, loc2, h2, par, sep2, nn, V, loc3, h3)
            PROVE  Chained(img2, V, loc3)
        <4>1. U \subseteq V /\ \A p \in U : p # par => loc3[p] = loc2[p]
          BY <3>1 DEF Shared
        <4>2. QED
          BY <2>1, <2>2, <4>1, ChainMoved
      <3>2. QED
        BY <3>1 DEF ChainedApart
    <2>5. QED
      BY <1>6, <1>7, <1>8, <1>9, <1>10, <2>3, <2>4 DEF Split
  <1>12. Way(img2, r, U, loc2, h2, w2)
    <2>1. Climbs(img, img2, D, w, w2, par)
      BY <1>0 DEF Climbs
    <2>2. QED
      BY <1>1, <2>1, WayClimbs
  <1>13. QED
    BY <1>11, <1>12

\* The new root nn of a tree whose pages U hold their keys.
Crowned(U, loc, h, n, nn, V, loc3, h3) ==
    /\ V = U \cup {nn} /\ nn \notin U /\ loc3[nn] = Keys /\ h3[nn] = n
    /\ \A p \in U : loc3[p] = loc[p] /\ h3[p] = h[p]

\* The maps of a crowned tree: the new root has every key and height n, the rest keeps its own.
LEMMA CrownedExists ==
    ASSUME NEW U, NEW loc, NEW h, NEW n, NEW nn, nn \notin U, NEW V, V = U \cup {nn}
    PROVE  \E loc3, h3 : Crowned(U, loc, h, n, nn, V, loc3, h3)
  <1>1. PICK loc3 : loc3 = [p \in V |-> IF p = nn THEN Keys ELSE loc[p]]
    OBVIOUS
  <1>2. PICK h3 : h3 = [p \in V |-> IF p = nn THEN n ELSE h[p]]
    OBVIOUS
  <1>3. loc3[nn] = Keys /\ h3[nn] = n /\ \A p \in U : loc3[p] = loc[p] /\ h3[p] = h[p]
    BY <1>1, <1>2
  <1>4. QED
    BY <1>3 DEF Crowned

\* createNewRoot completes the tree above a root that was split.
LEMMA RootGrown ==
    ASSUME NEW img, NEW r, NEW T, NEW loc, NEW h, NEW f, NEW sep, NEW nq,
           Split(img, r, T, loc, h, f, r, sep, nq),
           NEW U, NEW loc2, NEW h2, Shared(T, loc, h, r, sep, nq, U, loc2, h2),
           NEW nn, nn \notin DOMAIN img, NEW img2, DOMAIN img2 = DOMAIN img \cup {nn},
           \A p \in DOMAIN img : img2[p] = img[p],
           NEW V, NEW loc3, NEW h3, Crowned(U, loc2, h2, h[r] + 1, nn, V, loc3, h3),
           img2[nn].type = "internal", NodeHolds(img2[nn], Keys, h[r] + 1, V, loc3, h3),
           img2[nn].cells # <<>>, Pointer(img2[nn], 1) = r
    PROVE  Tree(img2, nn, V, loc3, h3, f)
  <1>1. /\ U \subseteq DOMAIN img
        /\ \A p \in U : loc2[p] \subseteq Keys /\ h2[p] \in Nat /\ h2[p] <= h[r]
        /\ \A a, b \in U : h2[a] = h2[b] /\ a # b => loc2[a] \cap loc2[b] = {}
    BY SharedPlaces
  <1>2. r \in T /\ h[r] \in Nat /\ \A p \in T : h[p] \in Nat /\ h[p] <= h[r]
    BY DEF Split, Frame
  <1>3. U = T \cup {nq}
    BY DEF Shared
  <1>4. /\ V = U \cup {nn} /\ nn \notin U /\ loc3[nn] = Keys /\ h3[nn] = h[r] + 1
        /\ \A p \in U : loc3[p] = loc2[p] /\ h3[p] = h2[p]
    BY DEF Crowned
  <1>5. Frame(DOMAIN img2, nn, V, loc3, h3)
    <2>1. \A p \in U : h3[p] \in Nat /\ h3[p] <= h3[nn] /\ h3[p] # h3[nn] /\ loc3[p] \subseteq Keys
      <3>1. ASSUME NEW p \in U PROVE h3[p] \in Nat /\ h3[p] <= h3[nn] /\ h3[p] # h3[nn] /\ loc3[p] \subseteq Keys
        <4>1. PICK a, b \in Nat : a = h2[p] /\ b = h[r] /\ a <= b
          BY <1>1, <1>2
        <4>2. a <= b + 1 /\ a # b + 1
          BY <4>1
        <4>3. QED
          BY <1>1, <1>4, <4>1, <4>2
      <3>2. QED
        BY <3>1
    <2>2. h3[nn] \in Nat
      BY <1>2, <1>4
    <2>3. \A a, b \in U : h3[a] = h3[b] /\ a # b => loc3[a] \cap loc3[b] = {}
      BY <1>1, <1>4
    <2>4. \A a, b \in V : h3[a] = h3[b] /\ a # b => loc3[a] \cap loc3[b] = {}
      BY <1>4, <2>1, <2>3
    <2>5. \A p \in V : loc3[p] \subseteq Keys /\ h3[p] \in Nat /\ h3[p] <= h3[nn]
      BY <1>4, <2>1, <2>2
    <2>6. V \subseteq DOMAIN img2 /\ nn \in V
      BY <1>1, <1>4
    <2>7. QED
      BY <1>4, <2>4, <2>5, <2>6 DEF Frame
  <1>6. ASSUME NEW p \in U PROVE Holds(img2[p], loc3[p], h3[p], V, loc3, h3, f)
    <2>1. \/ p = r \/ p = nq \/ img[p].type = "leaf" \/ r \notin Kids(img[p])
      <3>1. ASSUME p # r, p # nq, img[p].type # "leaf", r \in Kids(img[p]) PROVE FALSE
        <4>1. p \in T
          BY <1>3, <3>1
        <4>2. NodeHolds(img[p], loc[p], h[p], T, loc, h)
          BY <3>1, <4>1 DEF Split, Holds
        <4>3. h[r] + 1 = h[p]
          BY <3>1, <4>2 DEF NodeHolds
        <4>4. PICK a, b \in Nat : a = h[p] /\ b = h[r] /\ a <= b
          BY <1>2, <4>1
        <4>5. QED
          BY <4>3, <4>4
      <3>2. QED
        BY <3>1
    <2>2. PICK x, S, n : x = img[p] /\ S = loc2[p] /\ n = h2[p]
      OBVIOUS
    <2>3. Holds(x, S, n, U, loc2, h2, f)
      <3>1. Holds(img[p], loc2[p], h2[p], U, loc2, h2, f)
        BY <2>1, SharedHolds
      <3>2. QED
        BY <2>2, <3>1
    <2>4. x.type = "internal" => \A k \in Kids(x) : k \in V /\ loc3[k] = loc2[k] /\ h3[k] = h2[k]
      BY <1>4, <2>3 DEF Holds, NodeHolds
    <2>5. Holds(x, S, n, V, loc3, h3, f)
      BY <2>3, <2>4, HoldsMoved
    <2>6. img2[p] = img[p]
      BY <1>1
    <2>7. QED
      BY <1>4, <2>2, <2>5, <2>6
  <1>7. Holds(img2[nn], loc3[nn], h3[nn], V, loc3, h3, f)
    <2>1. h[r] + 1 # 0
      BY <1>2
    <2>2. QED
      BY <1>4, <2>1 DEF Holds
  <1>8. Chained(img, U, loc2) /\ LeftSpine(img, r, T)
    BY DEF Split, ChainedApart
  <1>9. Chained(img2, V, loc3)
    BY <1>1, <1>4, <1>8, ChainMoved
  <1>10. LeftSpine(img2, nn, V)
    BY <1>1, <1>3, <1>4, <1>8, SpineCrowned
  <1>11. QED
    BY <1>4, <1>5, <1>6, <1>7, <1>9, <1>10 DEF Tree

-----------------------------------------------------------------------------
(* Pages added to a tree, and the first ones.                              *)

\* A tree does not notice pages that are allocated.
LEMMA TreeGrows ==
    ASSUME NEW img, NEW r, NEW f, HasTree(img, r, f), NEW img2, DOMAIN img \subseteq DOMAIN img2,
           \A p \in DOMAIN img : img2[p] = img[p]
    PROVE  HasTree(img2, r, f)
  <1>1. PICK T, loc, h : Tree(img, r, T, loc, h, f)
    BY DEF HasTree
  <1>2. T \subseteq DOMAIN img /\ Frame(DOMAIN img2, r, T, loc, h)
    BY <1>1 DEF Tree, Frame
  <1>3. \A p \in T : Holds(img2[p], loc[p], h[p], T, loc, h, f)
    BY <1>1, <1>2 DEF Tree
  <1>4. Chained(img, T, loc) /\ LeftSpine(img, r, T) /\ \A p \in T : img2[p] = img[p]
    BY <1>1, <1>2 DEF Tree
  <1>5. Chained(img2, T, loc)
    BY <1>4, ChainMoved
  <1>6. LeftSpine(img2, r, T)
    BY <1>4, SpineMoved
  <1>7. QED
    BY <1>2, <1>3, <1>5, <1>6 DEF Tree, HasTree

\* A tree is in the pages, whichever function shows them.
LEMMA FirstTree ==
    ASSUME NEW img, 0 \in DOMAIN img, NEW f, img[0].type = "leaf", img[0].next = NoPage,
           LeafHolds(img[0], Keys, f)
    PROVE  HasTree(img, 0, f)
  <1>1. PICK T, loc, h : T = {0} /\ loc = [p \in {0} |-> Keys] /\ h = [p \in {0} |-> 0]
    OBVIOUS
  <1>2. Frame(DOMAIN img, 0, T, loc, h)
    BY <1>1 DEF Frame
  <1>3. Holds(img[0], loc[0], h[0], T, loc, h, f)
    BY <1>1 DEF Holds
  <1>4. Chained(img, T, loc)
    <2>1. PICK L \in [1..1 -> T] : L = [i \in 1..1 |-> 0]
      BY <1>1
    <2>2. L[1] = 0 /\ \A i \in 1..1 : i = 1
      BY <2>1
    <2>3. Links(img, loc, 1, L)
      BY <1>1, <2>2 DEF Links
    <2>4. PICK N \in Nat \ {0} : N = 1
      OBVIOUS
    <2>5. QED
      BY <2>3, <2>4 DEF Chained
  <1>5. LeftSpine(img, 0, T)
    BY <1>1 DEF LeftSpine
  <1>6. QED
    BY <1>1, <1>2, <1>3, <1>4, <1>5 DEF Tree, HasTree

\* The empty page that the file has for the first root above a leaf leads there: its
\* rightmost child is page 0.
LEMMA EmptyRoot ==
    ASSUME NEW img, NEW f, HasTree(img, 0, f), img[0].type = "leaf",
           NEW n, n \notin DOMAIN img, NEW img2, DOMAIN img2 = DOMAIN img \cup {n},
           \A p \in DOMAIN img : img2[p] = img[p], img2[n] = Blank("internal")
    PROVE  HasTree(img2, n, f)
  <1>1. PICK T, loc, h : Tree(img, 0, T, loc, h, f)
    BY DEF HasTree
  <1>2. /\ T \subseteq DOMAIN img /\ 0 \in T /\ loc[0] = Keys /\ n \notin T
        /\ \A p \in T : h[p] = 0 /\ loc[p] \subseteq Keys
        /\ \A p, q \in T : p # q => loc[p] \cap loc[q] = {}
    <2>1. h[0] = 0
      BY <1>1 DEF Tree, Frame, Holds
    <2>2. \A p \in T : h[p] = 0
      BY <1>1, <2>1 DEF Tree, Frame
    <2>3. QED
      BY <1>1, <2>2 DEF Tree, Frame
  <1>3. PICK V : V = T \cup {n}
    OBVIOUS
  <1>4. PICK loc3, h3 : Crowned(T, loc, h, 1, n, V, loc3, h3)
    BY <1>2, <1>3, CrownedExists
  <1>5. /\ n \in V /\ T \subseteq V /\ loc3[n] = Keys /\ h3[n] = 1
        /\ \A p \in T : loc3[p] = loc[p] /\ h3[p] = 0 /\ img2[p] = img[p]
    BY <1>2, <1>4 DEF Crowned
  <1>6. Frame(DOMAIN img2, n, V, loc3, h3)
    BY <1>2, <1>3, <1>5 DEF Frame
  <1>7. ASSUME NEW p \in T PROVE Holds(img2[p], loc3[p], h3[p], V, loc3, h3, f)
    BY <1>1, <1>2, <1>5 DEF Tree, Holds
  <1>8. PICK x : x = img2[n]
    OBVIOUS
  <1>9. x.type = "internal" /\ x.cells = <<>> /\ x.next = 0 /\ Len(x.cells) = 0
    BY <1>8 DEF Blank
  <1>10. \A a \in 1..(Len(x.cells) + 1) : a = 1 /\ Pointer(x, a) = 0
    BY <1>9 DEF Pointer
  <1>11. NodeHolds(x, Keys, 1, V, loc3, h3)
    <2>1. DOMAIN x.cells = {}
      BY <1>9
    <2>2. Distinct(x) /\ \A q \in Kids(x) : q = 0
      BY <1>10 DEF Distinct, Kids
    <2>3. \A k \in Keys : FindChildPageID(x, k) = 0
      <3>1. ASSUME NEW k \in Keys PROVE FindChildPageID(x, k) = 0
        <4>1. x.cells \in Seq(InternalCell({})) /\ CellSet(InternalCell({})) /\ k \in Nat
          BY <1>9, CellSizes, TreeAssumption DEF SizedCells, CellSet
        <4>2. FindChildPageID(x, k) \in Kids(x)
          BY <4>1, ChildIsKid
        <4>3. QED
          BY <2>2, <4>2
      <3>2. QED
        BY <3>1
    <2>4. 0 \in V /\ h3[0] + 1 = 1 /\ loc3[0] = Keys
      BY <1>2, <1>5
    <2>5. QED
      BY <2>1, <2>2, <2>3, <2>4 DEF NodeHolds
  <1>12. Holds(img2[n], loc3[n], h3[n], V, loc3, h3, f)
    BY <1>5, <1>8, <1>9, <1>11 DEF Holds
  <1>13. Chained(img, T, loc) /\ LeftSpine(img, 0, T)
    BY <1>1 DEF Tree
  <1>14. Chained(img2, V, loc3)
    BY <1>5, <1>13, ChainMoved
  <1>15. Pointer(img2[n], 1) = 0
    <2>1. 1 \in 1..(Len(x.cells) + 1)
      BY <1>9
    <2>2. QED
      BY <1>8, <1>10, <2>1
  <1>16. LeftSpine(img2, n, V)
    BY <1>2, <1>5, <1>8, <1>9, <1>13, <1>15, SpineCrowned
  <1>17. QED
    BY <1>3, <1>6, <1>7, <1>12, <1>14, <1>16 DEF Tree, HasTree

-----------------------------------------------------------------------------
(* What the actions do to the pages.                                       *)

\* The page q has become x; the page n, which has the contents x, is new; both.
Replaced(m, m2, q, x) ==
    /\ DOMAIN m2 = DOMAIN m /\ m2[q] = x
    /\ \A p \in DOMAIN m : p # q => m2[p] = m[p]
Added(m, m2, n, x) ==
    /\ n \notin DOMAIN m /\ DOMAIN m2 = DOMAIN m \cup {n} /\ m2[n] = x
    /\ \A p \in DOMAIN m : m2[p] = m[p]
Parted(m, m2, q, x, n, y) ==
    /\ n \notin DOMAIN m /\ DOMAIN m2 = DOMAIN m \cup {n} /\ m2[q] = x /\ m2[n] = y
    /\ \A p \in DOMAIN m : p # q => m2[p] = m[p]
\* Pages have become c's or stay whose they were.
Claimed(o, o2, D, c) == \A p \in D : o2[p] = o[p] \/ o2[p] = c

\* finishPage of one page.
LEMMA PageWritten ==
    ASSUME Shape, NEW c, NEW q \in DOMAIN mem, NEW x, FinishPages(c, Only(q, x))
    PROVE  Replaced(mem, mem', q, x) /\ Claimed(owner, owner', DOMAIN mem, c)
  <1>1. DOMAIN owner = DOMAIN mem
    BY DEF Shape, PagesOK
  <1>2. PICK m2, o2, new, by : m2 = mem' /\ o2 = owner' /\ new = Only(q, x) /\ by = [p \in DOMAIN new |-> c]
    OBVIOUS
  <1>3. m2 = Write(mem, new) /\ o2 = Write(owner, by)
    BY <1>2 DEF FinishPages
  <1>4. DOMAIN new = {q} /\ new[q] = x /\ DOMAIN by = {q} /\ by[q] = c
    BY <1>2 DEF Only
  <1>5. /\ DOMAIN m2 = DOMAIN mem
        /\ \A p \in DOMAIN mem : m2[p] = IF p \in DOMAIN new THEN new[p] ELSE mem[p]
        /\ \A p \in DOMAIN mem : o2[p] = IF p \in DOMAIN by THEN by[p] ELSE owner[p]
    BY <1>1, <1>3, <1>4 DEF Write
  <1>6. Replaced(mem, m2, q, x) /\ Claimed(owner, o2, DOMAIN mem, c)
    BY <1>4, <1>5 DEF Replaced, Claimed
  <1>7. QED
    BY <1>2, <1>6

\* AllocatePage of the file.
LEMMA PageAllocated ==
    ASSUME Shape, NEW ty, Allocate(ty), NEW n, n = NextPage
    PROVE  Added(disk, disk', n, Blank(ty)) /\ n \notin DOMAIN mem /\ \A p \in DOMAIN mem : p < n
  <1>1. n \in Nat /\ DOMAIN mem = 0..(n - 1) /\ DOMAIN disk = DOMAIN mem
    BY DEF Shape, PagesOK, NextPage
  <1>2. n \notin DOMAIN mem /\ \A p \in DOMAIN mem : p < n
    BY <1>1
  <1>3. PICK d2, new : d2 = disk' /\ new = Only(n, Blank(ty))
    OBVIOUS
  <1>4. d2 = Write(disk, new)
    BY <1>3 DEF Allocate
  <1>5. DOMAIN new = {n} /\ new[n] = Blank(ty)
    BY <1>3 DEF Only
  <1>6. /\ DOMAIN d2 = DOMAIN disk \cup {n}
        /\ \A p \in DOMAIN disk \cup {n} : d2[p] = IF p \in DOMAIN new THEN new[p] ELSE disk[p]
    BY <1>4, <1>5 DEF Write
  <1>7. Added(disk, d2, n, Blank(ty))
    BY <1>1, <1>2, <1>5, <1>6 DEF Added
  <1>8. QED
    BY <1>2, <1>3, <1>7

\* finishPage of a page and of a new one.
LEMMA PagesParted ==
    ASSUME Shape, NEW c, NEW q \in DOMAIN mem, NEW x, NEW n, n \notin DOMAIN mem, NEW y,
           FinishPages(c, [p \in {q, n} |-> IF p = n THEN y ELSE x])
    PROVE  Parted(mem, mem', q, x, n, y) /\ Claimed(owner, owner', DOMAIN mem, c)
  <1>1. DOMAIN owner = DOMAIN mem
    BY DEF Shape, PagesOK
  <1>2. PICK m2, o2, new, by : /\ m2 = mem' /\ o2 = owner' /\ new = [p \in {q, n} |-> IF p = n THEN y ELSE x]
                               /\ by = [p \in DOMAIN new |-> c]
    OBVIOUS
  <1>3. m2 = Write(mem, new) /\ o2 = Write(owner, by)
    BY <1>2 DEF FinishPages
  <1>4. DOMAIN new = {q, n} /\ new[q] = x /\ new[n] = y /\ DOMAIN by = {q, n} /\ \A p \in {q, n} : by[p] = c
    BY <1>2
  <1>5. /\ DOMAIN m2 = DOMAIN mem \cup {n}
        /\ \A p \in DOMAIN mem \cup {n} : m2[p] = IF p \in DOMAIN new THEN new[p] ELSE mem[p]
        /\ \A p \in DOMAIN mem : o2[p] = IF p \in DOMAIN by THEN by[p] ELSE owner[p]
    BY <1>1, <1>3, <1>4 DEF Write
  <1>6. Parted(mem, m2, q, x, n, y) /\ Claimed(owner, o2, DOMAIN mem, c)
    BY <1>4, <1>5 DEF Parted, Claimed
  <1>7. QED
    BY <1>2, <1>6

\* finishPage of a new page.
LEMMA PageAdded ==
    ASSUME Shape, NEW c, NEW n, n \notin DOMAIN mem, NEW x, FinishPages(c, Only(n, x))
    PROVE  Added(mem, mem', n, x) /\ Claimed(owner, owner', DOMAIN mem, c) /\ owner'[n] = c
  <1>1. DOMAIN owner = DOMAIN mem
    BY DEF Shape, PagesOK
  <1>2. PICK m2, o2, new, by : m2 = mem' /\ o2 = owner' /\ new = Only(n, x) /\ by = [p \in DOMAIN new |-> c]
    OBVIOUS
  <1>3. m2 = Write(mem, new) /\ o2 = Write(owner, by)
    BY <1>2 DEF FinishPages
  <1>4. DOMAIN new = {n} /\ new[n] = x /\ DOMAIN by = {n} /\ by[n] = c
    BY <1>2 DEF Only
  <1>5. /\ DOMAIN m2 = DOMAIN mem \cup {n}
        /\ \A p \in DOMAIN mem \cup {n} : m2[p] = IF p \in DOMAIN new THEN new[p] ELSE mem[p]
        /\ \A p \in DOMAIN mem \cup {n} : o2[p] = IF p \in DOMAIN by THEN by[p] ELSE owner[p]
    BY <1>1, <1>3, <1>4 DEF Write
  <1>6. Added(mem, m2, n, x) /\ Claimed(owner, o2, DOMAIN mem, c) /\ o2[n] = c
    BY <1>4, <1>5 DEF Added, Claimed
  <1>7. QED
    BY <1>2, <1>6

\* A page allocated in vain, and perhaps another page changed.
LEMMA PageInVain ==
    ASSUME Shape, NEW ty, NEW new, AllocateInVain(ty, new), DOMAIN new \subseteq DOMAIN mem, NEW n, n = NextPage
    PROVE  /\ Added(disk, disk', n, Blank(ty)) /\ n \notin DOMAIN mem
           /\ DOMAIN mem' = DOMAIN mem \cup {n} /\ mem'[n] = Blank(ty)
           /\ \A p \in DOMAIN mem : mem'[p] = IF p \in DOMAIN new THEN new[p] ELSE mem[p]
           /\ \A p \in DOMAIN mem : owner'[p] = owner[p]
  <1>1. DOMAIN owner = DOMAIN mem
    BY DEF Shape, PagesOK
  <1>2. Added(disk, disk', n, Blank(ty)) /\ n \notin DOMAIN mem
    BY PageAllocated DEF AllocateInVain
  <1>3. PICK m1, m2, o2, one, none : /\ m2 = mem' /\ o2 = owner' /\ one = Only(n, Blank(ty)) /\ none = Only(n, NoClient)
                                     /\ m1 = Write(mem, one)
    OBVIOUS
  <1>4. m2 = Write(m1, new) /\ o2 = Write(owner, none)
    BY <1>3 DEF AllocateInVain
  <1>5. DOMAIN one = {n} /\ one[n] = Blank(ty) /\ DOMAIN none = {n}
    BY <1>3 DEF Only
  <1>6. DOMAIN m1 = DOMAIN mem \cup {n} /\ m1[n] = Blank(ty) /\ \A p \in DOMAIN mem : m1[p] = mem[p]
    <2>1. /\ DOMAIN m1 = DOMAIN mem \cup {n}
          /\ \A p \in DOMAIN mem \cup {n} : m1[p] = IF p \in DOMAIN one THEN one[p] ELSE mem[p]
      BY <1>3, <1>5 DEF Write
    <2>2. QED
      BY <1>2, <1>5, <2>1
  <1>7. /\ DOMAIN m2 = DOMAIN mem \cup {n}
        /\ \A p \in DOMAIN mem \cup {n} : m2[p] = IF p \in DOMAIN new THEN new[p] ELSE m1[p]
    BY <1>4, <1>6 DEF Write
  <1>8. \A p \in DOMAIN mem : o2[p] = owner[p]
    BY <1>1, <1>2, <1>4, <1>5 DEF Write
  <1>9. m2[n] = Blank(ty) /\ \A p \in DOMAIN mem : m2[p] = IF p \in DOMAIN new THEN new[p] ELSE mem[p]
    BY <1>2, <1>6, <1>7
  <1>10. QED
    BY <1>2, <1>3, <1>7, <1>8, <1>9

-----------------------------------------------------------------------------
(* The room of the pages.                                                  *)

\* A page without cells takes no room.
LEMMA BlankTaken ==
    ASSUME NEW ty \in {"leaf", "internal"}, NEW least \in Nat
    PROVE  Taken(Blank(ty), least)
  <1>1. PICK p : p = Blank(ty)
    OBVIOUS
  <1>2. p.cells = <<>> /\ p.off = Capacity /\ Len(p.cells) = 0
    BY <1>1 DEF Blank
  <1>3. Capacity \in Nat /\ InternalLen \in Nat
    BY TreeAssumption
  <1>4. least * 0 = 0 /\ InternalLen * 0 = 0 /\ Capacity + 0 = Capacity
    BY <1>3
  <1>5. QED
    BY <1>1, <1>2, <1>3, <1>4 DEF Taken

\* One page is written.
LEMMA TakenReplaced ==
    ASSUME NEW m, NEW d, NEW least, TakenAll(m, d, least), NEW m2, NEW q, NEW x, Replaced(m, m2, q, x),
           Taken(x, least)
    PROVE  TakenAll(m2, d, least)
  BY DEF TakenAll, Replaced

\* A page is added, and perhaps another written.
LEMMA TakenParted ==
    ASSUME NEW m, NEW d, DOMAIN d = DOMAIN m, NEW least, TakenAll(m, d, least), NEW n,
           NEW m2, NEW q, NEW x, NEW y, Parted(m, m2, q, x, n, y) \/ Added(m, m2, n, y),
           NEW d2, NEW b, Added(d, d2, n, b), q \in DOMAIN m => Taken(x, least), Taken(y, least), Taken(b, least)
    PROVE  TakenAll(m2, d2, least)
  BY DEF TakenAll, Parted, Added

-----------------------------------------------------------------------------
(* The file while a transaction is at work.                                *)

\* What holds of the file while nothing is committed or rolled back and the root stays.
LEMMA FileKept ==
    ASSUME NEW m, NEW d, NEW o, NEW r, NEW f, NEW g, NEW c, FileHolds(m, d, o, r, f, g, c), r \in DOMAIN d,
           NEW d2, DOMAIN d \subseteq DOMAIN d2, \A p \in DOMAIN d : d2[p] = d[p],
           NEW o2, o2[r] = o[r] \/ o2[r] = c, NEW m2, m2[r].type = m[r].type,
           NEW f2, \A k \in Keys : TableOf[k] \in TablesOf[c] \/ f2[k] = f[k]
    PROVE  FileHolds(m2, d2, o2, r, f2, g, c)
  <1>1. HighRoot(d2, o2, r, c) \/ HasTree(d2, r, g)
    <2>1. CASE HighRoot(d, o, r, c)
      <3>1. o2[r] = c /\ d2[r] = Blank("internal")
        BY <2>1 DEF HighRoot
      <3>2. PICK p \in DOMAIN d : p < r /\ d[p].type = "internal"
        BY <2>1 DEF HighRoot
      <3>3. p \in DOMAIN d2 /\ d2[p] = d[p]
        BY <3>2
      <3>4. QED
        BY <3>1, <3>2, <3>3 DEF HighRoot
    <2>2. CASE HasTree(d, r, g)
      BY <2>2, TreeGrows
    <2>3. QED
      BY <2>1, <2>2 DEF FileHolds
  <1>2. r = 0 \/ m2[r].type = "internal"
    BY DEF FileHolds
  <1>3. \A k \in Keys : TableOf[k] \in TablesOf[c] \/ f2[k] = g[k]
    BY DEF FileHolds
  <1>4. \E q : HasTree(d2, q, g)
    <2>1. PICK q : HasTree(d, q, g)
      BY DEF FileHolds
    <2>2. HasTree(d2, q, g)
      BY <2>1, TreeGrows
    <2>3. QED
      BY <2>2
  <1>5. QED
    BY <1>1, <1>2, <1>3, <1>4 DEF FileHolds

-----------------------------------------------------------------------------
(* Steps that change no page.                                              *)

\* A client's operation after a step.
LEMMA OpNow ==
    ASSUME Shape, NEW c \in Clients, NEW x, NEW y, op' = [op EXCEPT ![c] = x], pc' = [pc EXCEPT ![c] = y]
    PROVE  op'[c] = x /\ pc'[c] = y
  <1>1. DOMAIN op = Clients /\ DOMAIN pc = Clients
    BY DEF Shape, OpsOK
  <1>2. QED
    BY <1>1

\* An operation sets out: the pages hold the rows, and an inserted key has none.
LEMMA StartGood ==
    ASSUME Shape, NEW c \in Clients, GoodNow(c), NEW kind, NEW k \in Keys, NEW r \in Rows \cup {NoRow},
           Start(c, kind, k, r)
    PROVE  GoodNow(c)'
  <1>1. PICK x, y : x = [Idle EXCEPT !.kind = kind, !.key = k, !.row = r, !.page = root] /\ y = "descend"
    OBVIOUS
  <1>2. x = [kind |-> kind, key |-> k, row |-> r, path |-> <<>>, page |-> root, sep |-> 0, right |-> 0]
    BY <1>1 DEF Idle
  <1>3. x.kind = kind /\ x.key = k /\ x.row = r /\ x.path = <<>> /\ x.page = root
    BY <1>2
  <1>4. op' = [op EXCEPT ![c] = x] /\ pc' = [pc EXCEPT ![c] = y]
    BY <1>1 DEF Start, Goto
  <1>5. op'[c] = x /\ pc'[c] = y
    BY <1>4, OpNow
  <1>6. HasTree(mem, root, rows)
    BY DEF GoodNow, Good, MemHolds, Start
  <1>7. PICK T, loc, h : Tree(mem, root, T, loc, h, rows)
    BY <1>6 DEF HasTree
  <1>8. Way(mem, root, T, loc, h, x)
    <2>1. PICK q : q = root
      OBVIOUS
    <2>2. Tree(mem, q, T, loc, h, rows) /\ x.page = q
      BY <1>3, <1>7, <2>1
    <2>3. x.path = <<>> /\ x.key \in Keys
      BY <1>3
    <2>4. Way(mem, q, T, loc, h, x)
      BY <2>2, <2>3, WayBegins
    <2>5. QED
      BY <2>1, <2>4
  <1>9. MemHolds(mem, root, rows, x, y)
    <2>1. x.kind = "insert" => rows[x.key] = NoRow
      BY <1>3 DEF Start
    <2>2. QED
      BY <1>1, <1>7, <1>8, <2>1 DEF MemHolds
  <1>10. Sent(x, c)
    BY <1>3 DEF Sent, Start
  <1>11. FileHolds(mem, disk, owner, root, rows, saved, c)
    BY DEF GoodNow, Good
  <1>12. Good(mem, disk, owner, root, rows, saved, x, y, c)
    BY <1>9, <1>10, <1>11 DEF Good
  <1>13. UNCHANGED <<mem, disk, owner, root, rows, saved>>
    BY DEF Start
  <1>14. QED
    BY <1>5, <1>12, <1>13 DEF GoodNow

\* It goes down one level.
LEMMA DescendGood ==
    ASSUME Shape, NEW c \in Clients, GoodNow(c), Descend(c)
    PROVE  GoodNow(c)'
  <1>1. PICK w : w = op[c]
    OBVIOUS
  <1>2. w \in OpSet(DOMAIN mem) /\ pc[c] = "descend" /\ mem[w.page].type = "internal"
    BY <1>1, ShapeParts DEF Descend
  <1>3. /\ w = [kind |-> w.kind, key |-> w.key, row |-> w.row, path |-> w.path, page |-> w.page,
                sep |-> w.sep, right |-> w.right]
        /\ w.path \in Seq(DOMAIN mem) /\ w.page \in DOMAIN mem
    BY <1>2, OpFields
  <1>4. PICK child, path : child = FindChildPageID(mem[w.page], w.key) /\ path = Append(w.path, w.page)
    OBVIOUS
  <1>5. PICK x, y : y = "descend" /\ x = [kind |-> w.kind, key |-> w.key, row |-> w.row, path |-> path,
                                          page |-> child, sep |-> w.sep, right |-> w.right]
    OBVIOUS
  <1>6. x.kind = w.kind /\ x.key = w.key /\ x.row = w.row /\ x.path = path /\ x.page = child
    BY <1>5
  <1>7. op'[c] = x /\ pc'[c] = y
    <2>1. DOMAIN op = Clients
      BY DEF Shape, OpsOK
    <2>2. op' = [op EXCEPT ![c].path = path, ![c].page = child] /\ pc' = pc
      BY <1>1, <1>4 DEF Descend
    <2>3. [w EXCEPT !.path = path, !.page = child] = x
      <3>1. PICK ki, ke, ro, pa, pg, se, ri :
              /\ ki = w.kind /\ ke = w.key /\ ro = w.row /\ pa = w.path /\ pg = w.page
              /\ se = w.sep /\ ri = w.right
        OBVIOUS
      <3>2. w = [kind |-> ki, key |-> ke, row |-> ro, path |-> pa, page |-> pg, sep |-> se, right |-> ri]
        BY <1>3, <3>1
      <3>3. PICK v : v = [w EXCEPT !.path = path, !.page = child]
        OBVIOUS
      <3>4. v = [kind |-> ki, key |-> ke, row |-> ro, path |-> path, page |-> child, sep |-> se, right |-> ri]
        BY <3>2, <3>3
      <3>5. QED
        BY <1>5, <3>1, <3>3, <3>4
    <2>4. QED
      BY <1>1, <1>2, <1>5, <2>1, <2>2, <2>3
  <1>8. PICK r, f : r = root /\ f = rows
    OBVIOUS
  <1>9. /\ \E T, loc, h : Tree(mem, r, T, loc, h, f) /\ Way(mem, r, T, loc, h, w)
        /\ w.kind = "insert" => f[w.key] = NoRow
        /\ Sent(w, c) /\ FileHolds(mem, disk, owner, root, rows, saved, c)
    BY <1>1, <1>2, <1>8 DEF GoodNow, Good, MemHolds
  <1>10. PICK T, loc, h : Tree(mem, r, T, loc, h, f) /\ Way(mem, r, T, loc, h, w)
    BY <1>9
  <1>11. Way(mem, r, T, loc, h, x)
    <2>1. WellFormed(mem[w.page], DOMAIN mem)
      BY <1>3, ShapeParts
    <2>2. x.path = Append(w.path, w.page) /\ x.page = FindChildPageID(mem[w.page], w.key) /\ x.key = w.key
      BY <1>4, <1>6
    <2>3. PICK img : img = mem
      OBVIOUS
    <2>4. /\ Tree(img, r, T, loc, h, f) /\ Way(img, r, T, loc, h, w)
          /\ w.path \in Seq(DOMAIN img) /\ w.page \in DOMAIN img
          /\ img[w.page].type = "internal" /\ WellFormed(img[w.page], DOMAIN img)
          /\ x.page = FindChildPageID(img[w.page], w.key)
      BY <1>2, <1>3, <1>10, <2>1, <2>2, <2>3
    <2>5. Way(img, r, T, loc, h, x)
      BY <2>2, <2>4, WayDescends
    <2>6. QED
      BY <2>3, <2>5
  <1>12. MemHolds(mem, root, rows, x, y)
    BY <1>5, <1>6, <1>8, <1>9, <1>10, <1>11 DEF MemHolds
  <1>13. Sent(x, c)
    BY <1>6, <1>9 DEF Sent
  <1>14. Good(mem, disk, owner, root, rows, saved, x, y, c)
    BY <1>9, <1>12, <1>13 DEF Good
  <1>15. UNCHANGED <<mem, disk, owner, root, rows, saved>>
    BY DEF Descend
  <1>16. QED
    BY <1>7, <1>14, <1>15 DEF GoodNow

\* It fails before it has changed anything.
LEMMA GiveUpGood ==
    ASSUME Shape, NEW c \in Clients, GoodNow(c), DescendFails(c) \/ KeyNotFound(c)
    PROVE  GoodNow(c)'
  <1>1. PICK x, y : x = Idle /\ y = "failed"
    OBVIOUS
  <1>2. op' = [op EXCEPT ![c] = x] /\ pc' = [pc EXCEPT ![c] = y]
    BY <1>1 DEF DescendFails, KeyNotFound, Fail, Goto
  <1>3. op'[c] = x /\ pc'[c] = y
    BY <1>2, OpNow
  <1>4. UNCHANGED <<mem, disk, owner, root, rows, saved>>
    BY DEF DescendFails, KeyNotFound
  <1>5. FileHolds(mem, disk, owner, root, rows, saved, c)
    BY DEF GoodNow, Good
  <1>6. Good(mem, disk, owner, root, rows, saved, x, y, c)
    BY <1>1, <1>5 DEF Good, MemHolds
  <1>7. QED
    BY <1>3, <1>4, <1>6 DEF GoodNow

-----------------------------------------------------------------------------
(* Steps on a leaf.                                                        *)

\* The leaf of an operation, in a good tree.
LEMMA LeafReached ==
    ASSUME Shape, NEW c \in Clients, GoodNow(c), AtLeaf(c)
    PROVE  /\ \E T, loc, h : /\ Tree(mem, root, T, loc, h, rows) /\ Way(mem, root, T, loc, h, op[c])
                             /\ op[c].page \in T /\ op[c].key \in loc[op[c].page] /\ h[op[c].page] = 0
                             /\ loc[op[c].page] \subseteq Keys /\ LeafHolds(mem[op[c].page], loc[op[c].page], rows)
           /\ op[c].kind = "insert" => rows[op[c].key] = NoRow
           /\ Sent(op[c], c) /\ FileHolds(mem, disk, owner, root, rows, saved, c)
  <1>1. pc[c] = "descend" /\ mem[op[c].page].type = "leaf"
    BY DEF AtLeaf
  <1>2. PICK w, r, f : w = op[c] /\ r = root /\ f = rows
    OBVIOUS
  <1>3. /\ \E T, loc, h : Tree(mem, r, T, loc, h, f) /\ Way(mem, r, T, loc, h, w)
        /\ w.kind = "insert" => f[w.key] = NoRow
        /\ Sent(w, c) /\ FileHolds(mem, disk, owner, root, rows, saved, c)
    BY <1>1, <1>2 DEF GoodNow, Good, MemHolds
  <1>4. PICK T, loc, h : Tree(mem, r, T, loc, h, f) /\ Way(mem, r, T, loc, h, w)
    BY <1>3
  <1>5. PICK img : img = mem
    OBVIOUS
  <1>6. /\ w.page \in T /\ w.key \in loc[w.page] /\ h[w.page] = 0 /\ loc[w.page] \subseteq Keys
        /\ LeafHolds(img[w.page], loc[w.page], f)
    <2>1. Tree(img, r, T, loc, h, f) /\ Way(img, r, T, loc, h, w) /\ img[w.page].type = "leaf"
      BY <1>1, <1>2, <1>4, <1>5
    <2>2. QED
      BY <2>1, LeafOfWay
  <1>7. QED
    BY <1>2, <1>3, <1>4, <1>5, <1>6

\* The cell of the operation's key on its leaf.
LEMMA CellFound ==
    ASSUME NEW D, NEW p, LeafOK(p, D), NEW k \in Nat, NEW i, i = SearchInLeaf(p, k), i # 0
    PROVE  i \in 1..Len(p.cells) /\ p.cells[i].key = k /\ p.cells \in Seq(LeafCell)
  <1>1. WellFormed(p, D) /\ p.type = "leaf"
    BY DEF WellFormed, LeafOK, Sound, PageSet
  <1>2. p.cells \in Seq(LeafCell) /\ Sorted(p.cells) /\ CellSet(LeafCell) /\ DOMAIN p.cells = 1..Len(p.cells)
    BY <1>1, PageParts
  <1>3. \/ i \in DOMAIN p.cells /\ p.cells[i].key = k
        \/ i = 0 /\ \A n \in DOMAIN p.cells : p.cells[n].key # k
    BY <1>2, SearchInLeafFacts
  <1>4. QED
    BY <1>2, <1>3

\* The row of k is gone, others are as they were.
Without(f, f0, k) == f0[k] = NoRow /\ \A x \in Keys : x # k => f0[x] = f[x]

\* The page that takes the cell: the leaf without the cell of the key.
LEMMA TargetRoom ==
    ASSUME Shape, NEW c \in Clients, NEW least \in Nat, AllTaken(least), AtLeaf(c),
           op[c].kind # "delete", HasOldCell(c)
    PROVE  /\ LeafOK(Target(c), DOMAIN mem) /\ Taken(Target(c), least)
           /\ Target(c).next = mem[op[c].page].next
           /\ op[c].kind = "insert" => Target(c) = mem[op[c].page]
           /\ op[c].kind # "insert" => \E i \in 1..Len(mem[op[c].page].cells) :
                /\ Target(c).cells = RemoveAt(mem[op[c].page].cells, i)
                /\ mem[op[c].page].cells[i].key = op[c].key
  <1>1. PICK p, w, D : p = mem[op[c].page] /\ w = op[c] /\ D = DOMAIN mem
    OBVIOUS
  <1>2. LeafOK(p, D) /\ w.page \in D /\ w.key \in Nat /\ Leaf(c) = p
    BY <1>1, AtLeafFacts
  <1>3. Taken(p, least)
    BY <1>1, <1>2 DEF AllTaken, TakenAll
  <1>4. CASE w.kind = "insert"
    BY <1>1, <1>2, <1>3, <1>4 DEF Target
  <1>5. CASE w.kind # "insert"
    <2>1. PICK i, q, k : k = w.key /\ i = SearchInLeaf(p, k) /\ q = DeleteCell(p, i)
      OBVIOUS
    <2>2. i # 0 /\ Target(c) = q /\ k \in Nat
      BY <1>1, <1>2, <1>5, <2>1 DEF HasOldCell, Target
    <2>3. i \in 1..Len(p.cells) /\ p.cells[i].key = k /\ p.cells \in Seq(LeafCell)
      BY <1>2, <2>1, <2>2, CellFound
    <2>4. LeafOK(q, D) /\ Taken(q, least) /\ q.cells = RemoveAt(p.cells, i) /\ q.next = p.next
      BY <1>2, <1>3, <2>1, <2>3, TakenDelete
    <2>5. QED
      BY <1>1, <1>5, <2>1, <2>2, <2>3, <2>4
  <1>6. QED
    BY <1>4, <1>5

\* The leaf that takes a cell holds every row of its share but the one being written.
LEMMA TargetHolds ==
    ASSUME Shape, NEW c \in Clients, NEW least \in Nat, AllTaken(least), AtLeaf(c),
           op[c].kind # "delete", HasOldCell(c),
           NEW S, S \subseteq Keys, op[c].key \in S, NEW f, LeafHolds(mem[op[c].page], S, f),
           op[c].kind = "insert" => f[op[c].key] = NoRow
    PROVE  \E f0 : Without(f, f0, op[c].key) /\ LeafHolds(Target(c), S, f0)
  <1>1. PICK p, k, t : p = mem[op[c].page] /\ k = op[c].key /\ t = Target(c)
    OBVIOUS
  <1>2. CASE op[c].kind = "insert"
    <2>1. t = p
      BY <1>1, <1>2, TargetRoom
    <2>2. QED
      BY <1>1, <1>2, <2>1 DEF Without
  <1>3. CASE op[c].kind # "insert"
    <2>1. PICK f0 : f0 = [x \in Keys |-> IF x = k THEN NoRow ELSE f[x]]
      OBVIOUS
    <2>2. k \in Keys /\ Without(f, f0, k)
      BY <1>1, <2>1 DEF Without
    <2>3. RowChanged(S, f, f0, k, NoRow)
      BY <2>2 DEF RowChanged, Without
    <2>4. LeafOK(p, DOMAIN mem)
      BY <1>1, AtLeafFacts
    <2>5. p.cells \in Seq(LeafCell)
      BY <2>4, PageFields DEF LeafOK, Sound
    <2>6. PICK i \in 1..Len(p.cells) : t.cells = RemoveAt(p.cells, i) /\ p.cells[i].key = k
      BY <1>1, <1>3, TargetRoom
    <2>7. RowChanged(S, f, f0, p.cells[i].key, NoRow)
      BY <2>3, <2>6
    <2>8. LeafHolds(p, S, f)
      BY <1>1
    <2>9. LeafHolds(t, S, f0)
      BY <2>5, <2>6, <2>7, <2>8, LeafDeletes
    <2>10. QED
      BY <1>1, <2>2, <2>9
  <1>4. QED
    BY <1>2, <1>3

\* Only rows of c's tables changed; only pages were added.
OthersSame(c, f, g) == \A k \in Keys : TableOf[k] \in TablesOf[c] \/ g[k] = f[k]
OnlyAdded(d, d2) == DOMAIN d \subseteq DOMAIN d2 /\ \A p \in DOMAIN d : d2[p] = d[p]

\* A step that keeps the root and ends no transaction.
LEMMA GoodMade ==
    ASSUME Shape, NEW c \in Clients, FileHolds(mem, disk, owner, root, rows, saved, c),
           NEW m2, m2 = mem', NEW d2, d2 = disk', NEW o2, o2 = owner', NEW f2, f2 = rows',
           NEW x, x = op'[c], NEW y, y = pc'[c], y # "descend", UNCHANGED <<root, saved>>,
           OnlyAdded(disk, d2), Claimed(owner, o2, DOMAIN mem, c), m2[root].type = mem[root].type,
           OthersSame(c, rows, f2),
           MemHolds(m2, root, f2, x, y)
    PROVE  GoodNow(c)'
  <1>1. root \in DOMAIN mem /\ root \in DOMAIN disk
    BY DEF Shape, PagesOK
  <1>2. PICK r, g : r = root /\ g = saved
    OBVIOUS
  <1>3. o2[r] = owner[r] \/ o2[r] = c
    BY <1>1, <1>2 DEF Claimed
  <1>4. FileHolds(mem, disk, owner, r, rows, g, c) /\ r \in DOMAIN disk /\ m2[r].type = mem[r].type
    BY <1>1, <1>2
  <1>5. FileHolds(m2, d2, o2, r, f2, g, c)
    <2>1. /\ DOMAIN disk \subseteq DOMAIN d2 /\ \A p \in DOMAIN disk : d2[p] = disk[p]
          /\ \A k \in Keys : TableOf[k] \in TablesOf[c] \/ f2[k] = rows[k]
      BY DEF OnlyAdded, OthersSame
    <2>2. QED
      BY <1>3, <1>4, <2>1, FileKept
  <1>6. Good(m2, d2, o2, r, f2, g, x, y, c)
    BY <1>2, <1>5 DEF Good
  <1>7. QED
    BY <1>2, <1>6 DEF GoodNow

\* The rows when one of a client's own keys changed.
SetAt(f, g, k, row) == \A x \in Keys : g[x] = IF x = k THEN row ELSE f[x]

\* Writing a row of a client's table sets that row and changes none of another client's tables.
LEMMA RowSet ==
    ASSUME Shape, NEW k \in Keys, NEW row, NEW f2, f2 = [rows EXCEPT ![k] = row],
           NEW c, TableOf[k] \in TablesOf[c]
    PROVE  SetAt(rows, f2, k, row) /\ OthersSame(c, rows, f2)
  <1>1. DOMAIN rows = Keys
    BY DEF Shape, RowsOK
  <1>2. \A x \in Keys : f2[x] = IF x = k THEN row ELSE rows[x]
    BY <1>1
  <1>3. QED
    BY <1>2 DEF SetAt, OthersSame

\* A row is deleted.
LEMMA DeleteRowHeld ==
    ASSUME Shape, NEW c \in Clients, NEW least \in Nat, AllTaken(least), DeleteRow(c)
    PROVE  AllTaken(least)' /\ (GoodNow(c) => GoodNow(c)')
  <1>1. AtLeaf(c)
    BY DEF DeleteRow
  <1>2. PICK p, w, D, k, q : p = mem[op[c].page] /\ w = op[c] /\ D = DOMAIN mem /\ k = w.key /\ q = w.page
    OBVIOUS
  <1>3. LeafOK(p, D) /\ q \in D /\ k \in Nat /\ k \in Keys /\ Leaf(c) = p /\ p.type = "leaf" /\ p = mem[q]
    BY <1>1, <1>2, AtLeafFacts
  <1>4. PICK i, x : i = SearchInLeaf(p, k) /\ x = DeleteCell(p, i)
    OBVIOUS
  <1>5. i # 0 /\ FinishPages(c, Only(q, x))
    BY <1>2, <1>3, <1>4 DEF DeleteRow
  <1>6. i \in 1..Len(p.cells) /\ p.cells[i].key = k /\ p.cells \in Seq(LeafCell)
    BY <1>3, <1>4, <1>5, CellFound
  <1>7. Taken(p, least)
    BY <1>2, <1>3 DEF AllTaken, TakenAll
  <1>8. LeafOK(x, D) /\ Taken(x, least) /\ x.cells = RemoveAt(p.cells, i) /\ x.next = p.next
    BY <1>3, <1>4, <1>6, <1>7, TakenDelete
  <1>9. x.type = "leaf"
    BY <1>8 DEF LeafOK, Sound, PageSet
  <1>10. PICK m2, o2, f2 : m2 = mem' /\ o2 = owner' /\ f2 = rows'
    OBVIOUS
  <1>11. Replaced(mem, m2, q, x) /\ Claimed(owner, o2, D, c)
    BY <1>2, <1>3, <1>5, <1>10, PageWritten
  <1>12. UNCHANGED <<disk, root, saved>> /\ f2 = [rows EXCEPT ![k] = NoRow]
    BY <1>2, <1>10 DEF DeleteRow
  <1>13. AllTaken(least)'
    <2>1. TakenAll(m2, disk, least)
      BY <1>8, <1>11, TakenReplaced DEF AllTaken
    <2>2. QED
      BY <1>10, <1>12, <2>1 DEF AllTaken
  <1>14. ASSUME GoodNow(c) PROVE GoodNow(c)'
    <2>1. PICK r, f : r = root /\ f = rows
      OBVIOUS
    <2>2. PICK T, loc, h : /\ Tree(mem, r, T, loc, h, f) /\ q \in T /\ k \in loc[q] /\ h[q] = 0
                           /\ loc[q] \subseteq Keys /\ LeafHolds(p, loc[q], f)
      BY <1>1, <1>2, <1>14, <2>1, LeafReached
    <2>3. Sent(w, c) /\ FileHolds(mem, disk, owner, root, rows, saved, c)
      BY <1>1, <1>2, <1>14, LeafReached
    <2>15. SetAt(rows, f2, k, NoRow) /\ OthersSame(c, rows, f2)
      <3>1. TableOf[k] \in TablesOf[c]
        BY <1>2, <2>3 DEF Sent
      <3>2. QED
        BY <1>3, <1>12, <3>1, RowSet
    <2>4. /\ \A y \in Keys : f2[y] = IF y = k THEN NoRow ELSE f[y]
          /\ \A y \in Keys : y # k => f2[y] = f[y]
      BY <2>1, <2>15 DEF SetAt
    <2>5. PICK S : S = loc[q]
      OBVIOUS
    <2>6. RowChanged(S, f, f2, p.cells[i].key, NoRow)
      BY <1>6, <2>2, <2>4, <2>5 DEF RowChanged
    <2>7. LeafHolds(x, S, f2)
      BY <1>6, <1>8, <2>2, <2>5, <2>6, LeafDeletes
    <2>8. Tree(m2, r, T, loc, h, f2)
      <3>1. DOMAIN m2 = DOMAIN mem /\ m2[q] = x /\ \A y \in DOMAIN mem : y # q => m2[y] = mem[y]
        BY <1>11 DEF Replaced
      <3>2. m2[q].type = "leaf" /\ LeafHolds(m2[q], loc[q], f2) /\ m2[q].next = mem[q].next
        BY <1>3, <1>8, <1>9, <2>5, <2>7, <3>1
      <3>3. QED
        BY <2>2, <2>4, <3>1, <3>2, LeafWritten
    <2>9. op'[c] = Idle /\ pc'[c] = "idle"
      <3>1. PICK a, z : a = Idle /\ z = "idle"
        OBVIOUS
      <3>2. op' = [op EXCEPT ![c] = a] /\ pc' = [pc EXCEPT ![c] = z]
        BY <3>1 DEF DeleteRow, Finish, Goto
      <3>3. QED
        BY <3>1, <3>2, OpNow
    <2>10. PICK a, z, d2 : a = op'[c] /\ z = pc'[c] /\ d2 = disk'
      OBVIOUS
    <2>11. MemHolds(m2, root, f2, a, z) /\ z # "descend"
      BY <2>1, <2>8, <2>9, <2>10 DEF MemHolds, HasTree
    <2>12. m2[root].type = mem[root].type
      <3>1. root \in D
        BY <1>2, ShapeParts
      <3>2. QED
        BY <1>2, <1>3, <1>9, <1>11, <3>1 DEF Replaced
    <2>13. OnlyAdded(disk, d2)
      BY <1>12, <2>10 DEF OnlyAdded
    <2>14. Claimed(owner, o2, DOMAIN mem, c) /\ UNCHANGED <<root, saved>>
      BY <1>2, <1>11, <1>12
    <2>16. QED
      BY <1>10, <2>3, <2>10, <2>11, <2>12, <2>13, <2>14, <2>15, GoodMade
  <1>15. QED
    BY <1>13, <1>14

\* A row is put on a leaf with room for it.
LEMMA PutRowHeld ==
    ASSUME Shape, NEW c \in Clients, NEW least \in Nat, NEW most \in Nat, RowsFit(least, most),
           AllTaken(least), PutRow(c)
    PROVE  AllTaken(least)' /\ (GoodNow(c) => GoodNow(c)')
  <1>1. AtLeaf(c) /\ op[c].kind # "delete" /\ HasOldCell(c)
    BY DEF PutRow
  <1>2. PICK t, e, w, D, k, q : /\ t = Target(c) /\ e = NewCell(c) /\ w = op[c] /\ D = DOMAIN mem
                                /\ k = w.key /\ q = w.page
    OBVIOUS
  <1>3. q \in D /\ k \in Nat /\ k \in Keys /\ e \in LeafCell /\ w.row \in Rows /\ mem[q].type = "leaf"
    BY <1>1, <1>2, AtLeafFacts
  <1>4. LeafOK(t, D) /\ Taken(t, least) /\ t.next = mem[q].next
    BY <1>1, <1>2, TargetRoom
  <1>5. e.key = k /\ e.row = w.row
    BY <1>2 DEF NewCell
  <1>6. least <= CellLen(e)
    BY <1>3, <1>5, CellSizes DEF RowsFit
  <1>7. PICK i, x : i = FindInsertPos(t, k) /\ x = InsertCellAt(t, i, e)
    OBVIOUS
  <1>8. Fits(t, e) /\ FinishPages(c, Only(q, x))
    BY <1>2, <1>7 DEF PutRow
  <1>9. WellFormed(t, D) /\ t.type = "leaf"
    BY <1>4 DEF WellFormed, LeafOK, Sound, PageSet
  <1>10. t.cells \in Seq(LeafCell) /\ Sorted(t.cells) /\ CellSet(LeafCell)
    BY <1>9, PageParts
  <1>11. Behind(t.cells, k, i)
    BY <1>3, <1>7, <1>10, FindInsertPosFacts
  <1>12. i \in 1..(Len(t.cells) + 1)
    BY <1>11 DEF Behind
  <1>13. Taken(x, least) /\ x.cells = InsertAt(t.cells, i, e) /\ x.type = "leaf" /\ x.next = t.next
    BY <1>3, <1>4, <1>6, <1>7, <1>8, <1>9, <1>12, TakenInsert
  <1>14. PICK m2, o2, f2 : m2 = mem' /\ o2 = owner' /\ f2 = rows'
    OBVIOUS
  <1>15. Replaced(mem, m2, q, x) /\ Claimed(owner, o2, D, c)
    BY <1>2, <1>3, <1>8, <1>14, PageWritten
  <1>16. UNCHANGED <<disk, root, saved>> /\ f2 = [rows EXCEPT ![k] = w.row]
    BY <1>2, <1>14 DEF PutRow
  <1>17. AllTaken(least)'
    <2>1. TakenAll(m2, disk, least)
      BY <1>13, <1>15, TakenReplaced DEF AllTaken
    <2>2. QED
      BY <1>14, <1>16, <2>1 DEF AllTaken
  <1>18. ASSUME GoodNow(c) PROVE GoodNow(c)'
    <2>1. PICK r, f : r = root /\ f = rows
      OBVIOUS
    <2>2. PICK T, loc, h : /\ Tree(mem, r, T, loc, h, f) /\ q \in T /\ k \in loc[q] /\ h[q] = 0
                           /\ loc[q] \subseteq Keys /\ LeafHolds(mem[q], loc[q], f)
      BY <1>1, <1>2, <1>18, <2>1, LeafReached
    <2>3. /\ Sent(w, c) /\ FileHolds(mem, disk, owner, root, rows, saved, c)
          /\ w.kind = "insert" => f[k] = NoRow
      BY <1>1, <1>2, <1>18, <2>1, LeafReached
    <2>17. SetAt(rows, f2, k, w.row) /\ OthersSame(c, rows, f2)
      <3>1. TableOf[k] \in TablesOf[c]
        BY <1>2, <2>3 DEF Sent
      <3>2. PICK row : row = w.row
        OBVIOUS
      <3>3. QED
        BY <1>3, <1>16, <3>1, <3>2, RowSet
    <2>4. /\ \A y \in Keys : f2[y] = IF y = k THEN w.row ELSE f[y]
          /\ \A y \in Keys : y # k => f2[y] = f[y]
      BY <2>1, <2>17 DEF SetAt
    <2>5. PICK S : S = loc[q]
      OBVIOUS
    <2>6. PICK f0 : Without(f, f0, k) /\ LeafHolds(t, S, f0)
      BY <1>1, <1>2, <2>2, <2>3, <2>5, TargetHolds
    <2>7. e.row # NoRow
      BY <1>1, <1>2, <1>5, <2>3 DEF Sent
    <2>8. RowChanged(S, f0, f2, e.key, e.row)
      BY <1>5, <2>2, <2>4, <2>5, <2>6 DEF RowChanged, Without
    <2>9. LeafHolds(x, S, f2)
      <3>1. f0[e.key] = NoRow /\ e.key \in S /\ Behind(t.cells, e.key, i)
        BY <1>5, <1>11, <2>2, <2>5, <2>6 DEF Without
      <3>2. QED
        BY <1>3, <1>10, <1>13, <2>6, <2>7, <2>8, <3>1, LeafTakes
    <2>10. Tree(m2, r, T, loc, h, f2)
      <3>1. DOMAIN m2 = DOMAIN mem /\ m2[q] = x /\ \A y \in DOMAIN mem : y # q => m2[y] = mem[y]
        BY <1>15 DEF Replaced
      <3>2. m2[q].type = "leaf" /\ LeafHolds(m2[q], loc[q], f2) /\ m2[q].next = mem[q].next
        BY <1>4, <1>13, <2>5, <2>9, <3>1
      <3>3. QED
        BY <2>2, <2>4, <3>1, <3>2, LeafWritten
    <2>11. op'[c] = Idle /\ pc'[c] = "idle"
      <3>1. PICK a, z : a = Idle /\ z = "idle"
        OBVIOUS
      <3>2. op' = [op EXCEPT ![c] = a] /\ pc' = [pc EXCEPT ![c] = z]
        BY <3>1 DEF PutRow, Finish, Goto
      <3>3. QED
        BY <3>1, <3>2, OpNow
    <2>12. PICK a, z, d2 : a = op'[c] /\ z = pc'[c] /\ d2 = disk'
      OBVIOUS
    <2>13. MemHolds(m2, root, f2, a, z) /\ z # "descend"
      BY <2>1, <2>10, <2>11, <2>12 DEF MemHolds, HasTree
    <2>14. m2[root].type = mem[root].type
      <3>1. root \in D
        BY <1>2, ShapeParts
      <3>2. QED
        BY <1>2, <1>3, <1>13, <1>15, <3>1 DEF Replaced
    <2>15. OnlyAdded(disk, d2)
      BY <1>16, <2>12 DEF OnlyAdded
    <2>16. Claimed(owner, o2, DOMAIN mem, c) /\ UNCHANGED <<root, saved>>
      BY <1>2, <1>15, <1>16
    <2>18. QED
      BY <1>14, <2>3, <2>12, <2>13, <2>14, <2>15, <2>16, <2>17, GoodMade
  <1>19. QED
    BY <1>17, <1>18

\* An operation that has handed a separator and a new page up.
LEMMA HandUpNow ==
    ASSUME Shape, NEW c \in Clients, NEW sep, HandUp(c, sep), NEW w, w = op[c], NEW x, x = op'[c]
    PROVE  /\ x.path = w.path /\ x.page = w.page /\ x.key = w.key /\ x.sep = sep /\ x.right = NextPage
           /\ pc'[c] = "grow"
  <1>1. w \in OpSet(DOMAIN mem) /\ DOMAIN op = Clients /\ DOMAIN pc = Clients
    BY ShapeParts DEF Shape, OpsOK
  <1>2. PICK n : n = NextPage
    OBVIOUS
  <1>3. op' = [op EXCEPT ![c].sep = sep, ![c].right = n] /\ pc' = [pc EXCEPT ![c] = "grow"]
    BY <1>2 DEF HandUp, Goto
  <1>4. x = [w EXCEPT !.sep = sep, !.right = n]
    BY <1>1, <1>3
  <1>5. PICK ki, ke, ro, pa, pg, se, ri :
          /\ ki = w.kind /\ ke = w.key /\ ro = w.row /\ pa = w.path /\ pg = w.page
          /\ se = w.sep /\ ri = w.right
    OBVIOUS
  <1>6. w = [kind |-> ki, key |-> ke, row |-> ro, path |-> pa, page |-> pg, sep |-> se, right |-> ri]
    BY <1>1, <1>5, OpFields
  <1>7. x = [kind |-> ki, key |-> ke, row |-> ro, path |-> pa, page |-> pg, sep |-> sep, right |-> n]
    <2>1. PICK u, v : u = w /\ v = [u EXCEPT !.sep = sep, !.right = n]
      OBVIOUS
    <2>5. u = [kind |-> ki, key |-> ke, row |-> ro, path |-> pa, page |-> pg, sep |-> se, right |-> ri]
      BY <1>6, <2>1
    <2>6. v = [u EXCEPT !.sep = sep, !.right = n]
      BY <2>1
    <2>2. v = [kind |-> ki, key |-> ke, row |-> ro, path |-> pa, page |-> pg, sep |-> sep, right |-> n]
      BY <2>5, <2>6
    <2>3. x = v
      BY <1>4, <2>1
    <2>4. QED
      BY <2>2, <2>3
  <1>8. pc'[c] = "grow"
    BY <1>1, <1>3
  <1>9. QED
    BY <1>2, <1>5, <1>7, <1>8

\* A leaf is split into two.
LEMMA SplitLeafHeld ==
    ASSUME Shape, NEW c \in Clients, NEW least \in Nat, NEW most \in Nat, RowsFit(least, most),
           AllTaken(least), SplitLeaf(c)
    PROVE  AllTaken(least)' /\ (GoodNow(c) => GoodNow(c)')
  <1>1. AtLeaf(c) /\ op[c].kind # "delete" /\ HasOldCell(c) /\ Allocate("leaf")
    BY DEF SplitLeaf
  <1>2. PICK t, e, w, D, k, q, n : /\ t = Target(c) /\ e = NewCell(c) /\ w = op[c] /\ D = DOMAIN mem
                                   /\ k = w.key /\ q = w.page /\ n = NextPage
    OBVIOUS
  <1>3. q \in D /\ k \in Nat /\ k \in Keys /\ e \in LeafCell /\ w.row \in Rows /\ mem[q].type = "leaf"
    BY <1>1, <1>2, AtLeafFacts
  <1>4. LeafOK(t, D) /\ Taken(t, least) /\ t.next = mem[q].next
    BY <1>1, <1>2, TargetRoom
  <1>5. e.key = k /\ e.row = w.row
    BY <1>2 DEF NewCell
  <1>6. PICK cells, mid, left, right, l, r, sep :
          /\ cells = SortCells(Append(t.cells, e)) /\ mid = Len(cells) \div 2
          /\ left = AddCells(ResetPage(t), SubSeq(cells, 1, mid))
          /\ right = AddCells(Blank("leaf"), SubSeq(cells, mid + 1, Len(cells)))
          /\ l = [left EXCEPT !.next = n] /\ r = [right EXCEPT !.next = t.next]
          /\ sep = cells[mid + 1].key
    OBVIOUS
  <1>7. LeafSplit(t, e, l, r, n, sep)
    BY <1>6 DEF LeafSplit
  <1>8. /\ l.type = "leaf" /\ Taken(l, least) /\ r.type = "leaf" /\ Taken(r, least)
        /\ l.next = n /\ r.next = t.next
    BY <1>3, <1>4, <1>7, LeafSplitCells
  <1>9. FinishPages(c, [p \in {q, n} |-> IF p = n THEN r ELSE l]) /\ HandUp(c, sep)
    BY <1>2, <1>6 DEF SplitLeaf
  <1>10. PICK m2, d2, o2, f2, ty, b : /\ m2 = mem' /\ d2 = disk' /\ o2 = owner' /\ f2 = rows' /\ ty = "leaf"
                                      /\ b = Blank(ty)
    OBVIOUS
  <1>11. Added(disk, d2, n, b) /\ n \notin D
    BY <1>1, <1>2, <1>10, PageAllocated
  <1>12. Parted(mem, m2, q, l, n, r) /\ Claimed(owner, o2, D, c)
    <2>1. q \in DOMAIN mem /\ n \notin DOMAIN mem
      BY <1>2, <1>3, <1>11
    <2>2. FinishPages(c, [p \in {q, n} |-> IF p = n THEN r ELSE l])
      BY <1>9
    <2>3. Parted(mem, mem', q, l, n, r) /\ Claimed(owner, owner', DOMAIN mem, c)
      BY <2>1, <2>2, PagesParted
    <2>4. QED
      BY <1>2, <1>10, <2>3
  <1>13. UNCHANGED <<root, saved>> /\ f2 = [rows EXCEPT ![k] = w.row]
    BY <1>2, <1>10 DEF SplitLeaf
  <1>14. AllTaken(least)'
    <2>1. Taken(b, least) /\ DOMAIN disk = DOMAIN mem
      BY <1>10, BlankTaken DEF Shape, PagesOK
    <2>2. TakenAll(m2, d2, least)
      BY <1>8, <1>11, <1>12, <2>1, TakenParted DEF AllTaken
    <2>3. QED
      BY <1>10, <2>2 DEF AllTaken
  <1>15. ASSUME GoodNow(c) PROVE GoodNow(c)'
    <2>1. PICK rt, f : rt = root /\ f = rows
      OBVIOUS
    <2>2. PICK T, loc, h : /\ Tree(mem, rt, T, loc, h, f) /\ q \in T /\ k \in loc[q] /\ h[q] = 0
                           /\ loc[q] \subseteq Keys /\ LeafHolds(mem[q], loc[q], f)
                           /\ Way(mem, rt, T, loc, h, w)
      BY <1>1, <1>2, <1>15, <2>1, LeafReached
    <2>3. /\ Sent(w, c) /\ FileHolds(mem, disk, owner, root, rows, saved, c)
          /\ w.kind = "insert" => f[k] = NoRow
      BY <1>1, <1>2, <1>15, <2>1, LeafReached
    <2>4. SetAt(rows, f2, k, w.row) /\ OthersSame(c, rows, f2)
      <3>1. TableOf[k] \in TablesOf[c]
        BY <1>2, <2>3 DEF Sent
      <3>2. PICK row : row = w.row
        OBVIOUS
      <3>3. QED
        BY <1>3, <1>13, <3>1, <3>2, RowSet
    <2>5. /\ \A y \in Keys : f2[y] = IF y = k THEN w.row ELSE f[y]
          /\ \A y \in Keys : y # k => f2[y] = f[y]
      BY <2>1, <2>4 DEF SetAt
    <2>6. PICK S : S = loc[q]
      OBVIOUS
    <2>7. PICK f0 : Without(f, f0, k) /\ LeafHolds(t, S, f0)
      BY <1>1, <1>2, <2>2, <2>3, <2>6, TargetHolds
    <2>8. e.row # NoRow
      BY <1>1, <1>2, <1>5, <2>3 DEF Sent
    <2>9. RowChanged(S, f0, f2, e.key, e.row)
      BY <1>5, <2>2, <2>5, <2>6, <2>7 DEF RowChanged, Without
    <2>10. LeafHolds(l, Below(S, sep), f2) /\ LeafHolds(r, Above(S, sep), f2) /\ sep \in S
      <3>1. f0[e.key] = NoRow /\ e.key \in S /\ S \subseteq Keys
        BY <1>5, <2>2, <2>6, <2>7 DEF Without
      <3>2. QED
        BY <1>3, <1>4, <1>7, <2>7, <2>8, <2>9, <3>1, LeafSplitHolds
    <2>11. /\ DOMAIN m2 = DOMAIN mem \cup {n} /\ n \notin DOMAIN mem /\ m2[q] = l /\ m2[n] = r
           /\ \A y \in DOMAIN mem : y # q => m2[y] = mem[y]
      BY <1>12 DEF Parted
    <2>12. Split(m2, rt, T, loc, h, f2, q, sep, n)
      <3>1. /\ m2[q].type = "leaf" /\ LeafHolds(m2[q], Below(loc[q], sep), f2)
            /\ m2[n].type = "leaf" /\ LeafHolds(m2[n], Above(loc[q], sep), f2)
            /\ m2[q].next = n /\ m2[n].next = mem[q].next
        BY <1>4, <1>8, <2>6, <2>10, <2>11
      <3>2. sep \in loc[q]
        BY <2>6, <2>10
      <3>3. RowsBut(f, f2, k) /\ SameBut(mem, m2, q)
        BY <2>5, <2>11 DEF RowsBut, SameBut
      <3>4. DOMAIN m2 = DOMAIN mem \cup {n} /\ n \notin DOMAIN mem
        BY <2>11
      <3>5. QED
        BY <2>2, <3>1, <3>2, <3>3, <3>4, LeafParted
    <2>13. PICK x, z : x = op'[c] /\ z = pc'[c]
      OBVIOUS
    <2>14. /\ x.path = w.path /\ x.page = w.page /\ x.key = w.key /\ x.sep = sep /\ x.right = n
           /\ z = "grow"
      BY <1>2, <1>9, <2>13, HandUpNow
    <2>15. Way(m2, rt, T, loc, h, x)
      <3>1. T \subseteq DOMAIN mem
        BY <2>2 DEF Tree, Frame
      <3>2. \A p \in T : mem[p].type = "internal" => m2[p] = mem[p]
        BY <1>3, <2>11, <3>1
      <3>3. QED
        BY <2>2, <2>14, <3>2, WayKept
    <2>16. MemHolds(m2, root, f2, x, z) /\ z # "descend"
      <3>1. Split(m2, rt, T, loc, h, f2, x.page, x.sep, x.right)
        BY <1>2, <2>12, <2>14
      <3>2. QED
        BY <2>1, <2>14, <2>15, <3>1 DEF MemHolds
    <2>17. m2[root].type = mem[root].type
      <3>1. root \in DOMAIN mem
        BY ShapeParts
      <3>2. QED
        BY <1>3, <1>8, <2>11, <3>1
    <2>18. OnlyAdded(disk, d2)
      BY <1>11 DEF OnlyAdded, Added
    <2>19. Claimed(owner, o2, DOMAIN mem, c) /\ UNCHANGED <<root, saved>>
      BY <1>2, <1>12, <1>13
    <2>20. QED
      BY <1>10, <2>3, <2>4, <2>13, <2>16, <2>17, <2>18, <2>19, GoodMade
  <1>16. QED
    BY <1>14, <1>15

-----------------------------------------------------------------------------
(* Steps that fail for want of a frame.                                    *)

\* The file keeps its rows, and what the failure left behind is for a rollback.
LEMMA FailHeld ==
    ASSUME Shape, NEW c \in Clients, NEW least \in Nat, AllTaken(least), NEW ty \in {"leaf", "internal"},
           NEW new, AllocateInVain(ty, new), DOMAIN new \subseteq DOMAIN mem,
           \A p \in DOMAIN new : Taken(new[p], least) /\ new[p].type = mem[p].type,
           Fail(c), UNCHANGED <<root, rows, saved>>
    PROVE  AllTaken(least)' /\ (GoodNow(c) => GoodNow(c)')
  <1>1. PICK m2, d2, o2, f2, n : m2 = mem' /\ d2 = disk' /\ o2 = owner' /\ f2 = rows' /\ n = NextPage
    OBVIOUS
  <1>2. /\ Added(disk, d2, n, Blank(ty)) /\ n \notin DOMAIN mem
        /\ DOMAIN m2 = DOMAIN mem \cup {n} /\ m2[n] = Blank(ty)
        /\ \A p \in DOMAIN mem : m2[p] = IF p \in DOMAIN new THEN new[p] ELSE mem[p]
        /\ \A p \in DOMAIN mem : o2[p] = owner[p]
    BY <1>1, PageInVain
  <1>3. AllTaken(least)'
    <2>1. Taken(Blank(ty), least) /\ DOMAIN disk = DOMAIN mem
      BY BlankTaken DEF Shape, PagesOK
    <2>2. ASSUME NEW p \in DOMAIN m2 PROVE Taken(m2[p], least) /\ Taken(d2[p], least)
      <3>1. CASE p = n
        BY <1>2, <2>1, <3>1 DEF Added
      <3>2. CASE p # n
        <4>1. p \in DOMAIN mem /\ Taken(mem[p], least) /\ Taken(disk[p], least)
          BY <1>2, <2>2, <3>2 DEF AllTaken, TakenAll
        <4>2. d2[p] = disk[p]
          BY <1>2, <2>1, <4>1 DEF Added
        <4>3. QED
          BY <1>2, <4>1, <4>2
      <3>3. QED
        BY <3>1, <3>2
    <2>3. QED
      BY <1>1, <2>2 DEF AllTaken, TakenAll
  <1>4. ASSUME GoodNow(c) PROVE GoodNow(c)'
    <2>1. PICK x, z : x = op'[c] /\ z = pc'[c]
      OBVIOUS
    <2>2. z = "failed"
      <3>1. DOMAIN pc = Clients
        BY DEF Shape, OpsOK
      <3>2. QED
        BY <2>1, <3>1 DEF Fail, Goto
    <2>3. MemHolds(m2, root, f2, x, z) /\ z # "descend"
      BY <2>2 DEF MemHolds
    <2>4. m2[root].type = mem[root].type
      <3>1. root \in DOMAIN mem
        BY ShapeParts
      <3>2. QED
        BY <1>2, <3>1
    <2>5. OnlyAdded(disk, d2) /\ Claimed(owner, o2, DOMAIN mem, c)
      BY <1>2 DEF OnlyAdded, Added, Claimed
    <2>6. OthersSame(c, rows, f2)
      BY <1>1 DEF OthersSame
    <2>7. FileHolds(mem, disk, owner, root, rows, saved, c)
      BY <1>4 DEF GoodNow, Good
    <2>8. QED
      BY <1>1, <2>1, <2>3, <2>4, <2>5, <2>6, <2>7, GoodMade
  <1>5. QED
    BY <1>3, <1>4

\* ... of the new leaf.
LEMMA SplitLeafFailsHeld ==
    ASSUME Shape, NEW c \in Clients, NEW least \in Nat, AllTaken(least), SplitLeafFails(c)
    PROVE  AllTaken(least)' /\ (GoodNow(c) => GoodNow(c)')
  <1>1. AtLeaf(c) /\ op[c].kind # "delete" /\ HasOldCell(c)
    BY DEF SplitLeafFails
  <1>2. PICK t, q, new, ty : t = Target(c) /\ q = op[c].page /\ new = Only(q, t) /\ ty = "leaf"
    OBVIOUS
  <1>3. q \in DOMAIN mem /\ mem[q].type = "leaf"
    BY <1>1, <1>2, AtLeafFacts
  <1>4. LeafOK(t, DOMAIN mem) /\ Taken(t, least)
    BY <1>1, <1>2, TargetRoom
  <1>5. t.type = "leaf"
    BY <1>4 DEF LeafOK, Sound, PageSet
  <1>6. DOMAIN new = {q} /\ new[q] = t
    BY <1>2 DEF Only
  <1>7. AllocateInVain(ty, new) /\ Fail(c) /\ UNCHANGED <<root, rows, saved>>
    BY <1>2 DEF SplitLeafFails
  <1>8. /\ DOMAIN new \subseteq DOMAIN mem /\ ty \in {"leaf", "internal"}
        /\ \A p \in DOMAIN new : Taken(new[p], least) /\ new[p].type = mem[p].type
    BY <1>2, <1>3, <1>4, <1>5, <1>6
  <1>9. QED
    BY <1>7, <1>8, FailHeld

-----------------------------------------------------------------------------
(* Steps on the way up.                                                    *)

\* The parent and the page with the pointer turned, whose room is the parent's.
LEMMA PatchRoom ==
    ASSUME Shape, NEW c \in Clients, NEW least \in Nat, AllTaken(least), pc[c] = "grow", op[c].path # <<>>
    PROVE  /\ Last(op[c].path) \in DOMAIN mem /\ mem[Last(op[c].path)].type = "internal"
           /\ InternalOK(mem[Last(op[c].path)], DOMAIN mem) /\ Taken(mem[Last(op[c].path)], least)
           /\ op[c].right \in DOMAIN mem /\ op[c].path \in Seq(DOMAIN mem)
           /\ Patched(c) = PatchedPage(mem[Last(op[c].path)], op[c].page, op[c].right)
           /\ InternalOK(Patched(c), DOMAIN mem) /\ Taken(Patched(c), least)
           /\ ChildCell(c) \in InternalCell(DOMAIN mem) /\ ChildCell(c).key = op[c].sep
           /\ ChildCell(c).child = op[c].page /\ op[c].sep \in Keys
  <1>1. PICK w, D, par, x, y : /\ w = op[c] /\ D = DOMAIN mem /\ par = Last(w.path) /\ x = mem[par]
                               /\ y = Patched(c)
    OBVIOUS
  <1>2. /\ w \in OpSet(D) /\ w.right \in D /\ ChildCell(c) \in InternalCell(D) /\ ChildCell(c).key = w.sep
        /\ par \in D /\ x.type = "internal" /\ y = PatchedPage(x, w.page, w.right) /\ Parent(c) = x
        /\ InternalOK(x, D) /\ w.sep \in Keys
    BY <1>1, GrowFacts DEF Parent
  <1>3. w.path \in Seq(D)
    BY <1>2, OpFields
  <1>4. Taken(x, least)
    BY <1>1, <1>2 DEF AllTaken, TakenAll
  <1>5. InternalOK(y, D) /\ Taken(y, least)
    <2>1. PICK q, r : q = w.page /\ r = w.right
      OBVIOUS
    <2>2. r \in D /\ y = PatchedPage(x, q, r)
      BY <1>2, <2>1
    <2>3. QED
      BY <1>2, <1>4, <2>2, TakenPatched
  <1>6. ChildCell(c).child = w.page
    BY <1>1 DEF ChildCell
  <1>7. QED
    BY <1>1, <1>2, <1>3, <1>4, <1>5, <1>6

\* The tree around a page that was split.
LEMMA GrowReached ==
    ASSUME Shape, NEW c \in Clients, GoodNow(c), pc[c] = "grow",
           NEW w, w = op[c], NEW r, r = root, NEW f, f = rows
    PROVE  /\ \E T, loc, h : Split(mem, r, T, loc, h, f, w.page, w.sep, w.right) /\ Way(mem, r, T, loc, h, w)
           /\ FileHolds(mem, disk, owner, root, rows, saved, c)
  BY DEF GoodNow, Good, MemHolds

\* What is to be done on the parent.
ParentReached(D, x, y, e, T, loc, h, w, par) ==
    /\ loc[par] \subseteq Keys
    /\ \E U, loc2, h2 :
         /\ Shared(T, loc, h, w.page, w.sep, w.right, U, loc2, h2)
         /\ ToPatch(D, x, y, e, loc[par], h[par], T, loc, h, w.page, w.sep, w.right, U, loc2, h2)

\* The pages that share the keys of the child exist.
LEMMA PatchReached ==
    ASSUME Shape, NEW c \in Clients, NEW least \in Nat, AllTaken(least), pc[c] = "grow",
           NEW w, w = op[c], w.path # <<>>, NEW par, par = Last(w.path), NEW D, D = DOMAIN mem,
           NEW x, x = mem[par], NEW y, y = Patched(c), NEW e, e = ChildCell(c),
           NEW r, NEW f, NEW T, NEW loc, NEW h,
           Split(mem, r, T, loc, h, f, w.page, w.sep, w.right), Way(mem, r, T, loc, h, w)
    PROVE  ParentReached(D, x, y, e, T, loc, h, w, par)
  <1>1. /\ par \in D /\ InternalOK(x, D) /\ Taken(x, least) /\ w.right \in D /\ w.path \in Seq(D)
        /\ y = PatchedPage(x, w.page, w.right) /\ e \in InternalCell(D) /\ e.key = w.sep /\ e.child = w.page
    <2>1. op[c].path # <<>>
      OBVIOUS
    <2>2. QED
      BY <2>1, PatchRoom
  <1>2. PICK q, sep, nq, img : q = w.page /\ sep = w.sep /\ nq = w.right /\ img = mem
    OBVIOUS
  <1>3. WellFormed(img[par], DOMAIN img)
    BY <1>1, <1>2 DEF WellFormed
  <1>4. IsParent(img, r, T, loc, h, w.page, sep, par)
    <2>1. Split(img, r, T, loc, h, f, w.page, sep, nq) /\ Way(img, r, T, loc, h, w)
      BY <1>2
    <2>2. QED
      BY <1>1, <1>3, <2>1, ParentFacts
  <1>5. /\ NodeHolds(x, loc[par], h[par], T, loc, h) /\ sep \in loc[par]
        /\ FindChildPageID(x, sep) = q /\ loc[par] \subseteq Keys
    BY <1>2, <1>4 DEF IsParent
  <1>6. PICK U, loc2, h2 : Shared(T, loc, h, q, sep, nq, U, loc2, h2)
    <2>1. q \in T /\ nq \notin T
      BY <1>2 DEF Split
    <2>2. PICK U : U = T \cup {nq}
      OBVIOUS
    <2>3. QED
      BY <2>1, <2>2, SharedExists
  <1>7. ToPatch(D, x, y, e, loc[par], h[par], T, loc, h, q, sep, nq, U, loc2, h2)
    BY <1>1, <1>2, <1>5, <1>6 DEF ToPatch
  <1>8. QED
    BY <1>2, <1>5, <1>6, <1>7 DEF ParentReached

\* The parent has room for the cell.
LEMMA PatchInternalHeld ==
    ASSUME Shape, NEW c \in Clients, NEW least \in Nat, AllTaken(least), PatchInternal(c)
    PROVE  AllTaken(least)' /\ (GoodNow(c) => GoodNow(c)')
  <1>1. pc[c] = "grow" /\ op[c].path # <<>>
    BY DEF PatchInternal
  <1>2. PICK w, D, par, x, y, e : /\ w = op[c] /\ D = DOMAIN mem /\ par = Last(w.path) /\ x = mem[par]
                                  /\ y = Patched(c) /\ e = ChildCell(c)
    OBVIOUS
  <1>3. /\ par \in D /\ x.type = "internal" /\ InternalOK(x, D) /\ Taken(x, least) /\ w.path \in Seq(D)
        /\ InternalOK(y, D) /\ Taken(y, least) /\ e \in InternalCell(D) /\ e.key = w.sep /\ w.sep \in Keys
    BY <1>1, <1>2, PatchRoom
  <1>4. PICK i, v, sep : sep = w.sep /\ i = FindInsertPos(y, sep) /\ v = InsertCellAt(y, i, e)
    OBVIOUS
  <1>5. Fits(y, e) /\ FinishPages(c, Only(par, v))
    BY <1>2, <1>4 DEF PatchInternal
  <1>6. WellFormed(y, D) /\ y.type = "internal"
    BY <1>3 DEF WellFormed, InternalOK, Sound, PageSet
  <1>7. i \in 1..(Len(y.cells) + 1)
    <2>1. y.cells \in Seq(InternalCell(D)) /\ CellSet(InternalCell(D)) /\ Sorted(y.cells)
      BY <1>6, PageParts
    <2>2. sep \in Nat
      BY <1>3, <1>4, TreeAssumption
    <2>3. PICK C : C = InternalCell(D)
      OBVIOUS
    <2>4. Behind(y.cells, sep, i)
      BY <1>4, <2>1, <2>2, <2>3, FindInsertPosFacts
    <2>5. QED
      BY <2>4 DEF Behind
  <1>8. Taken(v, least) /\ v.type = "internal"
    BY <1>3, <1>4, <1>5, <1>6, <1>7, TakenInsert
  <1>9. PICK m2, o2, f2 : m2 = mem' /\ o2 = owner' /\ f2 = rows'
    OBVIOUS
  <1>10. Replaced(mem, m2, par, v) /\ Claimed(owner, o2, DOMAIN mem, c)
    <2>1. par \in DOMAIN mem
      BY <1>2, <1>3
    <2>2. QED
      BY <1>5, <1>9, <2>1, PageWritten
  <1>11. UNCHANGED <<disk, root, saved>> /\ f2 = rows
    BY <1>9 DEF PatchInternal
  <1>12. AllTaken(least)'
    <2>1. TakenAll(m2, disk, least)
      BY <1>8, <1>10, TakenReplaced DEF AllTaken
    <2>2. QED
      BY <1>9, <1>11, <2>1 DEF AllTaken
  <1>13. ASSUME GoodNow(c) PROVE GoodNow(c)'
    <2>1. PICK r, f, img : r = root /\ f = rows /\ img = mem
      OBVIOUS
    <2>2. /\ \E T, loc, h : Split(mem, r, T, loc, h, f, w.page, w.sep, w.right) /\ Way(mem, r, T, loc, h, w)
          /\ FileHolds(mem, disk, owner, root, rows, saved, c)
      BY <1>1, <1>2, <1>13, <2>1, GrowReached
    <2>3. PICK T, loc, h : Split(mem, r, T, loc, h, f, w.page, w.sep, w.right) /\ Way(mem, r, T, loc, h, w)
      BY <2>2
    <2>4. w.path # <<>>
      BY <1>1, <1>2
    <2>5. /\ loc[par] \subseteq Keys
          /\ \E U, loc2, h2 :
               /\ Shared(T, loc, h, w.page, w.sep, w.right, U, loc2, h2)
               /\ ToPatch(D, x, y, e, loc[par], h[par], T, loc, h, w.page, w.sep, w.right, U, loc2, h2)
      <3>1. ParentReached(D, x, y, e, T, loc, h, w, par)
        BY <1>1, <1>2, <2>3, <2>4, PatchReached
      <3>2. QED
        BY <3>1 DEF ParentReached
    <2>6. PICK U, loc2, h2 :
               /\ Shared(T, loc, h, w.page, w.sep, w.right, U, loc2, h2)
               /\ ToPatch(D, x, y, e, loc[par], h[par], T, loc, h, w.page, w.sep, w.right, U, loc2, h2)
      BY <2>5
    <2>7. PICK S, n, q, nq : S = loc[par] /\ n = h[par] /\ q = w.page /\ nq = w.right
      OBVIOUS
    <2>8. ToPatch(D, x, y, e, S, n, T, loc, h, q, sep, nq, U, loc2, h2) /\ S \subseteq Keys
      BY <1>4, <2>5, <2>6, <2>7
    <2>9. v = InsertCellAt(y, FindInsertPos(y, sep), e)
      BY <1>4
    <2>10. NodeHolds(v, S, n, U, loc2, h2) /\ SameFirst(x, v)
      BY <1>3, <1>5, <2>8, <2>9, NodePutHolds
    <2>11. Tree(m2, r, U, loc2, h2, f)
      <3>1. Split(img, r, T, loc, h, f, w.page, sep, nq) /\ Way(img, r, T, loc, h, w)
        BY <1>4, <2>1, <2>3, <2>7
      <3>2. Shared(T, loc, h, w.page, sep, nq, U, loc2, h2)
        BY <1>4, <2>6, <2>7
      <3>3. DOMAIN m2 = DOMAIN img /\ m2[par] = v /\ SameBut(img, m2, par)
        BY <1>10, <2>1 DEF Replaced, SameBut
      <3>4. SameFirst(img[par], m2[par]) /\ NodeHolds(m2[par], loc[par], h[par], U, loc2, h2)
        BY <1>2, <2>1, <2>7, <2>10, <3>3
      <3>5. WellFormed(img[par], DOMAIN img)
        BY <1>2, <1>3, <2>1 DEF WellFormed
      <3>6. LastOfWay(w, D, par)
        BY <1>2, <1>3, <2>4 DEF LastOfWay
      <3>7. QED
        BY <3>1, <3>2, <3>3, <3>4, <3>5, <3>6, PatchDone
    <2>12. op'[c] = Idle /\ pc'[c] = "idle"
      <3>1. PICK a, z : a = Idle /\ z = "idle"
        OBVIOUS
      <3>2. op' = [op EXCEPT ![c] = a] /\ pc' = [pc EXCEPT ![c] = z]
        BY <3>1 DEF PatchInternal, Finish, Goto
      <3>3. QED
        BY <3>1, <3>2, OpNow
    <2>13. PICK a, z, d2 : a = op'[c] /\ z = pc'[c] /\ d2 = disk'
      OBVIOUS
    <2>14. MemHolds(m2, root, f2, a, z) /\ z # "descend"
      BY <1>11, <2>1, <2>11, <2>12, <2>13 DEF MemHolds, HasTree
    <2>15. m2[root].type = mem[root].type
      <3>1. root \in DOMAIN mem
        BY ShapeParts
      <3>2. QED
        BY <1>2, <1>3, <1>8, <1>10, <3>1 DEF Replaced
    <2>16. OnlyAdded(disk, d2) /\ OthersSame(c, rows, f2)
      BY <1>11, <2>13 DEF OnlyAdded, OthersSame
    <2>17. QED
      BY <1>9, <1>10, <1>11, <2>2, <2>13, <2>14, <2>15, <2>16, GoodMade
  <1>14. QED
    BY <1>12, <1>13

\* The parent has no room for the cell and is split itself, between two separators.
LEMMA SplitInternalHeld ==
    ASSUME NodeFits, Shape, NEW c \in Clients, NEW least \in Nat, AllTaken(least), SplitInternal(c)
    PROVE  AllTaken(least)' /\ (GoodNow(c) /\ ~parted' => GoodNow(c)')
  <1>1. pc[c] = "grow" /\ op[c].path # <<>> /\ Allocate("internal")
    BY DEF SplitInternal
  <1>2. PICK w, D, par, x, y, e, n : /\ w = op[c] /\ D = DOMAIN mem /\ par = Last(w.path) /\ x = mem[par]
                                     /\ y = Patched(c) /\ e = ChildCell(c) /\ n = NextPage
    OBVIOUS
  <1>3. /\ par \in D /\ x.type = "internal" /\ InternalOK(x, D) /\ Taken(x, least) /\ w.path \in Seq(D)
        /\ InternalOK(y, D) /\ Taken(y, least) /\ e \in InternalCell(D) /\ e.key = w.sep /\ w.sep \in Keys
        /\ 0 \in D
    BY <1>1, <1>2, PatchRoom, ShapeParts
  <1>4. PICK cells, mid, left, right, l, rt, sep2 :
          /\ cells = SortCells(Append(y.cells, e)) /\ mid = Len(cells) \div 2
          /\ left = AddCells(ResetPage(y), SubSeq(cells, 1, mid))
          /\ right = AddCells(Blank("internal"), SubSeq(cells, mid + 2, Len(cells)))
          /\ l = [left EXCEPT !.next = cells[mid + 1].child] /\ rt = [right EXCEPT !.next = y.next]
          /\ sep2 = cells[mid + 1].key
    OBVIOUS
  <1>5. NodeSplit(y, e, l, rt, sep2) /\ ~Fits(y, e)
    BY <1>2, <1>4 DEF NodeSplit, SplitInternal
  <1>6. l.type = "internal" /\ Taken(l, least) /\ rt.type = "internal" /\ Taken(rt, least)
    BY <1>3, <1>5, NodeSplitCells
  <1>7. FinishPages(c, [p \in {par, n} |-> IF p = n THEN rt ELSE l])
    BY <1>2, <1>4 DEF SplitInternal
  <1>8. PICK m2, d2, o2, f2, ty, b : /\ m2 = mem' /\ d2 = disk' /\ o2 = owner' /\ f2 = rows' /\ ty = "internal"
                                     /\ b = Blank(ty)
    OBVIOUS
  <1>9. Added(disk, d2, n, b) /\ n \notin DOMAIN mem
    BY <1>1, <1>2, <1>8, PageAllocated
  <1>10. Parted(mem, m2, par, l, n, rt) /\ Claimed(owner, o2, DOMAIN mem, c)
    <2>1. par \in DOMAIN mem /\ n \notin DOMAIN mem
      BY <1>2, <1>3, <1>9
    <2>2. FinishPages(c, [p \in {par, n} |-> IF p = n THEN rt ELSE l])
      BY <1>7
    <2>3. Parted(mem, mem', par, l, n, rt) /\ Claimed(owner, owner', DOMAIN mem, c)
      BY <2>1, <2>2, PagesParted
    <2>4. QED
      BY <1>8, <2>3
  <1>11. UNCHANGED <<root, saved>> /\ f2 = rows
    BY <1>8 DEF SplitInternal
  <1>12. AllTaken(least)'
    <2>1. Taken(b, least) /\ DOMAIN disk = DOMAIN mem
      BY <1>8, BlankTaken DEF Shape, PagesOK
    <2>2. TakenAll(m2, d2, least)
      BY <1>6, <1>9, <1>10, <2>1, TakenParted DEF AllTaken
    <2>3. QED
      BY <1>8, <2>2 DEF AllTaken
  <1>13. ASSUME GoodNow(c), ~parted' PROVE GoodNow(c)'
    <2>0. Unparted(y, e)
      BY <1>2, <1>13 DEF SplitInternal, Unparted
    <2>1. PICK r, f, img : r = root /\ f = rows /\ img = mem
      OBVIOUS
    <2>2. /\ \E T, loc, h : Split(mem, r, T, loc, h, f, w.page, w.sep, w.right) /\ Way(mem, r, T, loc, h, w)
          /\ FileHolds(mem, disk, owner, root, rows, saved, c)
      BY <1>1, <1>2, <1>13, <2>1, GrowReached
    <2>3. PICK T, loc, h : Split(mem, r, T, loc, h, f, w.page, w.sep, w.right) /\ Way(mem, r, T, loc, h, w)
      BY <2>2
    <2>4. w.path # <<>>
      BY <1>1, <1>2
    <2>5. /\ loc[par] \subseteq Keys
          /\ \E U, loc2, h2 :
               /\ Shared(T, loc, h, w.page, w.sep, w.right, U, loc2, h2)
               /\ ToPatch(D, x, y, e, loc[par], h[par], T, loc, h, w.page, w.sep, w.right, U, loc2, h2)
      <3>1. ParentReached(D, x, y, e, T, loc, h, w, par)
        BY <1>1, <1>2, <2>3, <2>4, PatchReached
      <3>2. QED
        BY <3>1 DEF ParentReached
    <2>6. PICK U, loc2, h2 :
               /\ Shared(T, loc, h, w.page, w.sep, w.right, U, loc2, h2)
               /\ ToPatch(D, x, y, e, loc[par], h[par], T, loc, h, w.page, w.sep, w.right, U, loc2, h2)
      BY <2>5
    <2>7. PICK S, k, q, nq, sep : S = loc[par] /\ k = h[par] /\ q = w.page /\ nq = w.right /\ sep = w.sep
      OBVIOUS
    <2>8. ToPatch(D, x, y, e, S, k, T, loc, h, q, sep, nq, U, loc2, h2) /\ S \subseteq Keys
      BY <2>5, <2>6, <2>7
    <2>9. /\ NodeHolds(l, Below(S, sep2), k, U, loc2, h2) /\ NodeHolds(rt, Above(S, sep2), k, U, loc2, h2) /\ sep2 \in S
          /\ SameFirst(x, l)
      BY <1>3, <1>5, <2>0, <2>8, NodeSplitHolds
    <2>10. PICK a, z : a = op'[c] /\ z = pc'[c]
      OBVIOUS
    <2>11. /\ a.path = Front(w.path) /\ a.page = par /\ a.key = w.key /\ a.sep = sep2 /\ a.right = n
           /\ z = "grow"
      <3>1. PICK up : up = Front(w.path)
        OBVIOUS
      <3>2. op' = [op EXCEPT ![c].sep = sep2, ![c].right = n, ![c].page = par, ![c].path = up] /\ pc' = pc
        BY <1>2, <1>4, <3>1 DEF SplitInternal
      <3>3. DOMAIN op = Clients /\ w \in OpSet(D)
        BY <1>2, ShapeParts DEF Shape, OpsOK
      <3>4. a = [w EXCEPT !.sep = sep2, !.right = n, !.page = par, !.path = up]
        BY <1>2, <2>10, <3>2, <3>3
      <3>5. PICK ki, ke, ro, pa, pg, se, ri :
              /\ ki = w.kind /\ ke = w.key /\ ro = w.row /\ pa = w.path /\ pg = w.page
              /\ se = w.sep /\ ri = w.right
        OBVIOUS
      <3>6. w = [kind |-> ki, key |-> ke, row |-> ro, path |-> pa, page |-> pg, sep |-> se, right |-> ri]
        BY <3>3, <3>5, OpFields
      <3>7. a = [kind |-> ki, key |-> ke, row |-> ro, path |-> up, page |-> par, sep |-> sep2, right |-> n]
        BY <3>4, <3>6
      <3>8. a.path = up /\ a.page = par /\ a.key = ke /\ a.sep = sep2 /\ a.right = n
        BY <3>7
      <3>9. QED
        BY <1>1, <2>10, <3>1, <3>2, <3>5, <3>8
    <2>12. Split(m2, r, U, loc2, h2, f, par, sep2, n) /\ Way(m2, r, U, loc2, h2, a)
      <3>1. Split(img, r, T, loc, h, f, w.page, sep, nq) /\ Way(img, r, T, loc, h, w)
        BY <2>1, <2>3, <2>7
      <3>2. Shared(T, loc, h, w.page, sep, nq, U, loc2, h2)
        BY <2>6, <2>7
      <3>3. /\ DOMAIN m2 = DOMAIN img \cup {n} /\ m2[par] = l /\ m2[n] = rt /\ SameBut(img, m2, par)
            /\ n \notin DOMAIN img
        BY <1>10, <2>1 DEF Parted, SameBut
      <3>4. /\ NodeHolds(m2[par], Below(loc[par], sep2), h[par], U, loc2, h2)
            /\ m2[n].type = "internal" /\ NodeHolds(m2[n], Above(loc[par], sep2), h[par], U, loc2, h2)
            /\ sep2 \in loc[par] /\ SameFirst(img[par], m2[par])
        BY <1>2, <1>6, <2>1, <2>7, <2>9, <3>3
      <3>5. WellFormed(img[par], DOMAIN img)
        BY <1>2, <1>3, <2>1 DEF WellFormed
      <3>6. LastOfWay(w, D, par)
        BY <1>2, <1>3, <2>4 DEF LastOfWay
      <3>7. a.page = par /\ a.path = Front(w.path) /\ a.key = w.key
        BY <2>11
      <3>8. QED
        BY <3>1, <3>2, <3>3, <3>4, <3>5, <3>6, <3>7, InternalParted
    <2>13. MemHolds(m2, root, f2, a, z) /\ z # "descend"
      <3>1. Split(m2, r, U, loc2, h2, f2, a.page, a.sep, a.right) /\ Way(m2, r, U, loc2, h2, a)
        BY <1>11, <2>1, <2>11, <2>12
      <3>2. QED
        BY <2>1, <2>11, <3>1 DEF MemHolds
    <2>14. m2[root].type = mem[root].type
      <3>1. root \in DOMAIN mem
        BY ShapeParts
      <3>2. QED
        BY <1>2, <1>3, <1>6, <1>10, <3>1 DEF Parted
    <2>15. OnlyAdded(disk, d2) /\ OthersSame(c, rows, f2)
      BY <1>9, <1>11 DEF OnlyAdded, Added, OthersSame
    <2>16. QED
      BY <1>8, <1>10, <1>11, <2>2, <2>10, <2>13, <2>14, <2>15, GoodMade
  <1>14. QED
    BY <1>12, <1>13

\* The internal page that cannot be split for want of a frame.
LEMMA SplitInternalFailsHeld ==
    ASSUME Shape, NEW c \in Clients, NEW least \in Nat, AllTaken(least), SplitInternalFails(c)
    PROVE  AllTaken(least)' /\ (GoodNow(c) => GoodNow(c)')
  <1>1. pc[c] = "grow" /\ op[c].path # <<>>
    BY DEF SplitInternalFails
  <1>2. PICK y, par, new, ty : y = Patched(c) /\ par = Last(op[c].path) /\ new = Only(par, y) /\ ty = "internal"
    OBVIOUS
  <1>3. par \in DOMAIN mem /\ mem[par].type = "internal" /\ InternalOK(y, DOMAIN mem) /\ Taken(y, least)
    BY <1>1, <1>2, PatchRoom
  <1>4. y.type = "internal"
    BY <1>3 DEF InternalOK, Sound, PageSet
  <1>5. DOMAIN new = {par} /\ new[par] = y
    BY <1>2 DEF Only
  <1>6. AllocateInVain(ty, new) /\ Fail(c) /\ UNCHANGED <<root, rows, saved>>
    BY <1>2 DEF SplitInternalFails
  <1>7. /\ DOMAIN new \subseteq DOMAIN mem /\ ty \in {"leaf", "internal"}
        /\ \A p \in DOMAIN new : Taken(new[p], least) /\ new[p].type = mem[p].type
    BY <1>2, <1>3, <1>4, <1>5
  <1>8. QED
    BY <1>6, <1>7, FailHeld

\* The new root that cannot be fetched.
LEMMA CreateNewRootFailsHeld ==
    ASSUME Shape, NEW c \in Clients, NEW least \in Nat, AllTaken(least), CreateNewRootFails(c)
    PROVE  AllTaken(least)' /\ (GoodNow(c) => GoodNow(c)')
  <1>1. PICK new, ty : new = <<>> /\ ty = "internal"
    OBVIOUS
  <1>2. DOMAIN new = {}
    BY <1>1
  <1>3. AllocateInVain(ty, new) /\ Fail(c) /\ UNCHANGED <<root, rows, saved>>
    BY <1>1 DEF CreateNewRootFails
  <1>4. /\ DOMAIN new \subseteq DOMAIN mem /\ ty \in {"leaf", "internal"}
        /\ \A p \in DOMAIN new : Taken(new[p], least) /\ new[p].type = mem[p].type
    BY <1>1, <1>2
  <1>5. QED
    BY <1>3, <1>4, FailHeld

\* The file when a root was created: an empty page has its ID there.
LEMMA FileCrowned ==
    ASSUME NEW m, NEW d, NEW o, NEW r, NEW f, NEW g, NEW c, FileHolds(m, d, o, r, f, g, c),
           r \in DOMAIN d, \A p \in DOMAIN d : (d[p].type = "leaf" \/ d[p].type = "internal") /\ m[p].type = d[p].type,
           NEW n, NEW d2, Added(d, d2, n, Blank("internal")), \A p \in DOMAIN d : p < n,
           NEW o2, o2[n] = c, NEW m2, m2[n].type = "internal"
    PROVE  FileHolds(m2, d2, o2, n, f, g, c)
  <1>1. /\ n \notin DOMAIN d /\ DOMAIN d2 = DOMAIN d \cup {n} /\ d2[n] = Blank("internal")
        /\ \A p \in DOMAIN d : d2[p] = d[p]
    BY DEF Added
  <1>2. HighRoot(d2, o2, n, c) \/ HasTree(d2, n, g)
    <2>1. CASE \E p \in DOMAIN d : d[p].type = "internal"
      <3>1. PICK p \in DOMAIN d : d[p].type = "internal"
        BY <2>1
      <3>2. p \in DOMAIN d2 /\ p < n /\ d2[p].type = "internal"
        BY <1>1, <3>1
      <3>3. QED
        BY <1>1, <3>2 DEF HighRoot
    <2>2. CASE ~ \E p \in DOMAIN d : d[p].type = "internal"
      <3>1. d[r].type = "leaf" /\ m[r].type = "leaf"
        BY <2>2
      <3>2. r = 0
        BY <3>1 DEF FileHolds
      <3>3. d[r] # Blank("internal")
        <4>1. Blank("internal").type = "internal"
          BY DEF Blank
        <4>2. QED
          BY <3>1, <4>1
      <3>4. HasTree(d, r, g)
        BY <3>3 DEF FileHolds, HighRoot
      <3>5. HasTree(d, 0, g) /\ d[0].type = "leaf"
        BY <3>1, <3>2, <3>4
      <3>6. HasTree(d2, n, g)
        BY <1>1, <3>5, EmptyRoot
      <3>7. QED
        BY <3>6
    <2>3. QED
      BY <2>1, <2>2
  <1>3. \A k \in Keys : TableOf[k] \in TablesOf[c] \/ f[k] = g[k]
    BY DEF FileHolds
  <1>4. \E q : HasTree(d2, q, g)
    <2>1. PICK q : HasTree(d, q, g)
      BY DEF FileHolds
    <2>2. HasTree(d2, q, g)
      BY <1>1, <2>1, TreeGrows
    <2>3. QED
      BY <2>2
  <1>5. QED
    BY <1>2, <1>3, <1>4 DEF FileHolds

\* The root was split and gets a page above it.
LEMMA CreateNewRootHeld ==
    ASSUME NodeFits, Shape, NEW c \in Clients, NEW least \in Nat, AllTaken(least), CreateNewRoot(c)
    PROVE  AllTaken(least)' /\ (GoodNow(c) => GoodNow(c)')
  <1>1. pc[c] = "grow" /\ op[c].path = <<>> /\ Allocate("internal")
    BY DEF CreateNewRoot
  <1>2. PICK w, D, e, n, nq, q, sep : /\ w = op[c] /\ D = DOMAIN mem /\ e = ChildCell(c) /\ n = NextPage
                                      /\ nq = w.right /\ q = w.page /\ sep = w.sep
    OBVIOUS
  <1>3. e \in InternalCell(D) /\ nq \in D /\ 0 \in D /\ e.key = sep
    BY <1>1, <1>2, GrowFacts, ShapeParts
  <1>4. e.child = q
    BY <1>2 DEF ChildCell
  <1>5. PICK v : v = WithNext(AddCells(Blank("internal"), <<e>>), nq)
    OBVIOUS
  <1>6. v.type = "internal" /\ Taken(v, least)
    BY <1>3, <1>5, RootRoom
  <1>7. FinishPages(c, Only(n, v)) /\ root' = n
    BY <1>2, <1>5 DEF CreateNewRoot, WithNext
  <1>8. PICK m2, d2, o2, f2, ty, b : /\ m2 = mem' /\ d2 = disk' /\ o2 = owner' /\ f2 = rows' /\ ty = "internal"
                                     /\ b = Blank(ty)
    OBVIOUS
  <1>9. Added(disk, d2, n, b) /\ n \notin DOMAIN mem /\ \A p \in DOMAIN mem : p < n
    BY <1>1, <1>2, <1>8, PageAllocated
  <1>10. Added(mem, m2, n, v) /\ o2[n] = c
    <2>1. Added(mem, mem', n, v) /\ Claimed(owner, owner', DOMAIN mem, c) /\ owner'[n] = c
      BY <1>7, <1>9, PageAdded
    <2>2. QED
      BY <1>8, <2>1
  <1>11. DOMAIN disk = DOMAIN mem
    BY DEF Shape, PagesOK
  <1>12. AllTaken(least)'
    <2>1. Taken(b, least)
      BY <1>8, BlankTaken
    <2>2. TakenAll(m2, d2, least)
      <3>1. PICK k : k = n
        OBVIOUS
      <3>2. k \in DOMAIN mem => Taken(v, least)
        BY <1>6
      <3>3. QED
        BY <1>6, <1>9, <1>10, <1>11, <2>1, <3>2, TakenParted DEF AllTaken
    <2>3. QED
      BY <1>8, <2>2 DEF AllTaken
  <1>13. ASSUME GoodNow(c) PROVE GoodNow(c)'
    <2>1. PICK r, f, g, img : r = root /\ f = rows /\ g = saved /\ img = mem
      OBVIOUS
    <2>2. /\ \E T, loc, h : Split(mem, r, T, loc, h, f, w.page, w.sep, w.right) /\ Way(mem, r, T, loc, h, w)
          /\ FileHolds(mem, disk, owner, root, rows, saved, c)
      BY <1>1, <1>2, <1>13, <2>1, GrowReached
    <2>3. PICK T, loc, h : Split(mem, r, T, loc, h, f, w.page, w.sep, w.right) /\ Way(mem, r, T, loc, h, w)
      BY <2>2
    <2>4. q = r /\ Split(img, r, T, loc, h, f, r, sep, nq)
      <3>1. w.page = r
        BY <1>1, <1>2, <2>3 DEF Way
      <3>2. QED
        BY <1>2, <2>1, <2>3, <3>1
    <2>5. r \in T /\ nq \notin T /\ loc[r] = Keys
      BY <2>4 DEF Split, Frame
    <2>6. PICK U : U = T \cup {nq}
      OBVIOUS
    <2>7. PICK loc2, h2 : Shared(T, loc, h, r, sep, nq, U, loc2, h2)
      BY <2>5, <2>6, SharedExists
    <2>8. U \subseteq DOMAIN img
      BY <2>4, <2>7, SharedPlaces
    <2>9. n \notin DOMAIN img /\ n \notin U
      BY <1>9, <2>1, <2>8
    <2>10. PICK V, k : V = U \cup {n} /\ k = h[r] + 1
      OBVIOUS
    <2>11. PICK loc3, h3 : Crowned(U, loc2, h2, k, n, V, loc3, h3)
      BY <2>9, <2>10, CrownedExists
    <2>12. /\ r \in U /\ nq \in U /\ r # nq
           /\ loc2[r] = Below(Keys, sep) /\ loc2[nq] = Above(Keys, sep) /\ h2[r] = h[r] /\ h2[nq] = h[r]
      BY <2>5, <2>7 DEF Shared
    <2>13. /\ r \in V /\ nq \in V /\ loc3[r] = Below(Keys, sep) /\ loc3[nq] = Above(Keys, sep)
           /\ h3[r] + 1 = k /\ h3[nq] + 1 = k
      BY <2>10, <2>11, <2>12 DEF Crowned
    <2>14. NodeHolds(v, Keys, k, V, loc3, h3) /\ v.cells # <<>> /\ Pointer(v, 1) = r
      <3>1. e.child = r
        BY <1>4, <2>4
      <3>2. NodeHolds(v, Keys, k, V, loc3, h3)
        BY <1>3, <1>5, <2>12, <2>13, <3>1, RootHolds
      <3>3. v.cells = <<e>>
        BY <1>3, <1>5, RootRoom
      <3>4. v.cells # <<>> /\ Pointer(v, 1) = e.child
        BY <3>3, RootFirst
      <3>5. QED
        BY <3>1, <3>2, <3>4
    <2>15. Tree(m2, n, V, loc3, h3, f)
      <3>1. DOMAIN m2 = DOMAIN img \cup {n} /\ m2[n] = v /\ \A p \in DOMAIN img : m2[p] = img[p]
        BY <1>10, <2>1 DEF Added
      <3>2. /\ m2[n].type = "internal" /\ NodeHolds(m2[n], Keys, h[r] + 1, V, loc3, h3)
            /\ m2[n].cells # <<>> /\ Pointer(m2[n], 1) = r
        BY <1>6, <2>10, <2>14, <3>1
      <3>3. Crowned(U, loc2, h2, h[r] + 1, n, V, loc3, h3)
        BY <2>10, <2>11
      <3>4. QED
        BY <2>4, <2>7, <2>9, <3>1, <3>2, <3>3, RootGrown
    <2>16. FileHolds(m2, d2, o2, n, f, g, c)
      <3>1. FileHolds(mem, disk, owner, r, f, g, c) /\ r \in DOMAIN disk
        BY <1>11, <2>1, <2>2, ShapeParts
      <3>2. \A p \in DOMAIN disk : (disk[p].type = "leaf" \/ disk[p].type = "internal") /\ mem[p].type = disk[p].type
        BY PageParts DEF Shape, PagesOK
      <3>3. m2[n].type = "internal"
        BY <1>6, <1>10 DEF Added
      <3>4. Added(disk, d2, n, Blank("internal")) /\ \A p \in DOMAIN disk : p < n
        BY <1>8, <1>9, <1>11
      <3>5. QED
        BY <1>10, <3>1, <3>2, <3>3, <3>4, FileCrowned
    <2>17. PICK x, z : x = op'[c] /\ z = pc'[c]
      OBVIOUS
    <2>18. z = "idle"
      <3>1. PICK i : i = "idle"
        OBVIOUS
      <3>2. op' = [op EXCEPT ![c] = Idle] /\ pc' = [pc EXCEPT ![c] = i]
        BY <3>1 DEF CreateNewRoot, Finish, Goto
      <3>3. QED
        BY <2>17, <3>1, <3>2, OpNow
    <2>19. MemHolds(m2, n, f, x, z) /\ z # "descend"
      BY <2>15, <2>18 DEF MemHolds, HasTree
    <2>20. Good(m2, d2, o2, n, f, g, x, z, c)
      BY <2>16, <2>19 DEF Good
    <2>21. f = rows' /\ g = saved'
      BY <2>1 DEF CreateNewRoot
    <2>22. QED
      BY <1>7, <1>8, <2>17, <2>20, <2>21 DEF GoodNow
  <1>14. QED
    BY <1>12, <1>13

-----------------------------------------------------------------------------
(* The end of a transaction.                                               *)

\* Equal pages hold equal rows.
LEMMA TreeSame ==
    ASSUME NEW img, NEW r, NEW f, HasTree(img, r, f), NEW img2, DOMAIN img2 = DOMAIN img,
           \A p \in DOMAIN img : img2[p] = img[p], NEW g, \A k \in Keys : g[k] = f[k]
    PROVE  HasTree(img2, r, g)
  <1>1. HasTree(img2, r, f)
    BY TreeGrows
  <1>2. PICK T, loc, h : Tree(img2, r, T, loc, h, f)
    BY <1>1 DEF HasTree
  <1>3. ASSUME NEW p \in T PROVE Holds(img2[p], loc[p], h[p], T, loc, h, g)
    <2>1. PICK x, S, n : x = img2[p] /\ S = loc[p] /\ n = h[p]
      OBVIOUS
    <2>2. Holds(x, S, n, T, loc, h, f) /\ S \subseteq Keys
      BY <1>2, <2>1 DEF Tree, Frame
    <2>3. LeafHolds(x, S, f) => LeafHolds(x, S, g)
      BY <2>2, LeafUnmoved
    <2>4. Holds(x, S, n, T, loc, h, g)
      BY <2>2, <2>3 DEF Holds
    <2>5. QED
      BY <2>1, <2>4
  <1>4. QED
    BY <1>2, <1>3 DEF Tree, HasTree

\* The pages of the one client at work: a page that is not its own is clean.
LEMMA OwnPages ==
    ASSUME OneWriter, Shape, NEW c \in Clients
    PROVE  /\ DOMAIN disk = DOMAIN mem /\ DOMAIN owner = DOMAIN mem /\ root \in DOMAIN mem
           /\ \A p \in DOMAIN mem : /\ owner[p] = c \/ owner[p] = NoClient
                                    /\ p \in DirtyOf(c) <=> owner[p] = c
                                    /\ ~misled /\ owner[p] # c => mem[p] = disk[p]
                                    /\ mem[p].type = disk[p].type
  <1>1. /\ DOMAIN disk = DOMAIN mem /\ root \in DOMAIN mem /\ owner \in [DOMAIN mem -> Clients \cup {NoClient}]
        /\ \A p \in DOMAIN mem : mem[p].type = disk[p].type
    BY DEF Shape, PagesOK
  <1>2. \A p \in DOMAIN mem : owner[p] = c \/ owner[p] = NoClient
    BY <1>1 DEF OneWriter
  <1>3. ~misled => Clean(mem, disk, owner)
    BY DEF Shape
  <1>4. QED
    BY <1>1, <1>2, <1>3 DEF DirtyOf, Clean

\* The rows that the one client's end of transaction leaves.
LEMMA OwnTaken ==
    ASSUME NEW c, NEW f, NEW g, \A k \in Keys : TableOf[k] \in TablesOf[c] \/ f[k] = g[k]
    PROVE  \A k \in Keys : Own(c, f, g)[k] = f[k] /\ Own(c, g, f)[k] = g[k]
  BY DEF Own

\* Commit writes the pages of the transaction, and the file has what the pool shows.
LEMMA CommitHeld ==
    ASSUME OneWriter, Shape, NEW c \in Clients, NEW least \in Nat, AllTaken(least), Commit(c)
    PROVE  AllTaken(least)' /\ (GoodNow(c) /\ ~misled => GoodNow(c)')
  <1>1. PICK D : D = DOMAIN mem
    OBVIOUS
  <1>2. /\ DOMAIN disk = D /\ DOMAIN owner = D /\ root \in D
        /\ \A p \in D : /\ owner[p] = c \/ owner[p] = NoClient
                        /\ p \in DirtyOf(c) <=> owner[p] = c
                        /\ ~misled /\ owner[p] # c => mem[p] = disk[p]
    BY <1>1, OwnPages
  <1>3. PICK d2, g2, o2 : d2 = disk' /\ g2 = saved' /\ o2 = owner'
    OBVIOUS
  <1>4. DOMAIN d2 = D /\ \A p \in D : d2[p] = IF p \in DirtyOf(c) THEN mem[p] ELSE disk[p]
    <2>1. d2 = [p \in D |-> IF p \in DirtyOf(c) THEN mem[p] ELSE disk[p]]
      BY <1>2, <1>3 DEF Commit
    <2>2. QED
      BY <2>1
  <1>5. UNCHANGED <<mem, root, pc, op, rows>> /\ pc[c] = "idle"
    BY DEF Commit
  <1>6. AllTaken(least)'
    <2>1. \A p \in D : Taken(mem[p], least) /\ Taken(disk[p], least)
      BY <1>1 DEF AllTaken, TakenAll
    <2>2. \A p \in D : Taken(mem[p], least) /\ Taken(d2[p], least)
      BY <1>4, <2>1
    <2>3. QED
      BY <1>1, <1>3, <1>5, <2>2 DEF AllTaken, TakenAll
  <1>7. ASSUME GoodNow(c), ~misled PROVE GoodNow(c)'
    <2>1. PICK m, r, f, g, w, z : m = mem /\ r = root /\ f = rows /\ g = saved /\ w = op[c] /\ z = "idle"
      OBVIOUS
    <2>2. HasTree(m, r, f) /\ FileHolds(m, disk, owner, r, f, g, c)
      BY <1>5, <1>7, <2>1 DEF GoodNow, Good, MemHolds
    <2>3. /\ r = 0 \/ m[r].type = "internal"
          /\ \A k \in Keys : TableOf[k] \in TablesOf[c] \/ f[k] = g[k]
      BY <2>2 DEF FileHolds
    <2>4. \A k \in Keys : g2[k] = f[k]
      <3>1. g2 = Own(c, f, g)
        BY <1>3, <2>1 DEF Commit
      <3>2. QED
        BY <2>3, <3>1, OwnTaken
    <2>5. \A p \in D : d2[p] = m[p]
      BY <1>2, <1>4, <1>7, <2>1
    <2>6. HasTree(d2, r, g2)
      BY <1>1, <1>4, <2>1, <2>2, <2>4, <2>5, TreeSame
    <2>7. FileHolds(m, d2, o2, r, f, g2, c)
      BY <2>3, <2>4, <2>6 DEF FileHolds
    <2>8. Good(m, d2, o2, r, f, g2, w, z, c)
      BY <2>1, <2>2, <2>7 DEF Good, MemHolds
    <2>9. QED
      BY <1>3, <1>5, <2>1, <2>8 DEF GoodNow
  <1>8. QED
    BY <1>6, <1>7

\* Rollback fetches the pages of the transaction again, and the pool shows the file.
LEMMA RollbackHeld ==
    ASSUME OneWriter, Shape, NEW c \in Clients, NEW least \in Nat, AllTaken(least), Rollback(c)
    PROVE  AllTaken(least)' /\ (GoodNow(c) /\ ~misled' => GoodNow(c)')
  <1>1. PICK D : D = DOMAIN mem
    OBVIOUS
  <1>2. /\ DOMAIN disk = D /\ DOMAIN owner = D /\ root \in D
        /\ \A p \in D : /\ owner[p] = c \/ owner[p] = NoClient
                        /\ p \in DirtyOf(c) <=> owner[p] = c
                        /\ ~misled /\ owner[p] # c => mem[p] = disk[p]
                        /\ mem[p].type = disk[p].type
    BY <1>1, OwnPages
  <1>3. PICK m2, f2, o2 : m2 = mem' /\ f2 = rows' /\ o2 = owner'
    OBVIOUS
  <1>4. DOMAIN m2 = D /\ \A p \in D : m2[p] = IF p \in DirtyOf(c) THEN disk[p] ELSE mem[p]
    <2>1. m2 = [p \in D |-> IF p \in DirtyOf(c) THEN disk[p] ELSE mem[p]]
      BY <1>1, <1>3 DEF Rollback
    <2>2. QED
      BY <2>1
  <1>5. UNCHANGED <<disk, root, saved>>
    BY DEF Rollback
  <1>6. AllTaken(least)'
    <2>1. \A p \in D : Taken(mem[p], least) /\ Taken(disk[p], least)
      BY <1>1 DEF AllTaken, TakenAll
    <2>2. \A p \in D : Taken(m2[p], least) /\ Taken(disk[p], least)
      BY <1>4, <2>1
    <2>3. QED
      BY <1>3, <1>4, <1>5, <2>2 DEF AllTaken, TakenAll
  <1>7. ASSUME GoodNow(c), ~misled' PROVE GoodNow(c)'
    <2>1. PICK d, r, f, g, x, z : d = disk /\ r = root /\ f = rows /\ g = saved /\ x = op'[c] /\ z = pc'[c]
      OBVIOUS
    <2>2. FileHolds(mem, d, owner, r, f, g, c)
      BY <1>7, <2>1 DEF GoodNow, Good
    <2>3. ~misled /\ ~HighRoot(d, owner, r, c)
      <3>1. misled' = (misled \/ NewHighRoot(c)) /\ misled \in BOOLEAN
        BY DEF Rollback, Shape
      <3>2. ~misled /\ ~NewHighRoot(c)
        BY <1>7, <3>1
      <3>3. QED
        BY <2>1, <3>2 DEF NewHighRoot, HighRoot
    <2>4. /\ HasTree(d, r, g) /\ (r = 0 \/ mem[r].type = "internal")
          /\ \A k \in Keys : TableOf[k] \in TablesOf[c] \/ f[k] = g[k]
      BY <2>2, <2>3 DEF FileHolds
    <2>5. \A k \in Keys : f2[k] = g[k]
      <3>1. f2 = Own(c, g, f)
        BY <1>3, <2>1 DEF Rollback
      <3>2. QED
        BY <2>4, <3>1, OwnTaken
    <2>6. \A p \in D : m2[p] = d[p]
      BY <1>2, <1>4, <2>1, <2>3
    <2>7. HasTree(m2, r, f2)
      BY <1>2, <1>4, <2>1, <2>4, <2>5, <2>6, TreeSame
    <2>8. r = 0 \/ m2[r].type = "internal"
      BY <1>2, <2>1, <2>4, <2>6
    <2>9. FileHolds(m2, d, o2, r, f2, g, c)
      BY <2>4, <2>5, <2>8 DEF FileHolds
    <2>10. z = "idle"
      <3>1. PICK i : i = "idle"
        OBVIOUS
      <3>2. op' = [op EXCEPT ![c] = Idle] /\ pc' = [pc EXCEPT ![c] = i]
        BY <3>1 DEF Rollback, Finish, Goto
      <3>3. QED
        BY <2>1, <3>1, <3>2, OpNow
    <2>11. Good(m2, d, o2, r, f2, g, x, z, c)
      BY <2>7, <2>9, <2>10 DEF Good, MemHolds
    <2>12. QED
      BY <1>3, <1>5, <2>1, <2>11 DEF GoodNow
  <1>8. QED
    BY <1>6, <1>7

-----------------------------------------------------------------------------
(* The invariant.                                                          *)

\* A new file has one empty leaf.
LEMMA InitHeld ==
    ASSUME Init, NEW least \in Nat
    PROVE  Held(least)
  <1>1. PICK m, r, f, q, d, o, g : /\ m = mem /\ r = 0 /\ f = rows /\ q = [Blank("leaf") EXCEPT !.next = NoPage]
                                   /\ d = disk /\ o = owner /\ g = saved
    OBVIOUS
  <1>2. /\ DOMAIN m = {0} /\ m[0] = q /\ d = m /\ root = r /\ g = f
        /\ \A k \in Keys : f[k] = NoRow
        /\ pc = [c \in Clients |-> "idle"]
    BY <1>1 DEF Init
  <1>3. q.type = "leaf" /\ q.cells = <<>> /\ q.off = Capacity /\ q.next = NoPage
    BY <1>1 DEF Blank
  <1>4. AllTaken(least)
    <2>1. Len(q.cells) = 0 /\ Capacity \in Nat
      BY <1>3, TreeAssumption
    <2>2. PICK a, b : a = q.off /\ b = Len(q.cells)
      OBVIOUS
    <2>3. a + least * b <= Capacity
      BY <1>3, <2>1, <2>2
    <2>4. Taken(q, least)
      BY <1>3, <2>2, <2>3 DEF Taken
    <2>5. QED
      BY <1>1, <1>2, <2>4 DEF AllTaken, TakenAll
  <1>5. HasTree(m, r, f)
    <2>1. DOMAIN q.cells = {}
      BY <1>3
    <2>2. LeafHolds(q, Keys, f)
      BY <1>2, <2>1 DEF LeafHolds
    <2>3. r = 0 /\ 0 \in DOMAIN m /\ m[0].type = "leaf" /\ m[0].next = NoPage /\ LeafHolds(m[0], Keys, f)
      BY <1>1, <1>2, <1>3, <2>2
    <2>4. QED
      BY <2>3, FirstTree
  <1>6. ASSUME NEW c \in Clients PROVE GoodNow(c)
    <2>1. PICK w, z : w = op[c] /\ z = pc[c] /\ z = "idle"
      BY <1>2
    <2>2. FileHolds(m, d, o, r, f, g, c)
      BY <1>1, <1>2, <1>5 DEF FileHolds
    <2>3. Good(m, d, o, r, f, g, w, z, c)
      BY <1>5, <2>1, <2>2 DEF Good, MemHolds
    <2>4. QED
      BY <1>1, <1>2, <2>1, <2>3 DEF GoodNow
  <1>7. QED
    BY <1>4, <1>6, InitShape DEF Held, AllGood

\* A step of one client.
StepOf(c) ==
    \/ \E k \in Keys, kind \in Kinds, r \in Rows \cup {NoRow} : Start(c, kind, k, r)
    \/ Descend(c) \/ DescendFails(c) \/ KeyNotFound(c)
    \/ DeleteRow(c) \/ PutRow(c)
    \/ SplitLeaf(c) \/ SplitLeafFails(c)
    \/ PatchInternal(c) \/ SplitInternal(c) \/ SplitInternalFails(c)
    \/ CreateNewRoot(c) \/ CreateNewRootFails(c)
    \/ Commit(c) \/ Rollback(c)

\* What cannot be undone stays so.
LEMMA FlagsStay ==
    ASSUME NEW c, StepOf(c)
    PROVE  (misled => misled') /\ (parted => parted')
  <1>1. CASE \E k \in Keys, kind \in Kinds, r \in Rows \cup {NoRow} : Start(c, kind, k, r)
    BY <1>1 DEF Start
  <1>2. CASE Descend(c) \/ DescendFails(c) \/ KeyNotFound(c) \/ DeleteRow(c) \/ PutRow(c)
    BY <1>2 DEF Descend, DescendFails, KeyNotFound, DeleteRow, PutRow
  <1>3. CASE SplitLeaf(c) \/ PatchInternal(c) \/ CreateNewRoot(c) \/ CreateNewRootFails(c) \/ Commit(c)
    BY <1>3 DEF SplitLeaf, PatchInternal, CreateNewRoot, CreateNewRootFails, Commit
  <1>4. CASE SplitLeafFails(c)
    <2>1. misled' = (misled \/ op[c].kind = "update") /\ parted' = parted
      BY <1>4 DEF SplitLeafFails
    <2>2. QED
      BY <2>1, Zenon
  <1>5. CASE SplitInternal(c)
    <2>1. PICK b \in BOOLEAN : parted' = (parted \/ b)
      BY <1>5 DEF SplitInternal
    <2>2. misled' = misled
      BY <1>5 DEF SplitInternal
    <2>3. QED
      BY <2>1, <2>2, Zenon
  <1>6. CASE SplitInternalFails(c)
    BY <1>6 DEF SplitInternalFails
  <1>7. CASE Rollback(c)
    <2>1. misled' = (misled \/ NewHighRoot(c)) /\ parted' = parted
      BY <1>7 DEF Rollback
    <2>2. QED
      BY <2>1, Zenon
  <1>8. QED
    BY <1>1, <1>2, <1>3, <1>4, <1>5, <1>6, <1>7 DEF StepOf

\* Steps that change no page.
LEMMA QuietHeld ==
    ASSUME Shape, NEW c \in Clients, NEW least \in Nat, AllTaken(least),
           \/ \E k \in Keys, kind \in Kinds, r \in Rows \cup {NoRow} : Start(c, kind, k, r)
           \/ Descend(c) \/ DescendFails(c) \/ KeyNotFound(c)
    PROVE  AllTaken(least)' /\ (GoodNow(c) => GoodNow(c)')
  <1>1. UNCHANGED <<mem, disk>>
    BY DEF Start, Descend, DescendFails, KeyNotFound
  <1>2. AllTaken(least)'
    BY <1>1 DEF AllTaken, TakenAll
  <1>3. ASSUME GoodNow(c) PROVE GoodNow(c)'
    <2>1. CASE \E k \in Keys, kind \in Kinds, r \in Rows \cup {NoRow} : Start(c, kind, k, r)
      BY <1>3, <2>1, StartGood
    <2>2. CASE Descend(c)
      BY <1>3, <2>2, DescendGood
    <2>3. CASE DescendFails(c) \/ KeyNotFound(c)
      BY <1>3, <2>3, GiveUpGood
    <2>4. QED
      BY <2>1, <2>2, <2>3
  <1>4. QED
    BY <1>2, <1>3

\* The client's step keeps what holds of its pages.
LEMMA StepHeld ==
    ASSUME OneWriter, NodeFits, Shape, NEW c \in Clients, NEW least \in Nat, NEW most \in Nat,
           RowsFit(least, most), AllTaken(least), StepOf(c)
    PROVE  AllTaken(least)' /\ (GoodNow(c) /\ ~misled' /\ ~parted' => GoodNow(c)')
  <1>1. CASE \/ \E k \in Keys, kind \in Kinds, r \in Rows \cup {NoRow} : Start(c, kind, k, r)
             \/ Descend(c) \/ DescendFails(c) \/ KeyNotFound(c)
    BY <1>1, QuietHeld
  <1>2. CASE DeleteRow(c)
    BY <1>2, DeleteRowHeld
  <1>3. CASE PutRow(c)
    BY <1>3, PutRowHeld
  <1>4. CASE SplitLeaf(c)
    BY <1>4, SplitLeafHeld
  <1>5. CASE SplitLeafFails(c)
    BY <1>5, SplitLeafFailsHeld
  <1>6. CASE PatchInternal(c)
    BY <1>6, PatchInternalHeld
  <1>7. CASE SplitInternal(c)
    BY <1>7, SplitInternalHeld
  <1>8. CASE SplitInternalFails(c)
    BY <1>8, SplitInternalFailsHeld
  <1>9. CASE CreateNewRoot(c)
    BY <1>9, CreateNewRootHeld
  <1>10. CASE CreateNewRootFails(c)
    BY <1>10, CreateNewRootFailsHeld
  <1>11. CASE Commit(c)
    <2>1. misled' = misled
      BY <1>11 DEF Commit
    <2>2. QED
      BY <1>11, <2>1, CommitHeld
  <1>12. CASE Rollback(c)
    BY <1>12, RollbackHeld
  <1>13. QED
    BY <1>1, <1>2, <1>3, <1>4, <1>5, <1>6, <1>7, <1>8, <1>9, <1>10, <1>11, <1>12 DEF StepOf

\* Every step keeps the invariant.
LEMMA NextHeld ==
    ASSUME OneWriter, NodeFits, NEW least \in Nat, NEW most \in Nat, RowsFit(least, most),
           Held(least), [Next]_vars
    PROVE  Held(least)'
  <1>1. Shape /\ AllTaken(least) /\ AllGood
    BY DEF Held
  <1>2. Shape'
    BY <1>1, NextShape
  <1>3. CASE UNCHANGED vars
    <2>1. UNCHANGED <<mem, disk, owner, root, op, pc, rows, saved, misled, parted>>
      BY <1>3 DEF vars
    <2>2. AllTaken(least)'
      BY <1>1, <2>1 DEF AllTaken, TakenAll
    <2>3. ASSUME NEW c \in Clients, GoodNow(c) PROVE GoodNow(c)'
      <3>1. PICK w, z : w = op[c] /\ z = pc[c]
        OBVIOUS
      <3>2. Good(mem, disk, owner, root, rows, saved, w, z, c)
        BY <2>3, <3>1 DEF GoodNow
      <3>3. QED
        BY <2>1, <3>1, <3>2 DEF GoodNow
    <2>4. AllGood'
      BY <1>1, <2>1, <2>3 DEF AllGood
    <2>5. QED
      BY <1>2, <2>2, <2>4 DEF Held
  <1>4. CASE Next
    <2>1. PICK c \in Clients : StepOf(c)
      BY <1>4 DEF Next, StepOf
    <2>2. AllTaken(least)' /\ (GoodNow(c) /\ ~misled' /\ ~parted' => GoodNow(c)')
      BY <1>1, <2>1, StepHeld
    <2>3. (misled => misled') /\ (parted => parted')
      BY <2>1, FlagsStay
    <2>4. Clients = {c}
      BY DEF OneWriter
    <2>5. AllGood'
      BY <1>1, <2>2, <2>3, <2>4 DEF AllGood
    <2>6. QED
      BY <1>2, <2>2, <2>5 DEF Held
  <1>5. QED
    BY <1>3, <1>4

\* The tree in memory leads every search to the leaf with the row.
LEMMA HeldSearch ==
    ASSUME OneWriter, NEW least \in Nat, Held(least)
    PROVE  SearchExact
  <1>1. Shape /\ AllGood
    BY DEF Held
  <1>2. ASSUME Quiet, ~parted, NEW k \in Keys PROVE Search(mem, k) = rows[k]
    <2>1. PICK c : Clients = {c}
      BY DEF OneWriter
    <2>2. GoodNow(c) /\ pc[c] = "idle"
      BY <1>1, <1>2, <2>1 DEF Quiet, AllGood
    <2>3. HasTree(mem, root, rows)
      BY <2>2 DEF GoodNow, Good, MemHolds
    <2>4. \A p \in DOMAIN mem : WellFormed(mem[p], DOMAIN mem)
      BY <1>1, ShapeParts
    <2>5. QED
      BY <2>3, <2>4, TreeSearch
  <1>3. QED
    BY <1>2 DEF SearchExact

\* Search finds every row that was stored and none that was not (btree.go:40-58), for any
\* tree, whatever was split, rolled back or failed, when one transaction at a time works
\* on it, an internal page has room for a cell and half the rows of a leaf fit a page.
THEOREM SearchTheorem ==
    ASSUME OneWriter, NodeFits, HalvesFit
    PROVE  Spec => []SearchExact
  <1>1. PICK least, most \in Nat : RowsFit(least, most)
    BY DEF HalvesFit
  <1>2. Init => Held(least)
    BY InitHeld
  <1>3. Held(least) /\ [Next]_vars => Held(least)'
    BY <1>1, NextHeld
  <1>4. Held(least) => SearchExact
    BY HeldSearch
  <1>5. QED
    BY <1>2, <1>3, <1>4, PTL DEF Spec

\* At any moment, also in the middle of a transaction or of a split, a search of the page
\* file finds the committed rows and no others; the client whose new root is an empty page
\* there has not committed or rolled back yet.
FileSearchExact ==
    ~misled /\ ~parted /\ (\A c \in Clients : ~NewHighRoot(c)) => \A k \in Keys : Search(disk, k) = saved[k]

\* The pages in the file make a tree of their own.
LEMMA HeldFile ==
    ASSUME OneWriter, NEW least \in Nat, Held(least)
    PROVE  FileSearchExact
  <1>1. Shape /\ AllGood
    BY DEF Held
  <1>2. ASSUME ~misled, ~parted, \A c \in Clients : ~NewHighRoot(c), NEW k \in Keys PROVE Search(disk, k) = saved[k]
    <2>1. PICK c \in Clients : GoodNow(c) /\ ~NewHighRoot(c)
      BY <1>1, <1>2 DEF OneWriter, AllGood
    <2>2. PICK d, o, r, g : d = disk /\ o = owner /\ r = root /\ g = saved
      OBVIOUS
    <2>3. ~HighRoot(d, o, r, c)
      BY <2>1, <2>2 DEF NewHighRoot, HighRoot
    <2>4. FileHolds(mem, d, o, r, rows, g, c)
      BY <2>1, <2>2 DEF GoodNow, Good
    <2>5. HasTree(disk, root, saved)
      BY <2>2, <2>3, <2>4 DEF FileHolds
    <2>6. \A p \in DOMAIN disk : WellFormed(disk[p], DOMAIN disk)
      BY <1>1 DEF Shape, PagesOK
    <2>7. QED
      BY <2>5, <2>6, TreeSearch
  <1>3. QED
    BY <1>2 DEF FileSearchExact

\* A transaction at work changes nothing that a reader of the page file, or the process
\* after a restart, finds: the rows are the committed ones whatever was split in memory.
THEOREM FileSearchTheorem ==
    ASSUME OneWriter, NodeFits, HalvesFit
    PROVE  Spec => []FileSearchExact
  <1>1. PICK least, most \in Nat : RowsFit(least, most)
    BY DEF HalvesFit
  <1>2. Init => Held(least)
    BY InitHeld
  <1>3. Held(least) /\ [Next]_vars => Held(least)'
    BY <1>1, NextHeld
  <1>4. Held(least) => FileSearchExact
    BY HeldFile
  <1>5. QED
    BY <1>2, <1>3, <1>4, PTL DEF Spec

=============================================================================
