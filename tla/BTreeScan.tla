----------------------------- MODULE BTreeScan -----------------------------
(***************************************************************************)
(* The chain of leaves: a scan of a table, in memory and in the page file, *)
(* returns its rows, each once and in key order (ScanExact, FileExact), on *)
(* the tree of BTreeProofs, with one client at work.                       *)
(***************************************************************************)
EXTENDS BTreeProofs

-----------------------------------------------------------------------------
(* The first leaf.                                                         *)

\* FindLeftmostLeaf follows the first pointers from the root.
LEMMA LeftmostUnfold ==
    ASSUME NEW img, \A p \in DOMAIN img : WellFormed(img[p], DOMAIN img)
    PROVE  \E f : /\ FindLeftmostLeaf(img) = f[root]
                  /\ \A p \in DOMAIN img : f[p] = IF img[p].type = "leaf" \/ img[p].cells = <<>> THEN p
                                                  ELSE f[img[p].cells[1].child]
  <1>1. PICK D, Stop, nx : /\ D = DOMAIN img /\ Stop = {p \in D : img[p].type = "leaf" \/ img[p].cells = <<>>}
                           /\ nx = [p \in D |-> img[p].cells[1].child]
    OBVIOUS
  <1>2. ASSUME NEW p \in D \ Stop PROVE nx[p] \in D
    <2>1. PICK x : x = img[p]
      OBVIOUS
    <2>2. WellFormed(x, D) /\ x.type # "leaf" /\ x.cells # <<>>
      BY <1>1, <2>1
    <2>3. x.cells \in Seq(InternalCell(D))
      BY <2>2, PageParts
    <2>4. x.cells[1] \in InternalCell(D)
      BY <2>2, <2>3
    <2>5. QED
      BY <1>1, <2>1, <2>4 DEF InternalCell
  <1>3. PICK g : Follows(g, D, Stop, nx)
    <2>1. Inside(D, Stop, nx)
      BY <1>2 DEF Inside
    <2>2. QED
      BY <2>1, WalkExists
  <1>4. ASSUME NEW p \in D PROVE g[p] = IF img[p].type = "leaf" \/ img[p].cells = <<>> THEN p
                                        ELSE g[img[p].cells[1].child]
    <2>1. g[p] = IF p \in Stop THEN p ELSE g[nx[p]]
      BY <1>3 DEF Follows
    <2>2. nx[p] = img[p].cells[1].child /\ (p \in Stop <=> img[p].type = "leaf" \/ img[p].cells = <<>>)
      BY <1>1
    <2>3. QED
      BY <2>1, <2>2
  <1>5. g = [p \in D |-> g[p]]
    BY <1>3 DEF Follows, IsFcn
  <1>6. g = [p \in DOMAIN img |-> IF img[p].type = "leaf" \/ img[p].cells = <<>> THEN p
                                  ELSE g[img[p].cells[1].child]]
    BY <1>1, <1>4, <1>5
  <1> DEFINE F == CHOOSE f : f = [p \in DOMAIN img |-> IF img[p].type = "leaf" \/ img[p].cells = <<>> THEN p
                                                       ELSE f[img[p].cells[1].child]]
  <1>7. F = [p \in DOMAIN img |-> IF img[p].type = "leaf" \/ img[p].cells = <<>> THEN p
                                  ELSE F[img[p].cells[1].child]]
    BY <1>6
  <1>8. FindLeftmostLeaf(img) = F[root]
    BY DEF FindLeftmostLeaf
  <1> HIDE DEF F
  <1>9. \A p \in DOMAIN img : F[p] = IF img[p].type = "leaf" \/ img[p].cells = <<>> THEN p
                                     ELSE F[img[p].cells[1].child]
    BY <1>7
  <1>10. QED
    BY <1>8, <1>9

\* A scan begins at the first leaf, or at an empty internal page that leads to it.
Entry(img, e) == e \in DOMAIN img /\ (e = 0 \/ (img[e].cells = <<>> /\ img[e].next = 0))

\* In a tree, the first pointers lead there.
LEMMA TreeEntry ==
    ASSUME NEW img, NEW f, HasTree(img, root, f), \A p \in DOMAIN img : WellFormed(img[p], DOMAIN img)
    PROVE  Entry(img, FindLeftmostLeaf(img))
  <1>1. PICK T, loc, h : Tree(img, root, T, loc, h, f)
    BY DEF HasTree
  <1>2. PICK Z \in SUBSET T :
          /\ root \in Z
          /\ \A p \in Z : /\ img[p].type = "leaf" => p = 0
                          /\ img[p].type = "internal" =>
                               Pointer(img[p], 1) \in Z /\ (img[p].cells = <<>> => img[p].next = 0)
    BY <1>1 DEF Tree, LeftSpine
  <1>3. T \subseteq DOMAIN img /\ \A p \in T : h[p] \in Nat
    BY <1>1 DEF Tree, Frame
  <1>4. PICK F : /\ FindLeftmostLeaf(img) = F[root]
                 /\ \A p \in DOMAIN img : F[p] = IF img[p].type = "leaf" \/ img[p].cells = <<>> THEN p
                                                 ELSE F[img[p].cells[1].child]
    BY LeftmostUnfold
  <1> DEFINE B == {n \in Nat : \E p \in Z : h[p] = n /\ ~Entry(img, F[p])}
  <1>5. ASSUME B # {} PROVE FALSE
    <2>1. PICK n \in B : \A x \in B : n <= x
      <3>1. B \in SUBSET Nat
        OBVIOUS
      <3> HIDE DEF B
      <3>2. QED
        BY <1>5, <3>1, LeastExists
    <2>2. PICK p \in Z : h[p] = n /\ ~Entry(img, F[p])
      BY <2>1
    <2>3. p \in T /\ p \in DOMAIN img /\ Holds(img[p], loc[p], h[p], T, loc, h, f)
      BY <1>1, <1>3 DEF Tree
    <2>4. CASE img[p].type = "leaf"
      <3>1. F[p] = p
        BY <1>4, <2>3, <2>4
      <3>2. p = 0
        BY <1>2, <2>4
      <3>3. QED
        BY <2>2, <2>3, <3>1, <3>2 DEF Entry
    <2>5. CASE img[p].type = "internal" /\ img[p].cells = <<>>
      BY <1>2, <1>4, <2>2, <2>3, <2>5 DEF Entry
    <2>6. CASE img[p].type = "internal" /\ img[p].cells # <<>>
      <3>1. PICK x, D, q : x = img[p] /\ D = DOMAIN img /\ q = x.cells[1].child
        OBVIOUS
      <3>2. x.cells \in Seq(InternalCell(D)) /\ Len(x.cells) \in Nat /\ x.cells # <<>>
        BY <2>3, <2>6, <3>1, PageParts
      <3>3. Len(x.cells) >= 1
        BY <3>2
      <3>4. Pointer(x, 1) = q /\ q \in Kids(x)
        <4>1. Pointer(x, 1) = q
          BY <3>1, <3>2, <3>3 DEF Pointer
        <4>2. 1 \in 1..(Len(x.cells) + 1)
          BY <3>2
        <4>3. QED
          BY <4>1, <4>2 DEF Kids
      <3>5. q \in Z
        BY <1>2, <2>6, <3>1, <3>4
      <3>6. h[q] + 1 = n
        BY <2>2, <2>3, <2>6, <3>1, <3>4 DEF Holds, NodeHolds
      <3>7. h[q] \in Nat /\ n \in Nat /\ h[q] < n
        BY <1>3, <3>5, <3>6
      <3>8. h[q] \notin B
        BY <2>1, <3>7
      <3>9. Entry(img, F[q])
        BY <3>5, <3>7, <3>8
      <3>10. F[p] = F[q]
        BY <1>4, <2>3, <2>6, <3>1
      <3>11. QED
        BY <2>2, <3>9, <3>10
    <2>7. QED
      BY <2>3, <2>4, <2>5, <2>6 DEF Holds
  <1>6. h[root] \in Nat /\ h[root] \notin B
    BY <1>2, <1>3, <1>5
  <1>7. QED
    BY <1>2, <1>4, <1>6

\* An empty internal root leads to the first leaf, whatever was above that leaf.
LEMMA BlankEntry ==
    ASSUME NEW img, \A p \in DOMAIN img : WellFormed(img[p], DOMAIN img), root \in DOMAIN img,
           img[root] = Blank("internal")
    PROVE  Entry(img, FindLeftmostLeaf(img))
  <1>1. PICK F : /\ FindLeftmostLeaf(img) = F[root]
                 /\ \A p \in DOMAIN img : F[p] = IF img[p].type = "leaf" \/ img[p].cells = <<>> THEN p
                                                 ELSE F[img[p].cells[1].child]
    BY LeftmostUnfold
  <1>2. img[root].cells = <<>> /\ img[root].next = 0
    BY DEF Blank
  <1>3. F[root] = root
    BY <1>1, <1>2
  <1>4. QED
    BY <1>1, <1>2, <1>3 DEF Entry

-----------------------------------------------------------------------------
(* The chain.                                                              *)

\* One more page of the chain, unless it has ended.
NextSeen(img, s) == IF img[Last(s)].next = NoPage THEN s ELSE Append(s, img[Last(s)].next)

\* Chain goes from page to page as often as the file may have pages.
LEMMA ChainUnfold ==
    ASSUME NEW img, \A p \in DOMAIN img : WellFormed(img[p], DOMAIN img),
           FindLeftmostLeaf(img) \in DOMAIN img
    PROVE  \E f : /\ Chain(img) = f[MaxPages] /\ f[0] = <<FindLeftmostLeaf(img)>>
                  /\ \A n \in 1..MaxPages : f[n] = NextSeen(img, f[n-1])
  <1>1. PICK D, X, a, G : /\ D = DOMAIN img /\ X = {s \in Seq(D) : s # <<>>} /\ a = <<FindLeftmostLeaf(img)>>
                          /\ G = [n \in 1..MaxPages |-> [x \in X |-> NextSeen(img, x)]]
    OBVIOUS
  <1>2. a \in X /\ MaxPages \in Nat
    BY <1>1, TreeAssumption
  <1>3. ASSUME NEW x \in X PROVE NextSeen(img, x) \in X
    <2>1. x \in Seq(D) /\ x # <<>>
      BY <1>1
    <2>2. Last(x) \in D
      BY <2>1 DEF Last
    <2>3. PICK y : y = img[Last(x)]
      OBVIOUS
    <2>4. LeafOK(y, D) \/ InternalOK(y, D)
      BY <1>1, <2>2, <2>3 DEF WellFormed
    <2>5. y.next \in D \cup {NoPage}
      BY <2>4, PageFields DEF LeafOK, InternalOK, Sound
    <2>6. y.next \in D => Append(x, y.next) \in X
      BY <1>1, <2>1
    <2>7. QED
      BY <2>3, <2>5, <2>6 DEF NextSeen
  <1>4. Rounds(MaxPages, X, G)
    BY <1>1, <1>3 DEF Rounds
  <1>5. PICK g : Runs(g, MaxPages, X, a, G)
    BY <1>2, <1>4, LoopExists
  <1>6. g = [n \in 0..MaxPages |-> g[n]] /\ g[0] = a
    BY <1>5 DEF Runs
  <1>7. ASSUME NEW n \in 1..MaxPages PROVE g[n] = NextSeen(img, g[n-1])
    <2>1. n - 1 \in 0..MaxPages
      BY <1>2
    <2>2. g[n-1] \in X /\ g[n] = G[n][g[n-1]]
      BY <1>5, <2>1 DEF Runs
    <2>3. QED
      BY <1>1, <2>2
  <1>8. ASSUME NEW n \in 0..MaxPages
        PROVE g[n] = IF n = 0 THEN <<FindLeftmostLeaf(img)>> ELSE NextSeen(img, g[n-1])
    <2>1. CASE n = 0
      BY <1>1, <1>6, <2>1
    <2>2. CASE n # 0
      <3>1. n \in 1..MaxPages
        BY <1>2, <2>2
      <3>2. QED
        BY <1>7, <2>2, <3>1
    <2>3. QED
      BY <2>1, <2>2
  <1>9. g = [n \in 0..MaxPages |-> IF n = 0 THEN <<FindLeftmostLeaf(img)>> ELSE NextSeen(img, g[n-1])]
    BY <1>6, <1>8
  <1> DEFINE F == CHOOSE f : f = [n \in 0..MaxPages |-> IF n = 0 THEN <<FindLeftmostLeaf(img)>>
                                                        ELSE NextSeen(img, f[n-1])]
  <1>10. F = [n \in 0..MaxPages |-> IF n = 0 THEN <<FindLeftmostLeaf(img)>> ELSE NextSeen(img, F[n-1])]
    BY <1>9
  <1>11. Chain(img) = F[MaxPages]
    BY DEF Chain, NextSeen
  <1> HIDE DEF F
  <1>12. F[0] = <<FindLeftmostLeaf(img)>> /\ \A n \in 1..MaxPages : F[n] = NextSeen(img, F[n-1])
    BY <1>2, <1>10
  <1>13. QED
    BY <1>11, <1>12

\* W lists M pages, each the next of the one before it and the last without a next.
Linked(img, W, M) ==
    /\ \A i \in 1..M : W[i] \in DOMAIN img /\ img[W[i]].next = IF i = M THEN NoPage ELSE W[i + 1]
    /\ NoPage \notin DOMAIN img

\* Chain finds such a list when it begins at the first leaf.
LEMMA ChainIs ==
    ASSUME NEW img, \A p \in DOMAIN img : WellFormed(img[p], DOMAIN img),
           NEW M \in Nat, M >= 1, M - 1 <= MaxPages, NEW W, Linked(img, W, M), W[1] = FindLeftmostLeaf(img)
    PROVE  /\ Chain(img) \in Seq(DOMAIN img) /\ Len(Chain(img)) = M
           /\ \A i \in 1..M : Chain(img)[i] = W[i]
  <1>1. PICK D : D = DOMAIN img
    OBVIOUS
  <1>2. W[1] \in D /\ MaxPages \in Nat
    BY <1>1, TreeAssumption DEF Linked
  <1>3. PICK f : /\ Chain(img) = f[MaxPages] /\ f[0] = <<FindLeftmostLeaf(img)>>
                 /\ \A n \in 1..MaxPages : f[n] = NextSeen(img, f[n-1])
    BY <1>1, <1>2, ChainUnfold
  <1> DEFINE At(n) == /\ f[n] \in Seq(D) /\ Len(f[n]) = IF n + 1 <= M THEN n + 1 ELSE M
                      /\ \A i \in 1..Len(f[n]) : f[n][i] = W[i]
             S == {n \in 0..MaxPages : At(n)}
  <1>4. 0 \in S
    <2>1. PICK s, e : s = f[0] /\ e = W[1] /\ s = <<e>>
      BY <1>3
    <2>2. s \in Seq(D) /\ Len(s) = 1 /\ s[1] = e
      BY <1>2, <2>1
    <2>3. At(0)
      BY <2>1, <2>2
    <2>4. QED
      BY <1>2, <2>3
  <1>5. ASSUME NEW n \in 1..MaxPages, n - 1 \in S PROVE n \in S
    <2>1. PICK s, t, l : s = f[n-1] /\ t = f[n] /\ l = Len(s)
      OBVIOUS
    <2>2. /\ s \in Seq(D) /\ l = IF n <= M THEN n ELSE M
          /\ \A i \in 1..l : s[i] = W[i]
      BY <1>2, <1>5, <2>1
    <2>3. l \in 1..M /\ l >= 1
      BY <1>2, <2>2
    <2>4. Last(s) = W[l]
      BY <2>1, <2>2, <2>3 DEF Last
    <2>5. t = NextSeen(img, s)
      BY <1>3, <2>1
    <2>6. CASE l = M
      <3>1. img[Last(s)].next = NoPage
        BY <2>3, <2>4, <2>6 DEF Linked
      <3>2. t = s
        BY <2>5, <3>1 DEF NextSeen
      <3>3. n \in Nat /\ M <= n
        BY <1>2, <2>2, <2>6
      <3>4. t \in Seq(D) /\ Len(t) = M /\ ~(n + 1 <= M) /\ \A i \in 1..M : t[i] = W[i]
        <4>1. ~(n + 1 <= M)
          BY <3>3
        <4>2. QED
          BY <2>1, <2>2, <2>6, <3>2, <4>1
      <3>5. QED
        BY <2>1, <3>4
    <2>7. CASE l # M
      <3>1. img[Last(s)].next = W[l + 1] /\ l + 1 \in 1..M
        BY <2>3, <2>4, <2>7 DEF Linked
      <3>2. W[l + 1] \in D /\ W[l + 1] # NoPage
        BY <1>1, <3>1 DEF Linked
      <3>3. t = Append(s, W[l + 1])
        BY <2>5, <3>1, <3>2 DEF NextSeen
      <3>4. l = n /\ n + 1 <= M
        BY <1>2, <2>2, <2>3, <2>7
      <3>5. t \in Seq(D) /\ Len(t) = n + 1 /\ \A i \in 1..(n + 1) : t[i] = IF i = n + 1 THEN W[n + 1] ELSE s[i]
        <4>1. PICK e \in D : e = W[n + 1] /\ t = Append(s, e)
          BY <3>2, <3>3, <3>4
        <4>2. s \in Seq(D) /\ Len(s) = n
          BY <2>1, <2>2, <3>4
        <4>3. t \in Seq(D) /\ Len(t) = n + 1 /\ \A i \in 1..(n + 1) : t[i] = IF i = n + 1 THEN e ELSE s[i]
          BY <4>1, <4>2
        <4>4. QED
          BY <4>1, <4>3
      <3>6. \A i \in 1..(n + 1) : t[i] = W[i]
        BY <2>2, <3>4, <3>5
      <3>7. QED
        BY <2>1, <3>4, <3>5, <3>6
    <2>8. QED
      BY <2>6, <2>7
  <1>6. MaxPages \in S
    <2> HIDE DEF S
    <2>1. \A n \in 0..MaxPages : n \in S
      BY <1>2, <1>4, <1>5, Ascend
    <2>2. QED
      BY <1>2, <2>1
  <1>7. M <= MaxPages + 1 /\ Len(f[MaxPages]) = IF MaxPages + 1 <= M THEN MaxPages + 1 ELSE M
    BY <1>2, <1>6
  <1>8. Len(f[MaxPages]) = M
    BY <1>2, <1>7
  <1>9. QED
    BY <1>1, <1>3, <1>6, <1>8

-----------------------------------------------------------------------------
(* Cells in key order.                                                     *)

Increasing(s) == \A i, j \in DOMAIN s : i < j => s[i].key < s[j].key
Before(A, B) == \A x \in A, y \in B : x.key < y.key

\* The cells of two pages, those of the first before those of the second.
LEMMA JoinFacts ==
    ASSUME NEW s \in Seq(LeafCell), NEW t \in Seq(LeafCell), Increasing(s), Increasing(t),
           Before(ToSet(s), ToSet(t)), NEW u, u = s \o t
    PROVE  u \in Seq(LeafCell) /\ Increasing(u) /\ ToSet(u) = ToSet(s) \cup ToSet(t)
  <1>1. PICK m, n \in Nat : m = Len(s) /\ n = Len(t) /\ DOMAIN s = 1..m /\ DOMAIN t = 1..n
    OBVIOUS
  <1>2. /\ u \in Seq(LeafCell) /\ Len(u) = m + n /\ DOMAIN u = 1..(m + n)
        /\ \A i \in 1..(m + n) : u[i] = IF i <= m THEN s[i] ELSE t[i - m]
    BY <1>1
  <1>3. ASSUME NEW i \in 1..(m + n), NEW j \in 1..(m + n), i < j PROVE u[i].key < u[j].key
    <2>1. CASE j <= m
      <3>1. i \in 1..m /\ j \in 1..m
        BY <1>1, <1>3, <2>1
      <3>2. s[i].key < s[j].key
        BY <1>1, <1>3, <3>1 DEF Increasing
      <3>3. u[i] = s[i] /\ u[j] = s[j]
        BY <1>2, <2>1, <3>1
      <3>4. QED
        BY <3>2, <3>3
    <2>2. CASE i <= m /\ ~(j <= m)
      <3>1. i \in 1..m /\ j - m \in 1..n
        BY <1>1, <2>2
      <3>2. s[i] \in ToSet(s) /\ t[j - m] \in ToSet(t)
        BY <1>1, <3>1 DEF ToSet
      <3>3. QED
        BY <1>2, <2>2, <3>2 DEF Before
    <2>3. CASE ~(i <= m)
      <3>1. i - m \in 1..n /\ j - m \in 1..n /\ i - m < j - m /\ ~(j <= m)
        BY <1>1, <1>3, <2>3
      <3>2. t[i - m].key < t[j - m].key
        BY <1>1, <3>1 DEF Increasing
      <3>3. QED
        BY <1>2, <2>3, <3>1, <3>2
    <2>4. QED
      BY <2>1, <2>2, <2>3
  <1>4. ASSUME NEW x \in ToSet(u) PROVE x \in ToSet(s) \cup ToSet(t)
    <2>1. PICK i \in 1..(m + n) : x = u[i]
      BY <1>2 DEF ToSet
    <2>2. CASE i <= m
      <3>1. i \in 1..m
        BY <1>1, <2>2
      <3>2. QED
        BY <1>1, <1>2, <2>1, <2>2, <3>1 DEF ToSet
    <2>3. CASE ~(i <= m)
      <3>1. i - m \in 1..n
        BY <1>1, <2>3
      <3>2. QED
        BY <1>1, <1>2, <2>1, <2>3, <3>1 DEF ToSet
    <2>4. QED
      BY <2>2, <2>3
  <1>5. ASSUME NEW x \in ToSet(s) PROVE x \in ToSet(u)
    <2>1. PICK i \in 1..m : x = s[i]
      BY <1>1 DEF ToSet
    <2>2. i \in 1..(m + n) /\ i <= m
      BY <1>1
    <2>3. QED
      BY <1>2, <2>1, <2>2 DEF ToSet
  <1>6. ASSUME NEW x \in ToSet(t) PROVE x \in ToSet(u)
    <2>1. PICK i \in 1..n : x = t[i]
      BY <1>1 DEF ToSet
    <2>2. i + m \in 1..(m + n) /\ ~(i + m <= m) /\ (i + m) - m = i
      BY <1>1
    <2>3. u[i + m] = t[i]
      BY <1>2, <2>2
    <2>4. QED
      BY <1>2, <2>1, <2>2, <2>3 DEF ToSet
  <1>7. QED
    BY <1>2, <1>3, <1>4, <1>5, <1>6 DEF Increasing

\* f has the first pieces of seqs joined, one, two, and so on.
Joins(f, seqs, M) == f[1] = seqs[1] /\ \A n \in 2..M : f[n] = f[n-1] \o seqs[n]

\* FlattenSeq joins the pieces one after the other.
LEMMA FlattenUnfold ==
    ASSUME NEW S, NEW M \in Nat, M >= 1, NEW seqs \in [1..M -> Seq(S)], Len(seqs) = M
    PROVE  \E f : FlattenSeq(seqs) = f[M] /\ Joins(f, seqs, M)
  <1>1. PICK X, a, G : /\ X = Seq(S) /\ a = <<>>
                       /\ G = [n \in 1..M |-> [x \in X |-> IF n = 1 THEN seqs[n] ELSE x \o seqs[n]]]
    OBVIOUS
  <1>2. Rounds(M, X, G)
    <2>1. ASSUME NEW n \in 1..M, NEW x \in X PROVE G[n][x] \in X
      <3>1. x \in Seq(S) /\ seqs[n] \in Seq(S) /\ X = Seq(S)
        BY <1>1
      <3>2. x \o seqs[n] \in Seq(S)
        BY <3>1
      <3>3. G[n][x] = IF n = 1 THEN seqs[n] ELSE x \o seqs[n]
        BY <1>1
      <3>4. QED
        BY <3>1, <3>2, <3>3
    <2>2. QED
      BY <2>1 DEF Rounds
  <1>3. a \in X
    BY <1>1
  <1>4. PICK g : Runs(g, M, X, a, G)
    BY <1>2, <1>3, LoopExists
  <1>5. PICK h : h = [n \in 1..M |-> g[n]]
    OBVIOUS
  <1>6. ASSUME NEW n \in 1..M PROVE h[n] = IF n = 1 THEN seqs[n] ELSE h[n-1] \o seqs[n]
    <2>1. n - 1 \in 0..M
      OBVIOUS
    <2>2. g[n-1] \in X /\ g[n] = G[n][g[n-1]]
      BY <1>4, <2>1 DEF Runs
    <2>3. g[n] = IF n = 1 THEN seqs[n] ELSE g[n-1] \o seqs[n]
      BY <1>1, <2>2
    <2>4. n # 1 => n - 1 \in 1..M
      OBVIOUS
    <2>5. QED
      BY <1>5, <2>3, <2>4
  <1>7. h = [n \in 1..M |-> h[n]]
    BY <1>5
  <1>8. h = [n \in 1..Len(seqs) |-> IF n = 1 THEN seqs[n] ELSE h[n-1] \o seqs[n]]
    BY <1>6, <1>7
  <1> DEFINE F == CHOOSE f : f = [i \in 1..Len(seqs) |-> IF i = 1 THEN seqs[i] ELSE f[i-1] \o seqs[i]]
  <1>9. F = [n \in 1..Len(seqs) |-> IF n = 1 THEN seqs[n] ELSE F[n-1] \o seqs[n]]
    BY <1>8
  <1>10. FlattenSeq(seqs) = F[Len(seqs)]
    BY DEF FlattenSeq
  <1> HIDE DEF F
  <1>11. \A n \in 1..M : F[n] = IF n = 1 THEN seqs[n] ELSE F[n-1] \o seqs[n]
    BY <1>9
  <1>12. F[1] = seqs[1]
    BY <1>11
  <1>13. ASSUME NEW n \in 2..M PROVE F[n] = F[n-1] \o seqs[n]
    <2>1. n \in 1..M /\ n # 1
      OBVIOUS
    <2>2. QED
      BY <1>11, <2>1
  <1>14. QED
    BY <1>10, <1>12, <1>13 DEF Joins

\* The cells of M pages, each in key order and those of a page before those of later ones.
InOrder(seqs, M) ==
    /\ seqs \in [1..M -> Seq(LeafCell)] /\ Len(seqs) = M /\ \A i \in 1..M : Increasing(seqs[i])
    /\ \A i, j \in 1..M : i < j => Before(ToSet(seqs[i]), ToSet(seqs[j]))

\* Joined, they are in key order.
LEMMA FlattenFacts ==
    ASSUME NEW M \in Nat, M >= 1, NEW seqs, InOrder(seqs, M), NEW u, u = FlattenSeq(seqs)
    PROVE  /\ u \in Seq(LeafCell) /\ Increasing(u)
           /\ \A x : x \in ToSet(u) <=> \E i \in 1..M : x \in ToSet(seqs[i])
  <1>0. seqs \in [1..M -> Seq(LeafCell)] /\ Len(seqs) = M
    BY DEF InOrder
  <1>1. PICK f : u = f[M] /\ Joins(f, seqs, M)
    BY <1>0, FlattenUnfold
  <1> DEFINE At(n) == /\ f[n] \in Seq(LeafCell) /\ Increasing(f[n])
                      /\ \A x : x \in ToSet(f[n]) <=> \E i \in 1..n : x \in ToSet(seqs[i])
             S == {n \in 0..M : n = 0 \/ At(n)}
  <1>2. 0 \in S
    OBVIOUS
  <1>3. ASSUME NEW n \in 1..M, n - 1 \in S PROVE n \in S
    <2>1. seqs[n] \in Seq(LeafCell) /\ Increasing(seqs[n])
      BY DEF InOrder
    <2>2. CASE n = 1
      <3>1. f[n] = seqs[n] /\ \A i : i \in 1..n <=> i = n
        BY <1>1, <2>2 DEF Joins
      <3>2. At(n)
        BY <2>1, <3>1
      <3>3. QED
        BY <3>2
    <2>3. CASE n # 1
      <3>1. PICK s, t, v : s = f[n-1] /\ t = seqs[n] /\ v = f[n]
        OBVIOUS
      <3>2. n - 1 # 0 /\ n \in 2..M
        BY <2>3
      <3>3. v = s \o t
        BY <1>1, <3>1, <3>2 DEF Joins
      <3>4. /\ s \in Seq(LeafCell) /\ Increasing(s)
            /\ \A x : x \in ToSet(s) <=> \E i \in 1..(n-1) : x \in ToSet(seqs[i])
        BY <1>3, <3>1, <3>2
      <3>5. Before(ToSet(s), ToSet(t))
        <4>1. ASSUME NEW x \in ToSet(s), NEW y \in ToSet(t) PROVE x.key < y.key
          <5>1. PICK i \in 1..(n-1) : x \in ToSet(seqs[i])
            BY <3>4
          <5>2. i \in 1..M /\ i < n
            OBVIOUS
          <5>3. Before(ToSet(seqs[i]), ToSet(seqs[n]))
            BY <5>2 DEF InOrder
          <5>4. QED
            BY <3>1, <5>1, <5>3 DEF Before
        <4>2. QED
          BY <4>1 DEF Before
      <3>6. v \in Seq(LeafCell) /\ Increasing(v) /\ ToSet(v) = ToSet(s) \cup ToSet(t)
        BY <2>1, <3>1, <3>3, <3>4, <3>5, JoinFacts
      <3>7. ASSUME NEW x PROVE x \in ToSet(v) <=> \E i \in 1..n : x \in ToSet(seqs[i])
        <4>1. \A i : i \in 1..n <=> i \in 1..(n-1) \/ i = n
          OBVIOUS
        <4>2. x \in ToSet(v) <=> x \in ToSet(s) \/ x \in ToSet(t)
          BY <3>6
        <4>3. QED
          BY <3>1, <3>4, <4>1, <4>2
      <3>8. At(n)
        BY <3>1, <3>6, <3>7
      <3>9. QED
        BY <3>8
    <2>4. QED
      BY <2>2, <2>3
  <1>4. M \in S
    <2> HIDE DEF S
    <2>1. \A n \in 0..M : n \in S
      BY <1>2, <1>3, Ascend
    <2>2. QED
      BY <2>1
  <1>5. QED
    BY <1>1, <1>4

\* The cells on the chain, page after page.
ChainCells(img) == FlattenSeq([i \in DOMAIN Chain(img) |-> img[Chain(img)[i]].cells])

\* f has the cells of table tb among none, the first, the first two, and so on.
Finds(f, cells, end, tb) ==
    /\ f[0] = <<>>
    /\ \A n \in 1..end : f[n] = IF TableOf[cells[n].key] = tb THEN Append(f[n-1], cells[n]) ELSE f[n-1]

\* The loop of Scan runs to the end of the cells or to one of a later table.
LEMMA ScanUnfold ==
    ASSUME NEW img, NEW tb, NEW cells \in Seq(LeafCell), cells = ChainCells(img)
    PROVE  \E end \in 0..Len(cells) : \E f :
             /\ Scan(img, tb) = f[end] /\ Finds(f, cells, end, tb)
             /\ end < Len(cells) => TableOf[cells[end + 1].key] > tb
  <1> DEFINE I == {n \in 1..Len(cells) : TableOf[cells[n].key] > tb}
             later == IF I # {} THEN Min(I) ELSE 0
  <1>1. PICK end : end = IF later = 0 THEN Len(cells) ELSE later - 1
    OBVIOUS
  <1>2. Len(cells) \in Nat /\ \A n \in 1..Len(cells) : cells[n] \in LeafCell
    OBVIOUS
  <1>3. end \in 0..Len(cells) /\ (end < Len(cells) => TableOf[cells[end + 1].key] > tb)
    <2>1. CASE I = {}
      <3>1. end = Len(cells)
        BY <1>1, <2>1
      <3>2. QED
        BY <1>2, <3>1
    <2>2. CASE I # {}
      <3>1. PICK l : l = Min(I)
        OBVIOUS
      <3>2. l \in I
        <4>1. I \in SUBSET Nat
          OBVIOUS
        <4> HIDE DEF I
        <4>2. QED
          BY <2>2, <3>1, <4>1, MinFacts
      <3>3. l \in 1..Len(cells) /\ TableOf[cells[l].key] > tb /\ l # 0
        BY <1>2, <3>2
      <3>4. end = l - 1
        BY <1>1, <2>2, <3>1, <3>3
      <3>5. end + 1 = l /\ end \in 0..Len(cells)
        BY <1>2, <3>3, <3>4
      <3>6. QED
        BY <3>3, <3>5
    <2>3. QED
      BY <2>1, <2>2
  <1> HIDE DEF later
  <1>4. PICK X, a, G : /\ X = Seq(LeafCell) /\ a = <<>>
                       /\ G = [n \in 1..end |-> [x \in X |->
                                 IF TableOf[cells[n].key] = tb THEN Append(x, cells[n]) ELSE x]]
    OBVIOUS
  <1>5. Rounds(end, X, G)
    <2>1. ASSUME NEW n \in 1..end, NEW x \in X PROVE G[n][x] \in X
      <3>1. cells[n] \in LeafCell /\ x \in Seq(LeafCell)
        <4>1. n \in 1..Len(cells)
          BY <1>2, <1>3
        <4>2. QED
          BY <1>2, <1>4, <4>1
      <3>2. Append(x, cells[n]) \in Seq(LeafCell)
        BY <3>1
      <3>3. G[n][x] = IF TableOf[cells[n].key] = tb THEN Append(x, cells[n]) ELSE x
        BY <1>4
      <3>4. QED
        BY <1>4, <3>2, <3>3
    <2>2. QED
      BY <2>1 DEF Rounds
  <1>6. a \in X /\ end \in Nat
    BY <1>2, <1>3, <1>4
  <1>7. PICK g : Runs(g, end, X, a, G)
    BY <1>5, <1>6, LoopExists
  <1>8. ASSUME NEW n \in 0..end
        PROVE g[n] = IF n = 0 THEN <<>>
                     ELSE IF TableOf[cells[n].key] = tb THEN Append(g[n-1], cells[n]) ELSE g[n-1]
    <2>1. CASE n = 0
      BY <1>4, <1>7, <2>1 DEF Runs
    <2>2. CASE n # 0
      <3>1. n \in 1..end /\ n - 1 \in 0..end
        BY <1>6, <2>2
      <3>2. g[n-1] \in X /\ g[n] = G[n][g[n-1]]
        BY <1>7, <3>1 DEF Runs
      <3>3. QED
        BY <1>4, <2>2, <3>1, <3>2
    <2>3. QED
      BY <2>1, <2>2
  <1>9. g = [n \in 0..end |-> g[n]]
    BY <1>7 DEF Runs
  <1>10. g = [n \in 0..end |-> IF n = 0 THEN <<>>
                ELSE IF TableOf[cells[n].key] = tb THEN Append(g[n-1], cells[n]) ELSE g[n-1]]
    BY <1>8, <1>9
  <1> DEFINE F == CHOOSE f : f = [n \in 0..end |-> IF n = 0 THEN <<>>
                    ELSE IF TableOf[cells[n].key] = tb THEN Append(f[n-1], cells[n]) ELSE f[n-1]]
  <1>11. F = [n \in 0..end |-> IF n = 0 THEN <<>>
                ELSE IF TableOf[cells[n].key] = tb THEN Append(F[n-1], cells[n]) ELSE F[n-1]]
    BY <1>10
  <1>12. Scan(img, tb) = F[end]
    BY <1>1 DEF Scan, ChainCells, SelectInSeq, later
  <1> HIDE DEF F
  <1>13. Finds(F, cells, end, tb)
    <2>1. F[0] = <<>>
      BY <1>6, <1>11
    <2>2. ASSUME NEW n \in 1..end
          PROVE F[n] = IF TableOf[cells[n].key] = tb THEN Append(F[n-1], cells[n]) ELSE F[n-1]
      <3>1. n \in 0..end /\ n # 0
        BY <1>6
      <3>2. QED
        BY <1>11, <3>1
    <2>3. QED
      BY <2>1, <2>2 DEF Finds
  <1>14. QED
    BY <1>3, <1>12, <1>13

\* One more cell at the end, when its key is the largest.
LEMMA LastJoins ==
    ASSUME NEW s \in Seq(LeafCell), Increasing(s), NEW e \in LeafCell,
           \A x \in ToSet(s) : x.key < e.key, NEW u, u = Append(s, e)
    PROVE  u \in Seq(LeafCell) /\ Increasing(u) /\ ToSet(u) = ToSet(s) \cup {e}
  <1>1. PICK m \in Nat : m = Len(s) /\ DOMAIN s = 1..m
    OBVIOUS
  <1>2. /\ u \in Seq(LeafCell) /\ Len(u) = m + 1 /\ DOMAIN u = 1..(m + 1)
        /\ \A i \in 1..(m + 1) : u[i] = IF i = m + 1 THEN e ELSE s[i]
    BY <1>1
  <1>3. ASSUME NEW i \in 1..(m + 1), NEW j \in 1..(m + 1), i < j PROVE u[i].key < u[j].key
    <2>1. i \in 1..m /\ u[i] = s[i] /\ s[i] \in ToSet(s)
      BY <1>1, <1>2, <1>3 DEF ToSet
    <2>2. CASE j = m + 1
      BY <1>2, <2>1, <2>2
    <2>3. CASE j # m + 1
      <3>1. j \in 1..m /\ u[j] = s[j]
        BY <1>1, <1>2, <2>3
      <3>2. s[i].key < s[j].key
        BY <1>1, <1>3, <2>1, <3>1 DEF Increasing
      <3>3. QED
        BY <2>1, <3>1, <3>2
    <2>4. QED
      BY <2>2, <2>3
  <1>4. ASSUME NEW x \in ToSet(u) PROVE x \in ToSet(s) \cup {e}
    <2>1. PICK i \in 1..(m + 1) : x = u[i]
      BY <1>2 DEF ToSet
    <2>2. i = m + 1 \/ i \in 1..m
      BY <1>1
    <2>3. QED
      BY <1>1, <1>2, <2>1, <2>2 DEF ToSet
  <1>5. ASSUME NEW x \in ToSet(s) PROVE x \in ToSet(u)
    <2>1. PICK i \in 1..m : x = s[i]
      BY <1>1 DEF ToSet
    <2>2. i \in 1..(m + 1) /\ i # m + 1
      BY <1>1
    <2>3. QED
      BY <1>2, <2>1, <2>2 DEF ToSet
  <1>6. e \in ToSet(u)
    <2>1. m + 1 \in 1..(m + 1)
      BY <1>1
    <2>2. QED
      BY <1>2, <2>1 DEF ToSet
  <1>7. QED
    BY <1>2, <1>3, <1>4, <1>5, <1>6 DEF Increasing

\* u has the cells of table tb among the first ones, in key order.
Found(u, cells, end, tb) ==
    /\ u \in Seq(LeafCell) /\ Increasing(u)
    /\ \A x : x \in ToSet(u) <=> \E i \in 1..end : x = cells[i] /\ TableOf[x.key] = tb

\* What the loop has found at its end.
LEMMA FindsFacts ==
    ASSUME NEW cells \in Seq(LeafCell), Increasing(cells), NEW end \in 0..Len(cells), NEW tb,
           NEW f, Finds(f, cells, end, tb)
    PROVE  Found(f[end], cells, end, tb)
  <1> DEFINE At(n) == Found(f[n], cells, n, tb)
             S == {n \in 0..end : At(n)}
  <1>1. end \in Nat /\ DOMAIN cells = 1..Len(cells) /\ Len(cells) \in Nat
    OBVIOUS
  <1>2. 0 \in S
    <2>1. PICK s : s = f[0] /\ s = <<>>
      BY DEF Finds
    <2>2. s \in Seq(LeafCell) /\ DOMAIN s = {} /\ ToSet(s) = {}
      BY <2>1 DEF ToSet
    <2>3. Increasing(s) /\ \A i : i \notin 1..0
      BY <2>2 DEF Increasing
    <2>4. At(0)
      BY <2>1, <2>2, <2>3 DEF Found
    <2>5. QED
      BY <1>1, <2>4
  <1>3. ASSUME NEW n \in 1..end, n - 1 \in S PROVE n \in S
    <2>1. PICK s, e, u : s = f[n-1] /\ e = cells[n] /\ u = f[n]
      OBVIOUS
    <2>2. /\ s \in Seq(LeafCell) /\ Increasing(s)
          /\ \A x : x \in ToSet(s) <=> \E i \in 1..(n-1) : x = cells[i] /\ TableOf[x.key] = tb
      BY <1>3, <2>1 DEF Found
    <2>3. n \in 1..Len(cells) /\ e \in LeafCell
      BY <1>1, <2>1
    <2>4. u = IF TableOf[e.key] = tb THEN Append(s, e) ELSE s
      BY <2>1 DEF Finds
    <2>5. \A i : i \in 1..n <=> i \in 1..(n-1) \/ i = n
      OBVIOUS
    <2>6. CASE TableOf[e.key] = tb
      <3>1. ASSUME NEW x \in ToSet(s) PROVE x.key < e.key
        <4>1. PICK i \in 1..(n-1) : x = cells[i]
          BY <2>2
        <4>2. i \in 1..Len(cells) /\ i < n
          BY <2>3
        <4>3. QED
          BY <1>1, <2>1, <2>3, <4>1, <4>2 DEF Increasing
      <3>2. u \in Seq(LeafCell) /\ Increasing(u) /\ ToSet(u) = ToSet(s) \cup {e}
        BY <2>2, <2>3, <2>4, <2>6, <3>1, LastJoins
      <3>3. ASSUME NEW x PROVE x \in ToSet(u) <=> \E i \in 1..n : x = cells[i] /\ TableOf[x.key] = tb
        <4>1. x \in ToSet(u) <=> x \in ToSet(s) \/ x = e
          BY <3>2
        <4>2. QED
          BY <2>1, <2>2, <2>5, <2>6, <4>1
      <3>4. At(n)
        BY <2>1, <3>2, <3>3 DEF Found
      <3>5. QED
        BY <3>4
    <2>7. CASE TableOf[e.key] # tb
      <3>1. u = s
        BY <2>4, <2>7
      <3>2. ASSUME NEW x PROVE x \in ToSet(u) <=> \E i \in 1..n : x = cells[i] /\ TableOf[x.key] = tb
        BY <2>1, <2>2, <2>5, <2>7, <3>1
      <3>3. At(n)
        BY <2>1, <2>2, <3>1, <3>2 DEF Found
      <3>4. QED
        BY <3>3
    <2>8. QED
      BY <2>6, <2>7
  <1>4. end \in S
    <2> HIDE DEF S
    <2>1. \A n \in 0..end : n \in S
      BY <1>1, <1>2, <1>3, Ascend
    <2>2. QED
      BY <1>1, <2>1
  <1>5. QED
    BY <1>4

\* A scan of a table finds the cells of that table, in key order.
LEMMA ScanFacts ==
    ASSUME NEW img, NEW tb \in Nat, NEW cells \in Seq(LeafCell), cells = ChainCells(img),
           Increasing(cells), NEW found, found = Scan(img, tb)
    PROVE  /\ found \in Seq(LeafCell) /\ Increasing(found)
           /\ \A x : x \in ToSet(found) <=> x \in ToSet(cells) /\ TableOf[x.key] = tb
  <1>1. PICK end \in 0..Len(cells) : \E f :
             /\ found = f[end] /\ Finds(f, cells, end, tb)
             /\ end < Len(cells) => TableOf[cells[end + 1].key] > tb
    BY ScanUnfold
  <1>2. PICK f : /\ found = f[end] /\ Finds(f, cells, end, tb)
                 /\ end < Len(cells) => TableOf[cells[end + 1].key] > tb
    BY <1>1
  <1>3. /\ found \in Seq(LeafCell) /\ Increasing(found)
        /\ \A x : x \in ToSet(found) <=> \E i \in 1..end : x = cells[i] /\ TableOf[x.key] = tb
    <2>1. Found(f[end], cells, end, tb)
      BY <1>2, FindsFacts
    <2>2. QED
      BY <1>2, <2>1 DEF Found
  <1>4. DOMAIN cells = 1..Len(cells) /\ Len(cells) \in Nat /\ end \in Nat
    OBVIOUS
  <1>5. ASSUME NEW i \in 1..Len(cells), TableOf[cells[i].key] = tb PROVE i \in 1..end
    <2>1. SUFFICES ASSUME end < i PROVE FALSE
      BY <1>4
    <2>2. PICK k, l : k = cells[end + 1].key /\ l = cells[i].key
      OBVIOUS
    <2>3. end + 1 \in 1..Len(cells) /\ end < Len(cells) /\ (end + 1 = i \/ end + 1 < i)
      BY <1>4, <2>1
    <2>4. k \in Keys /\ l \in Keys
      <3>1. cells[end + 1] \in LeafCell /\ cells[i] \in LeafCell
        BY <1>4, <2>3
      <3>2. QED
        BY <2>2, <3>1 DEF LeafCell
    <2>5. k = l \/ k < l
      BY <1>4, <2>2, <2>3 DEF Increasing
    <2>6. TableOf[k] \in Nat /\ TableOf[l] \in Nat /\ TableOf[k] <= TableOf[l]
      BY <2>4, <2>5, TreeAssumption
    <2>7. TableOf[k] > tb /\ TableOf[l] = tb
      BY <1>2, <1>5, <2>2, <2>3
    <2>8. QED
      BY <2>6, <2>7
  <1>6. ASSUME NEW x PROVE x \in ToSet(found) <=> x \in ToSet(cells) /\ TableOf[x.key] = tb
    <2>1. x \in ToSet(cells) <=> \E i \in 1..Len(cells) : x = cells[i]
      BY <1>4 DEF ToSet
    <2>2. \A i \in 1..end : i \in 1..Len(cells)
      BY <1>4
    <2>3. QED
      BY <1>3, <1>5, <2>1, <2>2
  <1>7. QED
    BY <1>3, <1>6

-----------------------------------------------------------------------------
(* The cells on the chain of a tree.                                       *)

Stored(f) == {[key |-> k, row |-> f[k]] : k \in {l \in Keys : f[l] # NoRow}}

\* W lists M pages to the end of the chain, with the cells of all rows in key order.
Path(img, f, W, M) ==
    /\ Linked(img, W, M)
    /\ \A i \in 1..M : img[W[i]].cells \in Seq(LeafCell) /\ Increasing(img[W[i]].cells)
    /\ \A i, j \in 1..M : i < j => Before(ToSet(img[W[i]].cells), ToSet(img[W[j]].cells))
    /\ \A x : x \in Stored(f) <=> \E i \in 1..M : x \in ToSet(img[W[i]].cells)

\* A scan that begins with such a list meets the cells of all rows in key order.
LEMMA PathCells ==
    ASSUME NEW img, \A p \in DOMAIN img : WellFormed(img[p], DOMAIN img),
           NEW M \in Nat, M >= 1, M - 1 <= MaxPages, NEW f, NEW W, Path(img, f, W, M),
           W[1] = FindLeftmostLeaf(img), NEW cells, cells = ChainCells(img)
    PROVE  cells \in Seq(LeafCell) /\ Increasing(cells) /\ \A x : x \in ToSet(cells) <=> x \in Stored(f)
  <1>1. PICK chain : chain = Chain(img)
    OBVIOUS
  <1>2. chain \in Seq(DOMAIN img) /\ Len(chain) = M /\ \A i \in 1..M : chain[i] = W[i]
    BY <1>1, ChainIs DEF Path
  <1>3. DOMAIN chain = 1..M
    BY <1>2
  <1>4. PICK seqs : seqs = [i \in 1..M |-> img[chain[i]].cells]
    OBVIOUS
  <1>5. cells = FlattenSeq(seqs)
    BY <1>1, <1>3, <1>4 DEF ChainCells
  <1>6. ASSUME NEW i \in 1..M PROVE seqs[i] = img[W[i]].cells /\ seqs[i] \in Seq(LeafCell) /\ Increasing(seqs[i])
    <2>1. seqs[i] = img[W[i]].cells
      BY <1>2, <1>4
    <2>2. img[W[i]].cells \in Seq(LeafCell) /\ Increasing(img[W[i]].cells)
      BY DEF Path
    <2>3. QED
      BY <2>1, <2>2
  <1>7. seqs \in [1..M -> Seq(LeafCell)]
    BY <1>4, <1>6
  <1>8. Len(seqs) = M
    <2>1. seqs \in Seq(Seq(LeafCell)) /\ DOMAIN seqs = 1..M
      BY <1>7
    <2>2. QED
      BY <2>1
  <1>9. InOrder(seqs, M)
    <2>1. ASSUME NEW i \in 1..M, NEW j \in 1..M, i < j PROVE Before(ToSet(seqs[i]), ToSet(seqs[j]))
      <3>1. Before(ToSet(img[W[i]].cells), ToSet(img[W[j]].cells))
        BY <2>1 DEF Path
      <3>2. QED
        BY <1>6, <3>1
    <2>2. QED
      BY <1>6, <1>7, <1>8, <2>1 DEF InOrder
  <1>10. /\ cells \in Seq(LeafCell) /\ Increasing(cells)
         /\ \A x : x \in ToSet(cells) <=> \E i \in 1..M : x \in ToSet(seqs[i])
    BY <1>5, <1>9, FlattenFacts
  <1>11. ASSUME NEW x PROVE x \in ToSet(cells) <=> x \in Stored(f)
    <2>1. x \in Stored(f) <=> \E i \in 1..M : x \in ToSet(img[W[i]].cells)
      BY DEF Path
    <2>2. QED
      BY <1>6, <1>10, <2>1
  <1>12. QED
    BY <1>10, <1>11

\* The leaves of a tree are such a list.
LEMMA LinksPath ==
    ASSUME NEW img, \A p \in DOMAIN img : WellFormed(img[p], DOMAIN img), NoPage \notin DOMAIN img,
           NEW r, NEW T, NEW loc, NEW h, NEW f, Tree(img, r, T, loc, h, f),
           NEW N \in Nat \ {0}, NEW L \in [1..N -> T], Links(img, loc, N, L)
    PROVE  Path(img, f, L, N)
  <1>1. T \subseteq DOMAIN img /\ \A p \in T : loc[p] \subseteq Keys
    BY DEF Tree, Frame
  <1>2. ASSUME NEW i \in 1..N
        PROVE /\ L[i] \in DOMAIN img /\ img[L[i]].cells \in Seq(LeafCell) /\ Increasing(img[L[i]].cells)
              /\ LeafHolds(img[L[i]], loc[L[i]], f) /\ loc[L[i]] \subseteq Keys
    <2>1. L[i] \in T /\ img[L[i]].type = "leaf"
      BY DEF Links
    <2>2. LeafHolds(img[L[i]], loc[L[i]], f)
      BY <2>1 DEF Tree, Holds
    <2>3. PICK x, D : x = img[L[i]] /\ D = DOMAIN img
      OBVIOUS
    <2>4. WellFormed(x, D) /\ x.type = "leaf"
      BY <1>1, <2>1, <2>3
    <2>5. x.cells \in Seq(LeafCell)
      BY <2>4, PageParts
    <2>6. Increasing(x.cells)
      BY <2>2, <2>3 DEF LeafHolds, Increasing
    <2>7. QED
      BY <1>1, <2>1, <2>2, <2>3, <2>5, <2>6
  <1>3. ASSUME NEW i \in 1..N, NEW x \in ToSet(img[L[i]].cells)
        PROVE  x.key \in loc[L[i]] /\ x \in Stored(f)
    <2>1. PICK s, S : s = img[L[i]].cells /\ S = loc[L[i]]
      OBVIOUS
    <2>2. PICK n \in DOMAIN s : x = s[n]
      BY <2>1 DEF ToSet
    <2>3. s \in Seq(LeafCell) /\ S \subseteq Keys
      BY <1>2, <2>1
    <2>4. x \in LeafCell
      BY <2>2, <2>3
    <2>5. x.key \in S /\ x.row = f[x.key] /\ x.row # NoRow
      BY <1>2, <2>1, <2>2 DEF LeafHolds
    <2>6. x = [key |-> x.key, row |-> x.row]
      BY <2>4 DEF LeafCell
    <2>7. QED
      BY <2>1, <2>3, <2>5, <2>6 DEF Stored
  <1>4. ASSUME NEW x \in Stored(f) PROVE \E i \in 1..N : x \in ToSet(img[L[i]].cells)
    <2>1. PICK k \in Keys : f[k] # NoRow /\ x = [key |-> k, row |-> f[k]]
      BY DEF Stored
    <2>2. PICK i \in 1..N : k \in loc[L[i]]
      BY DEF Links
    <2>3. PICK s : s = img[L[i]].cells
      OBVIOUS
    <2>4. PICK n \in DOMAIN s : s[n].key = k
      BY <1>2, <2>1, <2>2, <2>3 DEF LeafHolds
    <2>5. s[n].row = f[k]
      BY <1>2, <2>3, <2>4 DEF LeafHolds
    <2>6. s[n] \in LeafCell
      BY <1>2, <2>3, <2>4
    <2>7. s[n] = [key |-> s[n].key, row |-> s[n].row]
      BY <2>6 DEF LeafCell
    <2>8. x = s[n]
      BY <2>1, <2>4, <2>5, <2>7
    <2>9. QED
      BY <2>3, <2>4, <2>8 DEF ToSet
  <1>5. Linked(img, L, N)
    BY <1>2 DEF Linked, Links
  <1>6. ASSUME NEW i \in 1..N, NEW j \in 1..N, i < j PROVE Before(ToSet(img[L[i]].cells), ToSet(img[L[j]].cells))
    <2>1. \A k \in loc[L[i]], l \in loc[L[j]] : k < l
      BY <1>6 DEF Links
    <2>2. QED
      BY <1>3, <2>1 DEF Before
  <1>7. \A i \in 1..N : img[L[i]].cells \in Seq(LeafCell) /\ Increasing(img[L[i]].cells)
    BY <1>2
  <1>8. \A x : x \in Stored(f) <=> \E i \in 1..N : x \in ToSet(img[L[i]].cells)
    BY <1>3, <1>4
  <1>9. QED
    BY <1>5, <1>6, <1>7, <1>8 DEF Path

\* There are no more leaves than the file may have pages.
LEMMA FewLeaves ==
    ASSUME NEW img, NEW n \in Nat, n >= 1, n <= MaxPages, DOMAIN img = 0..(n - 1),
           NEW T, T \subseteq DOMAIN img, NEW loc, NEW N \in Nat \ {0}, NEW L \in [1..N -> T],
           Links(img, loc, N, L)
    PROVE  N <= MaxPages
  <1>1. PICK D : D = DOMAIN img
    OBVIOUS
  <1>2. IsFiniteSet(D) /\ Cardinality(D) = n
    <2>1. 0 \in Int /\ n - 1 \in Int
      OBVIOUS
    <2>2. /\ IsFiniteSet(0..(n - 1))
          /\ Cardinality(0..(n - 1)) = IF 0 > n - 1 THEN 0 ELSE (n - 1) - 0 + 1
      BY <2>1, FS_Interval
    <2>3. QED
      BY <1>1, <2>2
  <1>3. Cardinality(1..N) = N
    <2>1. 1 \in Int /\ N \in Int
      OBVIOUS
    <2>2. Cardinality(1..N) = IF 1 > N THEN 0 ELSE N - 1 + 1
      BY <2>1, FS_Interval
    <2>3. QED
      BY <2>2
  <1>4. L \in Injection(1..N, D)
    <2>1. L \in [1..N -> D]
      BY <1>1
    <2>2. ASSUME NEW i \in 1..N, NEW j \in 1..N, L[i] = L[j] PROVE i = j
      <3>1. ~(i < j) /\ ~(j < i)
        BY <2>2 DEF Links
      <3>2. QED
        BY <3>1
    <2>3. QED
      BY <2>1, <2>2 DEF Injection, IsInjective
  <1>5. Cardinality(1..N) <= Cardinality(D)
    BY <1>2, <1>4, FS_Injection
  <1>6. QED
    BY <1>2, <1>3, <1>5, TreeAssumption

\* An empty internal page before the list adds no cells.
LEMMA PathEntered ==
    ASSUME NEW img, NEW f, NEW N \in Nat \ {0}, NEW L, Path(img, f, L, N), L[1] = 0,
           NEW e \in DOMAIN img, img[e].cells = <<>>, img[e].next = 0,
           NEW W, W = [i \in 1..(N + 1) |-> IF i = 1 THEN e ELSE L[i - 1]]
    PROVE  Path(img, f, W, N + 1)
  <1>1. ASSUME NEW i \in 1..(N + 1)
        PROVE /\ i = 1 => W[i] = e
              /\ i # 1 => i - 1 \in 1..N /\ W[i] = L[i - 1]
    OBVIOUS
  <1>2. ASSUME NEW i \in 1..N PROVE i + 1 \in 1..(N + 1) /\ i + 1 # 1 /\ W[i + 1] = L[i]
    <2>1. i + 1 \in 1..(N + 1) /\ i + 1 # 1 /\ (i + 1) - 1 = i
      OBVIOUS
    <2>2. QED
      BY <1>1, <2>1
  <1>3. img[e].cells \in Seq(LeafCell) /\ Increasing(img[e].cells) /\ ToSet(img[e].cells) = {}
    BY DEF Increasing, ToSet
  <1>4. Linked(img, W, N + 1)
    <2>1. ASSUME NEW i \in 1..(N + 1)
          PROVE W[i] \in DOMAIN img /\ img[W[i]].next = IF i = N + 1 THEN NoPage ELSE W[i + 1]
      <3>1. CASE i = 1
        <4>1. 1 \in 1..N /\ i # N + 1
          BY <3>1
        <4>2. W[i] = e /\ W[i + 1] = L[1]
          BY <1>1, <1>2, <3>1, <4>1
        <4>3. QED
          BY <4>1, <4>2
      <3>2. CASE i # 1
        <4>1. i - 1 \in 1..N /\ W[i] = L[i - 1]
          BY <1>1, <3>2
        <4>2. L[i - 1] \in DOMAIN img /\ img[L[i - 1]].next = IF i - 1 = N THEN NoPage ELSE L[(i - 1) + 1]
          BY <4>1 DEF Path, Linked
        <4>3. CASE i = N + 1
          BY <4>1, <4>2, <4>3
        <4>4. CASE i # N + 1
          <5>1. i \in 1..N /\ (i - 1) + 1 = i /\ i - 1 # N
            BY <4>1, <4>4
          <5>2. W[i + 1] = L[i]
            BY <1>2, <5>1
          <5>3. QED
            BY <4>1, <4>2, <4>4, <5>1, <5>2
        <4>5. QED
          BY <4>3, <4>4
      <3>3. QED
        BY <3>1, <3>2
    <2>2. QED
      BY <2>1 DEF Path, Linked
  <1>5. ASSUME NEW i \in 1..(N + 1) PROVE img[W[i]].cells \in Seq(LeafCell) /\ Increasing(img[W[i]].cells)
    BY <1>1, <1>3 DEF Path
  <1>6. ASSUME NEW i \in 1..(N + 1), NEW j \in 1..(N + 1), i < j
        PROVE Before(ToSet(img[W[i]].cells), ToSet(img[W[j]].cells))
    <2>1. CASE i = 1
      BY <1>1, <1>3, <2>1 DEF Before
    <2>2. CASE i # 1
      <3>1. /\ i - 1 \in 1..N /\ W[i] = L[i - 1] /\ j - 1 \in 1..N /\ W[j] = L[j - 1]
            /\ i - 1 < j - 1
        BY <1>1, <1>6, <2>2
      <3>2. QED
        BY <3>1 DEF Path
    <2>3. QED
      BY <2>1, <2>2
  <1>7. ASSUME NEW x PROVE x \in Stored(f) <=> \E i \in 1..(N + 1) : x \in ToSet(img[W[i]].cells)
    <2>1. x \in Stored(f) <=> \E i \in 1..N : x \in ToSet(img[L[i]].cells)
      BY DEF Path
    <2>2. ASSUME NEW i \in 1..N, x \in ToSet(img[L[i]].cells) PROVE \E j \in 1..(N + 1) : x \in ToSet(img[W[j]].cells)
      <3>1. i + 1 \in 1..(N + 1) /\ W[i + 1] = L[i]
        BY <1>2, <2>2
      <3>2. x \in ToSet(img[W[i + 1]].cells)
        BY <2>2, <3>1
      <3>3. QED
        BY <3>1, <3>2
    <2>3. ASSUME NEW j \in 1..(N + 1), x \in ToSet(img[W[j]].cells) PROVE \E i \in 1..N : x \in ToSet(img[L[i]].cells)
      <3>1. j # 1
        BY <1>1, <1>3, <2>3
      <3>2. QED
        BY <1>1, <2>3, <3>1
    <2>4. QED
      BY <2>1, <2>2, <2>3
  <1>8. QED
    BY <1>4, <1>5, <1>6, <1>7 DEF Path

\* The pages of an image that holds a tree, and the page a scan begins at.
Scannable(img, f) ==
    /\ \E n \in Nat : n >= 1 /\ n <= MaxPages /\ DOMAIN img = 0..(n - 1)
    /\ \A p \in DOMAIN img : WellFormed(img[p], DOMAIN img)
    /\ \E q : HasTree(img, q, f)
    /\ Entry(img, FindLeftmostLeaf(img))

\* A scan of it meets the cells of all rows in key order.
LEMMA TreeCells ==
    ASSUME NEW img, NEW f, Scannable(img, f), NEW cells, cells = ChainCells(img)
    PROVE  cells \in Seq(LeafCell) /\ Increasing(cells) /\ \A x : x \in ToSet(cells) <=> x \in Stored(f)
  <1>1. PICK n \in Nat : n >= 1 /\ n <= MaxPages /\ DOMAIN img = 0..(n - 1)
    BY DEF Scannable
  <1>2. /\ \A p \in DOMAIN img : WellFormed(img[p], DOMAIN img)
        /\ NoPage \notin DOMAIN img /\ MaxPages \in Nat
    BY <1>1, TreeAssumption DEF Scannable
  <1>3. PICK q, T, loc, h : Tree(img, q, T, loc, h, f)
    BY DEF Scannable, HasTree
  <1>4. T \subseteq DOMAIN img
    BY <1>3 DEF Tree, Frame
  <1>5. PICK N \in Nat \ {0} : \E L \in [1..N -> T] : Links(img, loc, N, L)
    BY <1>3 DEF Tree, Chained
  <1>6. PICK L \in [1..N -> T] : Links(img, loc, N, L)
    BY <1>5
  <1>7. N <= MaxPages
    BY <1>1, <1>4, <1>6, FewLeaves
  <1>8. Path(img, f, L, N)
    BY <1>2, <1>3, <1>6, LinksPath
  <1>9. L[1] = 0
    BY <1>6 DEF Links
  <1>10. PICK e : e = FindLeftmostLeaf(img)
    OBVIOUS
  <1>11. e \in DOMAIN img /\ (e = 0 \/ (img[e].cells = <<>> /\ img[e].next = 0))
    BY <1>10 DEF Scannable, Entry
  <1>12. CASE e = 0
    <2>1. N \in Nat /\ N >= 1 /\ N - 1 <= MaxPages /\ L[1] = FindLeftmostLeaf(img)
      BY <1>2, <1>7, <1>9, <1>10, <1>12
    <2>2. QED
      BY <1>2, <1>8, <2>1, PathCells
  <1>13. CASE img[e].cells = <<>> /\ img[e].next = 0
    <2>1. PICK W, M : W = [i \in 1..(N + 1) |-> IF i = 1 THEN e ELSE L[i - 1]] /\ M = N + 1
      OBVIOUS
    <2>2. Path(img, f, W, M)
      BY <1>8, <1>9, <1>11, <1>13, <2>1, PathEntered
    <2>3. M \in Nat /\ M >= 1 /\ M - 1 <= MaxPages /\ W[1] = FindLeftmostLeaf(img)
      BY <1>2, <1>7, <1>10, <2>1
    <2>4. QED
      BY <1>2, <2>2, <2>3, PathCells
  <1>14. QED
    BY <1>11, <1>12, <1>13

\* So a scan of a table returns its rows.
LEMMA TreeScan ==
    ASSUME NEW img, NEW f, Scannable(img, f), NEW tb \in {TableOf[k] : k \in Keys}, NEW found, found = Scan(img, tb)
    PROVE  /\ \A i \in 2..Len(found) : found[i-1].key < found[i].key
           /\ ToSet(found) = TableRows(tb, f)
  <1>1. tb \in Nat
    BY TreeAssumption
  <1>2. PICK cells : cells = ChainCells(img)
    OBVIOUS
  <1>3. cells \in Seq(LeafCell) /\ Increasing(cells) /\ \A x : x \in ToSet(cells) <=> x \in Stored(f)
    BY <1>2, TreeCells
  <1>4. /\ found \in Seq(LeafCell) /\ Increasing(found)
        /\ \A x : x \in ToSet(found) <=> x \in ToSet(cells) /\ TableOf[x.key] = tb
    BY <1>1, <1>2, <1>3, ScanFacts
  <1>5. ASSUME NEW i \in 2..Len(found) PROVE found[i-1].key < found[i].key
    <2>1. DOMAIN found = 1..Len(found) /\ Len(found) \in Nat
      BY <1>4
    <2>2. i - 1 \in DOMAIN found /\ i \in DOMAIN found /\ i - 1 < i
      BY <2>1
    <2>3. QED
      BY <1>4, <2>2 DEF Increasing
  <1>6. ASSUME NEW x PROVE x \in TableRows(tb, f) <=> x \in Stored(f) /\ TableOf[x.key] = tb
    BY DEF TableRows, Stored
  <1>7. ToSet(found) = TableRows(tb, f)
    <2>1. \A x : x \in ToSet(found) <=> x \in TableRows(tb, f)
      BY <1>3, <1>4, <1>6
    <2>2. QED
      BY <2>1
  <1>8. QED
    BY <1>5, <1>7

-----------------------------------------------------------------------------
(* The theorems.                                                           *)

\* The pages in memory can be scanned when the tree is whole.
LEMMA MemScannable ==
    ASSUME Shape, HasTree(mem, root, rows)
    PROVE  Scannable(mem, rows)
  <1>1. PagesOK(mem, disk, owner, root) /\ \A p \in DOMAIN mem : WellFormed(mem[p], DOMAIN mem)
    BY ShapeParts
  <1>2. PICK n : n = Cardinality(DOMAIN mem)
    OBVIOUS
  <1>3. n \in Nat /\ n >= 1 /\ n <= MaxPages /\ DOMAIN mem = 0..(n - 1)
    BY <1>1, <1>2 DEF PagesOK
  <1>4. Entry(mem, FindLeftmostLeaf(mem))
    BY <1>1, TreeEntry
  <1>5. QED
    BY <1>1, <1>3, <1>4 DEF Scannable

\* So can those of the file, even when the root that it names has been rolled back.
LEMMA DiskScannable ==
    ASSUME Shape, NEW c, FileHolds(mem, disk, owner, root, rows, saved, c)
    PROVE  Scannable(disk, saved)
  <1>1. PICK D, n : D = DOMAIN mem /\ n = Cardinality(D)
    OBVIOUS
  <1>2. /\ n \in Nat /\ n >= 1 /\ n <= MaxPages /\ D = 0..(n - 1) /\ DOMAIN disk = D /\ root \in D
        /\ \A p \in D : WellFormed(disk[p], D)
    BY <1>1 DEF Shape, PagesOK
  <1>3. (\E q : HasTree(disk, q, saved)) /\ (HighRoot(disk, owner, root, c) \/ HasTree(disk, root, saved))
    BY DEF FileHolds
  <1>4. \A p \in DOMAIN disk : WellFormed(disk[p], DOMAIN disk)
    BY <1>2
  <1>5. CASE HighRoot(disk, owner, root, c)
    <2>1. disk[root] = Blank("internal")
      BY <1>5 DEF HighRoot
    <2>2. Entry(disk, FindLeftmostLeaf(disk))
      BY <1>2, <1>4, <2>1, BlankEntry
    <2>3. QED
      BY <1>2, <1>3, <1>4, <2>2 DEF Scannable
  <1>6. CASE HasTree(disk, root, saved)
    <2>1. Entry(disk, FindLeftmostLeaf(disk))
      BY <1>4, <1>6, TreeEntry
    <2>2. QED
      BY <1>2, <1>3, <1>4, <2>1 DEF Scannable
  <1>7. QED
    BY <1>3, <1>5, <1>6

\* ScanExact follows from the inductive invariant.
LEMMA HeldScan ==
    ASSUME OneWriter, NEW least \in Nat, Held(least)
    PROVE  ScanExact
  <1>1. Shape /\ AllGood
    BY DEF Held
  <1>2. ASSUME Quiet, ~parted, NEW tb \in {TableOf[k] : k \in Keys}, NEW found, found = Scan(mem, tb)
        PROVE /\ \A i \in 2..Len(found) : found[i-1].key < found[i].key
              /\ ToSet(found) = TableRows(tb, rows)
    <2>1. PICK c : Clients = {c}
      BY DEF OneWriter
    <2>2. GoodNow(c) /\ pc[c] = "idle"
      BY <1>1, <1>2, <2>1 DEF Quiet, AllGood
    <2>3. HasTree(mem, root, rows)
      BY <2>2 DEF GoodNow, Good, MemHolds
    <2>4. Scannable(mem, rows)
      BY <1>1, <2>3, MemScannable
    <2>5. QED
      BY <1>2, <2>4, TreeScan
  <1>3. QED
    BY <1>2 DEF ScanExact

\* FileExact follows from the inductive invariant.
LEMMA HeldFileScan ==
    ASSUME OneWriter, NEW least \in Nat, Held(least)
    PROVE  FileExact
  <1>1. Shape /\ AllGood
    BY DEF Held
  <1>2. ASSUME ~misled, ~parted, NEW tb \in {TableOf[k] : k \in Keys} PROVE ToSet(Scan(disk, tb)) = TableRows(tb, saved)
    <2>1. PICK c \in Clients : GoodNow(c)
      BY <1>1, <1>2 DEF OneWriter, AllGood
    <2>2. FileHolds(mem, disk, owner, root, rows, saved, c)
      BY <2>1 DEF GoodNow, Good
    <2>3. Scannable(disk, saved)
      BY <1>1, <2>2, DiskScannable
    <2>4. QED
      BY <2>3, TreeScan
  <1>3. QED
    BY <1>2 DEF FileExact

\* A scan of a table in memory returns its rows, each once and in key order, whenever no
\* operation is under way: splits link the leaves in the order of the tree, and neither
\* rollbacks nor failures on a full pool break the chain (btree.go:109-143).
THEOREM ScanTheorem ==
    ASSUME OneWriter, NodeFits, HalvesFit
    PROVE  Spec => []ScanExact
  <1>1. PICK least, most \in Nat : RowsFit(least, most)
    BY DEF HalvesFit
  <1>2. Init => Held(least)
    BY InitHeld
  <1>3. Held(least) /\ [Next]_vars => Held(least)'
    BY <1>1, NextHeld
  <1>4. Held(least) => ScanExact
    BY HeldScan
  <1>5. QED
    BY <1>2, <1>3, <1>4, PTL DEF Spec

\* What a scan of the page file returns are the committed rows, at every moment of a
\* transaction, also between the steps of a split and below a root that a rollback or a
\* crash has left empty (createNewRoot, SetRootPageID).
THEOREM FileTheorem ==
    ASSUME OneWriter, NodeFits, HalvesFit
    PROVE  Spec => []FileExact
  <1>1. PICK least, most \in Nat : RowsFit(least, most)
    BY DEF HalvesFit
  <1>2. Init => Held(least)
    BY InitHeld
  <1>3. Held(least) /\ [Next]_vars => Held(least)'
    BY <1>1, NextHeld
  <1>4. Held(least) => FileExact
    BY HeldFileScan
  <1>5. QED
    BY <1>2, <1>3, <1>4, PTL DEF Spec

=============================================================================
