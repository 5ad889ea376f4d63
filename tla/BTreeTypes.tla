----------------------------- MODULE BTreeTypes -----------------------------
(***************************************************************************)
(* The shapes of the pages of BTree: what its operators on slotted pages   *)
(* return, and that every action keeps the pages, the operations and the   *)
(* clean frames as TypeOK and CleanMatchesFile say, for any clients.       *)
(***************************************************************************)
EXTENDS BTree, FiniteSetTheorems, SequenceTheorems, WellFoundedInduction, TLAPS

-----------------------------------------------------------------------------
(* Numbers and sequences.                                                  *)

\* A nonempty set of natural numbers has a least element.
LEMMA LeastExists ==
    ASSUME NEW T \in SUBSET Nat, T # {}
    PROVE  \E m \in T : \A n \in T : m <= n
  <1> DEFINE R == {ss \in Nat \X Nat : ss[1] < ss[2]}
  <1>1. IsWellFoundedOn(R, Nat)
    BY NatLessThanWellFounded DEF OpToRel
  <1>2. PICK m \in T : \A n \in T : ~ (<<n, m>> \in R)
    <2> HIDE DEF R
    <2>1. QED
      BY <1>1, WFMin
  <1>3. ASSUME NEW n \in T PROVE m <= n
    <2>1. n \in Nat /\ m \in Nat /\ (n < m => <<n, m>> \in R)
      OBVIOUS
    <2>2. QED
      BY <1>2, <2>1
  <1>4. QED
    BY <1>3

\* Induction up to a number, for a property given as a set.
LEMMA Ascend ==
    ASSUME NEW S, NEW b \in Nat, 0 \in S,
           \A n \in 1..b : n - 1 \in S => n \in S
    PROVE  \A n \in 0..b : n \in S
  <1> DEFINE Bad == {n \in 0..b : n \notin S}
  <1>1. SUFFICES ASSUME Bad # {} PROVE FALSE
    OBVIOUS
  <1>2. PICK m \in Bad : \A n \in Bad : m <= n
    <2>1. Bad \in SUBSET Nat
      OBVIOUS
    <2> HIDE DEF Bad
    <2>2. QED
      BY <1>1, <2>1, LeastExists
  <1>3. m # 0 /\ m \in 1..b /\ m - 1 \in 0..b /\ m - 1 < m
    BY <1>2
  <1>4. m - 1 \in S
    BY <1>2, <1>3
  <1>5. QED
    BY <1>2, <1>3, <1>4

\* Products grow with their factors.
LEMMA TimesGrows ==
    ASSUME NEW a \in Nat, NEW b \in Nat, NEW s \in Nat, a <= b
    PROVE  s * a <= s * b /\ s * a \in Nat /\ s * b \in Nat
  <1>1. PICK d \in Nat : b = a + d
    <2>1. b - a \in Nat /\ b = a + (b - a)
      OBVIOUS
    <2>2. QED
      BY <2>1
  <1>2. s * b = s * a + s * d
    BY <1>1
  <1>3. s * d \in Nat /\ s * a \in Nat
    OBVIOUS
  <1>4. QED
    BY <1>2, <1>3

\* A cell inserted into a sequence.
LEMMA InsertAtFacts ==
    ASSUME NEW S, NEW s \in Seq(S), NEW i \in 1..(Len(s) + 1), NEW e \in S
    PROVE  /\ InsertAt(s, i, e) \in Seq(S)
           /\ Len(InsertAt(s, i, e)) = Len(s) + 1
           /\ DOMAIN InsertAt(s, i, e) = 1..(Len(s) + 1)
           /\ \A n \in 1..(Len(s) + 1) : InsertAt(s, i, e)[n] =
                IF n < i THEN s[n] ELSE IF n = i THEN e ELSE s[n - 1]
  <1> DEFINE a == SubSeq(s, 1, i - 1)
             b == SubSeq(s, i, Len(s))
             ae == a \o <<e>>
  <1>1. a \in Seq(S) /\ Len(a) = i - 1 /\ \A n \in 1..(i - 1) : a[n] = s[n]
    BY SubSeqProperties
  <1>2. b \in Seq(S) /\ Len(b) = Len(s) + 1 - i /\ \A n \in 1..(Len(s) + 1 - i) : b[n] = s[i + n - 1]
    BY SubSeqProperties
  <1>3. ae \in Seq(S) /\ Len(ae) = i /\ \A n \in 1..i : ae[n] = IF n < i THEN s[n] ELSE e
    <2> HIDE DEF a, b
    <2>1. <<e>> \in Seq(S) /\ Len(<<e>>) = 1 /\ <<e>>[1] = e
      OBVIOUS
    <2>2. ae \in Seq(S) /\ Len(ae) = i
      BY <1>1, <2>1
    <2>3. ASSUME NEW n \in 1..i PROVE ae[n] = IF n < i THEN s[n] ELSE e
      BY <1>1, <2>1
    <2>4. QED
      BY <2>2, <2>3
  <1>4. InsertAt(s, i, e) = ae \o b
    BY DEF InsertAt
  <1> HIDE DEF a, b, ae
  <1>5. InsertAt(s, i, e) \in Seq(S) /\ Len(InsertAt(s, i, e)) = Len(s) + 1
    <2>1. ae \in Seq(S) /\ b \in Seq(S)
      BY <1>2, <1>3
    <2>4. ae \o b \in Seq(S) /\ Len(ae \o b) = Len(ae) + Len(b)
      BY <2>1
    <2>2. Len(ae) + Len(b) = Len(s) + 1
      BY <1>2, <1>3
    <2>3. QED
      BY <1>4, <2>2, <2>4
  <1>6. ASSUME NEW n \in 1..(Len(s) + 1)
        PROVE InsertAt(s, i, e)[n] = IF n < i THEN s[n] ELSE IF n = i THEN e ELSE s[n - 1]
    <2>1. InsertAt(s, i, e)[n] = IF n <= i THEN ae[n] ELSE b[n - i]
      BY <1>2, <1>3, <1>4
    <2>2. CASE n <= i
      BY <1>3, <2>1, <2>2
    <2>3. CASE n > i
      <3>1. n - i \in 1..(Len(s) + 1 - i) /\ i + (n - i) - 1 = n - 1
        BY <2>3
      <3>2. b[n - i] = s[n - 1]
        BY <1>2, <3>1
      <3>3. QED
        BY <2>1, <2>3, <3>2
    <2>4. QED
      BY <2>2, <2>3
  <1>7. QED
    BY <1>5, <1>6

\* A cell removed from a sequence.
LEMMA RemoveAtFacts ==
    ASSUME NEW S, NEW s \in Seq(S), NEW i \in 1..Len(s)
    PROVE  /\ RemoveAt(s, i) \in Seq(S)
           /\ Len(RemoveAt(s, i)) = Len(s) - 1
           /\ DOMAIN RemoveAt(s, i) = 1..(Len(s) - 1)
           /\ \A n \in 1..(Len(s) - 1) : RemoveAt(s, i)[n] = IF n < i THEN s[n] ELSE s[n + 1]
  <1> DEFINE a == SubSeq(s, 1, i - 1)
             b == SubSeq(s, i + 1, Len(s))
  <1>1. a \in Seq(S) /\ Len(a) = i - 1 /\ \A n \in 1..(i - 1) : a[n] = s[n]
    BY SubSeqProperties
  <1>2. b \in Seq(S) /\ Len(b) = Len(s) - i /\ \A n \in 1..(Len(s) - i) : b[n] = s[i + n]
    <2>1. i + 1 \in 1..(Len(s) + 1) /\ Len(s) \in 0..Len(s)
      OBVIOUS
    <2>2. CASE i = Len(s)
      BY <2>2, SubSeqProperties
    <2>3. CASE i < Len(s)
      BY <2>3, SubSeqProperties
    <2>4. QED
      BY <2>2, <2>3
  <1>3. RemoveAt(s, i) = a \o b
    BY DEF RemoveAt
  <1> HIDE DEF a, b
  <1>4. RemoveAt(s, i) \in Seq(S) /\ Len(RemoveAt(s, i)) = Len(s) - 1
    BY <1>1, <1>2, <1>3
  <1>5. ASSUME NEW n \in 1..(Len(s) - 1)
        PROVE RemoveAt(s, i)[n] = IF n < i THEN s[n] ELSE s[n + 1]
    <2>1. RemoveAt(s, i)[n] = IF n <= i - 1 THEN a[n] ELSE b[n - (i - 1)]
      <3>1. Len(a) + Len(b) = Len(s) - 1
        BY <1>1, <1>2
      <3>2. n \in 1..(Len(a) + Len(b))
        BY <3>1
      <3>3. (a \o b)[n] = IF n <= Len(a) THEN a[n] ELSE b[n - Len(a)]
        BY <1>1, <1>2, <3>2
      <3>4. QED
        BY <1>1, <1>3, <3>3
    <2>2. CASE n < i
      BY <1>1, <2>1, <2>2
    <2>3. CASE n >= i
      <3>1. n - (i - 1) \in 1..(Len(s) - i) /\ i + (n - (i - 1)) = n + 1
        BY <2>3
      <3>2. b[n - (i - 1)] = s[n + 1]
        BY <1>2, <3>1
      <3>3. QED
        BY <2>1, <2>3, <3>2
    <2>4. QED
      BY <2>2, <2>3
  <1>6. QED
    BY <1>4, <1>5

-----------------------------------------------------------------------------
(* Recursive functions of the model: a walk over pages, and loops.         *)

\* f is a function on D.
IsFcn(f, D) == f = [p \in D |-> f[p]]

\* The pages from which q is come to belong to every set of pages that has q and, with
\* a page, those that lead to it.
Back(D, Stop, nx, X) == \A p \in D \ Stop : nx[p] \in X => p \in X
ComesTo(D, Stop, nx, p, q) == \A X \in SUBSET D : q \in X /\ Back(D, Stop, nx, X) => p \in X
Stops(D, Stop, nx, p) == {q \in D \cap Stop : ComesTo(D, Stop, nx, p, q)}

\* A page where the walk stops leads to itself, another to where its successor leads.
LEMMA StopsFacts ==
    ASSUME NEW D, NEW Stop, NEW nx, NEW p \in D
    PROVE  /\ p \in Stop => Stops(D, Stop, nx, p) = {p}
           /\ p \notin Stop => Stops(D, Stop, nx, p) = Stops(D, Stop, nx, nx[p])
  <1>1. ASSUME p \in Stop PROVE Stops(D, Stop, nx, p) = {p}
    <2>1. p \in Stops(D, Stop, nx, p)
      BY <1>1 DEF Stops, ComesTo
    <2>2. ASSUME NEW q \in Stops(D, Stop, nx, p), q # p PROVE FALSE
      <3>1. PICK X : X = D \ {p}
        OBVIOUS
      <3>2. X \in SUBSET D /\ q \in X /\ p \notin X
        BY <2>2, <3>1 DEF Stops
      <3>3. Back(D, Stop, nx, X)
        BY <1>1, <3>1 DEF Back
      <3>4. QED
        BY <2>2, <3>2, <3>3 DEF Stops, ComesTo
    <2>3. QED
      BY <2>1, <2>2
  <1>2. ASSUME p \notin Stop PROVE Stops(D, Stop, nx, p) = Stops(D, Stop, nx, nx[p])
    <2>1. PICK ch : ch = nx[p]
      OBVIOUS
    <2>2. ASSUME NEW q \in D, q \in Stop, ComesTo(D, Stop, nx, ch, q) PROVE ComesTo(D, Stop, nx, p, q)
      BY <1>2, <2>1, <2>2 DEF ComesTo, Back
    <2>3. ASSUME NEW q \in D, q \in Stop, ComesTo(D, Stop, nx, p, q) PROVE ComesTo(D, Stop, nx, ch, q)
      <3>1. SUFFICES ASSUME NEW X \in SUBSET D, q \in X, Back(D, Stop, nx, X), ch \notin X PROVE FALSE
        BY DEF ComesTo
      <3>2. PICK Y : Y = X \ {p}
        OBVIOUS
      <3>3. Y \in SUBSET D /\ q \in Y /\ p \notin Y
        BY <1>2, <2>3, <3>1, <3>2
      <3>4. Back(D, Stop, nx, Y)
        BY <2>1, <3>1, <3>2 DEF Back
      <3>5. QED
        BY <2>3, <3>3, <3>4 DEF ComesTo
    <2>4. QED
      BY <2>1, <2>2, <2>3 DEF Stops
  <1>3. QED
    BY <1>1, <1>2

\* The walk stays on D; f follows it from each page to the page where it stops.
Inside(D, Stop, nx) == \A p \in D \ Stop : nx[p] \in D
Follows(f, D, Stop, nx) == IsFcn(f, D) /\ \A p \in D : f[p] = IF p \in Stop THEN p ELSE f[nx[p]]

\* There is a function that follows the successors to a page where the walk stops.
LEMMA WalkExists ==
    ASSUME NEW D, NEW Stop, NEW nx, Inside(D, Stop, nx)
    PROVE  \E f : Follows(f, D, Stop, nx)
  <1> DEFINE End(p) == CHOOSE q : q \in Stops(D, Stop, nx, p)
  <1>1. PICK g : g = [p \in D |-> End(p)]
    OBVIOUS
  <1>2. ASSUME NEW p \in D PROVE g[p] = IF p \in Stop THEN p ELSE g[nx[p]]
    <2>1. CASE p \in Stop
      <3>1. Stops(D, Stop, nx, p) = {p}
        BY <2>1, StopsFacts
      <3>2. QED
        BY <1>1, <2>1, <3>1
    <2>2. CASE p \notin Stop
      <3>1. Stops(D, Stop, nx, p) = Stops(D, Stop, nx, nx[p])
        BY <2>2, StopsFacts
      <3>2. nx[p] \in D
        BY <2>2 DEF Inside
      <3>3. QED
        BY <1>1, <2>2, <3>1, <3>2
    <2>3. QED
      BY <2>1, <2>2
  <1>3. IsFcn(g, D)
    BY <1>1 DEF IsFcn
  <1>4. QED
    BY <1>2, <1>3 DEF Follows

\* The rounds of a loop stay in X; f has the values after each of them, from a on.
Rounds(b, X, G) == \A n \in 1..b : \A x \in X : G[n][x] \in X
Runs(f, b, X, a, G) == f \in [0..b -> X] /\ f[0] = a /\ \A n \in 1..b : f[n] = G[n][f[n-1]]

\* There is a function that runs a loop.
LEMMA LoopExists ==
    ASSUME NEW b \in Nat, NEW X, NEW a \in X, NEW G, Rounds(b, X, G)
    PROVE  \E f : Runs(f, b, X, a, G)
  <1> DEFINE Is(g, c) == g \in [0..c -> X] /\ g[0] = a /\ \A n \in 1..c : g[n] = G[n][g[n-1]]
             S == {c \in 0..b : \E g : Is(g, c)}
  <1>1. 0 \in S
    <2>1. PICK g : g = [n \in 0..0 |-> a]
      OBVIOUS
    <2>2. Is(g, 0)
      BY <2>1
    <2>3. QED
      BY <2>2
  <1>2. ASSUME NEW c \in 1..b, c - 1 \in S PROVE c \in S
    <2>1. PICK g : Is(g, c - 1)
      BY <1>2
    <2>2. PICK y : y = G[c][g[c-1]]
      OBVIOUS
    <2>3. y \in X
      <3>1. c - 1 \in 0..(c - 1)
        OBVIOUS
      <3>2. g[c-1] \in X
        BY <2>1, <3>1
      <3>3. QED
        BY <2>2, <3>2 DEF Rounds
    <2>4. PICK h : h = [n \in 0..c |-> IF n = c THEN y ELSE g[n]]
      OBVIOUS
    <2>5. ASSUME NEW n \in 0..c PROVE h[n] \in X /\ h[n] = IF n = c THEN y ELSE g[n]
      <3>1. h[n] = IF n = c THEN y ELSE g[n]
        BY <2>4
      <3>2. n # c => n \in 0..(c - 1)
        OBVIOUS
      <3>3. QED
        BY <2>1, <2>3, <3>1, <3>2
    <2>6. h \in [0..c -> X]
      BY <2>4, <2>5
    <2>7. h[0] = a
      BY <2>1, <2>5
    <2>8. ASSUME NEW n \in 1..c PROVE h[n] = G[n][h[n-1]]
      <3>1. n - 1 \in 0..c /\ n \in 0..c /\ n - 1 # c
        OBVIOUS
      <3>2. h[n-1] = g[n-1] /\ h[n] = IF n = c THEN y ELSE g[n]
        BY <2>5, <3>1
      <3>3. CASE n = c
        BY <2>2, <3>2, <3>3
      <3>4. CASE n # c
        <4>1. n \in 1..(c - 1)
          BY <3>4
        <4>2. QED
          BY <2>1, <3>2, <3>4, <4>1
      <3>5. QED
        BY <3>3, <3>4
    <2>9. QED
      BY <2>6, <2>7, <2>8
  <1>3. b \in S
    <2> HIDE DEF S
    <2>1. \A n \in 0..b : n \in S
      BY <1>1, <1>2, Ascend
    <2>2. QED
      BY <2>1
  <1>4. QED
    BY <1>3 DEF Runs

-----------------------------------------------------------------------------
(* Searching the cells of a page.                                          *)

\* The keys of a page ascend; separators may repeat.
Sorted(cells) == \A i, j \in DOMAIN cells : i < j => cells[i].key <= cells[j].key

\* The position findInsertPos returns: behind every cell with a smaller or equal
\* key, before the others.
Behind(cells, k, i) ==
    /\ i \in 1..(Len(cells) + 1)
    /\ \A n \in DOMAIN cells : n < i => cells[n].key <= k
    /\ \A n \in DOMAIN cells : n >= i => cells[n].key > k

\* Sequences of cells of some kind, each with a number as its key.
CellSet(S) == \A e \in S : e.key \in Nat

\* The first of the positions with a property.
LEMMA MinFacts ==
    ASSUME NEW T \in SUBSET Nat, T # {}
    PROVE  Min(T) \in T /\ \A n \in T : Min(T) <= n
  BY LeastExists DEF Min

\* findInsertPos finds the place for a key on a page whose keys ascend.
LEMMA FindInsertPosFacts ==
    ASSUME NEW S, CellSet(S), NEW p, p.cells \in Seq(S), Sorted(p.cells), NEW k \in Nat
    PROVE  Behind(p.cells, k, FindInsertPos(p, k))
  <1> DEFINE s == p.cells
             I == {n \in 1..Len(s) : s[n].key > k}
             i == IF I # {} THEN Min(I) ELSE 0
  <1>1. FindInsertPos(p, k) = IF i = 0 THEN Len(s) + 1 ELSE i
    BY DEF FindInsertPos, SelectInSeq
  <1>2. I \in SUBSET Nat /\ DOMAIN s = 1..Len(s) /\ Len(s) \in Nat
    OBVIOUS
  <1>3. \A n \in DOMAIN s : s[n].key \in Nat
    BY DEF CellSet
  <1>4. CASE I = {}
    <2>1. FindInsertPos(p, k) = Len(s) + 1
      BY <1>1, <1>4
    <2>2. \A n \in DOMAIN s : s[n].key <= k
      BY <1>2, <1>3, <1>4
    <2>3. QED
      BY <1>2, <2>1, <2>2 DEF Behind
  <1>5. CASE I # {}
    <2>1. Min(I) \in I /\ \A n \in I : Min(I) <= n
      <3> HIDE DEF I
      <3>1. QED
        BY <1>2, <1>5, MinFacts
    <2>2. FindInsertPos(p, k) = Min(I)
      BY <1>1, <1>2, <1>5, <2>1
    <2>3. PICK m : m = Min(I)
      OBVIOUS
    <2>4. m \in 1..Len(s) /\ s[m].key > k
      BY <2>1, <2>3
    <2>5. \A n \in DOMAIN s : n < m => s[n].key <= k
      BY <1>2, <1>3, <2>1, <2>3
    <2>6. \A n \in DOMAIN s : n >= m => s[n].key > k
      <3>1. \A n \in DOMAIN s : n > m => s[n].key >= s[m].key
        BY <1>2, <1>3, <2>4 DEF Sorted
      <3>2. QED
        BY <1>2, <1>3, <2>4, <3>1
    <2>7. QED
      BY <1>2, <2>2, <2>3, <2>4, <2>5, <2>6 DEF Behind
  <1>6. QED
    BY <1>4, <1>5

\* There is one such place.
LEMMA BehindUnique ==
    ASSUME NEW S, CellSet(S), NEW s \in Seq(S), NEW k \in Nat, NEW i, NEW j,
           Behind(s, k, i), Behind(s, k, j)
    PROVE  i = j
  <1>1. i \in 1..(Len(s) + 1) /\ j \in 1..(Len(s) + 1) /\ DOMAIN s = 1..Len(s)
    BY DEF Behind
  <1>2. \A n \in DOMAIN s : s[n].key \in Nat
    BY DEF CellSet
  <1>3. ~(i < j)
    BY <1>1, <1>2 DEF Behind
  <1>4. ~(j < i)
    BY <1>1, <1>2 DEF Behind
  <1>5. QED
    BY <1>1, <1>3, <1>4

\* findChildPageID takes the child of the first cell with a greater key, or the
\* rightmost child.
LEMMA FindChildFacts ==
    ASSUME NEW S, CellSet(S), NEW p, p.cells \in Seq(S), NEW k \in Nat
    PROVE  \/ \E i \in DOMAIN p.cells :
                /\ k < p.cells[i].key /\ FindChildPageID(p, k) = p.cells[i].child
                /\ \A n \in DOMAIN p.cells : n < i => p.cells[n].key <= k
           \/ /\ \A n \in DOMAIN p.cells : p.cells[n].key <= k
              /\ FindChildPageID(p, k) = p.next
  <1> DEFINE s == p.cells
             I == {n \in 1..Len(s) : k < s[n].key}
             i == IF I # {} THEN Min(I) ELSE 0
  <1>1. FindChildPageID(p, k) = IF i = 0 THEN p.next ELSE s[i].child
    BY DEF FindChildPageID, SelectInSeq
  <1>2. I \in SUBSET Nat /\ DOMAIN s = 1..Len(s) /\ Len(s) \in Nat
    OBVIOUS
  <1>3. \A n \in DOMAIN s : s[n].key \in Nat
    BY DEF CellSet
  <1>4. CASE I = {}
    BY <1>1, <1>2, <1>3, <1>4
  <1>5. CASE I # {}
    <2>1. Min(I) \in I /\ \A n \in I : Min(I) <= n
      <3> HIDE DEF I
      <3>1. QED
        BY <1>2, <1>5, MinFacts
    <2>2. PICK m : m = Min(I)
      OBVIOUS
    <2>3. m \in DOMAIN s /\ k < s[m].key
      BY <2>1, <2>2
    <2>4. \A n \in DOMAIN s : n < m => s[n].key <= k
      BY <1>2, <1>3, <2>1, <2>2
    <2>5. FindChildPageID(p, k) = s[m].child
      BY <1>1, <1>2, <1>5, <2>1, <2>2
    <2>6. QED
      BY <2>3, <2>4, <2>5
  <1>6. QED
    BY <1>4, <1>5

\* searchInLeaf finds a cell with the key if the page has one.
LEMMA SearchInLeafFacts ==
    ASSUME NEW S, CellSet(S), NEW p, p.cells \in Seq(S), Sorted(p.cells), NEW k \in Nat
    PROVE  \/ SearchInLeaf(p, k) \in DOMAIN p.cells /\ p.cells[SearchInLeaf(p, k)].key = k
           \/ SearchInLeaf(p, k) = 0 /\ \A n \in DOMAIN p.cells : p.cells[n].key # k
  <1> DEFINE s == p.cells
             I == {n \in 1..Len(s) : s[n].key >= k}
             i == IF I # {} THEN Min(I) ELSE 0
  <1>1. SearchInLeaf(p, k) = IF i # 0 /\ s[i].key = k THEN i ELSE 0
    BY DEF SearchInLeaf, SelectInSeq
  <1>2. I \in SUBSET Nat /\ DOMAIN s = 1..Len(s) /\ Len(s) \in Nat
    OBVIOUS
  <1>3. \A n \in DOMAIN s : s[n].key \in Nat
    BY DEF CellSet
  <1>4. CASE I = {}
    <2>1. SearchInLeaf(p, k) = 0
      BY <1>1, <1>4
    <2>2. \A n \in DOMAIN s : ~(s[n].key >= k)
      BY <1>2, <1>4
    <2>3. \A n \in DOMAIN s : s[n].key # k
      BY <1>3, <2>2
    <2>4. QED
      BY <2>1, <2>3
  <1>5. CASE I # {}
    <2>1. Min(I) \in I /\ \A n \in I : Min(I) <= n
      <3> HIDE DEF I
      <3>1. QED
        BY <1>2, <1>5, MinFacts
    <2>2. PICK m : m = Min(I)
      OBVIOUS
    <2>3. m \in DOMAIN s /\ s[m].key >= k
      BY <2>1, <2>2
    <2>4. \A n \in DOMAIN s : n < m => s[n].key < k
      BY <1>2, <1>3, <2>1, <2>2
    <2>5. SearchInLeaf(p, k) = IF s[m].key = k THEN m ELSE 0
      BY <1>1, <1>2, <1>5, <2>1, <2>2
    <2>6. CASE s[m].key = k
      BY <2>3, <2>5, <2>6
    <2>7. CASE s[m].key # k
      <3>1. \A n \in DOMAIN s : n >= m => s[n].key > k
        <4>1. s[m].key > k
          BY <1>3, <2>3, <2>7
        <4>2. \A n \in DOMAIN s : n > m => s[n].key >= s[m].key
          BY <1>2, <1>3, <2>3 DEF Sorted
        <4>3. QED
          BY <1>2, <1>3, <2>3, <4>1, <4>2
      <3>2. QED
        BY <1>2, <1>3, <2>3, <2>4, <2>5, <2>7, <3>1
    <2>8. QED
      BY <2>6, <2>7
  <1>6. QED
    BY <1>4, <1>5

\* What patchInternalAfterChildSplit looks for: the first cell of a child.
CellOfChild(s, q) == SelectInSeq(s, LAMBDA cell : cell.child = q)

\* CellOfChild finds the first cell that points to q, or 0 when no cell does.
LEMMA ChildIndexFacts ==
    ASSUME NEW s, Len(s) \in Nat, NEW q, NEW i, i = CellOfChild(s, q)
    PROVE  \/ /\ i \in 1..Len(s) /\ s[i].child = q
              /\ \A n \in 1..Len(s) : s[n].child = q => i <= n
           \/ i = 0 /\ \A n \in 1..Len(s) : s[n].child # q
  <1> DEFINE I == {n \in 1..Len(s) : s[n].child = q}
  <1>1. i = IF I # {} THEN Min(I) ELSE 0
    BY DEF CellOfChild, SelectInSeq
  <1>2. CASE I = {}
    BY <1>1, <1>2
  <1>3. CASE I # {}
    <2>1. I \in SUBSET Nat
      OBVIOUS
    <2>2. Min(I) \in I /\ \A n \in I : Min(I) <= n
      <3> HIDE DEF I
      <3>1. QED
        BY <1>3, <2>1, MinFacts
    <2>3. QED
      BY <1>1, <1>3, <2>2
  <1>4. QED
    BY <1>2, <1>3

-----------------------------------------------------------------------------
(* sortCells: the split functions append a cell to the sorted cells of a   *)
(* page.                                                                   *)

\* The new cell moves to its place and the others keep theirs.
LEMMA SortAppend ==
    ASSUME NEW S, CellSet(S), NEW s \in Seq(S), Sorted(s), NEW e \in S, NEW pos,
           Behind(s, e.key, pos)
    PROVE  SortCells(Append(s, e)) = InsertAt(s, pos, e)
  <1> DEFINE t == Append(s, e)
             n1 == Len(s) + 1
             UpTo(i) == {j \in DOMAIN t : \/ t[j].key < t[i].key
                                          \/ t[j].key = t[i].key /\ j <= i}
             rank(i) == IF i = n1 THEN pos ELSE IF i < pos THEN i ELSE i + 1
  <1>1. /\ t \in Seq(S) /\ Len(t) = n1 /\ DOMAIN t = 1..n1 /\ DOMAIN s = 1..Len(s) /\ Len(s) \in Nat
        /\ n1 \in Nat /\ pos \in 1..n1
        /\ t[n1] = e /\ \A i \in 1..Len(s) : t[i] = s[i]
    BY DEF Behind
  <1>2. \A i \in 1..n1 : t[i].key \in Nat
    <2>1. \A i \in 1..n1 : t[i] \in S
      BY <1>1
    <2>2. QED
      BY <2>1 DEF CellSet
  <1>3. \A i, j \in 1..Len(s) : i < j => t[i].key <= t[j].key
    BY <1>1 DEF Sorted
  <1>4. \A i \in 1..Len(s) : (i < pos => t[i].key <= t[n1].key) /\ (i >= pos => t[i].key > t[n1].key)
    BY <1>1 DEF Behind
  <1> HIDE DEF t
  <1>5. ASSUME NEW i \in 1..n1 PROVE Cardinality(UpTo(i)) = rank(i)
    <2>1. CASE i = n1
      <3>1. UpTo(i) = (1..(pos - 1)) \cup {n1}
        <4>1. \A j \in 1..n1 : j \in UpTo(i) <=> j < pos \/ j = n1
          BY <1>1, <1>2, <1>4, <2>1
        <4>2. UpTo(i) \subseteq 1..n1 /\ (1..(pos - 1)) \cup {n1} \subseteq 1..n1
          BY <1>1
        <4>3. \A j \in 1..n1 : j \in (1..(pos - 1)) \cup {n1} <=> j < pos \/ j = n1
          BY <1>1
        <4> HIDE DEF UpTo
        <4>4. QED
          BY <4>1, <4>2, <4>3
      <3>2. IsFiniteSet(1..(pos - 1)) /\ Cardinality(1..(pos - 1)) = pos - 1 /\ n1 \notin 1..(pos - 1)
        <4>1. 1 \in Int /\ pos - 1 \in Int
          BY <1>1
        <4>2. IsFiniteSet(1..(pos - 1)) /\ Cardinality(1..(pos - 1)) = IF 1 > pos - 1 THEN 0 ELSE (pos - 1) - 1 + 1
          BY <4>1, FS_Interval
        <4>3. QED
          BY <1>1, <4>2
      <3>3. Cardinality((1..(pos - 1)) \cup {n1}) = pos - 1 + 1
        BY <3>2, FS_AddElement
      <3>4. Cardinality(UpTo(i)) = pos
        <4> HIDE DEF UpTo
        <4>1. QED
          BY <1>1, <3>1, <3>3
      <3>5. QED
        BY <2>1, <3>4
    <2>2. CASE i # n1 /\ i < pos
      <3>1. UpTo(i) = 1..i
        <4>1. \A j \in 1..n1 : j \in UpTo(i) <=> j <= i
          <5>1. \A j \in 1..Len(s) : j \in UpTo(i) <=> j <= i
            BY <1>1, <1>2, <1>3, <2>2
          <5>2. n1 \notin UpTo(i)
            BY <1>1, <1>2, <1>4, <2>2
          <5>3. QED
            BY <1>1, <2>2, <5>1, <5>2
        <4>2. UpTo(i) \subseteq 1..n1 /\ 1..i \subseteq 1..n1
          BY <1>1
        <4>3. \A j \in 1..n1 : j \in 1..i <=> j <= i
          OBVIOUS
        <4> HIDE DEF UpTo
        <4>4. QED
          BY <4>1, <4>2, <4>3
      <3>2. Cardinality(1..i) = i
        BY <2>2, FS_Interval
      <3>3. Cardinality(UpTo(i)) = i
        BY <3>1, <3>2
      <3>4. QED
        BY <2>2, <3>3
    <2>3. CASE i # n1 /\ i >= pos
      <3>1. UpTo(i) = (1..i) \cup {n1}
        <4>1. \A j \in 1..n1 : j \in UpTo(i) <=> j <= i \/ j = n1
          <5>1. \A j \in 1..Len(s) : j \in UpTo(i) <=> j <= i
            BY <1>1, <1>2, <1>3, <2>3
          <5>2. n1 \in UpTo(i)
            BY <1>1, <1>2, <1>4, <2>3
          <5>3. QED
            BY <1>1, <2>3, <5>1, <5>2
        <4>2. UpTo(i) \subseteq 1..n1 /\ (1..i) \cup {n1} \subseteq 1..n1
          BY <1>1
        <4>3. \A j \in 1..n1 : j \in (1..i) \cup {n1} <=> j <= i \/ j = n1
          OBVIOUS
        <4> HIDE DEF UpTo
        <4>4. QED
          BY <4>1, <4>2, <4>3
      <3>2. IsFiniteSet(1..i) /\ Cardinality(1..i) = i /\ n1 \notin 1..i
        <4>1. IsFiniteSet(1..i) /\ Cardinality(1..i) = i
          BY FS_Interval
        <4>2. i < n1
          BY <1>1, <2>3
        <4>3. QED
          BY <4>1, <4>2
      <3>3. Cardinality((1..i) \cup {n1}) = i + 1
        BY <3>2, FS_AddElement
      <3>4. Cardinality(UpTo(i)) = i + 1
        BY <3>1, <3>3
      <3>5. QED
        BY <1>1, <2>3, <3>4
    <2>4. QED
      BY <1>1, <2>1, <2>2, <2>3
  <1> DEFINE Pick(n) == CHOOSE i \in DOMAIN t : Cardinality(UpTo(i)) = n
             back(n) == IF n < pos THEN n ELSE IF n = pos THEN n1 ELSE n - 1
  <1>6. ASSUME NEW n \in 1..n1 PROVE Pick(n) = back(n)
    <2> HIDE DEF UpTo
    <2>1. back(n) \in 1..n1 /\ rank(back(n)) = n
      BY <1>1
    <2>2. \A i \in 1..n1 : rank(i) = n => i = back(n)
      BY <1>1
    <2> HIDE DEF rank, back
    <2>3. \E i \in DOMAIN t : Cardinality(UpTo(i)) = n
      BY <1>1, <1>5, <2>1
    <2>4. Pick(n) \in DOMAIN t /\ Cardinality(UpTo(Pick(n))) = n
      BY <2>3
    <2>5. PICK j : j = Pick(n)
      OBVIOUS
    <2>6. j \in 1..n1 /\ rank(j) = n
      BY <1>1, <1>5, <2>4, <2>5
    <2>7. QED
      BY <2>2, <2>5, <2>6
  <1>7. SortCells(t) = [n \in 1..n1 |-> t[Pick(n)]]
    BY <1>1 DEF SortCells
  <1> HIDE DEF Pick
  <1>8. SortCells(t) = [n \in 1..n1 |-> t[back(n)]]
    BY <1>6, <1>7
  <1>9. /\ InsertAt(s, pos, e) \in Seq(S) /\ Len(InsertAt(s, pos, e)) = n1
        /\ \A n \in 1..n1 : InsertAt(s, pos, e)[n] = IF n < pos THEN s[n] ELSE IF n = pos THEN e ELSE s[n - 1]
    <2>1. pos \in 1..(Len(s) + 1)
      BY <1>1
    <2>2. QED
      BY <2>1, InsertAtFacts
  <1>10. \A n \in 1..n1 : t[back(n)] = InsertAt(s, pos, e)[n]
    BY <1>1, <1>9
  <1>11. InsertAt(s, pos, e) = [n \in 1..n1 |-> InsertAt(s, pos, e)[n]]
    BY <1>9
  <1>12. [n \in 1..n1 |-> t[back(n)]] = [n \in 1..n1 |-> InsertAt(s, pos, e)[n]]
    <2> HIDE DEF back
    <2>1. QED
      BY <1>10
  <1>13. SortCells(t) = InsertAt(s, pos, e)
    BY <1>8, <1>11, <1>12
  <1>14. QED
    BY <1>13 DEF t

-----------------------------------------------------------------------------
(* Slotted pages.  A page of one type has cells of one set and a next page *)
(* of one set.                                                             *)

PageSet(ty, S, N) == [type : {ty}, cells : Seq(S), off : Nat, next : N]
SizedCells(S) == \A e \in S : e.key \in Nat /\ CellLen(e) \in Nat

\* A page whose cells are sorted and do not overlap the slots.
Sound(p, ty, S, N) == p \in PageSet(ty, S, N) /\ Sorted(p.cells) /\ FreeSpace(p) >= 0

\* The fields of a page.
LEMMA PageFields ==
    ASSUME NEW ty, NEW S, NEW N, NEW p \in PageSet(ty, S, N)
    PROVE  /\ p.type = ty /\ p.cells \in Seq(S) /\ p.off \in Nat /\ p.next \in N
           /\ Len(p.cells) \in Nat /\ DOMAIN p.cells = 1..Len(p.cells)
           /\ FreeSpace(p) = p.off - SlotSize * Len(p.cells)
           /\ SlotSize \in Nat /\ SlotSize >= 1 /\ SlotSize * Len(p.cells) \in Nat /\ FreeSpace(p) \in Int
  <1>1. p.type = ty /\ p.cells \in Seq(S) /\ p.off \in Nat /\ p.next \in N
    BY DEF PageSet
  <1>2. Len(p.cells) \in Nat /\ DOMAIN p.cells = 1..Len(p.cells)
    BY <1>1
  <1>3. SlotSize \in Nat /\ SlotSize >= 1
    BY TreeAssumption
  <1>4. SlotSize * Len(p.cells) \in Nat
    BY <1>2, <1>3, TimesGrows
  <1>5. FreeSpace(p) = p.off - SlotSize * Len(p.cells)
    BY DEF FreeSpace
  <1>6. FreeSpace(p) \in Int
    BY <1>1, <1>4, <1>5
  <1>7. QED
    BY <1>1, <1>2, <1>3, <1>4, <1>5, <1>6

\* A page from its fields.
LEMMA PageMade ==
    ASSUME NEW ty, NEW S, NEW N, NEW cells \in Seq(S), NEW off \in Nat, NEW next \in N, NEW p,
           p = [type |-> ty, cells |-> cells, off |-> off, next |-> next]
    PROVE  p \in PageSet(ty, S, N)
  BY DEF PageSet

\* InsertCellAt when the cell fits.
LEMMA InsertCellFacts ==
    ASSUME NEW ty, NEW S, NEW N, SizedCells(S), NEW p \in PageSet(ty, S, N), NEW e \in S,
           Fits(p, e), NEW i \in 1..(Len(p.cells) + 1), NEW q, q = InsertCellAt(p, i, e)
    PROVE  /\ q \in PageSet(ty, S, N) /\ FreeSpace(q) >= 0
           /\ q.cells = InsertAt(p.cells, i, e) /\ q.off = p.off - CellLen(e)
           /\ q.type = p.type /\ q.next = p.next
           /\ Sorted(p.cells) /\ Behind(p.cells, e.key, i) => Sorted(q.cells)
  <1>1. /\ p.type = ty /\ p.cells \in Seq(S) /\ p.off \in Nat /\ p.next \in N
        /\ Len(p.cells) \in Nat /\ DOMAIN p.cells = 1..Len(p.cells)
        /\ SlotSize \in Nat /\ SlotSize * Len(p.cells) \in Nat
        /\ FreeSpace(p) = p.off - SlotSize * Len(p.cells)
    BY PageFields
  <1>2. CellLen(e) \in Nat /\ e.key \in Nat
    BY DEF SizedCells
  <1>3. p.off - SlotSize * Len(p.cells) >= CellLen(e) + SlotSize
    BY <1>1 DEF Fits
  <1>4. p.off - CellLen(e) \in Nat
    <2>1. PICK x : x = SlotSize * Len(p.cells)
      OBVIOUS
    <2>2. x \in Nat /\ p.off - x >= CellLen(e) + SlotSize
      BY <1>1, <1>3, <2>1
    <2>3. QED
      BY <1>1, <1>2, <2>2
  <1>5. p = [type |-> p.type, cells |-> p.cells, off |-> p.off, next |-> p.next]
    BY DEF PageSet
  <1>6. q = [type |-> p.type, cells |-> InsertAt(p.cells, i, e), off |-> p.off - CellLen(e), next |-> p.next]
    BY <1>5 DEF InsertCellAt
  <1>7. /\ InsertAt(p.cells, i, e) \in Seq(S) /\ Len(InsertAt(p.cells, i, e)) = Len(p.cells) + 1
        /\ DOMAIN InsertAt(p.cells, i, e) = 1..(Len(p.cells) + 1)
        /\ \A n \in 1..(Len(p.cells) + 1) : InsertAt(p.cells, i, e)[n] =
             IF n < i THEN p.cells[n] ELSE IF n = i THEN e ELSE p.cells[n - 1]
    <2>1. PICK s : s = p.cells
      OBVIOUS
    <2>2. s \in Seq(S) /\ i \in 1..(Len(s) + 1)
      BY <1>1, <2>1
    <2>3. /\ InsertAt(s, i, e) \in Seq(S) /\ Len(InsertAt(s, i, e)) = Len(s) + 1
          /\ DOMAIN InsertAt(s, i, e) = 1..(Len(s) + 1)
          /\ \A n \in 1..(Len(s) + 1) : InsertAt(s, i, e)[n] =
               IF n < i THEN s[n] ELSE IF n = i THEN e ELSE s[n - 1]
      BY <2>2, InsertAtFacts
    <2>4. QED
      BY <2>1, <2>3
  <1>8. q \in PageSet(ty, S, N)
    BY <1>1, <1>4, <1>6, <1>7, PageMade
  <1>9. FreeSpace(q) >= 0
    <2>1. FreeSpace(q) = (p.off - CellLen(e)) - SlotSize * (Len(p.cells) + 1)
      BY <1>6, <1>7 DEF FreeSpace
    <2>2. SlotSize * (Len(p.cells) + 1) = SlotSize * Len(p.cells) + SlotSize
      BY <1>1
    <2>3. QED
      BY <1>1, <1>2, <1>3, <2>1, <2>2
  <1>10. ASSUME Sorted(p.cells), Behind(p.cells, e.key, i) PROVE Sorted(q.cells)
    <2>1. PICK t : t = q.cells
      OBVIOUS
    <2>2. /\ DOMAIN t = 1..(Len(p.cells) + 1)
          /\ \A n \in 1..(Len(p.cells) + 1) : t[n] = IF n < i THEN p.cells[n] ELSE IF n = i THEN e ELSE p.cells[n - 1]
      BY <1>6, <1>7, <2>1
    <2>3. \A n \in 1..Len(p.cells) : p.cells[n].key \in Nat
      BY <1>1 DEF SizedCells
    <2>4. \A m, n \in 1..Len(p.cells) : m < n => p.cells[m].key <= p.cells[n].key
      BY <1>1, <1>10 DEF Sorted
    <2>5. \A n \in 1..Len(p.cells) : (n < i => p.cells[n].key <= e.key) /\ (n >= i => p.cells[n].key > e.key)
      BY <1>1, <1>10 DEF Behind
    <2>6. ASSUME NEW m \in DOMAIN t, NEW n \in DOMAIN t, m < n PROVE t[m].key <= t[n].key
      <3>1. CASE n < i
        BY <1>1, <2>2, <2>4, <2>6, <3>1
      <3>2. CASE n = i
        BY <1>1, <2>2, <2>5, <2>6, <3>2
      <3>3. CASE n > i /\ m < i
        <4>1. t[m] = p.cells[m] /\ t[n] = p.cells[n - 1] /\ m \in 1..Len(p.cells) /\ n - 1 \in 1..Len(p.cells)
          BY <1>1, <2>2, <2>6, <3>3
        <4>2. n - 1 >= i
          BY <2>2, <2>6, <3>3
        <4>3. QED
          BY <1>2, <2>3, <2>5, <3>3, <4>1, <4>2
      <3>4. CASE n > i /\ m = i
        <4>1. t[m] = e /\ t[n] = p.cells[n - 1] /\ n - 1 \in 1..Len(p.cells)
          BY <1>1, <2>2, <2>6, <3>4
        <4>2. n - 1 >= i
          BY <2>2, <2>6, <3>4
        <4>3. QED
          BY <1>2, <2>3, <2>5, <4>1, <4>2
      <3>5. CASE n > i /\ m > i
        <4>1. t[m] = p.cells[m - 1] /\ t[n] = p.cells[n - 1] /\ m - 1 \in 1..Len(p.cells) /\ n - 1 \in 1..Len(p.cells)
          BY <1>1, <2>2, <2>6, <3>5
        <4>2. m - 1 < n - 1
          BY <2>2, <2>6
        <4>3. QED
          BY <2>4, <4>1, <4>2
      <3>6. QED
        BY <2>2, <2>6, <3>1, <3>2, <3>3, <3>4, <3>5
    <2>7. QED
      BY <2>1, <2>6 DEF Sorted
  <1>11. q.cells = InsertAt(p.cells, i, e) /\ q.off = p.off - CellLen(e) /\ q.type = p.type /\ q.next = p.next
    BY <1>6
  <1>12. QED
    BY <1>8, <1>9, <1>10, <1>11

\* DeleteCell keeps the bytes of the cell.
LEMMA DeleteCellFacts ==
    ASSUME NEW ty, NEW S, NEW N, NEW p \in PageSet(ty, S, N), Sorted(p.cells), FreeSpace(p) >= 0,
           NEW i \in 1..Len(p.cells), NEW q, q = DeleteCell(p, i)
    PROVE  /\ Sound(q, ty, S, N)
           /\ q.cells = RemoveAt(p.cells, i) /\ q.off = p.off /\ q.type = p.type /\ q.next = p.next
  <1>1. /\ p.type = ty /\ p.cells \in Seq(S) /\ p.off \in Nat /\ p.next \in N
        /\ Len(p.cells) \in Nat /\ DOMAIN p.cells = 1..Len(p.cells)
        /\ SlotSize \in Nat /\ SlotSize * Len(p.cells) \in Nat
        /\ FreeSpace(p) = p.off - SlotSize * Len(p.cells)
    BY PageFields
  <1>2. p = [type |-> p.type, cells |-> p.cells, off |-> p.off, next |-> p.next]
    BY DEF PageSet
  <1>3. q = [type |-> p.type, cells |-> RemoveAt(p.cells, i), off |-> p.off, next |-> p.next]
    BY <1>2 DEF DeleteCell
  <1>4. /\ RemoveAt(p.cells, i) \in Seq(S) /\ Len(RemoveAt(p.cells, i)) = Len(p.cells) - 1
        /\ DOMAIN RemoveAt(p.cells, i) = 1..(Len(p.cells) - 1)
        /\ \A n \in 1..(Len(p.cells) - 1) : RemoveAt(p.cells, i)[n] = IF n < i THEN p.cells[n] ELSE p.cells[n + 1]
    BY <1>1, RemoveAtFacts
  <1>5. q \in PageSet(ty, S, N)
    BY <1>1, <1>3, <1>4, PageMade
  <1>6. FreeSpace(q) >= 0
    <2>1. FreeSpace(q) = p.off - SlotSize * (Len(p.cells) - 1)
      BY <1>3, <1>4 DEF FreeSpace
    <2>2. SlotSize * (Len(p.cells) - 1) <= SlotSize * Len(p.cells) /\ SlotSize * (Len(p.cells) - 1) \in Nat
      <3>1. Len(p.cells) - 1 \in Nat /\ Len(p.cells) - 1 <= Len(p.cells)
        BY <1>1
      <3>2. QED
        BY <1>1, <3>1, TimesGrows
    <2>3. QED
      BY <1>1, <2>1, <2>2
  <1>7. Sorted(q.cells)
    <2>1. PICK t : t = q.cells
      OBVIOUS
    <2>2. /\ DOMAIN t = 1..(Len(p.cells) - 1)
          /\ \A n \in 1..(Len(p.cells) - 1) : t[n] = IF n < i THEN p.cells[n] ELSE p.cells[n + 1]
      BY <1>3, <1>4, <2>1
    <2>3. \A m, n \in 1..Len(p.cells) : m < n => p.cells[m].key <= p.cells[n].key
      BY <1>1 DEF Sorted
    <2>4. ASSUME NEW m \in DOMAIN t, NEW n \in DOMAIN t, m < n PROVE t[m].key <= t[n].key
      <3>1. PICK m2 \in 1..Len(p.cells) : m2 = (IF m < i THEN m ELSE m + 1) /\ t[m] = p.cells[m2]
        BY <1>1, <2>2
      <3>2. PICK n2 \in 1..Len(p.cells) : n2 = (IF n < i THEN n ELSE n + 1) /\ t[n] = p.cells[n2]
        BY <1>1, <2>2
      <3>3. m2 < n2
        BY <2>2, <2>4, <3>1, <3>2
      <3>4. QED
        BY <2>3, <3>1, <3>2, <3>3
    <2>5. QED
      BY <2>1, <2>4 DEF Sorted
  <1>8. QED
    BY <1>3, <1>5, <1>6, <1>7 DEF Sound

-----------------------------------------------------------------------------
(* Loops over AddCell.                                                     *)

\* What AddCells has put on the page after each of the cells.
LEMMA AddCellsUnfold ==
    ASSUME NEW p, NEW cells, Len(cells) \in Nat
    PROVE  \E f : /\ f[0] = p /\ f[Len(cells)] = AddCells(p, cells)
                  /\ \A n \in 1..Len(cells) : f[n] =
                       IF Fits(f[n-1], cells[n])
                       THEN InsertCellAt(f[n-1], Len(f[n-1].cells) + 1, cells[n])
                       ELSE f[n-1]
  <1> DEFINE Put(q, cell) == IF Fits(q, cell) THEN InsertCellAt(q, Len(q.cells) + 1, cell) ELSE q
             Is(g, b) == g = [n \in 0..b |-> IF n = 0 THEN p ELSE Put(g[n-1], cells[n])]
             S == {b \in Nat : \E g : Is(g, b)}
  <1>1. 0 \in S
    <2>1. Is([n \in 0..0 |-> p], 0)
      BY DEF Is
    <2>2. QED
      BY <2>1
  <1>2. ASSUME NEW b \in 1..Len(cells), b - 1 \in S PROVE b \in S
    <2> HIDE DEF Put
    <2>1. PICK g : g = [n \in 0..(b-1) |-> IF n = 0 THEN p ELSE Put(g[n-1], cells[n])]
      BY <1>2
    <2>2. PICK h : h = [n \in 0..b |-> IF n = b THEN Put(g[b-1], cells[b]) ELSE g[n]]
      OBVIOUS
    <2>3. ASSUME NEW n \in 0..b PROVE h[n] = IF n = 0 THEN p ELSE Put(h[n-1], cells[n])
      <3>1. h[n] = IF n = b THEN Put(g[b-1], cells[b]) ELSE g[n]
        BY <2>2
      <3>2. CASE n = 0
        BY <2>1, <3>1, <3>2
      <3>3. CASE n \in 1..(b-1)
        <4>1. g[n] = Put(g[n-1], cells[n])
          BY <2>1, <3>3
        <4>2. h[n-1] = g[n-1] /\ h[n] = g[n]
          BY <2>2, <3>3
        <4>3. QED
          BY <3>3, <4>1, <4>2
      <3>4. CASE n = b
        <4>1. h[n-1] = g[b-1]
          BY <2>2, <3>4
        <4>2. QED
          BY <3>1, <3>4, <4>1
      <3>5. QED
        BY <3>2, <3>3, <3>4
    <2>4. h = [n \in 0..b |-> h[n]]
      BY <2>2
    <2>5. h = [n \in 0..b |-> IF n = 0 THEN p ELSE Put(h[n-1], cells[n])]
      BY <2>3, <2>4
    <2>6. b \in Nat
      OBVIOUS
    <2>7. QED
      BY <2>5, <2>6
  <1>3. Len(cells) \in S
    <2> HIDE DEF S
    <2>1. \A n \in 0..Len(cells) : n \in S
      BY <1>1, <1>2, Ascend
    <2>2. QED
      BY <2>1
  <1> DEFINE F == CHOOSE f : f = [n \in 0..Len(cells) |->
                    IF n = 0 THEN p
                    ELSE IF Fits(f[n-1], cells[n])
                         THEN InsertCellAt(f[n-1], Len(f[n-1].cells) + 1, cells[n])
                         ELSE f[n-1]]
  <1>4. F = [n \in 0..Len(cells) |->
               IF n = 0 THEN p
               ELSE IF Fits(F[n-1], cells[n])
                    THEN InsertCellAt(F[n-1], Len(F[n-1].cells) + 1, cells[n])
                    ELSE F[n-1]]
    BY <1>3 DEF Is, Put
  <1>5. AddCells(p, cells) = F[Len(cells)]
    BY DEF AddCells
  <1> HIDE DEF F
  <1>6. F[0] = p
    BY <1>4
  <1>7. \A n \in 1..Len(cells) : F[n] = IF Fits(F[n-1], cells[n])
                                        THEN InsertCellAt(F[n-1], Len(F[n-1].cells) + 1, cells[n])
                                        ELSE F[n-1]
    BY <1>4
  <1>8. QED
    BY <1>5, <1>6, <1>7

\* Sorted cells added to an empty page: those that fit, in their order.
LEMMA AddCellsSound ==
    ASSUME NEW ty, NEW S, NEW N, SizedCells(S), NEW p \in PageSet(ty, S, N),
           p.cells = <<>>, FreeSpace(p) >= 0, NEW cells \in Seq(S), Sorted(cells),
           NEW q, q = AddCells(p, cells)
    PROVE  Sound(q, ty, S, N) /\ q.type = p.type /\ q.next = p.next
  <1> DEFINE b == Len(cells)
  <1>1. b \in Nat /\ DOMAIN cells = 1..b /\ \A n \in 1..b : cells[n] \in S /\ cells[n].key \in Nat
    BY DEF SizedCells
  <1>2. PICK f : /\ f[0] = p /\ f[b] = AddCells(p, cells)
                 /\ \A n \in 1..b : f[n] =
                      IF Fits(f[n-1], cells[n])
                      THEN InsertCellAt(f[n-1], Len(f[n-1].cells) + 1, cells[n])
                      ELSE f[n-1]
    BY <1>1, AddCellsUnfold
  <1> DEFINE Fine(n) == /\ Sound(f[n], ty, S, N) /\ f[n].type = p.type /\ f[n].next = p.next
                        /\ \A i \in DOMAIN f[n].cells : \E j \in 1..n : f[n].cells[i] = cells[j]
             T == {n \in Nat : Fine(n)}
  <1>3. 0 \in T
    <2>1. Sorted(p.cells)
      BY DEF Sorted
    <2>2. QED
      BY <1>2, <2>1 DEF Sound
  <1>4. ASSUME NEW n \in 1..b, n - 1 \in T PROVE n \in T
    <2>1. PICK x : x = f[n-1]
      OBVIOUS
    <2>2. /\ Sound(x, ty, S, N) /\ x.type = p.type /\ x.next = p.next
          /\ \A i \in DOMAIN x.cells : \E j \in 1..(n-1) : x.cells[i] = cells[j]
      BY <1>4, <2>1
    <2>3. PICK e : e = cells[n]
      OBVIOUS
    <2>4. PICK y : y = f[n]
      OBVIOUS
    <2>5. y = IF Fits(x, e) THEN InsertCellAt(x, Len(x.cells) + 1, e) ELSE x
      BY <1>2, <2>1, <2>3, <2>4
    <2>6. x.cells \in Seq(S) /\ Len(x.cells) \in Nat /\ DOMAIN x.cells = 1..Len(x.cells) /\ e \in S
      BY <1>1, <2>2, <2>3, PageFields DEF Sound
    <2>7. CASE ~Fits(x, e)
      <3>1. y = x
        BY <2>5, <2>7
      <3>2. \A i \in DOMAIN x.cells : \E j \in 1..n : x.cells[i] = cells[j]
        BY <2>2
      <3>3. Fine(n)
        BY <2>2, <2>4, <3>1, <3>2
      <3>4. QED
        BY <3>3
    <2>8. CASE Fits(x, e)
      <3>1. y = InsertCellAt(x, Len(x.cells) + 1, e)
        BY <2>5, <2>8
      <3>2. \A i \in DOMAIN x.cells : x.cells[i].key <= e.key
        <4>1. ASSUME NEW i \in DOMAIN x.cells PROVE x.cells[i].key <= e.key
          <5>1. PICK j \in 1..(n-1) : x.cells[i] = cells[j]
            BY <2>2
          <5>2. j \in 1..b /\ n \in 1..b /\ j < n
            BY <1>1
          <5>3. cells[j].key <= cells[n].key
            BY <1>1, <5>2 DEF Sorted
          <5>4. QED
            BY <2>3, <5>1, <5>3
        <4>2. QED
          BY <4>1
      <3>3. Behind(x.cells, e.key, Len(x.cells) + 1)
        BY <2>6, <3>2 DEF Behind
      <3>4. PICK i : i = Len(x.cells) + 1
        OBVIOUS
      <3>5. i \in 1..(Len(x.cells) + 1) /\ x \in PageSet(ty, S, N) /\ Sorted(x.cells)
        BY <2>2, <2>6, <3>4 DEF Sound
      <3>6. /\ y \in PageSet(ty, S, N) /\ FreeSpace(y) >= 0 /\ y.cells = InsertAt(x.cells, i, e)
            /\ y.type = x.type /\ y.next = x.next /\ Sorted(y.cells)
        BY <2>6, <2>8, <3>1, <3>3, <3>4, <3>5, InsertCellFacts
      <3>7. /\ DOMAIN InsertAt(x.cells, i, e) = 1..(Len(x.cells) + 1)
            /\ \A m \in 1..(Len(x.cells) + 1) : InsertAt(x.cells, i, e)[m] =
                IF m < i THEN x.cells[m] ELSE IF m = i THEN e ELSE x.cells[m - 1]
        <4>1. PICK s : s = x.cells
          OBVIOUS
        <4>2. s \in Seq(S) /\ i \in 1..(Len(s) + 1)
          BY <2>6, <3>5, <4>1
        <4> e \in S
          BY <2>6
        <4>3. /\ InsertAt(s, i, e) \in Seq(S) /\ Len(InsertAt(s, i, e)) = Len(s) + 1
              /\ DOMAIN InsertAt(s, i, e) = 1..(Len(s) + 1)
              /\ \A m \in 1..(Len(s) + 1) : InsertAt(s, i, e)[m] =
                  IF m < i THEN s[m] ELSE IF m = i THEN e ELSE s[m - 1]
          BY <4>2, InsertAtFacts
        <4>4. QED
          BY <4>1, <4>3
      <3>8. \A m \in DOMAIN y.cells : y.cells[m] = IF m = i THEN e ELSE x.cells[m]
        BY <2>6, <3>4, <3>6, <3>7
      <3>9. ASSUME NEW m \in DOMAIN y.cells PROVE \E j \in 1..n : y.cells[m] = cells[j]
        <4>1. CASE m = i
          BY <2>3, <3>8, <4>1
        <4>2. CASE m # i
          <5>1. m \in DOMAIN x.cells
            BY <2>6, <3>4, <3>6, <3>7, <4>2
          <5>2. QED
            BY <2>2, <3>8, <4>2, <5>1
        <4>3. QED
          BY <4>1, <4>2
      <3>10. Fine(n)
        BY <2>2, <2>4, <3>6, <3>9 DEF Sound
      <3>11. QED
        BY <3>10
    <2>9. QED
      BY <2>7, <2>8
  <1>5. b \in T
    <2> HIDE DEF T
    <2>1. \A n \in 0..b : n \in T
      BY <1>1, <1>3, <1>4, Ascend
    <2>2. QED
      BY <1>1, <2>1
  <1>6. QED
    BY <1>2, <1>5

-----------------------------------------------------------------------------
(* The two halves of a split.                                              *)

\* A piece of sorted cells.
LEMMA PieceFacts ==
    ASSUME NEW S, NEW s \in Seq(S), NEW a \in 1..(Len(s) + 1), NEW b \in (a - 1)..Len(s)
    PROVE  /\ SubSeq(s, a, b) \in Seq(S) /\ Len(SubSeq(s, a, b)) = b - a + 1
           /\ DOMAIN SubSeq(s, a, b) = 1..(b - a + 1)
           /\ \A n \in 1..(b - a + 1) : SubSeq(s, a, b)[n] = s[a + n - 1]
           /\ Sorted(s) => Sorted(SubSeq(s, a, b))
  <1>1. /\ SubSeq(s, a, b) \in Seq(S) /\ Len(SubSeq(s, a, b)) = b - a + 1
        /\ \A n \in 1..(b - a + 1) : SubSeq(s, a, b)[n] = s[a + n - 1]
    BY SubSeqProperties
  <1>2. PICK t : t = SubSeq(s, a, b)
    OBVIOUS
  <1>3. t \in Seq(S) /\ Len(t) = b - a + 1 /\ DOMAIN t = 1..(b - a + 1)
    BY <1>1, <1>2
  <1>4. \A n \in 1..(b - a + 1) : t[n] = s[a + n - 1]
    BY <1>1, <1>2
  <1>5. ASSUME Sorted(s) PROVE Sorted(t)
    <2>1. ASSUME NEW m \in DOMAIN t, NEW n \in DOMAIN t, m < n PROVE t[m].key <= t[n].key
      <3>1. a + m - 1 \in DOMAIN s /\ a + n - 1 \in DOMAIN s /\ a + m - 1 < a + n - 1
        BY <1>3, <2>1
      <3>2. s[a + m - 1].key <= s[a + n - 1].key
        BY <1>5, <3>1 DEF Sorted
      <3>3. QED
        BY <1>3, <1>4, <3>2
    <2>2. QED
      BY <2>1 DEF Sorted
  <1>6. QED
    BY <1>1, <1>2, <1>3, <1>5

\* The sorted cells of a page and one more.
LEMMA GrownCells ==
    ASSUME NEW ty, NEW S, NEW N, SizedCells(S), NEW p, Sound(p, ty, S, N), NEW e \in S,
           NEW cells, cells = SortCells(Append(p.cells, e))
    PROVE  /\ cells = InsertAt(p.cells, FindInsertPos(p, e.key), e)
           /\ Behind(p.cells, e.key, FindInsertPos(p, e.key))
           /\ cells \in Seq(S) /\ Len(cells) = Len(p.cells) + 1 /\ DOMAIN cells = 1..(Len(p.cells) + 1)
           /\ Sorted(cells) /\ Len(cells) \div 2 \in 0..Len(p.cells)
  <1>1. p.cells \in Seq(S) /\ Len(p.cells) \in Nat /\ DOMAIN p.cells = 1..Len(p.cells) /\ Sorted(p.cells)
    BY PageFields DEF Sound
  <1>2. CellSet(S) /\ e.key \in Nat
    BY DEF SizedCells, CellSet
  <1>3. PICK i : i = FindInsertPos(p, e.key)
    OBVIOUS
  <1>4. Behind(p.cells, e.key, i)
    BY <1>1, <1>2, <1>3, FindInsertPosFacts
  <1>5. PICK s : s = p.cells
    OBVIOUS
  <1>6. s \in Seq(S) /\ Sorted(s) /\ Behind(s, e.key, i) /\ i \in 1..(Len(s) + 1) /\ Len(s) \in Nat
    BY <1>1, <1>4, <1>5 DEF Behind
  <1>7. cells = InsertAt(s, i, e)
    BY <1>2, <1>5, <1>6, SortAppend
  <1>8. /\ InsertAt(s, i, e) \in Seq(S) /\ Len(InsertAt(s, i, e)) = Len(s) + 1
        /\ DOMAIN InsertAt(s, i, e) = 1..(Len(s) + 1)
        /\ \A m \in 1..(Len(s) + 1) : InsertAt(s, i, e)[m] =
            IF m < i THEN s[m] ELSE IF m = i THEN e ELSE s[m - 1]
    <2>1. s \in Seq(S) /\ i \in 1..(Len(s) + 1)
      BY <1>6
    <2>2. InsertAt(s, i, e) \in Seq(S) /\ Len(InsertAt(s, i, e)) = Len(s) + 1
      BY <2>1, InsertAtFacts
    <2>3. DOMAIN InsertAt(s, i, e) = 1..(Len(s) + 1)
      BY <2>1, InsertAtFacts
    <2>4. \A m \in 1..(Len(s) + 1) : InsertAt(s, i, e)[m] =
            IF m < i THEN s[m] ELSE IF m = i THEN e ELSE s[m - 1]
      BY <2>1, InsertAtFacts
    <2>5. QED
      BY <2>2, <2>3, <2>4
  <1>9. Sorted(cells)
    <2>1. \A n \in 1..Len(s) : s[n].key \in Nat
      BY <1>2, <1>6 DEF CellSet
    <2>2. \A m, n \in 1..Len(s) : m < n => s[m].key <= s[n].key
      BY <1>6 DEF Sorted
    <2>3. \A n \in 1..Len(s) : (n < i => s[n].key <= e.key) /\ (n >= i => s[n].key > e.key)
      BY <1>6 DEF Behind
    <2>4. DOMAIN cells = 1..(Len(s) + 1)
      BY <1>7, <1>8
    <2>5. \A m \in 1..(Len(s) + 1) : cells[m] = IF m < i THEN s[m] ELSE IF m = i THEN e ELSE s[m - 1]
      BY <1>7, <1>8
    <2>6. ASSUME NEW m \in DOMAIN cells, NEW n \in DOMAIN cells, m < n PROVE cells[m].key <= cells[n].key
      <3>1. CASE n < i
        BY <1>6, <2>2, <2>4, <2>5, <2>6, <3>1
      <3>2. CASE n = i
        BY <1>6, <2>3, <2>4, <2>5, <2>6, <3>2
      <3>3. CASE n > i /\ m < i
        <4>1. cells[m] = s[m] /\ cells[n] = s[n - 1] /\ m \in 1..Len(s) /\ n - 1 \in 1..Len(s) /\ n - 1 >= i
          BY <1>6, <2>4, <2>5, <2>6, <3>3
        <4>2. QED
          BY <1>2, <2>1, <2>3, <3>3, <4>1
      <3>4. CASE n > i /\ m = i
        <4>1. cells[m] = e /\ cells[n] = s[n - 1] /\ n - 1 \in 1..Len(s) /\ n - 1 >= i
          BY <1>6, <2>4, <2>5, <2>6, <3>4
        <4>2. QED
          BY <1>2, <2>1, <2>3, <4>1
      <3>5. CASE n > i /\ m > i
        <4>1. cells[m] = s[m - 1] /\ cells[n] = s[n - 1] /\ m - 1 \in 1..Len(s) /\ n - 1 \in 1..Len(s)
          BY <1>6, <2>4, <2>5, <2>6, <3>5
        <4>2. m - 1 < n - 1
          BY <2>4, <2>6
        <4>3. QED
          BY <2>2, <4>1, <4>2
      <3>6. QED
        BY <1>6, <2>4, <2>6, <3>1, <3>2, <3>3, <3>4, <3>5
    <2>7. QED
      BY <2>6 DEF Sorted
  <1>10. Len(cells) \div 2 \in 0..Len(p.cells)
    <2>1. PICK n \in Nat : n = Len(p.cells)
      BY <1>1
    <2>2. Len(cells) = n + 1
      BY <1>5, <1>7, <1>8, <2>1
    <2>3. (n + 1) \div 2 \in 0..n
      OBVIOUS
    <2>4. QED
      BY <2>1, <2>2, <2>3
  <1>11. QED
    BY <1>3, <1>4, <1>5, <1>7, <1>8, <1>9, <1>10

\* A new page and an emptied one.
LEMMA EmptyPages ==
    ASSUME NEW ty, NEW S, NEW N
    PROVE  /\ 0 \in N => Sound(Blank(ty), ty, S, N)
           /\ Blank(ty).cells = <<>> /\ Blank(ty).off = Capacity /\ Blank(ty).type = ty
           /\ \A p \in PageSet(ty, S, N) :
                /\ Sound(ResetPage(p), ty, S, N) /\ ResetPage(p).cells = <<>>
                /\ ResetPage(p).off = Capacity /\ ResetPage(p).type = ty /\ ResetPage(p).next = p.next
  <1>1. Capacity \in Nat
    BY TreeAssumption
  <1>2. \A x : x.cells = <<>> /\ x.off = Capacity => Sorted(x.cells) /\ FreeSpace(x) >= 0
    <2>1. SlotSize \in Nat
      BY TreeAssumption
    <2>2. ASSUME NEW x, x.cells = <<>> /\ x.off = Capacity PROVE Sorted(x.cells) /\ FreeSpace(x) >= 0
      <3>1. Sorted(x.cells)
        BY <2>2 DEF Sorted
      <3>2. FreeSpace(x) = Capacity - SlotSize * 0
        BY <2>2 DEF FreeSpace
      <3>3. QED
        BY <1>1, <2>1, <3>1, <3>2
    <2>3. QED
      BY <2>2
  <1>3. Blank(ty) = [type |-> ty, cells |-> <<>>, off |-> Capacity, next |-> 0]
    BY DEF Blank
  <1>4. <<>> \in Seq(S)
    OBVIOUS
  <1>5. 0 \in N => Sound(Blank(ty), ty, S, N)
    <2>1. ASSUME 0 \in N PROVE Blank(ty) \in PageSet(ty, S, N)
      BY <1>1, <1>3, <1>4, <2>1, PageMade
    <2>2. QED
      BY <1>2, <1>3, <2>1 DEF Sound
  <1>6. ASSUME NEW p \in PageSet(ty, S, N)
        PROVE /\ Sound(ResetPage(p), ty, S, N) /\ ResetPage(p).cells = <<>>
              /\ ResetPage(p).off = Capacity /\ ResetPage(p).type = ty /\ ResetPage(p).next = p.next
    <2>1. p = [type |-> ty, cells |-> p.cells, off |-> p.off, next |-> p.next] /\ p.next \in N
      BY DEF PageSet
    <2>2. PICK q : q = ResetPage(p)
      OBVIOUS
    <2>6. PICK x, y, z : x = p.cells /\ y = p.off /\ z = p.next
      OBVIOUS
    <2>7. p = [type |-> ty, cells |-> x, off |-> y, next |-> z]
      BY <2>1, <2>6
    <2>8. q = [p EXCEPT !.cells = <<>>, !.off = Capacity]
      BY <2>2 DEF ResetPage
    <2>9. q = [type |-> ty, cells |-> <<>>, off |-> Capacity, next |-> z]
      BY <2>7, <2>8
    <2>3. q = [type |-> ty, cells |-> <<>>, off |-> Capacity, next |-> p.next]
      BY <2>6, <2>9
    <2>4. q \in PageSet(ty, S, N)
      BY <1>1, <1>4, <2>1, <2>3, PageMade
    <2>5. QED
      BY <1>2, <2>2, <2>3, <2>4 DEF Sound
  <1>7. QED
    BY <1>3, <1>5, <1>6

\* Setting the next page or the rightmost child.
LEMMA NextSet ==
    ASSUME NEW ty, NEW S, NEW N, NEW p, Sound(p, ty, S, N), NEW n \in N,
           NEW q, q = [p EXCEPT !.next = n]
    PROVE  Sound(q, ty, S, N) /\ q.cells = p.cells /\ q.off = p.off /\ q.type = p.type /\ q.next = n
  <1>1. p.type = ty /\ p.cells \in Seq(S) /\ p.off \in Nat
    BY DEF Sound, PageSet
  <1>2. p = [type |-> ty, cells |-> p.cells, off |-> p.off, next |-> p.next]
    BY DEF Sound, PageSet
  <1>3. q = [type |-> ty, cells |-> p.cells, off |-> p.off, next |-> n]
    BY <1>2
  <1>4. q \in PageSet(ty, S, N)
    BY <1>1, <1>3, PageMade
  <1>5. QED
    BY <1>1, <1>3, <1>4 DEF Sound, FreeSpace

-----------------------------------------------------------------------------
(* The pages of the tree.                                                  *)

LeafCell == [key : Keys, row : Rows]
InternalCell(D) == [key : Keys, child : D]
LeafOK(p, D) == Sound(p, "leaf", LeafCell, D \cup {NoPage})
InternalOK(p, D) == Sound(p, "internal", InternalCell(D), D)
WellFormed(p, D) == LeafOK(p, D) \/ InternalOK(p, D)

\* The cells have sizes and keys that are numbers.
LEMMA CellSizes ==
    /\ SizedCells(LeafCell) /\ \A D : SizedCells(InternalCell(D))
    /\ \A e \in LeafCell : CellLen(e) = RowLen[e.row]
    /\ \A D : \A e \in InternalCell(D) : CellLen(e) = InternalLen
  <1>1. Keys \subseteq Nat /\ RowLen \in [Rows -> Nat \ {0}] /\ InternalLen \in Nat
    BY TreeAssumption
  <1>2. \A e \in LeafCell : CellLen(e) = RowLen[e.row] /\ e.key \in Nat /\ RowLen[e.row] \in Nat
    BY <1>1 DEF LeafCell, CellLen
  <1>3. \A D : \A e \in InternalCell(D) : CellLen(e) = InternalLen /\ e.key \in Nat
    BY <1>1 DEF InternalCell, CellLen
  <1>4. QED
    BY <1>1, <1>2, <1>3 DEF SizedCells

\* Cells that are sound among some pages are so among more.
LEMMA SoundGrows ==
    ASSUME NEW D, NEW E, D \subseteq E, NEW p, WellFormed(p, D)
    PROVE  WellFormed(p, E) /\ (LeafOK(p, D) => LeafOK(p, E)) /\ (InternalOK(p, D) => InternalOK(p, E))
  <1>1. ASSUME LeafOK(p, D) PROVE LeafOK(p, E)
    <2>1. p \in PageSet("leaf", LeafCell, E \cup {NoPage})
      BY <1>1 DEF LeafOK, Sound, PageSet
    <2>2. QED
      BY <1>1, <2>1 DEF LeafOK, Sound
  <1>2. ASSUME InternalOK(p, D) PROVE InternalOK(p, E)
    <2>1. InternalCell(D) \subseteq InternalCell(E)
      BY DEF InternalCell
    <2>2. p.cells \in Seq(InternalCell(D)) /\ p.next \in D
      BY <1>2 DEF InternalOK, Sound, PageSet
    <2>3. p.cells \in Seq(InternalCell(E)) /\ p.next \in E
      BY <2>1, <2>2
    <2>4. p \in PageSet("internal", InternalCell(E), E)
      BY <1>2, <2>3 DEF InternalOK, Sound, PageSet
    <2>5. QED
      BY <1>2, <2>4 DEF InternalOK, Sound
  <1>3. QED
    BY <1>1, <1>2 DEF WellFormed

\* What an internal page or a leaf has.
LEMMA PageKinds ==
    ASSUME NEW D, NEW p, WellFormed(p, D)
    PROVE  /\ p.type \in {"leaf", "internal"}
           /\ p.type = "leaf" => LeafOK(p, D)
           /\ p.type = "internal" => InternalOK(p, D)
  <1>1. LeafOK(p, D) => p.type = "leaf"
    BY DEF LeafOK, Sound, PageSet
  <1>2. InternalOK(p, D) => p.type = "internal"
    BY DEF InternalOK, Sound, PageSet
  <1>3. QED
    BY <1>1, <1>2 DEF WellFormed

\* A search descends to a page of the tree.
LEMMA ChildInside ==
    ASSUME NEW D, NEW p, InternalOK(p, D), NEW k \in Nat
    PROVE  FindChildPageID(p, k) \in D
  <1>1. p.cells \in Seq(InternalCell(D)) /\ p.next \in D
    BY DEF InternalOK, Sound, PageSet
  <1>2. CellSet(InternalCell(D))
    BY TreeAssumption DEF CellSet, InternalCell
  <1>3. \A i \in DOMAIN p.cells : p.cells[i] \in InternalCell(D)
    BY <1>1
  <1>4. \A i \in DOMAIN p.cells : p.cells[i].child \in D
    BY <1>3 DEF InternalCell
  <1>5. QED
    BY <1>1, <1>2, <1>4, FindChildFacts

\* Patched: the pointer to the child that was split becomes one to the new page.
PatchedPage(x, q, r) ==
    LET i == SelectInSeq(x.cells, LAMBDA cell : cell.child = q)
    IN IF i = 0 THEN [x EXCEPT !.next = r] ELSE [x EXCEPT !.cells[i].child = r]

\* PatchChildPointer exchanges one pointer, of a cell or the rightmost one, and no key.
LEMMA PatchedFacts ==
    ASSUME NEW D, NEW x, InternalOK(x, D), NEW q, NEW r \in D, NEW y, y = PatchedPage(x, q, r)
    PROVE  /\ InternalOK(y, D) /\ y.off = x.off /\ Len(y.cells) = Len(x.cells) /\ y.type = "internal"
           /\ \A n \in 1..Len(x.cells) : y.cells[n].key = x.cells[n].key
           /\ \/ /\ y.cells = x.cells /\ y.next = r
                 /\ \A n \in 1..Len(x.cells) : x.cells[n].child # q
              \/ \E i \in 1..Len(x.cells) :
                   /\ x.cells[i].child = q /\ y.cells[i].child = r /\ y.next = x.next
                   /\ \A n \in 1..Len(x.cells) : n # i => y.cells[n] = x.cells[n]
                   /\ \A n \in 1..Len(x.cells) : x.cells[n].child = q => i <= n
  <1> DEFINE S == InternalCell(D)
  <1>1. x \in PageSet("internal", S, D) /\ Sorted(x.cells) /\ FreeSpace(x) >= 0
    BY DEF InternalOK, Sound
  <1>2. /\ x.type = "internal" /\ x.cells \in Seq(S) /\ x.off \in Nat /\ x.next \in D
        /\ Len(x.cells) \in Nat /\ DOMAIN x.cells = 1..Len(x.cells)
    BY <1>1, PageFields
  <1>3. PICK i : i = CellOfChild(x.cells, q)
    OBVIOUS
  <1>4. \/ /\ i \in 1..Len(x.cells) /\ x.cells[i].child = q
           /\ \A n \in 1..Len(x.cells) : x.cells[n].child = q => i <= n
        \/ i = 0 /\ \A n \in 1..Len(x.cells) : x.cells[n].child # q
    <2>1. PICK s : s = x.cells
      OBVIOUS
    <2>2. Len(s) \in Nat /\ i = CellOfChild(s, q)
      BY <1>2, <1>3, <2>1
    <2>3. \/ /\ i \in 1..Len(s) /\ s[i].child = q
             /\ \A n \in 1..Len(s) : s[n].child = q => i <= n
          \/ i = 0 /\ \A n \in 1..Len(s) : s[n].child # q
      BY <2>2, ChildIndexFacts
    <2>4. QED
      BY <2>1, <2>3
  <1>5. y = IF i = 0 THEN [x EXCEPT !.next = r] ELSE [x EXCEPT !.cells[i].child = r]
    BY <1>3 DEF PatchedPage, CellOfChild
  <1>6. CASE i = 0
    <2>1. y = [x EXCEPT !.next = r]
      BY <1>5, <1>6
    <2>2. Sound(y, "internal", S, D) /\ y.cells = x.cells /\ y.off = x.off /\ y.type = x.type /\ y.next = r
      BY <2>1, NextSet DEF InternalOK
    <2>3. QED
      BY <1>2, <1>4, <1>6, <2>2 DEF InternalOK
  <1>7. CASE i # 0
    <2>1. i \in 1..Len(x.cells) /\ x.cells[i].child = q /\ \A n \in 1..Len(x.cells) : x.cells[n].child = q => i <= n
      BY <1>4, <1>7
    <2>2. PICK s, o, z : s = x.cells /\ o = x.off /\ z = x.next
      OBVIOUS
    <2>3. x = [type |-> "internal", cells |-> s, off |-> o, next |-> z]
      BY <1>1, <2>2 DEF PageSet
    <2>4. PICK t : t = [s EXCEPT ![i].child = r]
      OBVIOUS
    <2>5. y = [x EXCEPT !.cells[i].child = r]
      BY <1>5, <1>7
    <2>6. y = [type |-> "internal", cells |-> t, off |-> o, next |-> z]
      BY <2>3, <2>4, <2>5
    <2>7. \A n \in 1..Len(s) : s[n] \in S
      BY <1>2, <2>2
    <2>8. PICK e : e = [s[i] EXCEPT !.child = r]
      OBVIOUS
    <2>9. e \in S /\ e.key = s[i].key /\ e.child = r
      <3>1. s[i] \in S
        BY <2>1, <2>2, <2>7
      <3>2. QED
        BY <2>8, <3>1 DEF InternalCell
    <2>10. t = [s EXCEPT ![i] = e]
      BY <2>4, <2>8
    <2>11. t \in Seq(S) /\ Len(t) = Len(s) /\ t[i] = e /\ \A n \in 1..Len(s) : n # i => t[n] = s[n]
      BY <1>2, <2>1, <2>2, <2>9, <2>10
    <2>12. \A n \in 1..Len(s) : t[n].key = s[n].key
      BY <2>9, <2>11
    <2>13. Sorted(t)
      <3>1. \A m, n \in 1..Len(s) : m < n => s[m].key <= s[n].key
        BY <1>1, <1>2, <2>2 DEF Sorted
      <3>2. DOMAIN t = 1..Len(s)
        BY <2>11
      <3>3. QED
        BY <2>12, <3>1, <3>2 DEF Sorted
    <2>14. y \in PageSet("internal", S, D)
      BY <1>2, <2>2, <2>6, <2>11, PageMade
    <2>15. FreeSpace(y) >= 0
      BY <1>1, <2>2, <2>6, <2>11 DEF FreeSpace
    <2>16. InternalOK(y, D) /\ y.type = "internal"
      BY <2>6, <2>13, <2>14, <2>15 DEF InternalOK, Sound
    <2>17. y.cells = t /\ y.next = z /\ y.off = o
      BY <2>6
    <2>18. \E j \in 1..Len(x.cells) :
                   /\ x.cells[j].child = q /\ y.cells[j].child = r /\ y.next = x.next
                   /\ \A n \in 1..Len(x.cells) : n # j => y.cells[n] = x.cells[n]
                   /\ \A n \in 1..Len(x.cells) : x.cells[n].child = q => j <= n
      <3>1. y.cells[i].child = r /\ y.next = x.next
        BY <2>2, <2>9, <2>11, <2>17
      <3>2. \A n \in 1..Len(x.cells) : n # i => y.cells[n] = x.cells[n]
        BY <2>2, <2>11, <2>17
      <3>3. QED
        BY <2>1, <3>1, <3>2
    <2>19. \A n \in 1..Len(x.cells) : y.cells[n].key = x.cells[n].key
      BY <2>2, <2>12, <2>17
    <2>20. y.off = x.off /\ Len(y.cells) = Len(x.cells)
      BY <2>2, <2>11, <2>17
    <2>21. QED
      BY <2>16, <2>18, <2>19, <2>20
  <1>8. QED
    BY <1>6, <1>7

-----------------------------------------------------------------------------
(* The invariant.                                                          *)

\* The pages in memory (m) and in the file (d), their owners (o) and the root (r).
PagesOK(m, d, o, r) ==
    /\ Cardinality(DOMAIN m) \in Nat /\ Cardinality(DOMAIN m) >= 1 /\ Cardinality(DOMAIN m) <= MaxPages
    /\ DOMAIN m = 0..(Cardinality(DOMAIN m) - 1) /\ DOMAIN d = DOMAIN m
    /\ m = [p \in DOMAIN m |-> m[p]] /\ d = [p \in DOMAIN d |-> d[p]]
    /\ \A p \in DOMAIN m : /\ WellFormed(m[p], DOMAIN m) /\ WellFormed(d[p], DOMAIN m)
                           /\ m[p].type = d[p].type
    /\ o \in [DOMAIN m -> Clients \cup {NoClient}]
    /\ r \in DOMAIN m

\* An operation (w) of a client that stands at z, on the pages m.
OpOK(w, z, m) ==
    /\ z \in {"idle", "descend", "grow", "failed"}
    /\ w \in [kind : {"none", "insert", "update", "delete"}, key : Nat, row : Rows \cup {NoRow},
              path : Seq(DOMAIN m), page : DOMAIN m, sep : Nat, right : DOMAIN m]
    /\ z \in {"descend", "grow"} =>
         /\ w.key \in Keys /\ w.kind # "none" /\ (w.kind # "delete" => w.row \in Rows)
         /\ \A i \in DOMAIN w.path : m[w.path[i]].type = "internal"
    /\ z = "grow" => w.sep \in Keys

OpsOK(w, z, m) ==
    /\ w = [c \in Clients |-> w[c]] /\ z = [c \in Clients |-> z[c]]
    /\ \A c \in Clients : OpOK(w[c], z[c], m)

RowsOK(f) == f \in [Keys -> Rows \cup {NoRow}]

Clean(m, d, o) == \A p \in DOMAIN m : o[p] = NoClient => m[p] = d[p]

Shape ==
    /\ PagesOK(mem, disk, owner, root)
    /\ OpsOK(op, pc, mem)
    /\ RowsOK(rows) /\ RowsOK(saved) /\ misled \in BOOLEAN
    /\ ~misled => Clean(mem, disk, owner)

\* Pages written in place.
LEMMA PagesWritten ==
    ASSUME NEW m, NEW d, NEW o, NEW r, PagesOK(m, d, o, r), NEW new, DOMAIN new \subseteq DOMAIN m,
           \A p \in DOMAIN new : WellFormed(new[p], DOMAIN m) /\ new[p].type = m[p].type,
           NEW c \in Clients, NEW m2, m2 = Write(m, new),
           NEW by, by = [p \in DOMAIN new |-> c], NEW o2, o2 = Write(o, by)
    PROVE  /\ PagesOK(m2, d, o2, r) /\ DOMAIN m2 = DOMAIN m
           /\ \A p \in DOMAIN m : m2[p] = IF p \in DOMAIN new THEN new[p] ELSE m[p]
           /\ \A p \in DOMAIN m : o2[p] = IF p \in DOMAIN new THEN c ELSE o[p]
           /\ \A p \in DOMAIN m : m2[p].type = m[p].type
           /\ Clean(m, d, o) => Clean(m2, d, o2)
  <1>1. DOMAIN m2 = DOMAIN m
    BY DEF Write
  <1>2. \A p \in DOMAIN m : m2[p] = IF p \in DOMAIN new THEN new[p] ELSE m[p]
    BY DEF Write
  <1>3. m2 = [p \in DOMAIN m2 |-> m2[p]]
    <2>1. m2 = [p \in DOMAIN m \cup DOMAIN new |-> m2[p]]
      BY DEF Write
    <2>2. DOMAIN m \cup DOMAIN new = DOMAIN m2
      BY <1>1
    <2>3. QED
      BY <2>1, <2>2
  <1>4. o \in [DOMAIN m -> Clients \cup {NoClient}] /\ DOMAIN o = DOMAIN m
    BY DEF PagesOK
  <1>5. DOMAIN [p \in DOMAIN new |-> c] = DOMAIN new
    OBVIOUS
  <1>6. \A p \in DOMAIN m : o2[p] = IF p \in DOMAIN new THEN c ELSE o[p]
    <2>1. \A p \in DOMAIN o \cup DOMAIN new : o2[p] = IF p \in DOMAIN new THEN [q \in DOMAIN new |-> c][p] ELSE o[p]
      BY DEF Write
    <2>2. QED
      BY <1>4, <2>1
  <1>7. o2 \in [DOMAIN m -> Clients \cup {NoClient}]
    <2>1. o2 = [x \in DOMAIN o \cup DOMAIN new |-> o2[x]]
      BY DEF Write
    <2>2. DOMAIN o \cup DOMAIN new = DOMAIN m
      BY <1>4
    <2>3. \A p \in DOMAIN m : o2[p] \in Clients \cup {NoClient}
      BY <1>4, <1>6
    <2>4. QED
      BY <2>1, <2>2, <2>3
  <1>8. \A p \in DOMAIN m : m2[p].type = m[p].type /\ WellFormed(m2[p], DOMAIN m)
    BY <1>2 DEF PagesOK
  <1>9. PagesOK(m2, d, o2, r)
    BY <1>1, <1>3, <1>7, <1>8 DEF PagesOK
  <1>10. ASSUME Clean(m, d, o) PROVE Clean(m2, d, o2)
    <2>1. c # NoClient
      BY TreeAssumption
    <2>2. QED
      BY <1>1, <1>2, <1>6, <1>10, <2>1 DEF Clean
  <1>11. QED
    BY <1>1, <1>2, <1>6, <1>8, <1>9, <1>10

OneMore(m, m2, o2, D, n, ty) ==
    /\ IsFcn(m2, D) /\ o2 \in [D -> Clients \cup {NoClient}] /\ D = DOMAIN m \cup {n}
    /\ \A p \in DOMAIN m : WellFormed(m2[p], D) /\ m2[p].type = m[p].type
    /\ WellFormed(m2[n], D) /\ m2[n].type = ty

\* A page allocated, and others written.
LEMMA PagesGrown ==
    ASSUME NEW m, NEW d, NEW o, NEW r, PagesOK(m, d, o, r), NEW n, n = Cardinality(DOMAIN m), n < MaxPages,
           NEW ty \in {"leaf", "internal"}, NEW d2, d2 = Write(d, Only(n, Blank(ty))),
           NEW D, NEW m2, NEW o2, OneMore(m, m2, o2, D, n, ty), NEW r2 \in D
    PROVE  /\ PagesOK(m2, d2, o2, r2) /\ DOMAIN m2 = D /\ n \notin DOMAIN m
           /\ d2[n] = Blank(ty) /\ \A p \in DOMAIN m : d2[p] = d[p]
  <1>0. D = DOMAIN m \cup {n} /\ o2 \in [D -> Clients \cup {NoClient}]
    BY DEF OneMore
  <1>1. n \in Nat /\ n >= 1 /\ DOMAIN m = 0..(n - 1) /\ DOMAIN d = DOMAIN m /\ MaxPages \in Nat
    BY TreeAssumption DEF PagesOK
  <1>2. D = 0..n /\ n \notin DOMAIN m /\ 0 \in DOMAIN m
    <2>1. PICK E : E = DOMAIN m
      OBVIOUS
    <2>2. E = 0..(n - 1)
      BY <1>0, <1>1, <2>1
    <2>3. E \cup {n} = 0..n /\ n \notin E /\ 0 \in E
      <3>1. n \in Nat /\ n >= 1
        BY <1>0, <1>1
      <3>2. \A x : x \in E \cup {n} <=> x \in 0..n
        BY <2>2, <3>1
      <3>3. QED
        BY <2>2, <3>1, <3>2
    <2>4. QED
      BY <1>0, <2>1, <2>3
  <1>3. DOMAIN m2 = D
    BY DEF OneMore, IsFcn
  <1>4. Cardinality(DOMAIN m2) = n + 1
    <2>1. n \in Nat
      BY <1>0, <1>1
    <2>2. Cardinality(0..n) = IF 0 > n THEN 0 ELSE n - 0 + 1
      <3>1. 0 \in Int /\ n \in Int
        BY <2>1
      <3>2. QED
        BY <3>1, FS_Interval
    <2>3. Cardinality(0..n) = n + 1
      BY <2>1, <2>2
    <2>4. QED
      BY <1>0, <1>2, <1>3, <2>3
  <1>5. /\ DOMAIN d2 = D /\ d2 = [x \in DOMAIN d2 |-> d2[x]]
        /\ d2[n] = Blank(ty) /\ \A p \in DOMAIN m : d2[p] = d[p]
    <2>1. DOMAIN d2 = D
      BY <1>0, <1>1 DEF Write, Only
    <2>2. \A x \in D : d2[x] = IF x \in DOMAIN m THEN d[x] ELSE Only(n, Blank(ty))[x]
      BY <1>0, <1>1, <1>2 DEF Write, Only
    <2>3. d2 = [x \in DOMAIN d \cup DOMAIN Only(n, Blank(ty)) |-> d2[x]]
      BY DEF Write
    <2>4. DOMAIN d \cup DOMAIN Only(n, Blank(ty)) = DOMAIN d2
      BY <1>0, <1>1, <2>1 DEF Only
    <2>5. d2 = [x \in DOMAIN d2 |-> d2[x]]
      BY <2>3, <2>4
    <2>6. d2[n] = Blank(ty)
      BY <1>0, <1>2, <2>2 DEF Only
    <2>7. \A p \in DOMAIN m : d2[p] = d[p]
      BY <1>0, <2>2
    <2>8. QED
      BY <2>1, <2>5, <2>6, <2>7
  <1>6. WellFormed(Blank(ty), D)
    BY <1>0, <1>2, EmptyPages DEF WellFormed, LeafOK, InternalOK
  <1>7. \A p \in DOMAIN m : WellFormed(d2[p], D) /\ d2[p].type = m[p].type
    <2>1. ASSUME NEW p \in DOMAIN m PROVE WellFormed(d[p], D) /\ d[p].type = m[p].type
      <3>1. WellFormed(d[p], DOMAIN m) /\ d[p].type = m[p].type
        BY DEF PagesOK
      <3>2. QED
        BY <1>0, <3>1, SoundGrows
    <2>2. QED
      BY <1>0, <1>5, <2>1
  <1>8. Blank(ty).type = ty
    BY DEF Blank
  <1>9. \A p \in DOMAIN m2 : WellFormed(m2[p], DOMAIN m2) /\ WellFormed(d2[p], DOMAIN m2) /\ m2[p].type = d2[p].type
    <2>1. \A p \in DOMAIN m : WellFormed(m2[p], D) /\ WellFormed(d2[p], D) /\ m2[p].type = d2[p].type
      BY <1>0, <1>7 DEF OneMore
    <2>2. WellFormed(m2[n], D) /\ WellFormed(d2[n], D) /\ m2[n].type = d2[n].type
      BY <1>0, <1>5, <1>6, <1>8 DEF OneMore
    <2>3. QED
      BY <1>0, <1>3, <2>1, <2>2
  <1>10. m2 = [p \in DOMAIN m2 |-> m2[p]]
    BY <1>0, <1>3 DEF OneMore, IsFcn
  <1>11. /\ Cardinality(DOMAIN m2) \in Nat /\ Cardinality(DOMAIN m2) >= 1 /\ Cardinality(DOMAIN m2) <= MaxPages
         /\ DOMAIN m2 = 0..(Cardinality(DOMAIN m2) - 1)
    <2>1. PICK k : k = Cardinality(DOMAIN m2)
      OBVIOUS
    <2>2. k = n + 1 /\ n \in Nat /\ MaxPages \in Nat /\ n < MaxPages
      BY <1>0, <1>1, <1>4, <2>1
    <2>3. k \in Nat /\ k >= 1 /\ k <= MaxPages /\ k - 1 = n
      BY <2>2
    <2>4. QED
      BY <1>0, <1>2, <1>3, <2>1, <2>3
  <1>12. PagesOK(m2, d2, o2, r2)
    BY <1>0, <1>3, <1>5, <1>9, <1>10, <1>11 DEF PagesOK
  <1>13. QED
    BY <1>0, <1>2, <1>3, <1>5, <1>12

-----------------------------------------------------------------------------
(* The pages that the actions write.                                       *)

\* Both halves of a page that was split, with next pages still to be set.
LEMMA Halves ==
    ASSUME NEW ty, NEW S, NEW N, 0 \in N, SizedCells(S), NEW t, Sound(t, ty, S, N), NEW e \in S,
           NEW cells, cells = SortCells(Append(t.cells, e)), NEW mid, mid = Len(cells) \div 2,
           NEW a \in {mid + 1, mid + 2},
           NEW left, left = AddCells(ResetPage(t), SubSeq(cells, 1, mid)),
           NEW right, right = AddCells(Blank(ty), SubSeq(cells, a, Len(cells)))
    PROVE  Sound(left, ty, S, N) /\ Sound(right, ty, S, N) /\ cells[mid + 1] \in S
  <1>1. t \in PageSet(ty, S, N)
    BY DEF Sound
  <1>2. PICK k : k = Len(t.cells)
    OBVIOUS
  <1>3. k \in Nat
    BY <1>1, <1>2, PageFields
  <1>4. /\ cells \in Seq(S) /\ Len(cells) = k + 1 /\ DOMAIN cells = 1..(k + 1)
        /\ Sorted(cells) /\ mid \in 0..k
    <2>1. /\ cells = InsertAt(t.cells, FindInsertPos(t, e.key), e)
          /\ Behind(t.cells, e.key, FindInsertPos(t, e.key))
          /\ cells \in Seq(S) /\ Len(cells) = Len(t.cells) + 1 /\ DOMAIN cells = 1..(Len(t.cells) + 1)
          /\ Sorted(cells) /\ Len(cells) \div 2 \in 0..Len(t.cells)
      BY GrownCells
    <2>2. QED
      BY <1>2, <2>1
  <1>5. SubSeq(cells, 1, mid) \in Seq(S) /\ Sorted(SubSeq(cells, 1, mid))
    <2>1. PICK l, b : l = 1 /\ b = mid
      OBVIOUS
    <2>2. l \in 1..(Len(cells) + 1) /\ b \in (l - 1)..Len(cells)
      BY <1>3, <1>4, <2>1
    <2>3. /\ SubSeq(cells, l, b) \in Seq(S) /\ Len(SubSeq(cells, l, b)) = b - l + 1
          /\ DOMAIN SubSeq(cells, l, b) = 1..(b - l + 1)
          /\ \A n \in 1..(b - l + 1) : SubSeq(cells, l, b)[n] = cells[l + n - 1]
          /\ Sorted(cells) => Sorted(SubSeq(cells, l, b))
      BY <1>4, <2>2, PieceFacts
    <2>4. QED
      BY <1>4, <2>1, <2>3
  <1>6. SubSeq(cells, a, Len(cells)) \in Seq(S) /\ Sorted(SubSeq(cells, a, Len(cells)))
    <2>1. PICK b : b = Len(cells)
      OBVIOUS
    <2>2. a \in 1..(Len(cells) + 1) /\ b \in (a - 1)..Len(cells)
      BY <1>3, <1>4, <2>1
    <2>3. /\ SubSeq(cells, a, b) \in Seq(S) /\ Len(SubSeq(cells, a, b)) = b - a + 1
          /\ DOMAIN SubSeq(cells, a, b) = 1..(b - a + 1)
          /\ \A n \in 1..(b - a + 1) : SubSeq(cells, a, b)[n] = cells[a + n - 1]
          /\ Sorted(cells) => Sorted(SubSeq(cells, a, b))
      BY <1>4, <2>2, PieceFacts
    <2>4. QED
      BY <1>4, <2>1, <2>3
  <1>7. PICK r, b, x, y : /\ r = ResetPage(t) /\ b = Blank(ty)
                          /\ x = SubSeq(cells, 1, mid) /\ y = SubSeq(cells, a, Len(cells))
    OBVIOUS
  <1>8. Sound(r, ty, S, N) /\ r.cells = <<>> /\ Sound(b, ty, S, N) /\ b.cells = <<>>
    BY <1>1, <1>7, EmptyPages
  <1>9. r \in PageSet(ty, S, N) /\ FreeSpace(r) >= 0 /\ b \in PageSet(ty, S, N) /\ FreeSpace(b) >= 0
    BY <1>8 DEF Sound
  <1>10. Sound(left, ty, S, N)
    <2>1. left = AddCells(r, x) /\ x \in Seq(S) /\ Sorted(x)
      BY <1>5, <1>7
    <2>2. QED
      BY <1>8, <1>9, <2>1, AddCellsSound
  <1>11. Sound(right, ty, S, N)
    <2>1. right = AddCells(b, y) /\ y \in Seq(S) /\ Sorted(y)
      BY <1>6, <1>7
    <2>2. QED
      BY <1>8, <1>9, <2>1, AddCellsSound
  <1>12. cells[mid + 1] \in S
    <2>1. mid + 1 \in 1..Len(cells)
      BY <1>3, <1>4
    <2>2. QED
      BY <1>4, <2>1
  <1>13. QED
    BY <1>10, <1>11, <1>12

\* Both halves of a leaf.
LEMMA LeafHalves ==
    ASSUME NEW D, 0 \in D, NEW t, LeafOK(t, D), NEW e \in LeafCell, NEW n,
           NEW cells, cells = SortCells(Append(t.cells, e)), NEW mid, mid = Len(cells) \div 2,
           NEW left, left = AddCells(ResetPage(t), SubSeq(cells, 1, mid)),
           NEW right, right = AddCells(Blank("leaf"), SubSeq(cells, mid + 1, Len(cells)))
    PROVE  /\ LeafOK([left EXCEPT !.next = n], D \cup {n})
           /\ LeafOK([right EXCEPT !.next = t.next], D \cup {n})
           /\ cells[mid + 1].key \in Keys
  <1>1. PICK N, a : N = D \cup {NoPage} /\ a = mid + 1
    OBVIOUS
  <1>2. SizedCells(LeafCell) /\ Sound(t, "leaf", LeafCell, N) /\ 0 \in N /\ a \in {mid + 1, mid + 2}
    BY <1>1, CellSizes DEF LeafOK
  <1>3. Sound(left, "leaf", LeafCell, N) /\ Sound(right, "leaf", LeafCell, N) /\ cells[mid + 1] \in LeafCell
    <2>1. right = AddCells(Blank("leaf"), SubSeq(cells, a, Len(cells)))
      BY <1>1
    <2>2. QED
      BY <1>2, <2>1, Halves
  <1>4. PICK E : E = D \cup {n}
    OBVIOUS
  <1>5. PICK M : M = E \cup {NoPage}
    OBVIOUS
  <1>6. Sound(left, "leaf", LeafCell, M) /\ Sound(right, "leaf", LeafCell, M)
    <2>1. LeafOK(left, D) /\ LeafOK(right, D) /\ D \subseteq E
      BY <1>1, <1>3, <1>4 DEF LeafOK
    <2>2. LeafOK(left, E)
      BY <2>1, SoundGrows DEF WellFormed
    <2>3. LeafOK(right, E)
      BY <2>1, SoundGrows DEF WellFormed
    <2>4. QED
      BY <1>5, <2>2, <2>3 DEF LeafOK
  <1>7. PICK x : x = t.next
    OBVIOUS
  <1>8. n \in M /\ x \in M
    <2>1. t.next \in N
      BY <1>2 DEF Sound, PageSet
    <2>2. QED
      BY <1>1, <1>4, <1>5, <1>7, <2>1
  <1>9. PICK l, r : l = [left EXCEPT !.next = n] /\ r = [right EXCEPT !.next = x]
    OBVIOUS
  <1>10. Sound(l, "leaf", LeafCell, M)
    BY <1>6, <1>8, <1>9, NextSet
  <1>11. Sound(r, "leaf", LeafCell, M)
    BY <1>6, <1>8, <1>9, NextSet
  <1>12. LeafOK([left EXCEPT !.next = n], E) /\ LeafOK([right EXCEPT !.next = t.next], E)
    BY <1>5, <1>7, <1>9, <1>10, <1>11 DEF LeafOK
  <1>13. cells[mid + 1].key \in Keys
    BY <1>3 DEF LeafCell
  <1>14. QED
    BY <1>4, <1>12, <1>13

\* Both halves of an internal page.
LEMMA InternalHalves ==
    ASSUME NEW D, 0 \in D, NEW t, InternalOK(t, D), NEW e \in InternalCell(D), NEW n,
           NEW cells, cells = SortCells(Append(t.cells, e)), NEW mid, mid = Len(cells) \div 2,
           NEW left, left = AddCells(ResetPage(t), SubSeq(cells, 1, mid)),
           NEW right, right = AddCells(Blank("internal"), SubSeq(cells, mid + 2, Len(cells)))
    PROVE  /\ InternalOK([left EXCEPT !.next = cells[mid + 1].child], D \cup {n})
           /\ InternalOK([right EXCEPT !.next = t.next], D \cup {n})
           /\ cells[mid + 1].key \in Keys
  <1>1. PICK S, a : S = InternalCell(D) /\ a = mid + 2
    OBVIOUS
  <1>2. SizedCells(S) /\ Sound(t, "internal", S, D) /\ a \in {mid + 1, mid + 2} /\ e \in S
    BY <1>1, CellSizes DEF InternalOK
  <1>3. Sound(left, "internal", S, D) /\ Sound(right, "internal", S, D) /\ cells[mid + 1] \in S
    <2>1. right = AddCells(Blank("internal"), SubSeq(cells, a, Len(cells)))
      BY <1>1
    <2>2. QED
      BY <1>2, <2>1, Halves
  <1>4. PICK E, C : E = D \cup {n} /\ C = InternalCell(E)
    OBVIOUS
  <1>5. Sound(left, "internal", C, E) /\ Sound(right, "internal", C, E)
    <2>1. InternalOK(left, D) /\ InternalOK(right, D) /\ D \subseteq E
      BY <1>1, <1>3, <1>4 DEF InternalOK
    <2>2. InternalOK(left, E)
      BY <2>1, SoundGrows DEF WellFormed
    <2>3. InternalOK(right, E)
      <3>1. WellFormed(right, D)
        BY <2>1 DEF WellFormed
      <3>2. QED
        BY <2>1, <3>1, SoundGrows
    <2>4. QED
      BY <1>4, <2>2, <2>3 DEF InternalOK
  <1>6. PICK x, y : x = t.next /\ y = cells[mid + 1].child
    OBVIOUS
  <1>7. x \in E /\ y \in E
    <2>1. t.next \in D
      BY <1>2 DEF Sound, PageSet
    <2>2. cells[mid + 1].child \in D
      BY <1>1, <1>3 DEF InternalCell
    <2>3. QED
      BY <1>4, <1>6, <2>1, <2>2
  <1>8. PICK l, r : l = [left EXCEPT !.next = y] /\ r = [right EXCEPT !.next = x]
    OBVIOUS
  <1>9. Sound(l, "internal", C, E)
    BY <1>5, <1>7, <1>8, NextSet
  <1>10. Sound(r, "internal", C, E)
    BY <1>5, <1>7, <1>8, NextSet
  <1>11. InternalOK([left EXCEPT !.next = cells[mid + 1].child], E) /\ InternalOK([right EXCEPT !.next = t.next], E)
    BY <1>4, <1>6, <1>8, <1>9, <1>10 DEF InternalOK
  <1>12. cells[mid + 1].key \in Keys
    BY <1>1, <1>3 DEF InternalCell
  <1>13. QED
    BY <1>4, <1>11, <1>12

\* A cell put in its place on a page.
LEMMA LeafInsert ==
    ASSUME NEW D, NEW t, LeafOK(t, D), NEW e \in LeafCell, Fits(t, e)
    PROVE  LeafOK(InsertCellAt(t, FindInsertPos(t, e.key), e), D)
  <1>1. PICK i, q : i = FindInsertPos(t, e.key) /\ q = InsertCellAt(t, i, e)
    OBVIOUS
  <1>2. SizedCells(LeafCell) /\ CellSet(LeafCell) /\ e.key \in Nat
    BY CellSizes DEF SizedCells, CellSet
  <1>3. t \in PageSet("leaf", LeafCell, D \cup {NoPage}) /\ Sorted(t.cells) /\ t.cells \in Seq(LeafCell)
    BY PageFields DEF LeafOK, Sound
  <1>4. Behind(t.cells, e.key, i)
    BY <1>1, <1>2, <1>3, FindInsertPosFacts
  <1>5. i \in 1..(Len(t.cells) + 1)
    BY <1>4 DEF Behind
  <1>6. q \in PageSet("leaf", LeafCell, D \cup {NoPage}) /\ FreeSpace(q) >= 0 /\ Sorted(q.cells)
    BY <1>1, <1>2, <1>3, <1>4, <1>5, InsertCellFacts
  <1>7. QED
    BY <1>1, <1>6 DEF LeafOK, Sound

\* An internal page with room stays sound when a separator is put at its place.
LEMMA InternalInsert ==
    ASSUME NEW D, NEW t, InternalOK(t, D), NEW e \in InternalCell(D), Fits(t, e)
    PROVE  InternalOK(InsertCellAt(t, FindInsertPos(t, e.key), e), D)
  <1>1. PICK i, q : i = FindInsertPos(t, e.key) /\ q = InsertCellAt(t, i, e)
    OBVIOUS
  <1>2. SizedCells(InternalCell(D)) /\ CellSet(InternalCell(D)) /\ e.key \in Nat
    BY CellSizes DEF SizedCells, CellSet
  <1>3. t \in PageSet("internal", InternalCell(D), D) /\ Sorted(t.cells) /\ t.cells \in Seq(InternalCell(D))
    BY PageFields DEF InternalOK, Sound
  <1>4. Behind(t.cells, e.key, i)
    BY <1>1, <1>2, <1>3, FindInsertPosFacts
  <1>5. i \in 1..(Len(t.cells) + 1)
    BY <1>4 DEF Behind
  <1>6. q \in PageSet("internal", InternalCell(D), D) /\ FreeSpace(q) >= 0 /\ Sorted(q.cells)
    BY <1>1, <1>2, <1>3, <1>4, <1>5, InsertCellFacts
  <1>7. QED
    BY <1>1, <1>6 DEF InternalOK, Sound

\* The page of the first cell of a new root.
LEMMA RootPage ==
    ASSUME NEW D, 0 \in D, NEW e \in InternalCell(D), NEW r \in D
    PROVE  InternalOK([AddCells(Blank("internal"), <<e>>) EXCEPT !.next = r], D)
  <1>1. PICK b, q : b = Blank("internal") /\ q = AddCells(b, <<e>>)
    OBVIOUS
  <1>2. Sound(b, "internal", InternalCell(D), D) /\ b.cells = <<>>
    BY <1>1, EmptyPages
  <1>3. <<e>> \in Seq(InternalCell(D)) /\ Sorted(<<e>>) /\ SizedCells(InternalCell(D))
    BY CellSizes DEF Sorted
  <1>4. Sound(q, "internal", InternalCell(D), D)
    BY <1>1, <1>2, <1>3, AddCellsSound DEF Sound
  <1>5. QED
    BY <1>1, <1>4, NextSet DEF InternalOK

-----------------------------------------------------------------------------
(* The operations.                                                         *)

OpSet(D) == [kind : {"none", "insert", "update", "delete"}, key : Nat, row : Rows \cup {NoRow},
             path : Seq(D), page : D, sep : Nat, right : D]

\* An operation from its fields.
LEMMA OpMade ==
    ASSUME NEW D, NEW kind \in {"none", "insert", "update", "delete"}, NEW key \in Nat,
           NEW row \in Rows \cup {NoRow}, NEW path \in Seq(D), NEW page \in D, NEW sep \in Nat, NEW right \in D,
           NEW w, w = [kind |-> kind, key |-> key, row |-> row, path |-> path, page |-> page,
                       sep |-> sep, right |-> right]
    PROVE  w \in OpSet(D)
  BY DEF OpSet

\* The fields of an operation.
LEMMA OpFields ==
    ASSUME NEW D, NEW w \in OpSet(D)
    PROVE  /\ w = [kind |-> w.kind, key |-> w.key, row |-> w.row, path |-> w.path, page |-> w.page,
                   sep |-> w.sep, right |-> w.right]
           /\ w.kind \in {"none", "insert", "update", "delete"} /\ w.key \in Nat
           /\ w.row \in Rows \cup {NoRow} /\ w.path \in Seq(D) /\ w.page \in D
           /\ w.sep \in Nat /\ w.right \in D
  BY DEF OpSet

\* An operation stays as it should be when pages are written or allocated.
LEMMA OpGrows ==
    ASSUME NEW w, NEW z, NEW m, OpOK(w, z, m), NEW m2, DOMAIN m \subseteq DOMAIN m2,
           \A p \in DOMAIN m : m2[p].type = m[p].type
    PROVE  OpOK(w, z, m2)
  <1>1. w \in OpSet(DOMAIN m)
    BY DEF OpOK, OpSet
  <1>2. w \in OpSet(DOMAIN m2)
    <2>1. w.path \in Seq(DOMAIN m2)
      BY <1>1, OpFields
    <2>2. QED
      BY <1>1, <2>1, OpFields, OpMade
  <1>3. ASSUME z \in {"descend", "grow"}, NEW i \in DOMAIN w.path PROVE m2[w.path[i]].type = "internal"
    <2>1. w.path[i] \in DOMAIN m
      BY <1>1, OpFields
    <2>2. m[w.path[i]].type = "internal"
      BY <1>3 DEF OpOK
    <2>3. QED
      BY <2>1, <2>2
  <1>4. QED
    BY <1>2, <1>3 DEF OpOK, OpSet

\* One client's operation changes, and pages with it.
LEMMA OpsChanged ==
    ASSUME NEW w, NEW z, NEW m, OpsOK(w, z, m), NEW m2, DOMAIN m \subseteq DOMAIN m2,
           \A p \in DOMAIN m : m2[p].type = m[p].type,
           NEW c \in Clients, NEW x, NEW y, OpOK(x, y, m2),
           NEW w2, w2 = [w EXCEPT ![c] = x], NEW z2, z2 = [z EXCEPT ![c] = y]
    PROVE  OpsOK(w2, z2, m2)
  <1>1. /\ w2 = [d \in Clients |-> w2[d]] /\ z2 = [d \in Clients |-> z2[d]]
        /\ \A d \in Clients : w2[d] = IF d = c THEN x ELSE w[d]
        /\ \A d \in Clients : z2[d] = IF d = c THEN y ELSE z[d]
    <2>1. DOMAIN w = Clients /\ DOMAIN z = Clients
      BY DEF OpsOK
    <2>2. QED
      BY <2>1
  <1>2. ASSUME NEW d \in Clients PROVE OpOK(w2[d], z2[d], m2)
    <2>1. CASE d = c
      BY <1>1, <2>1
    <2>2. CASE d # c
      <3>1. OpOK(w[d], z[d], m)
        BY DEF OpsOK
      <3>2. OpOK(w[d], z[d], m2)
        BY <3>1, OpGrows
      <3>3. QED
        BY <1>1, <2>2, <3>2
    <2>3. QED
      BY <2>1, <2>2
  <1>3. QED
    BY <1>1, <1>2 DEF OpsOK

\* A client without an operation.
LEMMA IdleOK ==
    ASSUME NEW m, 0 \in DOMAIN m, NEW z \in {"idle", "failed"}
    PROVE  OpOK(Idle, z, m)
  <1>1. Idle = [kind |-> "none", key |-> 0, row |-> NoRow, path |-> <<>>, page |-> 0, sep |-> 0, right |-> 0]
    BY DEF Idle
  <1>2. <<>> \in Seq(DOMAIN m) /\ NoRow \in Rows \cup {NoRow}
    OBVIOUS
  <1>3. Idle \in OpSet(DOMAIN m)
    BY <1>1, <1>2, OpMade
  <1>4. QED
    BY <1>3 DEF OpOK, OpSet

\* The first page is among the pages.
LEMMA PageZero ==
    ASSUME NEW m, NEW d, NEW o, NEW r, PagesOK(m, d, o, r)
    PROVE  0 \in DOMAIN m
  <1>1. PICK n : n = Cardinality(DOMAIN m)
    OBVIOUS
  <1>2. n \in Nat /\ n >= 1 /\ DOMAIN m = 0..(n - 1)
    BY <1>1 DEF PagesOK
  <1>3. QED
    BY <1>2

-----------------------------------------------------------------------------
(* Every action keeps the shape.                                           *)

\* The shape after a step, from its parts.
LEMMA ShapeMade ==
    ASSUME NEW m, m = mem', NEW d, d = disk', NEW o, o = owner', NEW r, r = root', PagesOK(m, d, o, r),
           NEW w, w = op', NEW z, z = pc', OpsOK(w, z, m),
           NEW f, f = rows', RowsOK(f), NEW g, g = saved', RowsOK(g),
           NEW b, b = misled', b \in BOOLEAN, ~b => Clean(m, d, o)
    PROVE  Shape'
  BY DEF Shape

\* The parts of the shape before a step.
LEMMA ShapeParts ==
    ASSUME Shape
    PROVE  /\ PagesOK(mem, disk, owner, root) /\ OpsOK(op, pc, mem) /\ 0 \in DOMAIN mem /\ root \in DOMAIN mem
           /\ RowsOK(rows) /\ RowsOK(saved) /\ misled \in BOOLEAN
           /\ ~misled => Clean(mem, disk, owner)
           /\ \A p \in DOMAIN mem : WellFormed(mem[p], DOMAIN mem)
           /\ \A c \in Clients : OpOK(op[c], pc[c], mem) /\ op[c] \in OpSet(DOMAIN mem)
  <1>1. /\ PagesOK(mem, disk, owner, root) /\ root \in DOMAIN mem
        /\ \A p \in DOMAIN mem : WellFormed(mem[p], DOMAIN mem)
    BY DEF Shape, PagesOK
  <1>2. \A c \in Clients : OpOK(op[c], pc[c], mem) /\ op[c] \in OpSet(DOMAIN mem)
    BY DEF Shape, OpsOK, OpOK, OpSet
  <1>3. QED
    BY <1>1, <1>2, PageZero DEF Shape

\* A step that changes an operation only.
LEMMA OpStep ==
    ASSUME Shape, NEW c \in Clients, NEW x, NEW y, OpOK(x, y, mem),
           op' = [op EXCEPT ![c] = x], pc' = [pc EXCEPT ![c] = y],
           UNCHANGED <<mem, disk, owner, root, rows, saved, misled>>
    PROVE  Shape'
  <1>1. /\ PagesOK(mem, disk, owner, root) /\ OpsOK(op, pc, mem)
        /\ RowsOK(rows) /\ RowsOK(saved) /\ misled \in BOOLEAN
        /\ ~misled => Clean(mem, disk, owner)
    BY DEF Shape
  <1>2. PICK m2, w2, z2 : m2 = mem' /\ w2 = op' /\ z2 = pc'
    OBVIOUS
  <1>3. w2 = [op EXCEPT ![c] = x] /\ z2 = [pc EXCEPT ![c] = y] /\ m2 = mem
    BY <1>2
  <1>4. OpsOK(w2, z2, m2)
    BY <1>1, <1>3, OpsChanged
  <1>5. QED
    BY <1>1, <1>2, <1>4, ShapeMade

\* A step that writes pages in place.
LEMMA WriteStep ==
    ASSUME Shape, NEW c \in Clients, NEW new, FinishPages(c, new), DOMAIN new \subseteq DOMAIN mem,
           \A p \in DOMAIN new : WellFormed(new[p], DOMAIN mem) /\ new[p].type = mem[p].type,
           NEW x, NEW y, OpOK(x, y, mem), op' = [op EXCEPT ![c] = x], pc' = [pc EXCEPT ![c] = y],
           RowsOK(rows'), UNCHANGED <<disk, root, saved, misled>>
    PROVE  Shape'
  <1>1. /\ PagesOK(mem, disk, owner, root) /\ OpsOK(op, pc, mem)
        /\ RowsOK(saved) /\ misled \in BOOLEAN
        /\ ~misled => Clean(mem, disk, owner)
    BY DEF Shape
  <1>2. PICK m2, w2, z2, o2, f : m2 = mem' /\ w2 = op' /\ z2 = pc' /\ o2 = owner' /\ f = rows'
    OBVIOUS
  <1>10. PICK by, r : by = [p \in DOMAIN new |-> c] /\ r = root
    OBVIOUS
  <1>3. m2 = Write(mem, new) /\ o2 = Write(owner, by)
    BY <1>2, <1>10 DEF FinishPages
  <1>4. /\ PagesOK(m2, disk, o2, r) /\ DOMAIN m2 = DOMAIN mem
        /\ \A p \in DOMAIN mem : m2[p] = IF p \in DOMAIN new THEN new[p] ELSE mem[p]
        /\ \A p \in DOMAIN mem : o2[p] = IF p \in DOMAIN new THEN c ELSE owner[p]
        /\ \A p \in DOMAIN mem : m2[p].type = mem[p].type
        /\ Clean(mem, disk, owner) => Clean(m2, disk, o2)
    <2>1. PagesOK(mem, disk, owner, r)
      BY <1>1, <1>10
    <2>2. QED
      BY <1>3, <1>10, <2>1, PagesWritten
  <1>5. OpOK(x, y, m2)
    BY <1>4, OpGrows
  <1>6. w2 = [op EXCEPT ![c] = x] /\ z2 = [pc EXCEPT ![c] = y]
    BY <1>2
  <1>7. OpsOK(w2, z2, m2)
    BY <1>1, <1>4, <1>5, <1>6, OpsChanged
  <1>8. RowsOK(f) /\ (~misled => Clean(m2, disk, o2))
    BY <1>1, <1>2, <1>4
  <1>9. QED
    BY <1>1, <1>2, <1>4, <1>7, <1>8, <1>10, ShapeMade

\* A step that allocates a page and links it.
LEMMA GrowStep ==
    ASSUME Shape, NEW c \in Clients, NEW ty \in {"leaf", "internal"}, Allocate(ty), NEW n, n = NextPage,
           NEW new, FinishPages(c, new), DOMAIN new \subseteq DOMAIN mem \cup {n}, n \in DOMAIN new,
           \A p \in DOMAIN new : WellFormed(new[p], DOMAIN mem \cup {n}),
           \A p \in DOMAIN new : new[p].type = IF p = n THEN ty ELSE mem[p].type,
           NEW x, NEW y, \A m2 : DOMAIN m2 = DOMAIN mem \cup {n} /\ (\A p \in DOMAIN mem : m2[p].type = mem[p].type)
                           => OpOK(x, y, m2),
           op' = [op EXCEPT ![c] = x], pc' = [pc EXCEPT ![c] = y],
           RowsOK(rows'), NEW r, r = root', r \in DOMAIN mem \cup {n}, UNCHANGED <<saved, misled>>
    PROVE  Shape'
  <1>1. /\ PagesOK(mem, disk, owner, root) /\ OpsOK(op, pc, mem)
        /\ RowsOK(saved) /\ misled \in BOOLEAN
        /\ ~misled => Clean(mem, disk, owner)
    BY DEF Shape
  <1>2. PICK m2, d2, w2, z2, o2, f : m2 = mem' /\ d2 = disk' /\ w2 = op' /\ z2 = pc' /\ o2 = owner' /\ f = rows'
    OBVIOUS
  <1>3. PICK by : by = [p \in DOMAIN new |-> c]
    OBVIOUS
  <1>4. m2 = Write(mem, new) /\ o2 = Write(owner, by)
    BY <1>2, <1>3 DEF FinishPages
  <1>5. n = Cardinality(DOMAIN mem) /\ n < MaxPages /\ d2 = Write(disk, Only(n, Blank(ty)))
    BY <1>2 DEF Allocate, NextPage
  <1>6. PICK D : D = DOMAIN mem \cup {n}
    OBVIOUS
  <1>7. /\ DOMAIN new \subseteq D /\ DOMAIN mem \cup DOMAIN new = D /\ DOMAIN owner = DOMAIN mem
        /\ DOMAIN by = DOMAIN new /\ n \in D
    BY <1>1, <1>3, <1>6 DEF PagesOK
  <1>8. /\ m2 = [p \in D |-> m2[p]] /\ DOMAIN m2 = D
        /\ \A p \in D : m2[p] = IF p \in DOMAIN new THEN new[p] ELSE mem[p]
    <2>1. m2 = [p \in D |-> IF p \in DOMAIN new THEN new[p] ELSE mem[p]]
      BY <1>4, <1>7 DEF Write
    <2>2. QED
      BY <2>1
  <1>9. /\ o2 = [p \in D |-> o2[p]] /\ \A p \in D : o2[p] = IF p \in DOMAIN new THEN c ELSE owner[p]
    <2>1. o2 = [p \in D |-> IF p \in DOMAIN by THEN by[p] ELSE owner[p]]
      BY <1>4, <1>7 DEF Write
    <2>2. \A p \in DOMAIN new : by[p] = c
      BY <1>3
    <2>3. QED
      BY <1>7, <2>1, <2>2
  <1>10. \A p \in DOMAIN mem : p \in D /\ (p \notin DOMAIN new => p # n)
    BY <1>6
  <1>11. n \notin DOMAIN mem
    <2>1. n \in Nat /\ DOMAIN mem = 0..(n - 1)
      BY <1>1, <1>5 DEF PagesOK
    <2>2. QED
      BY <2>1
  <1>12. ASSUME NEW p \in DOMAIN mem PROVE WellFormed(m2[p], D) /\ m2[p].type = mem[p].type
    <2>1. CASE p \in DOMAIN new
      BY <1>6, <1>8, <1>10, <1>11, <2>1
    <2>2. CASE p \notin DOMAIN new
      <3>1. WellFormed(mem[p], DOMAIN mem) /\ DOMAIN mem \subseteq D
        BY <1>1, <1>6 DEF PagesOK
      <3>2. WellFormed(mem[p], D)
        BY <3>1, SoundGrows
      <3>3. QED
        BY <1>8, <1>10, <2>2, <3>2
    <2>3. QED
      BY <2>1, <2>2
  <1>13. WellFormed(m2[n], D) /\ m2[n].type = ty
    BY <1>6, <1>7, <1>8
  <1>14. o2 \in [D -> Clients \cup {NoClient}]
    <2>1. \A p \in D : o2[p] \in Clients \cup {NoClient}
      <3>1. \A p \in DOMAIN mem : owner[p] \in Clients \cup {NoClient}
        BY <1>1 DEF PagesOK
      <3>2. QED
        BY <1>6, <1>7, <1>9, <3>1
    <2>2. QED
      BY <1>9, <2>1
  <1>15. /\ PagesOK(m2, d2, o2, r) /\ DOMAIN m2 = D /\ n \notin DOMAIN mem
         /\ d2[n] = Blank(ty) /\ \A p \in DOMAIN mem : d2[p] = disk[p]
    <2>1. IsFcn(m2, D)
      BY <1>8 DEF IsFcn
    <2>2. OneMore(mem, m2, o2, D, n, ty)
      BY <1>6, <1>12, <1>13, <1>14, <2>1 DEF OneMore
    <2>3. r \in D
      BY <1>6
    <2>4. PICK s : s = root
      OBVIOUS
    <2>5. PagesOK(mem, disk, owner, s)
      BY <1>1, <2>4
    <2>6. QED
      BY <1>5, <2>2, <2>3, <2>5, PagesGrown
  <1>16. ASSUME ~misled PROVE Clean(m2, d2, o2)
    <2>1. ASSUME NEW p \in DOMAIN m2, o2[p] = NoClient PROVE m2[p] = d2[p]
      <3>1. p \in D /\ p \notin DOMAIN new
        BY <1>8, <1>9, <2>1, TreeAssumption
      <3>2. p \in DOMAIN mem
        BY <1>6, <3>1
      <3>3. owner[p] = NoClient /\ m2[p] = mem[p] /\ d2[p] = disk[p]
        BY <1>8, <1>9, <1>15, <2>1, <3>1, <3>2
      <3>4. QED
        BY <1>1, <1>16, <3>2, <3>3 DEF Clean
    <2>2. QED
      BY <2>1 DEF Clean
  <1>17. OpsOK(w2, z2, m2)
    <2>1. w2 = [op EXCEPT ![c] = x] /\ z2 = [pc EXCEPT ![c] = y] /\ OpOK(x, y, m2)
      BY <1>2, <1>6, <1>8, <1>12
    <2>2. DOMAIN mem \subseteq DOMAIN m2 /\ \A p \in DOMAIN mem : m2[p].type = mem[p].type
      BY <1>6, <1>8, <1>12
    <2>3. QED
      BY <1>1, <2>1, <2>2, OpsChanged
  <1>18. RowsOK(f)
    BY <1>2
  <1>19. QED
    BY <1>1, <1>2, <1>15, <1>16, <1>17, <1>18, ShapeMade

\* A step that allocates a page and then fails.
LEMMA FailStep ==
    ASSUME Shape, NEW c \in Clients, NEW ty \in {"leaf", "internal"}, Allocate(ty), NEW n, n = NextPage,
           NEW new, AllocateInVain(ty, new), DOMAIN new \subseteq DOMAIN mem,
           \A p \in DOMAIN new : WellFormed(new[p], DOMAIN mem) /\ new[p].type = mem[p].type,
           NEW b, b = misled', b \in BOOLEAN, ~b => ~misled /\ \A p \in DOMAIN new : new[p] = mem[p],
           Fail(c), UNCHANGED <<root, rows, saved>>
    PROVE  Shape'
  <1>1. /\ PagesOK(mem, disk, owner, root) /\ OpsOK(op, pc, mem)
        /\ RowsOK(rows) /\ RowsOK(saved) /\ 0 \in DOMAIN mem /\ root \in DOMAIN mem
        /\ ~misled => Clean(mem, disk, owner)
    BY ShapeParts
  <1>2. PICK m2, d2, w2, z2, o2, r : m2 = mem' /\ d2 = disk' /\ w2 = op' /\ z2 = pc' /\ o2 = owner' /\ r = root
    OBVIOUS
  <1>3. PICK m1, one, none : m1 = Write(mem, one) /\ one = Only(n, Blank(ty)) /\ none = Only(n, NoClient)
    OBVIOUS
  <1>4. m2 = Write(m1, new) /\ o2 = Write(owner, none)
    BY <1>2, <1>3 DEF AllocateInVain
  <1>5. n = Cardinality(DOMAIN mem) /\ n < MaxPages /\ d2 = Write(disk, Only(n, Blank(ty)))
    BY <1>2 DEF Allocate, NextPage
  <1>6. PICK D : D = DOMAIN mem \cup {n}
    OBVIOUS
  <1>7. /\ DOMAIN one = {n} /\ one[n] = Blank(ty) /\ DOMAIN none = {n} /\ none[n] = NoClient
        /\ DOMAIN owner = DOMAIN mem /\ DOMAIN mem \cup DOMAIN one = D /\ D \cup DOMAIN new = D
        /\ DOMAIN owner \cup DOMAIN none = D
    BY <1>1, <1>3, <1>6 DEF PagesOK, Only
  <1>8. n \notin DOMAIN mem
    <2>1. n \in Nat /\ DOMAIN mem = 0..(n - 1)
      BY <1>1, <1>5 DEF PagesOK
    <2>2. QED
      BY <2>1
  <1>9. m1 = [p \in D |-> IF p \in DOMAIN one THEN one[p] ELSE mem[p]] /\ DOMAIN m1 = D
    <2>1. m1 = [p \in DOMAIN mem \cup DOMAIN one |-> IF p \in DOMAIN one THEN one[p] ELSE mem[p]]
      BY <1>3 DEF Write
    <2>2. m1 = [p \in D |-> IF p \in DOMAIN one THEN one[p] ELSE mem[p]]
      BY <1>7, <2>1
    <2>3. QED
      BY <2>2
  <1>10. m2 = [p \in D |-> IF p \in DOMAIN new THEN new[p] ELSE m1[p]]
    <2>1. m2 = [p \in DOMAIN m1 \cup DOMAIN new |-> IF p \in DOMAIN new THEN new[p] ELSE m1[p]]
      BY <1>4 DEF Write
    <2>2. DOMAIN m1 \cup DOMAIN new = D
      BY <1>7, <1>9
    <2>3. QED
      BY <2>1, <2>2
  <1>11. /\ m2 = [p \in D |-> m2[p]] /\ DOMAIN m2 = D
         /\ \A p \in DOMAIN mem : m2[p] = IF p \in DOMAIN new THEN new[p] ELSE mem[p]
         /\ m2[n] = Blank(ty)
    BY <1>6, <1>7, <1>8, <1>9, <1>10
  <1>12. o2 = [p \in D |-> IF p \in DOMAIN none THEN none[p] ELSE owner[p]]
    <2>1. o2 = [p \in DOMAIN owner \cup DOMAIN none |-> IF p \in DOMAIN none THEN none[p] ELSE owner[p]]
      BY <1>4 DEF Write
    <2>2. QED
      BY <1>7, <2>1
  <1>13. \A p \in DOMAIN mem : owner[p] \in Clients \cup {NoClient}
    BY <1>1 DEF PagesOK
  <1>14. o2 \in [D -> Clients \cup {NoClient}] /\ \A p \in DOMAIN mem : o2[p] = owner[p]
    BY <1>6, <1>7, <1>8, <1>12, <1>13
  <1>15. ASSUME NEW p \in DOMAIN mem PROVE WellFormed(m2[p], D) /\ m2[p].type = mem[p].type
    <2>1. WellFormed(mem[p], DOMAIN mem) /\ DOMAIN mem \subseteq D
      BY <1>1, <1>6 DEF PagesOK
    <2>2. WellFormed(m2[p], DOMAIN mem) /\ m2[p].type = mem[p].type
      BY <1>11, <2>1
    <2>3. QED
      BY <2>1, <2>2, SoundGrows
  <1>16. WellFormed(m2[n], D) /\ m2[n].type = ty
    <2>1. 0 \in D /\ 0 \in D \cup {NoPage}
      BY <1>1, <1>6
    <2>2. PICK b1 : b1 = Blank(ty)
      OBVIOUS
    <2>3. b1.type = ty
      BY <2>2, EmptyPages
    <2>4. CASE ty = "leaf"
      BY <1>11, <2>1, <2>2, <2>3, <2>4, EmptyPages DEF WellFormed, LeafOK
    <2>5. CASE ty = "internal"
      BY <1>11, <2>1, <2>2, <2>3, <2>5, EmptyPages DEF WellFormed, InternalOK
    <2>6. QED
      BY <2>4, <2>5
  <1>17. /\ PagesOK(m2, d2, o2, r) /\ DOMAIN m2 = D /\ n \notin DOMAIN mem
         /\ d2[n] = Blank(ty) /\ \A p \in DOMAIN mem : d2[p] = disk[p]
    <2>1. IsFcn(m2, D) /\ r \in D
      BY <1>1, <1>2, <1>6, <1>11 DEF IsFcn
    <2>2. OneMore(mem, m2, o2, D, n, ty)
      BY <1>6, <1>14, <1>15, <1>16, <2>1 DEF OneMore
    <2>3. PagesOK(mem, disk, owner, r)
      BY <1>1, <1>2
    <2>4. QED
      BY <1>5, <2>1, <2>2, <2>3, PagesGrown
  <1>18. ASSUME ~b PROVE Clean(m2, d2, o2)
    <2>1. ASSUME NEW p \in DOMAIN m2, o2[p] = NoClient PROVE m2[p] = d2[p]
      <3>1. CASE p = n
        BY <1>11, <1>17, <3>1
      <3>2. CASE p \in DOMAIN mem
        <4>1. m2[p] = mem[p] /\ owner[p] = NoClient
          BY <1>11, <1>14, <1>18, <2>1, <3>2
        <4>2. mem[p] = disk[p]
          BY <1>1, <1>18, <3>2, <4>1 DEF Clean
        <4>3. QED
          BY <1>17, <3>2, <4>1, <4>2
      <3>3. QED
        BY <1>6, <1>17, <2>1, <3>1, <3>2
    <2>2. QED
      BY <2>1 DEF Clean
  <1>19. OpsOK(w2, z2, m2)
    <2>1. w2 = [op EXCEPT ![c] = Idle] /\ z2 = [pc EXCEPT ![c] = "failed"]
      BY <1>2 DEF Fail, Goto
    <2>2. DOMAIN mem \subseteq DOMAIN m2 /\ (\A p \in DOMAIN mem : m2[p].type = mem[p].type) /\ 0 \in DOMAIN m2
      BY <1>1, <1>6, <1>11, <1>15
    <2>3. PICK x, y : x = Idle /\ y = "failed"
      OBVIOUS
    <2>4. OpOK(x, y, m2)
      BY <2>2, <2>3, IdleOK
    <2>5. w2 = [op EXCEPT ![c] = x] /\ z2 = [pc EXCEPT ![c] = y]
      BY <2>1, <2>3
    <2>6. QED
      BY <1>1, <2>2, <2>4, <2>5, OpsChanged
  <1>20. r = root'
    BY <1>2
  <1>21. QED
    BY <1>1, <1>2, <1>17, <1>18, <1>19, <1>20, ShapeMade

\* Insert, Update and Delete set out at the root.
LEMMA StartShape ==
    ASSUME Shape, NEW c \in Clients, NEW kind, NEW k \in Keys, NEW r \in Rows \cup {NoRow},
           Start(c, kind, k, r)
    PROVE  Shape'
  <1>1. root \in DOMAIN mem
    BY ShapeParts
  <1>2. PICK x, y : x = [Idle EXCEPT !.kind = kind, !.key = k, !.row = r, !.page = root] /\ y = "descend"
    OBVIOUS
  <1>3. x = [kind |-> kind, key |-> k, row |-> r, path |-> <<>>, page |-> root, sep |-> 0, right |-> 0]
    BY <1>2 DEF Idle
  <1>4. kind \in {"insert", "update", "delete"} /\ k \in Nat /\ (kind = "delete") = (r = NoRow)
    BY TreeAssumption DEF Start
  <1>5. 0 \in DOMAIN mem
    BY ShapeParts
  <1>6. x \in OpSet(DOMAIN mem)
    <2>1. <<>> \in Seq(DOMAIN mem)
      OBVIOUS
    <2>2. QED
      BY <1>1, <1>3, <1>4, <1>5, <2>1, OpMade
  <1>7. OpOK(x, y, mem)
    BY <1>2, <1>3, <1>4, <1>6 DEF OpOK, OpSet
  <1>8. op' = [op EXCEPT ![c] = x] /\ pc' = [pc EXCEPT ![c] = y]
    BY <1>2 DEF Start, Goto
  <1>9. UNCHANGED <<mem, disk, owner, root, rows, saved, misled>>
    BY DEF Start
  <1>10. QED
    BY <1>7, <1>8, <1>9, OpStep

\* A descent goes one level down.
LEMMA DescendShape ==
    ASSUME Shape, NEW c \in Clients, Descend(c)
    PROVE  Shape'
  <1>1. PICK w : w = op[c]
    OBVIOUS
  <1>2. w \in OpSet(DOMAIN mem) /\ OpOK(w, "descend", mem)
    <2>1. pc[c] = "descend"
      BY DEF Descend
    <2>2. QED
      BY <1>1, <2>1, ShapeParts
  <1>3. /\ w = [kind |-> w.kind, key |-> w.key, row |-> w.row, path |-> w.path, page |-> w.page,
                sep |-> w.sep, right |-> w.right]
        /\ w.kind \in {"none", "insert", "update", "delete"} /\ w.key \in Nat
        /\ w.row \in Rows \cup {NoRow} /\ w.path \in Seq(DOMAIN mem) /\ w.page \in DOMAIN mem
        /\ w.sep \in Nat /\ w.right \in DOMAIN mem
    BY <1>2, OpFields
  <1>4. PICK child, path : child = FindChildPageID(mem[w.page], w.key) /\ path = Append(w.path, w.page)
    OBVIOUS
  <1>5. mem[w.page].type = "internal"
    BY <1>1 DEF Descend
  <1>6. child \in DOMAIN mem
    <2>1. PICK p : p = mem[w.page]
      OBVIOUS
    <2>2. InternalOK(p, DOMAIN mem)
      <3>1. WellFormed(p, DOMAIN mem)
        BY <1>3, <2>1, ShapeParts
      <3>2. QED
        BY <1>5, <2>1, <3>1, PageKinds
    <2>3. QED
      BY <1>3, <1>4, <2>1, <2>2, ChildInside
  <1>7. path \in Seq(DOMAIN mem) /\ \A i \in DOMAIN path : mem[path[i]].type = "internal"
    <2>1. path \in Seq(DOMAIN mem)
      BY <1>3, <1>4
    <2>2. ASSUME NEW i \in DOMAIN path PROVE mem[path[i]].type = "internal"
      <3>1. (i \in DOMAIN w.path /\ path[i] = w.path[i]) \/ path[i] = w.page
        BY <1>3, <1>4
      <3>2. QED
        BY <1>2, <1>5, <3>1 DEF OpOK
    <2>3. QED
      BY <2>1, <2>2
  <1>8. PICK x : x = [kind |-> w.kind, key |-> w.key, row |-> w.row, path |-> path, page |-> child,
                      sep |-> w.sep, right |-> w.right]
    OBVIOUS
  <1>9. x \in OpSet(DOMAIN mem)
    BY <1>3, <1>6, <1>7, <1>8, OpMade
  <1>10. OpOK(x, "descend", mem)
    BY <1>2, <1>7, <1>8, <1>9 DEF OpOK, OpSet
  <1>11. op' = [op EXCEPT ![c] = x] /\ pc' = [pc EXCEPT ![c] = "descend"]
    <2>1. DOMAIN op = Clients /\ DOMAIN pc = Clients /\ pc = [d \in Clients |-> pc[d]]
      BY DEF Shape, OpsOK
    <2>2. op' = [op EXCEPT ![c].path = path, ![c].page = child]
      BY <1>1, <1>4 DEF Descend
    <2>3. [w EXCEPT !.path = path, !.page = child] = x
      <3>1. PICK ki, ke, ro, pa, pg, se, ri :
              /\ ki = w.kind /\ ke = w.key /\ ro = w.row /\ pa = w.path /\ pg = w.page
              /\ se = w.sep /\ ri = w.right
        OBVIOUS
      <3>2. w = [kind |-> ki, key |-> ke, row |-> ro, path |-> pa, page |-> pg, sep |-> se, right |-> ri]
        BY <1>3, <3>1
      <3>3. PICK v : v = [w EXCEPT !.path = path, !.page = child]
        OBVIOUS
      <3>4. v = [kind |-> ki, key |-> ke, row |-> ro, path |-> path, page |-> child, sep |-> se, right |-> ri]
        BY <3>2, <3>3
      <3>5. QED
        BY <1>8, <3>1, <3>3, <3>4
    <2>4. op' = [op EXCEPT ![c] = x]
      BY <1>1, <2>1, <2>2, <2>3
    <2>5. pc' = [pc EXCEPT ![c] = "descend"]
      <3>1. pc' = pc /\ pc[c] = "descend"
        BY DEF Descend
      <3>2. QED
        BY <2>1, <3>1
    <2>6. QED
      BY <2>4, <2>5
  <1>12. UNCHANGED <<mem, disk, owner, root, rows, saved, misled>>
    BY DEF Descend
  <1>13. PICK y : y = "descend"
    OBVIOUS
  <1>14. QED
    BY <1>10, <1>11, <1>12, <1>13, OpStep

\* An operation that fails before it has changed anything.
LEMMA GiveUpShape ==
    ASSUME Shape, NEW c \in Clients, DescendFails(c) \/ KeyNotFound(c)
    PROVE  Shape'
  <1>1. PICK x, y : x = Idle /\ y = "failed"
    OBVIOUS
  <1>2. OpOK(x, y, mem)
    BY <1>1, ShapeParts, IdleOK
  <1>3. op' = [op EXCEPT ![c] = x] /\ pc' = [pc EXCEPT ![c] = y]
    BY <1>1 DEF DescendFails, KeyNotFound, Fail, Goto
  <1>4. UNCHANGED <<mem, disk, owner, root, rows, saved, misled>>
    BY DEF DescendFails, KeyNotFound
  <1>5. QED
    BY <1>2, <1>3, <1>4, OpStep

\* The leaf of an operation, its cell and the page that takes the cell.
LEMMA AtLeafFacts ==
    ASSUME Shape, NEW c \in Clients, AtLeaf(c)
    PROVE  /\ op[c] \in OpSet(DOMAIN mem) /\ op[c].page \in DOMAIN mem /\ op[c].key \in Keys /\ op[c].key \in Nat
           /\ OpOK(op[c], "descend", mem)
           /\ LeafOK(Leaf(c), DOMAIN mem) /\ Leaf(c) = mem[op[c].page] /\ mem[op[c].page].type = "leaf"
           /\ op[c].kind # "delete" => NewCell(c) \in LeafCell /\ op[c].row \in Rows
           /\ op[c].kind # "delete" /\ HasOldCell(c) => LeafOK(Target(c), DOMAIN mem) /\ Target(c).type = "leaf"
  <1>1. pc[c] = "descend" /\ mem[op[c].page].type = "leaf" /\ Leaf(c) = mem[op[c].page]
    BY DEF AtLeaf, Leaf
  <1>2. op[c] \in OpSet(DOMAIN mem) /\ OpOK(op[c], "descend", mem)
    BY <1>1, ShapeParts
  <1>3. op[c].page \in DOMAIN mem /\ op[c].key \in Keys /\ op[c].key \in Nat
    BY <1>2, OpFields DEF OpOK
  <1>4. PICK p, w : p = Leaf(c) /\ w = op[c]
    OBVIOUS
  <1>5. LeafOK(p, DOMAIN mem)
    <2>1. WellFormed(p, DOMAIN mem)
      BY <1>1, <1>3, <1>4, ShapeParts
    <2>2. QED
      BY <1>1, <1>4, <2>1, PageKinds
  <1>6. op[c].kind # "delete" => NewCell(c) \in LeafCell /\ op[c].row \in Rows
    BY <1>2, <1>3 DEF OpOK, NewCell, LeafCell
  <1>7. ASSUME op[c].kind # "delete", HasOldCell(c) PROVE LeafOK(Target(c), DOMAIN mem) /\ Target(c).type = "leaf"
    <2>1. CASE op[c].kind = "insert"
      BY <1>1, <1>4, <1>5, <2>1 DEF Target
    <2>2. CASE op[c].kind # "insert"
      <3>1. PICK i, q, N : i = SearchInLeaf(p, w.key) /\ q = DeleteCell(p, i) /\ N = DOMAIN mem \cup {NoPage}
        OBVIOUS
      <3>2. Sound(p, "leaf", LeafCell, N)
        BY <1>5, <3>1 DEF LeafOK
      <3>3. p \in PageSet("leaf", LeafCell, N) /\ Sorted(p.cells) /\ FreeSpace(p) >= 0
        BY <3>2 DEF Sound
      <3>4. p.cells \in Seq(LeafCell) /\ DOMAIN p.cells = 1..Len(p.cells)
        BY <3>3, PageFields
      <3>5. CellSet(LeafCell)
        BY TreeAssumption DEF CellSet, LeafCell
      <3>6. i # 0
        BY <1>4, <1>7, <2>2, <3>1 DEF HasOldCell
      <3>7. i \in 1..Len(p.cells)
        BY <1>3, <1>4, <3>1, <3>3, <3>4, <3>5, <3>6, SearchInLeafFacts
      <3>8. Sound(q, "leaf", LeafCell, N)
        BY <3>1, <3>3, <3>7, DeleteCellFacts
      <3>9. Target(c) = q
        BY <1>4, <2>2, <3>1 DEF Target
      <3>10. LeafOK(q, DOMAIN mem) /\ q.type = "leaf"
        BY <3>1, <3>8 DEF LeafOK, Sound, PageSet
      <3>11. QED
        BY <3>9, <3>10
    <2>3. QED
      BY <2>1, <2>2
  <1>8. QED
    BY <1>1, <1>2, <1>3, <1>4, <1>5, <1>6, <1>7

\* A row deleted from its leaf.
LEMMA DeleteRowShape ==
    ASSUME Shape, NEW c \in Clients, DeleteRow(c)
    PROVE  Shape'
  <1>1. AtLeaf(c)
    BY DEF DeleteRow
  <1>2. PICK p, i, q, a : /\ p = Leaf(c) /\ i = SearchInLeaf(Leaf(c), op[c].key) /\ q = DeleteCell(p, i)
                          /\ a = op[c].page
    OBVIOUS
  <1>3. LeafOK(p, DOMAIN mem) /\ a \in DOMAIN mem /\ mem[a].type = "leaf" /\ op[c].key \in Nat /\ op[c].key \in Keys
    BY <1>1, <1>2, AtLeafFacts
  <1>4. PICK N : N = DOMAIN mem \cup {NoPage}
    OBVIOUS
  <1>5. p \in PageSet("leaf", LeafCell, N) /\ Sorted(p.cells) /\ FreeSpace(p) >= 0
    BY <1>3, <1>4 DEF LeafOK, Sound
  <1>6. p.cells \in Seq(LeafCell) /\ DOMAIN p.cells = 1..Len(p.cells)
    BY <1>5, PageFields
  <1>7. CellSet(LeafCell)
    BY TreeAssumption DEF CellSet, LeafCell
  <1>8. i \in 1..Len(p.cells)
    <2>1. PICK k : k = op[c].key
      OBVIOUS
    <2>2. i # 0 /\ i = SearchInLeaf(p, k) /\ k \in Nat
      BY <1>2, <1>3, <2>1 DEF DeleteRow
    <2>3. QED
      BY <1>5, <1>6, <1>7, <2>2, SearchInLeafFacts
  <1>9. Sound(q, "leaf", LeafCell, N)
    BY <1>2, <1>5, <1>8, DeleteCellFacts
  <1>10. WellFormed(q, DOMAIN mem) /\ q.type = "leaf"
    BY <1>4, <1>9 DEF WellFormed, LeafOK, Sound, PageSet
  <1>11. PICK new : new = Only(a, q)
    OBVIOUS
  <1>12. DOMAIN new = {a} /\ new[a] = q
    BY <1>11 DEF Only
  <1>13. FinishPages(c, new)
    BY <1>2, <1>11 DEF DeleteRow
  <1>14. RowsOK(rows')
    <2>1. RowsOK(rows)
      BY DEF Shape
    <2>2. rows' = [rows EXCEPT ![op[c].key] = NoRow]
      BY DEF DeleteRow
    <2>3. QED
      BY <2>1, <2>2 DEF RowsOK
  <1>15. PICK x, y : x = Idle /\ y = "idle"
    OBVIOUS
  <1>16. OpOK(x, y, mem) /\ op' = [op EXCEPT ![c] = x] /\ pc' = [pc EXCEPT ![c] = y]
    BY <1>15, ShapeParts, IdleOK DEF DeleteRow, Finish, Goto
  <1>17. UNCHANGED <<disk, root, saved, misled>>
    BY DEF DeleteRow
  <1>18. \A b \in DOMAIN new : WellFormed(new[b], DOMAIN mem) /\ new[b].type = mem[b].type
    BY <1>3, <1>10, <1>12
  <1>19. QED
    BY <1>3, <1>12, <1>13, <1>14, <1>16, <1>17, <1>18, WriteStep

\* A row put on a leaf with room for it.
LEMMA PutRowShape ==
    ASSUME Shape, NEW c \in Clients, PutRow(c)
    PROVE  Shape'
  <1>1. AtLeaf(c) /\ op[c].kind # "delete" /\ HasOldCell(c)
    BY DEF PutRow
  <1>2. PICK p, e, a : p = Target(c) /\ e = NewCell(c) /\ a = op[c].page
    OBVIOUS
  <1>3. /\ LeafOK(p, DOMAIN mem) /\ a \in DOMAIN mem /\ mem[a].type = "leaf" /\ op[c].key \in Keys
        /\ e \in LeafCell /\ op[c].row \in Rows
    BY <1>1, <1>2, AtLeafFacts
  <1>4. e.key = op[c].key /\ Fits(p, e)
    BY <1>2 DEF NewCell, PutRow
  <1>5. PICK q : q = InsertCellAt(p, FindInsertPos(p, e.key), e)
    OBVIOUS
  <1>6. LeafOK(q, DOMAIN mem)
    BY <1>3, <1>4, <1>5, LeafInsert
  <1>7. WellFormed(q, DOMAIN mem) /\ q.type = "leaf"
    BY <1>6 DEF WellFormed, LeafOK, Sound, PageSet
  <1>8. PICK new : new = Only(a, q)
    OBVIOUS
  <1>9. DOMAIN new = {a} /\ new[a] = q
    BY <1>8 DEF Only
  <1>10. FinishPages(c, new)
    BY <1>2, <1>4, <1>5, <1>8 DEF PutRow
  <1>11. RowsOK(rows')
    <2>1. RowsOK(rows)
      BY DEF Shape
    <2>2. rows' = [rows EXCEPT ![op[c].key] = op[c].row]
      BY DEF PutRow
    <2>3. QED
      BY <1>3, <2>1, <2>2 DEF RowsOK
  <1>12. PICK x, y : x = Idle /\ y = "idle"
    OBVIOUS
  <1>13. OpOK(x, y, mem) /\ op' = [op EXCEPT ![c] = x] /\ pc' = [pc EXCEPT ![c] = y]
    BY <1>12, ShapeParts, IdleOK DEF PutRow, Finish, Goto
  <1>14. UNCHANGED <<disk, root, saved, misled>>
    BY DEF PutRow
  <1>15. \A b \in DOMAIN new : WellFormed(new[b], DOMAIN mem) /\ new[b].type = mem[b].type
    BY <1>3, <1>7, <1>9
  <1>16. QED
    BY <1>3, <1>9, <1>10, <1>11, <1>13, <1>14, <1>15, WriteStep

HandedOp(w, sep, right, page, path) ==
    [w EXCEPT !.sep = sep, !.right = right, !.page = page, !.path = path]

\* An operation that hands a separator and a new page up.
LEMMA HandedUp ==
    ASSUME NEW D, NEW w \in OpSet(D), NEW E, D \subseteq E, NEW sep \in Nat, NEW right \in E,
           NEW page \in E, NEW path \in Seq(E), NEW x,
           x = HandedOp(w, sep, right, page, path)
    PROVE  /\ x \in OpSet(E) /\ x.kind = w.kind /\ x.key = w.key /\ x.row = w.row
           /\ x.path = path /\ x.page = page /\ x.sep = sep /\ x.right = right
  <1>1. PICK ki, ke, ro, pa, pg, se, ri :
          /\ ki = w.kind /\ ke = w.key /\ ro = w.row /\ pa = w.path /\ pg = w.page
          /\ se = w.sep /\ ri = w.right
    OBVIOUS
  <1>2. w = [kind |-> ki, key |-> ke, row |-> ro, path |-> pa, page |-> pg, sep |-> se, right |-> ri]
    BY <1>1, OpFields
  <1>3. ki \in {"none", "insert", "update", "delete"} /\ ke \in Nat /\ ro \in Rows \cup {NoRow}
    BY <1>1, OpFields
  <1>4. x = [kind |-> ki, key |-> ke, row |-> ro, path |-> path, page |-> page, sep |-> sep, right |-> right]
    BY <1>2 DEF HandedOp
  <1>5. x \in OpSet(E)
    BY <1>3, <1>4 DEF OpSet
  <1>6. QED
    BY <1>1, <1>4, <1>5

\* A leaf split into two.
LEMMA SplitLeafShape ==
    ASSUME Shape, NEW c \in Clients, SplitLeaf(c)
    PROVE  Shape'
  <1>1. AtLeaf(c) /\ op[c].kind # "delete" /\ HasOldCell(c) /\ Allocate("leaf")
    BY DEF SplitLeaf
  <1>2. PICK t, e, a, w, D, n : /\ t = Target(c) /\ e = NewCell(c) /\ a = op[c].page /\ w = op[c]
                                /\ D = DOMAIN mem /\ n = NextPage
    OBVIOUS
  <1>3. /\ LeafOK(t, D) /\ a \in D /\ mem[a].type = "leaf" /\ w.key \in Keys /\ w \in OpSet(D)
        /\ e \in LeafCell /\ w.row \in Rows /\ OpOK(w, "descend", mem) /\ 0 \in D
    BY <1>1, <1>2, AtLeafFacts, ShapeParts
  <1>4. PICK cells, mid, left, right, l, r :
          /\ cells = SortCells(Append(t.cells, e)) /\ mid = Len(cells) \div 2
          /\ left = AddCells(ResetPage(t), SubSeq(cells, 1, mid))
          /\ right = AddCells(Blank("leaf"), SubSeq(cells, mid + 1, Len(cells)))
          /\ l = [left EXCEPT !.next = n] /\ r = [right EXCEPT !.next = t.next]
    OBVIOUS
  <1>5. PICK E : E = D \cup {n}
    OBVIOUS
  <1>6. LeafOK(l, E) /\ LeafOK(r, E) /\ cells[mid + 1].key \in Keys
    BY <1>3, <1>4, <1>5, LeafHalves
  <1>7. WellFormed(l, E) /\ l.type = "leaf" /\ WellFormed(r, E) /\ r.type = "leaf"
    BY <1>6 DEF WellFormed, LeafOK, Sound, PageSet
  <1>8. PICK new : new = [p \in {a, n} |-> IF p = n THEN r ELSE l]
    OBVIOUS
  <1>9. PICK sep, y : sep = cells[mid + 1].key /\ y = "grow"
    OBVIOUS
  <1>10. FinishPages(c, new) /\ HandUp(c, sep)
    BY <1>2, <1>4, <1>8, <1>9 DEF SplitLeaf
  <1>11. n \notin D
    <2>1. n \in Nat /\ D = 0..(n - 1)
      BY <1>2, ShapeParts DEF PagesOK, NextPage
    <2>2. QED
      BY <2>1
  <1>12. /\ DOMAIN new = {a, n} /\ \A p \in DOMAIN new : WellFormed(new[p], E)
         /\ \A p \in DOMAIN new : new[p].type = IF p = n THEN "leaf" ELSE mem[p].type
    BY <1>3, <1>7, <1>8, <1>11
  <1>13. RowsOK(rows')
    <2>1. RowsOK(rows)
      BY DEF Shape
    <2>2. rows' = [rows EXCEPT ![op[c].key] = op[c].row]
      BY DEF SplitLeaf
    <2>3. QED
      BY <1>2, <1>3, <2>1, <2>2 DEF RowsOK
  <1>14. PICK x : x = HandedOp(w, sep, n, w.page, w.path)
    OBVIOUS
  <1>15. sep \in Nat /\ sep \in Keys
    BY <1>6, <1>9, TreeAssumption
  <1>16. /\ x \in OpSet(E) /\ x.kind = w.kind /\ x.key = w.key /\ x.row = w.row
         /\ x.path = w.path /\ x.page = w.page /\ x.sep = sep /\ x.right = n
    <2>1. D \subseteq E /\ n \in E
      BY <1>5
    <2>2. w.page \in D /\ w.path \in Seq(D)
      BY <1>3, OpFields
    <2>3. w.page \in E /\ w.path \in Seq(E)
      BY <2>1, <2>2
    <2>4. QED
      BY <1>3, <1>14, <1>15, <2>1, <2>3, HandedUp
  <1>17. ASSUME NEW m2, DOMAIN m2 = E, \A p \in D : m2[p].type = mem[p].type
         PROVE OpOK(x, y, m2)
    <2>1. ASSUME NEW i \in DOMAIN x.path PROVE m2[x.path[i]].type = "internal"
      <3>1. w.path \in Seq(D)
        BY <1>3, OpFields
      <3>2. w.path[i] \in D
        BY <1>16, <3>1
      <3>3. mem[w.path[i]].type = "internal"
        BY <1>3, <1>16 DEF OpOK
      <3>4. QED
        BY <1>16, <1>17, <3>2, <3>3
    <2>2. QED
      BY <1>1, <1>2, <1>3, <1>9, <1>15, <1>16, <1>17, <2>1 DEF OpOK, OpSet
  <1>18. op' = [op EXCEPT ![c] = x] /\ pc' = [pc EXCEPT ![c] = y]
    <2>1. op' = [op EXCEPT ![c].sep = sep, ![c].right = n] /\ pc' = [pc EXCEPT ![c] = y]
      BY <1>2, <1>9, <1>10 DEF HandUp, Goto
    <2>2. DOMAIN op = Clients
      BY DEF Shape, OpsOK
    <2>3. [w EXCEPT !.sep = sep, !.right = n] = x
      <3>1. PICK ki, ke, ro, pa, pg, se, ri :
              /\ ki = w.kind /\ ke = w.key /\ ro = w.row /\ pa = w.path /\ pg = w.page
              /\ se = w.sep /\ ri = w.right
        OBVIOUS
      <3>2. w = [kind |-> ki, key |-> ke, row |-> ro, path |-> pa, page |-> pg, sep |-> se, right |-> ri]
        BY <1>3, <3>1, OpFields
      <3>3. PICK v : v = [w EXCEPT !.sep = sep, !.right = n]
        OBVIOUS
      <3>4. v = [kind |-> ki, key |-> ke, row |-> ro, path |-> pa, page |-> pg, sep |-> sep, right |-> n]
        BY <3>2, <3>3
      <3>5. x = [kind |-> ki, key |-> ke, row |-> ro, path |-> pa, page |-> pg, sep |-> sep, right |-> n]
        <4>1. x = [w EXCEPT !.sep = sep, !.right = n, !.page = pg, !.path = pa]
          BY <1>14, <3>1 DEF HandedOp
        <4>2. QED
          BY <3>2, <4>1
      <3>6. QED
        BY <3>3, <3>4, <3>5
    <2>4. QED
      BY <1>2, <2>1, <2>2, <2>3
  <1>19. PICK rt, ty : rt = root' /\ ty = "leaf"
    OBVIOUS
  <1>20. rt \in E /\ UNCHANGED <<saved, misled>>
    <2>1. root' = root /\ root \in D
      BY <1>2, ShapeParts DEF SplitLeaf
    <2>2. QED
      BY <1>5, <1>19, <2>1 DEF SplitLeaf
  <1>21. QED
    <2>1. DOMAIN new \subseteq DOMAIN mem \cup {n} /\ n \in DOMAIN new
      BY <1>2, <1>3, <1>12
    <2>2. \A p \in DOMAIN new : WellFormed(new[p], DOMAIN mem \cup {n})
      BY <1>2, <1>5, <1>12
    <2>3. \A p \in DOMAIN new : new[p].type = IF p = n THEN ty ELSE mem[p].type
      BY <1>12, <1>19
    <2>4. \A m2 : DOMAIN m2 = DOMAIN mem \cup {n} /\ (\A p \in DOMAIN mem : m2[p].type = mem[p].type)
             => OpOK(x, y, m2)
      BY <1>2, <1>5, <1>17
    <2>5. Allocate(ty) /\ ty \in {"leaf", "internal"} /\ rt \in DOMAIN mem \cup {n}
      BY <1>1, <1>2, <1>5, <1>19, <1>20
    <2>6. QED
      BY <1>2, <1>10, <1>13, <1>18, <1>19, <1>20, <2>1, <2>2, <2>3, <2>4, <2>5, GrowStep

\* A leaf that cannot be split for want of a frame.
LEMMA SplitLeafFailsShape ==
    ASSUME Shape, NEW c \in Clients, SplitLeafFails(c)
    PROVE  Shape'
  <1>1. AtLeaf(c) /\ op[c].kind # "delete" /\ HasOldCell(c)
    BY DEF SplitLeafFails
  <1>2. PICK t, a : t = Target(c) /\ a = op[c].page
    OBVIOUS
  <1>3. LeafOK(t, DOMAIN mem) /\ t.type = "leaf" /\ a \in DOMAIN mem /\ mem[a].type = "leaf" /\ Leaf(c) = mem[a]
    BY <1>1, <1>2, AtLeafFacts
  <1>4. PICK new, ty, n, b : new = Only(a, t) /\ ty = "leaf" /\ n = NextPage /\ b = misled'
    OBVIOUS
  <1>5. DOMAIN new = {a} /\ new[a] = t
    BY <1>4 DEF Only
  <1>6. AllocateInVain(ty, new) /\ Allocate(ty) /\ Fail(c) /\ UNCHANGED <<root, rows, saved>>
    BY <1>2, <1>4 DEF SplitLeafFails, AllocateInVain
  <1>7. misled \in BOOLEAN /\ misled' = (misled \/ op[c].kind = "update")
    BY ShapeParts DEF SplitLeafFails
  <1>8. b \in BOOLEAN
    BY <1>4, <1>7
  <1>9. ASSUME ~b PROVE ~misled /\ \A p \in DOMAIN new : new[p] = mem[p]
    <2>1. ~misled /\ op[c].kind # "update"
      BY <1>4, <1>7, <1>9
    <2>2. op[c].kind \in {"none", "insert", "update", "delete"} /\ op[c].kind # "none"
      BY <1>1, AtLeafFacts, OpFields DEF OpOK
    <2>3. t = mem[a]
      BY <1>1, <1>2, <1>3, <2>1, <2>2 DEF Target
    <2>4. QED
      BY <1>5, <2>1, <2>3
  <1>10. \A p \in DOMAIN new : WellFormed(new[p], DOMAIN mem) /\ new[p].type = mem[p].type
    BY <1>3, <1>5 DEF WellFormed
  <1>11. ty \in {"leaf", "internal"} /\ DOMAIN new \subseteq DOMAIN mem
    BY <1>3, <1>4, <1>5
  <1>12. QED
    BY <1>4, <1>6, <1>8, <1>9, <1>10, <1>11, FailStep

\* The parent that takes the cell for a child that was split.
LEMMA GrowFacts ==
    ASSUME Shape, NEW c \in Clients, pc[c] = "grow"
    PROVE  /\ op[c] \in OpSet(DOMAIN mem) /\ OpOK(op[c], "grow", mem) /\ op[c].sep \in Keys
           /\ op[c].right \in DOMAIN mem /\ op[c].page \in DOMAIN mem
           /\ ChildCell(c) \in InternalCell(DOMAIN mem) /\ ChildCell(c).key = op[c].sep
           /\ op[c].path # <<>> =>
                /\ Last(op[c].path) \in DOMAIN mem /\ mem[Last(op[c].path)].type = "internal"
                /\ Front(op[c].path) \in Seq(DOMAIN mem)
                /\ \A i \in DOMAIN Front(op[c].path) : mem[Front(op[c].path)[i]].type = "internal"
                /\ Patched(c) = PatchedPage(Parent(c), op[c].page, op[c].right)
                /\ InternalOK(Parent(c), DOMAIN mem)
                /\ InternalOK(Patched(c), DOMAIN mem) /\ Patched(c).type = "internal"
  <1>1. op[c] \in OpSet(DOMAIN mem) /\ OpOK(op[c], "grow", mem)
    BY ShapeParts
  <1>2. PICK w, D : w = op[c] /\ D = DOMAIN mem
    OBVIOUS
  <1>3. w.sep \in Keys /\ w.right \in D /\ w.page \in D /\ w.path \in Seq(D)
    BY <1>1, <1>2, OpFields DEF OpOK
  <1>4. ChildCell(c) \in InternalCell(D) /\ ChildCell(c).key = w.sep
    BY <1>2, <1>3 DEF ChildCell, InternalCell
  <1>5. ASSUME w.path # <<>>
        PROVE  /\ Last(w.path) \in D /\ mem[Last(w.path)].type = "internal"
               /\ Front(w.path) \in Seq(D) /\ \A i \in DOMAIN Front(w.path) : mem[Front(w.path)[i]].type = "internal"
               /\ Patched(c) = PatchedPage(Parent(c), w.page, w.right)
               /\ InternalOK(Parent(c), D)
               /\ InternalOK(Patched(c), D) /\ Patched(c).type = "internal"
    <2>1. PICK s, k : s = w.path /\ k = Len(s)
      OBVIOUS
    <2>2. s \in Seq(D) /\ k \in Nat /\ k >= 1 /\ DOMAIN s = 1..k
      BY <1>3, <1>5, <2>1
    <2>3. \A i \in 1..k : s[i] \in D /\ mem[s[i]].type = "internal"
      BY <1>1, <1>2, <2>1, <2>2 DEF OpOK
    <2>4. Last(s) = s[k] /\ k \in 1..k
      BY <2>1, <2>2 DEF Last
    <2>5. Front(s) = SubSeq(s, 1, k - 1)
      BY <2>1 DEF Front
    <2>6. Front(s) \in Seq(D) /\ Len(Front(s)) = k - 1 /\ \A i \in 1..(k - 1) : Front(s)[i] = s[i]
      BY <2>1, <2>2, <2>5
    <2>7. ASSUME NEW i \in DOMAIN Front(s) PROVE mem[Front(s)[i]].type = "internal"
      BY <2>2, <2>3, <2>6
    <2>8. PICK x, y : x = Parent(c) /\ y = PatchedPage(x, w.page, w.right)
      OBVIOUS
    <2>9. x = mem[s[k]]
      BY <1>2, <2>1, <2>4, <2>8 DEF Parent
    <2>10. InternalOK(x, D)
      <3>1. WellFormed(x, D)
        BY <1>2, <2>3, <2>4, <2>9, ShapeParts
      <3>2. QED
        BY <2>3, <2>4, <2>9, <3>1, PageKinds
    <2>11. Patched(c) = y
      BY <1>2, <2>8 DEF Patched, PatchedPage
    <2>12. InternalOK(y, D) /\ y.type = "internal"
      <3>1. PICK q, r : q = w.page /\ r = w.right
        OBVIOUS
      <3>2. r \in D /\ y = PatchedPage(x, q, r)
        BY <1>3, <2>8, <3>1
      <3>3. QED
        BY <2>10, <3>2, PatchedFacts
    <2>13. QED
      BY <2>1, <2>3, <2>4, <2>6, <2>7, <2>8, <2>10, <2>11, <2>12
  <1>6. QED
    BY <1>1, <1>2, <1>3, <1>4, <1>5

\* The cell for a split child put on its parent.
LEMMA PatchInternalShape ==
    ASSUME Shape, NEW c \in Clients, PatchInternal(c)
    PROVE  Shape'
  <1>1. pc[c] = "grow" /\ op[c].path # <<>>
    BY DEF PatchInternal
  <1>2. PICK p, e, a : p = Patched(c) /\ e = ChildCell(c) /\ a = Last(op[c].path)
    OBVIOUS
  <1>3. /\ InternalOK(p, DOMAIN mem) /\ a \in DOMAIN mem /\ mem[a].type = "internal"
        /\ e \in InternalCell(DOMAIN mem) /\ e.key = op[c].sep
    BY <1>1, <1>2, GrowFacts
  <1>4. PICK q : q = InsertCellAt(p, FindInsertPos(p, e.key), e)
    OBVIOUS
  <1>5. InternalOK(q, DOMAIN mem)
    <2>1. PICK D : D = DOMAIN mem
      OBVIOUS
    <2>2. InternalOK(p, D) /\ e \in InternalCell(D) /\ Fits(p, e)
      BY <1>2, <1>3, <2>1 DEF PatchInternal
    <2>3. QED
      BY <1>4, <2>1, <2>2, InternalInsert
  <1>6. WellFormed(q, DOMAIN mem) /\ q.type = "internal"
    BY <1>5 DEF WellFormed, InternalOK, Sound, PageSet
  <1>7. PICK new : new = Only(a, q)
    OBVIOUS
  <1>8. DOMAIN new = {a} /\ new[a] = q
    BY <1>7 DEF Only
  <1>9. FinishPages(c, new)
    BY <1>2, <1>3, <1>4, <1>7 DEF PatchInternal
  <1>10. RowsOK(rows')
    BY ShapeParts DEF PatchInternal
  <1>11. PICK x, y : x = Idle /\ y = "idle"
    OBVIOUS
  <1>12. OpOK(x, y, mem) /\ op' = [op EXCEPT ![c] = x] /\ pc' = [pc EXCEPT ![c] = y]
    BY <1>11, ShapeParts, IdleOK DEF PatchInternal, Finish, Goto
  <1>13. UNCHANGED <<disk, root, saved, misled>>
    BY DEF PatchInternal
  <1>14. \A b \in DOMAIN new : WellFormed(new[b], DOMAIN mem) /\ new[b].type = mem[b].type
    BY <1>3, <1>6, <1>8
  <1>15. QED
    BY <1>3, <1>8, <1>9, <1>10, <1>12, <1>13, <1>14, WriteStep

\* An internal page split into two.
LEMMA SplitInternalShape ==
    ASSUME Shape, NEW c \in Clients, SplitInternal(c)
    PROVE  Shape'
  <1>1. pc[c] = "grow" /\ op[c].path # <<>> /\ Allocate("internal")
    BY DEF SplitInternal
  <1>2. PICK t, e, a, w, D, n, up : /\ t = Patched(c) /\ e = ChildCell(c) /\ a = Last(op[c].path) /\ w = op[c]
                                    /\ D = DOMAIN mem /\ n = NextPage /\ up = Front(op[c].path)
    OBVIOUS
  <1>3. /\ InternalOK(t, D) /\ a \in D /\ mem[a].type = "internal" /\ w \in OpSet(D)
        /\ e \in InternalCell(D) /\ OpOK(w, "grow", mem) /\ 0 \in D
        /\ up \in Seq(D) /\ \A i \in DOMAIN up : mem[up[i]].type = "internal"
    BY <1>1, <1>2, GrowFacts, ShapeParts
  <1>4. PICK cells, mid, left, right, l, r :
          /\ cells = SortCells(Append(t.cells, e)) /\ mid = Len(cells) \div 2
          /\ left = AddCells(ResetPage(t), SubSeq(cells, 1, mid))
          /\ right = AddCells(Blank("internal"), SubSeq(cells, mid + 2, Len(cells)))
          /\ l = [left EXCEPT !.next = cells[mid + 1].child] /\ r = [right EXCEPT !.next = t.next]
    OBVIOUS
  <1>5. PICK E : E = D \cup {n}
    OBVIOUS
  <1>6. InternalOK(l, E) /\ InternalOK(r, E) /\ cells[mid + 1].key \in Keys
    BY <1>3, <1>4, <1>5, InternalHalves
  <1>7. WellFormed(l, E) /\ l.type = "internal" /\ WellFormed(r, E) /\ r.type = "internal"
    BY <1>6 DEF WellFormed, InternalOK, Sound, PageSet
  <1>8. PICK new : new = [p \in {a, n} |-> IF p = n THEN r ELSE l]
    OBVIOUS
  <1>9. PICK sep, y : sep = cells[mid + 1].key /\ y = "grow"
    OBVIOUS
  <1>10. FinishPages(c, new)
    BY <1>2, <1>4, <1>8 DEF SplitInternal
  <1>11. n \notin D
    <2>1. n \in Nat /\ D = 0..(n - 1)
      BY <1>2, ShapeParts DEF PagesOK, NextPage
    <2>2. QED
      BY <2>1
  <1>12. /\ DOMAIN new = {a, n} /\ \A p \in DOMAIN new : WellFormed(new[p], E)
         /\ \A p \in DOMAIN new : new[p].type = IF p = n THEN "internal" ELSE mem[p].type
    BY <1>3, <1>7, <1>8, <1>11
  <1>13. RowsOK(rows')
    BY ShapeParts DEF SplitInternal
  <1>14. PICK x : x = HandedOp(w, sep, n, a, up)
    OBVIOUS
  <1>15. sep \in Nat /\ sep \in Keys
    BY <1>6, <1>9, TreeAssumption
  <1>16. /\ x \in OpSet(E) /\ x.kind = w.kind /\ x.key = w.key /\ x.row = w.row
         /\ x.path = up /\ x.page = a /\ x.sep = sep /\ x.right = n
    <2>1. D \subseteq E /\ n \in E
      BY <1>5
    <2>2. a \in E /\ up \in Seq(E)
      BY <1>3, <2>1
    <2>3. QED
      BY <1>3, <1>14, <1>15, <2>1, <2>2, HandedUp
  <1>17. ASSUME NEW m2, DOMAIN m2 = E, \A p \in D : m2[p].type = mem[p].type
         PROVE OpOK(x, y, m2)
    <2>1. ASSUME NEW i \in DOMAIN x.path PROVE m2[x.path[i]].type = "internal"
      <3>1. up[i] \in D /\ mem[up[i]].type = "internal"
        BY <1>3, <1>16
      <3>2. QED
        BY <1>16, <1>17, <3>1
    <2>2. QED
      BY <1>3, <1>9, <1>15, <1>16, <1>17, <2>1 DEF OpOK, OpSet
  <1>18. op' = [op EXCEPT ![c] = x] /\ pc' = [pc EXCEPT ![c] = y]
    <2>1. op' = [op EXCEPT ![c].sep = sep, ![c].right = n, ![c].page = a, ![c].path = up] /\ pc' = pc
      BY <1>2, <1>4, <1>9 DEF SplitInternal
    <2>2. DOMAIN op = Clients /\ pc = [d \in Clients |-> pc[d]]
      BY DEF Shape, OpsOK
    <2>3. x = [w EXCEPT !.sep = sep, !.right = n, !.page = a, !.path = up]
      BY <1>14 DEF HandedOp
    <2>4. QED
      BY <1>1, <1>2, <1>9, <2>1, <2>2, <2>3
  <1>19. PICK rt, ty : rt = root' /\ ty = "internal"
    OBVIOUS
  <1>20. rt \in E /\ UNCHANGED <<saved, misled>>
    <2>1. root' = root /\ root \in D
      BY <1>2, ShapeParts DEF SplitInternal
    <2>2. QED
      BY <1>5, <1>19, <2>1 DEF SplitInternal
  <1>21. QED
    <2>1. DOMAIN new \subseteq DOMAIN mem \cup {n} /\ n \in DOMAIN new
      BY <1>2, <1>3, <1>12
    <2>2. \A p \in DOMAIN new : WellFormed(new[p], DOMAIN mem \cup {n})
      BY <1>2, <1>5, <1>12
    <2>3. \A p \in DOMAIN new : new[p].type = IF p = n THEN ty ELSE mem[p].type
      BY <1>12, <1>19
    <2>4. \A m2 : DOMAIN m2 = DOMAIN mem \cup {n} /\ (\A p \in DOMAIN mem : m2[p].type = mem[p].type)
             => OpOK(x, y, m2)
      BY <1>2, <1>5, <1>17
    <2>5. Allocate(ty) /\ ty \in {"leaf", "internal"} /\ rt \in DOMAIN mem \cup {n}
      BY <1>1, <1>2, <1>5, <1>19, <1>20
    <2>6. QED
      BY <1>2, <1>10, <1>13, <1>18, <1>19, <1>20, <2>1, <2>2, <2>3, <2>4, <2>5, GrowStep

\* An internal page that cannot be split for want of a frame.
LEMMA SplitInternalFailsShape ==
    ASSUME Shape, NEW c \in Clients, SplitInternalFails(c)
    PROVE  Shape'
  <1>1. pc[c] = "grow" /\ op[c].path # <<>>
    BY DEF SplitInternalFails
  <1>2. PICK t, a : t = Patched(c) /\ a = Last(op[c].path)
    OBVIOUS
  <1>3. InternalOK(t, DOMAIN mem) /\ t.type = "internal" /\ a \in DOMAIN mem /\ mem[a].type = "internal"
    BY <1>1, <1>2, GrowFacts
  <1>4. PICK new, ty, n, b : new = Only(a, t) /\ ty = "internal" /\ n = NextPage /\ b = misled'
    OBVIOUS
  <1>5. DOMAIN new = {a} /\ new[a] = t
    BY <1>4 DEF Only
  <1>6. AllocateInVain(ty, new) /\ Allocate(ty) /\ Fail(c) /\ UNCHANGED <<root, rows, saved>>
    BY <1>2, <1>4 DEF SplitInternalFails, AllocateInVain
  <1>7. b
    BY <1>4 DEF SplitInternalFails
  <1>8. b \in BOOLEAN
    BY <1>4 DEF SplitInternalFails
  <1>9. \A p \in DOMAIN new : WellFormed(new[p], DOMAIN mem) /\ new[p].type = mem[p].type
    BY <1>3, <1>5 DEF WellFormed
  <1>10. ty \in {"leaf", "internal"} /\ DOMAIN new \subseteq DOMAIN mem
    BY <1>3, <1>4, <1>5
  <1>11. QED
    BY <1>4, <1>6, <1>7, <1>8, <1>9, <1>10, FailStep

\* A new root above a root that was split.
LEMMA CreateNewRootShape ==
    ASSUME Shape, NEW c \in Clients, CreateNewRoot(c)
    PROVE  Shape'
  <1>1. pc[c] = "grow" /\ Allocate("internal")
    BY DEF CreateNewRoot
  <1>2. PICK e, D, n, E, nx : /\ e = ChildCell(c) /\ D = DOMAIN mem /\ n = NextPage /\ E = D \cup {n}
                              /\ nx = op[c].right
    OBVIOUS
  <1>3. e \in InternalCell(D) /\ nx \in D /\ 0 \in D
    BY <1>1, <1>2, GrowFacts, ShapeParts
  <1>4. e \in InternalCell(E) /\ nx \in E /\ 0 \in E /\ n \in E
    BY <1>2, <1>3 DEF InternalCell
  <1>5. PICK q : q = [AddCells(Blank("internal"), <<e>>) EXCEPT !.next = nx]
    OBVIOUS
  <1>6. InternalOK(q, E)
    BY <1>4, <1>5, RootPage
  <1>7. WellFormed(q, E) /\ q.type = "internal"
    BY <1>6 DEF WellFormed, InternalOK, Sound, PageSet
  <1>8. PICK new : new = Only(n, q)
    OBVIOUS
  <1>9. DOMAIN new = {n} /\ new[n] = q
    BY <1>8 DEF Only
  <1>10. FinishPages(c, new) /\ root' = n
    BY <1>2, <1>5, <1>8 DEF CreateNewRoot
  <1>11. RowsOK(rows')
    BY ShapeParts DEF CreateNewRoot
  <1>12. PICK x, y : x = Idle /\ y = "idle"
    OBVIOUS
  <1>13. op' = [op EXCEPT ![c] = x] /\ pc' = [pc EXCEPT ![c] = y]
    BY <1>12 DEF CreateNewRoot, Finish, Goto
  <1>14. \A m2 : DOMAIN m2 = DOMAIN mem \cup {n} /\ (\A p \in DOMAIN mem : m2[p].type = mem[p].type)
             => OpOK(x, y, m2)
    BY <1>2, <1>4, <1>12, IdleOK
  <1>15. UNCHANGED <<saved, misled>>
    BY DEF CreateNewRoot
  <1>16. PICK rt, ty : rt = root' /\ ty = "internal"
    OBVIOUS
  <1>17. Allocate(ty) /\ ty \in {"leaf", "internal"} /\ rt \in DOMAIN mem \cup {n}
    BY <1>1, <1>10, <1>16
  <1>18. DOMAIN new \subseteq DOMAIN mem \cup {n} /\ n \in DOMAIN new
    BY <1>9
  <1>19. \A p \in DOMAIN new : WellFormed(new[p], DOMAIN mem \cup {n})
    BY <1>2, <1>7, <1>9
  <1>20. \A p \in DOMAIN new : new[p].type = IF p = n THEN ty ELSE mem[p].type
    BY <1>7, <1>9, <1>16
  <1>21. QED
    BY <1>2, <1>10, <1>11, <1>13, <1>14, <1>15, <1>16, <1>17, <1>18, <1>19, <1>20, GrowStep

\* A crowning that fails leaves an allocated page and a failed call behind.
LEMMA CreateNewRootFailsShape ==
    ASSUME Shape, NEW c \in Clients, CreateNewRootFails(c)
    PROVE  Shape'
  <1>1. PICK new, ty, n, b : new = <<>> /\ ty = "internal" /\ n = NextPage /\ b = misled'
    OBVIOUS
  <1>2. DOMAIN new = {}
    BY <1>1
  <1>3. AllocateInVain(ty, new) /\ Allocate(ty) /\ Fail(c) /\ UNCHANGED <<root, rows, saved>>
    BY <1>1 DEF CreateNewRootFails, AllocateInVain
  <1>4. b = misled /\ b \in BOOLEAN
    BY <1>1, ShapeParts DEF CreateNewRootFails
  <1>5. ty \in {"leaf", "internal"} /\ DOMAIN new \subseteq DOMAIN mem
    BY <1>1, <1>2
  <1>6. \A p \in DOMAIN new : WellFormed(new[p], DOMAIN mem) /\ new[p].type = mem[p].type
    BY <1>2
  <1>7. ~b => ~misled /\ \A p \in DOMAIN new : new[p] = mem[p]
    BY <1>2, <1>4
  <1>8. QED
    BY <1>1, <1>3, <1>4, <1>5, <1>6, <1>7, FailStep

\* One client's keys take other contents.
LEMMA OwnRows ==
    ASSUME NEW c, NEW f, RowsOK(f), NEW g, RowsOK(g)
    PROVE  RowsOK(Own(c, f, g))
  BY DEF RowsOK, Own

\* The pages of a transaction in the file, or taken from it again.
LEMMA CommitShape ==
    ASSUME Shape, NEW c \in Clients, Commit(c)
    PROVE  Shape'
  <1>1. /\ PagesOK(mem, disk, owner, root) /\ OpsOK(op, pc, mem)
        /\ RowsOK(rows) /\ RowsOK(saved) /\ misled \in BOOLEAN
        /\ ~misled => Clean(mem, disk, owner)
    BY DEF Shape
  <1>2. PICK m, d, o, r, w, z, f, g, b :
          /\ m = mem' /\ d = disk' /\ o = owner' /\ r = root' /\ w = op' /\ z = pc'
          /\ f = rows' /\ g = saved' /\ b = misled'
    OBVIOUS
  <1>3. m = mem /\ r = root /\ w = op /\ z = pc /\ f = rows /\ b = misled
    BY <1>2 DEF Commit
  <1>4. PICK D : D = DOMAIN mem
    OBVIOUS
  <1>5. DOMAIN disk = D /\ DOMAIN owner = D /\ \A p \in D : owner[p] \in Clients \cup {NoClient}
    BY <1>1, <1>4 DEF PagesOK
  <1>6. d = [p \in D |-> IF owner[p] = c THEN mem[p] ELSE disk[p]]
    <2>1. d = [p \in D |-> IF p \in DirtyOf(c) THEN mem[p] ELSE disk[p]]
      BY <1>2, <1>5 DEF Commit
    <2>2. \A p \in D : p \in DirtyOf(c) <=> owner[p] = c
      BY <1>5 DEF DirtyOf
    <2>3. QED
      BY <2>1, <2>2
  <1>7. o = [p \in D |-> IF owner[p] = c THEN NoClient ELSE owner[p]]
    BY <1>2, <1>5 DEF Commit
  <1>8. PagesOK(m, d, o, r)
    <2>1. DOMAIN d = D /\ d = [p \in D |-> d[p]] /\ o \in [D -> Clients \cup {NoClient}]
      BY <1>5, <1>6, <1>7
    <2>2. \A p \in D : WellFormed(mem[p], D) /\ WellFormed(d[p], D) /\ mem[p].type = d[p].type
      BY <1>1, <1>4, <1>6 DEF PagesOK
    <2>3. QED
      BY <1>1, <1>3, <1>4, <2>1, <2>2 DEF PagesOK
  <1>9. ~b => Clean(m, d, o)
    BY <1>1, <1>3, <1>4, <1>6, <1>7 DEF Clean
  <1>10. RowsOK(g)
    BY <1>1, <1>2, OwnRows DEF Commit
  <1>11. OpsOK(w, z, m) /\ RowsOK(f) /\ b \in BOOLEAN
    BY <1>1, <1>3
  <1>12. QED
    BY <1>2, <1>8, <1>9, <1>10, <1>11, ShapeMade

\* Rollback rereads the client's pages from the file and restores its saved rows.
LEMMA RollbackShape ==
    ASSUME Shape, NEW c \in Clients, Rollback(c)
    PROVE  Shape'
  <1>1. /\ PagesOK(mem, disk, owner, root) /\ OpsOK(op, pc, mem)
        /\ RowsOK(rows) /\ RowsOK(saved) /\ misled \in BOOLEAN
        /\ ~misled => Clean(mem, disk, owner)
    BY DEF Shape
  <1>2. PICK m, d, o, r, w, z, f, g, b :
          /\ m = mem' /\ d = disk' /\ o = owner' /\ r = root' /\ w = op' /\ z = pc'
          /\ f = rows' /\ g = saved' /\ b = misled'
    OBVIOUS
  <1>3. d = disk /\ r = root /\ g = saved
    BY <1>2 DEF Rollback
  <1>4. PICK D : D = DOMAIN mem
    OBVIOUS
  <1>5. DOMAIN disk = D /\ DOMAIN owner = D /\ \A p \in D : owner[p] \in Clients \cup {NoClient}
    BY <1>1, <1>4 DEF PagesOK
  <1>6. m = [p \in D |-> IF owner[p] = c THEN disk[p] ELSE mem[p]]
    <2>1. m = [p \in D |-> IF p \in DirtyOf(c) THEN disk[p] ELSE mem[p]]
      BY <1>2, <1>4 DEF Rollback
    <2>2. \A p \in D : p \in DirtyOf(c) <=> owner[p] = c
      BY <1>5 DEF DirtyOf
    <2>3. QED
      BY <2>1, <2>2
  <1>7. o = [p \in D |-> IF owner[p] = c THEN NoClient ELSE owner[p]]
    BY <1>2, <1>5 DEF Rollback
  <1>8. PagesOK(m, d, o, r) /\ DOMAIN m = D /\ \A p \in D : m[p].type = mem[p].type
    <2>1. DOMAIN m = D /\ m = [p \in D |-> m[p]] /\ o \in [D -> Clients \cup {NoClient}]
      BY <1>5, <1>6, <1>7
    <2>2. \A p \in D : WellFormed(disk[p], D) /\ WellFormed(mem[p], D) /\ mem[p].type = disk[p].type
      BY <1>1, <1>4 DEF PagesOK
    <2>3. \A p \in D : WellFormed(m[p], D) /\ m[p].type = disk[p].type /\ m[p].type = mem[p].type
      BY <1>6, <2>2
    <2>4. QED
      BY <1>1, <1>3, <1>4, <2>1, <2>2, <2>3 DEF PagesOK
  <1>9. b \in BOOLEAN /\ (~b => ~misled)
    <2>1. misled' = (misled \/ NewHighRoot(c))
      BY DEF Rollback
    <2>2. QED
      BY <1>1, <1>2, <2>1
  <1>10. ~b => Clean(m, d, o)
    BY <1>1, <1>3, <1>4, <1>6, <1>7, <1>8, <1>9 DEF Clean
  <1>11. RowsOK(f)
    BY <1>1, <1>2, OwnRows DEF Rollback
  <1>12. OpsOK(w, z, m)
    <2>1. PICK x, y : x = Idle /\ y = "idle"
      OBVIOUS
    <2>2. 0 \in DOMAIN m
      BY <1>4, <1>8, ShapeParts
    <2>3. OpOK(x, y, m)
      BY <2>1, <2>2, IdleOK
    <2>4. w = [op EXCEPT ![c] = x] /\ z = [pc EXCEPT ![c] = y]
      BY <1>2, <2>1 DEF Rollback, Finish, Goto
    <2>5. DOMAIN mem \subseteq DOMAIN m /\ \A p \in DOMAIN mem : m[p].type = mem[p].type
      BY <1>4, <1>8
    <2>6. QED
      BY <1>1, <2>3, <2>4, <2>5, OpsChanged
  <1>13. RowsOK(g)
    BY <1>1, <1>3
  <1>14. QED
    BY <1>2, <1>8, <1>9, <1>10, <1>11, <1>12, <1>13, ShapeMade

\* A new file has the shape.
LEMMA InitShape == Init => Shape
  <1> SUFFICES ASSUME Init PROVE Shape
    OBVIOUS
  <1>1. PICK m, b, q : m = mem /\ b = Blank("leaf") /\ q = [b EXCEPT !.next = NoPage]
    OBVIOUS
  <1>2. DOMAIN m = {0} /\ m[0] = q /\ m = [p \in DOMAIN m |-> m[p]] /\ disk = m
    BY <1>1 DEF Init
  <1>3. Sound(b, "leaf", LeafCell, {0} \cup {NoPage})
    BY <1>1, EmptyPages
  <1>4. LeafOK(q, {0})
    <2>1. PICK N, x : N = {0} \cup {NoPage} /\ x = NoPage
      OBVIOUS
    <2>2. Sound(q, "leaf", LeafCell, N)
      BY <1>1, <1>3, <2>1, NextSet
    <2>3. QED
      BY <2>1, <2>2 DEF LeafOK
  <1>5. Cardinality(DOMAIN m) = 1
    BY <1>2, FS_Singleton
  <1>6. PagesOK(mem, disk, owner, root)
    <2>1. owner \in [{0} -> Clients \cup {NoClient}] /\ root = 0
      BY DEF Init
    <2>2. MaxPages \in Nat /\ MaxPages >= 1
      BY TreeAssumption
    <2>3. DOMAIN m = 0..(1 - 1)
      BY <1>2
    <2>4. PICK o, r : o = owner /\ r = root
      OBVIOUS
    <2>5. PagesOK(m, m, o, r)
      BY <1>2, <1>4, <1>5, <2>1, <2>2, <2>3, <2>4 DEF PagesOK, WellFormed
    <2>6. QED
      BY <1>1, <1>2, <2>4, <2>5
  <1>7. OpsOK(op, pc, mem)
    <2>1. op = [c \in Clients |-> Idle] /\ pc = [c \in Clients |-> "idle"]
      BY DEF Init
    <2>2. PICK z : z = "idle"
      OBVIOUS
    <2>3. OpOK(Idle, z, m)
      BY <1>2, <2>2, IdleOK
    <2>4. \A c \in Clients : OpOK(op[c], pc[c], mem)
      BY <1>1, <2>1, <2>2, <2>3
    <2>5. QED
      BY <2>1, <2>4 DEF OpsOK
  <1>8. RowsOK(rows) /\ RowsOK(saved) /\ misled \in BOOLEAN
    BY DEF Init, RowsOK
  <1>9. Clean(mem, disk, owner)
    BY <1>1, <1>2 DEF Clean
  <1>10. QED
    BY <1>6, <1>7, <1>8, <1>9 DEF Shape

\* Every step keeps it.
LEMMA NextShape == Shape /\ [Next]_vars => Shape'
  <1> SUFFICES ASSUME Shape, [Next]_vars PROVE Shape'
    OBVIOUS
  <1>1. CASE UNCHANGED vars
    <2>1. UNCHANGED <<mem, disk, owner, root, op, pc, rows, saved, misled>>
      BY <1>1 DEF vars
    <2>2. QED
      BY <2>1 DEF Shape
  <1>2. CASE Next
    <2>1. PICK c \in Clients :
            \/ \E k \in Keys, kind \in Kinds, r \in Rows \cup {NoRow} : Start(c, kind, k, r)
            \/ Descend(c) \/ DescendFails(c) \/ KeyNotFound(c)
            \/ DeleteRow(c) \/ PutRow(c)
            \/ SplitLeaf(c) \/ SplitLeafFails(c)
            \/ PatchInternal(c) \/ SplitInternal(c) \/ SplitInternalFails(c)
            \/ CreateNewRoot(c) \/ CreateNewRootFails(c)
            \/ Commit(c) \/ Rollback(c)
      BY <1>2 DEF Next
    <2>2. CASE \E k \in Keys, kind \in Kinds, r \in Rows \cup {NoRow} : Start(c, kind, k, r)
      BY <2>2, StartShape
    <2>3. CASE Descend(c)
      BY <2>3, DescendShape
    <2>4. CASE DescendFails(c) \/ KeyNotFound(c)
      BY <2>4, GiveUpShape
    <2>5. CASE DeleteRow(c)
      BY <2>5, DeleteRowShape
    <2>6. CASE PutRow(c)
      BY <2>6, PutRowShape
    <2>7. CASE SplitLeaf(c)
      BY <2>7, SplitLeafShape
    <2>8. CASE SplitLeafFails(c)
      BY <2>8, SplitLeafFailsShape
    <2>9. CASE PatchInternal(c)
      BY <2>9, PatchInternalShape
    <2>10. CASE SplitInternal(c)
      BY <2>10, SplitInternalShape
    <2>11. CASE SplitInternalFails(c)
      BY <2>11, SplitInternalFailsShape
    <2>12. CASE CreateNewRoot(c)
      BY <2>12, CreateNewRootShape
    <2>13. CASE CreateNewRootFails(c)
      BY <2>13, CreateNewRootFailsShape
    <2>14. CASE Commit(c)
      BY <2>14, CommitShape
    <2>15. CASE Rollback(c)
      BY <2>15, RollbackShape
    <2>16. QED
      BY <2>1, <2>2, <2>3, <2>4, <2>5, <2>6, <2>7, <2>8, <2>9, <2>10, <2>11, <2>12, <2>13, <2>14, <2>15
  <1>3. QED
    BY <1>1, <1>2

\* The shape of a page is what TypeOK asks of it.
LEMMA PageShape ==
    ASSUME Shape, NEW p, WellFormed(p, DOMAIN mem)
    PROVE  PageOK(p)
  <1>1. PICK D : D = DOMAIN mem
    OBVIOUS
  <1>2. CASE LeafOK(p, D)
    <2>1. Sound(p, "leaf", LeafCell, D \cup {NoPage})
      BY <1>2 DEF LeafOK
    <2>2. p.type = "leaf" /\ p.cells \in Seq(LeafCell) /\ p.next \in D \cup {NoPage} /\ FreeSpace(p) >= 0
      BY <2>1 DEF Sound, PageSet
    <2>3. \A i \in DOMAIN p.cells : p.cells[i].key \in Keys /\ p.cells[i].row \in Rows
      <3>1. \A i \in DOMAIN p.cells : p.cells[i] \in LeafCell
        BY <2>2
      <3>2. QED
        BY <3>1 DEF LeafCell
    <2>4. QED
      BY <1>1, <2>2, <2>3 DEF PageOK
  <1>3. CASE InternalOK(p, D)
    <2>1. p.type = "internal" /\ p.cells \in Seq(InternalCell(D)) /\ p.next \in D /\ FreeSpace(p) >= 0
      BY <1>3 DEF InternalOK, Sound, PageSet
    <2>2. \A i \in DOMAIN p.cells : p.cells[i].key \in Keys /\ p.cells[i].child \in D
      <3>1. \A i \in DOMAIN p.cells : p.cells[i] \in InternalCell(D)
        BY <2>1
      <3>2. QED
        BY <3>1 DEF InternalCell
    <2>3. QED
      BY <1>1, <2>1, <2>2 DEF PageOK
  <1>4. QED
    BY <1>1, <1>2, <1>3 DEF WellFormed

\* The invariant says what TypeOK says, ...
LEMMA ShapeType == Shape => TypeOK
  <1> SUFFICES ASSUME Shape PROVE TypeOK
    OBVIOUS
  <1>1. PagesOK(mem, disk, owner, root) /\ OpsOK(op, pc, mem) /\ RowsOK(rows) /\ RowsOK(saved)
    BY DEF Shape
  <1>2. \A p \in DOMAIN mem : PageOK(mem[p]) /\ PageOK(disk[p])
    BY <1>1, PageShape DEF PagesOK
  <1>3. /\ DOMAIN mem = 0..(NextPage - 1) /\ DOMAIN disk = DOMAIN mem /\ NextPage <= MaxPages
        /\ owner \in [DOMAIN mem -> Clients \cup {NoClient}] /\ root \in DOMAIN mem
    BY <1>1 DEF PagesOK, NextPage
  <1>4. pc \in [Clients -> {"idle", "descend", "grow", "failed"}]
    BY <1>1 DEF OpsOK, OpOK
  <1>5. rows \in [Keys -> Rows \cup {NoRow}] /\ saved \in [Keys -> Rows \cup {NoRow}]
    BY <1>1 DEF RowsOK
  <1>6. QED
    BY <1>2, <1>3, <1>4, <1>5 DEF TypeOK

\* ... and that clean frames show the file.
LEMMA ShapeClean == Shape => CleanMatchesFile
  BY DEF Shape, Clean, CleanMatchesFile

\* The pages, the file header and the operations of any clients have their
\* types, and no split, insertion or failed split lets the cells of a page run
\* into its slots (AddCell and InsertCellAt check the room, page.go).
THEOREM TypeCorrect == Spec => []TypeOK
  <1>1. Spec => []Shape
    BY InitShape, NextShape, PTL DEF Spec
  <1>2. QED
    BY <1>1, ShapeType, PTL

\* A frame that is not dirty shows the page of the file, for any number of
\* clients and pages and whichever page could not be fetched, unless the failure
\* met one of the places that cannot be undone (DiscardTxn, buffer.go:130).
THEOREM CleanMatchesFileTheorem == Spec => []CleanMatchesFile
  <1>1. Spec => []Shape
    BY InitShape, NextShape, PTL DEF Spec
  <1>2. QED
    BY <1>1, ShapeClean, PTL

=============================================================================
