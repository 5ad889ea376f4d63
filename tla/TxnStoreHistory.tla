-------------------------- MODULE TxnStoreHistory --------------------------
(***************************************************************************)
(* Facts about numbers, sequences and the operators of Wal and BufferPool  *)
(* that the proofs about TxnStore rest on; TypeOK and PinsCounted of       *)
(* TxnStore: the shapes of the pool, the log and the transactions, and the *)
(* pin counts, which keep each other true: a pin is only released by a     *)
(* client that is counted.                                                 *)
(*                                                                         *)
(* What the log says of transactions, as sets of records: the outcomes     *)
(* that Commit and Rollback reported, while the log file can be read       *)
(* (Readable).                                                             *)
(*                                                                         *)
(* And what the transactions of one process leave in the log, and what     *)
(* their locks have to do with it: who has changed a row holds the lock of *)
(* its table until his COMMIT is in the file or his changes are discarded, *)
(* so that the records of a page are ordered by transaction.               *)
(***************************************************************************)
EXTENDS TxnStore, FiniteSetTheorems, SequenceTheorems, WellFoundedInduction, TLAPS

-----------------------------------------------------------------------------
(* Numbers.                                                                *)

\* A nonempty set of natural numbers with an upper bound has a greatest element.
LEMMA MaxExists ==
    ASSUME NEW T \in SUBSET Nat, T # {}, NEW b \in Nat, \A n \in T : n <= b
    PROVE  \E m \in T : \A n \in T : n <= m
  <1> DEFINE D == {b - n : n \in T}
             R == {ss \in Nat \X Nat : ss[1] < ss[2]}
  <1>1. IsWellFoundedOn(R, Nat)
    BY NatLessThanWellFounded DEF OpToRel
  <1>2. D \subseteq Nat /\ D # {}
    <2>1. \A n \in T : b - n \in Nat
      OBVIOUS
    <2>2. PICK n \in T : TRUE
      OBVIOUS
    <2>3. QED
      BY <2>1, <2>2
  <1>3. PICK d \in D : \A e \in D : ~ (<<e, d>> \in R)
    <2> HIDE DEF D, R
    <2>1. QED
      BY <1>1, <1>2, WFMin
  <1>4. PICK m \in T : d = b - m
    OBVIOUS
  <1>5. ASSUME NEW n \in T PROVE n <= m
    <2>1. b - n \in Nat /\ b - n \in D /\ d \in Nat
      BY <1>2
    <2>2. ~(<<b - n, d>> \in R)
      BY <1>3, <2>1
    <2>3. ~(b - n < d)
      BY <2>1, <2>2
    <2>4. QED
      BY <1>4, <2>3
  <1>6. QED
    BY <1>5

\* A nonempty set of natural numbers has a least element.
LEMMA MinExists ==
    ASSUME NEW T \in SUBSET Nat, T # {}
    PROVE  \E m \in T : \A n \in T : m <= n
  <1> DEFINE R == {ss \in Nat \X Nat : ss[1] < ss[2]}
  <1>1. IsWellFoundedOn(R, Nat)
    BY NatLessThanWellFounded DEF OpToRel
  <1>2. PICK m \in T : \A n \in T : ~ (<<n, m>> \in R)
    <2> HIDE DEF R
    <2>1. QED
      BY <1>1, WFMin
  <1>3. ASSUME NEW n \in T PROVE m <= n
    <2>1. n \in Nat /\ m \in Nat /\ (n < m => <<n, m>> \in R)
      OBVIOUS
    <2>2. QED
      BY <1>2, <2>1
  <1>4. QED
    BY <1>3

-----------------------------------------------------------------------------
(* Sequences that list the elements of a set, each once.                   *)

Lists(s, S) ==
    /\ s \in Seq(S)
    /\ \A p \in S : \E i \in 1..Len(s) : s[i] = p
    /\ \A i, j \in 1..Len(s) : s[i] = s[j] => i = j

\* What RemoveAt leaves of a sequence.
LEMMA RemoveAtFacts ==
    ASSUME NEW S, NEW s \in Seq(S), NEW i \in 1..Len(s)
    PROVE  /\ RemoveAt(s, i) \in Seq(S) /\ Len(RemoveAt(s, i)) = Len(s) - 1
           /\ \A k \in 1..Len(s) - 1 :
                RemoveAt(s, i)[k] = IF k < i THEN s[k] ELSE s[k + 1]
  <1> DEFINE a == SubSeq(s, 1, i - 1)
             b == SubSeq(s, i + 1, Len(s))
  <1>1. /\ Len(s) \in Nat /\ i \in Nat /\ 1 <= i /\ i <= Len(s)
        /\ \A k \in 1..Len(s) : s[k] \in S
    BY LenProperties, ElementOfSeq
  <1>2. /\ a \in Seq(S) /\ Len(a) = i - 1
        /\ \A k \in 1..i - 1 : a[k] = s[k]
    <2>1. /\ a \in Seq(S) /\ Len(a) = IF 1 <= i - 1 THEN i - 1 - 1 + 1 ELSE 0
          /\ \A k \in 1..i - 1 - 1 + 1 : a[k] = s[1 + k - 1]
      BY <1>1, SubSeqProperties
    <2>2. QED
      BY <1>1, <2>1
  <1>3. /\ b \in Seq(S) /\ Len(b) = Len(s) - i
        /\ \A k \in 1..Len(s) - i : b[k] = s[i + k]
    <2>1. /\ b \in Seq(S) /\ Len(b) = IF i + 1 <= Len(s) THEN Len(s) - (i + 1) + 1 ELSE 0
          /\ \A k \in 1..Len(s) - (i + 1) + 1 : b[k] = s[i + 1 + k - 1]
      BY <1>1, SubSeqProperties
    <2>2. QED
      BY <1>1, <2>1
  <1>4. /\ a \o b \in Seq(S) /\ Len(a \o b) = Len(a) + Len(b)
        /\ \A k \in 1..Len(a) + Len(b) : (a \o b)[k] = IF k <= Len(a) THEN a[k] ELSE b[k - Len(a)]
    BY <1>2, <1>3, ConcatProperties
  <1>5. RemoveAt(s, i) = a \o b
    BY DEF RemoveAt
  <1> HIDE DEF a, b
  <1>6. ASSUME NEW k \in 1..Len(s) - 1
        PROVE  (a \o b)[k] = IF k < i THEN s[k] ELSE s[k + 1]
    <2>1. k \in 1..Len(a) + Len(b)
      BY <1>1, <1>2, <1>3
    <2>2. CASE k < i
      BY <1>1, <1>2, <1>4, <2>1, <2>2
    <2>3. CASE ~(k < i)
      <3>1. k - Len(a) \in 1..Len(s) - i /\ i + (k - Len(a)) = k + 1 /\ ~(k <= Len(a))
        BY <1>1, <1>2, <2>3
      <3>2. QED
        BY <1>3, <1>4, <2>1, <2>3, <3>1
    <2>4. QED
      BY <2>2, <2>3
  <1>7. a \o b \in Seq(S) /\ Len(a \o b) = Len(s) - 1
    BY <1>1, <1>2, <1>3, <1>4
  <1>8. QED
    BY <1>5, <1>6, <1>7

\* evict takes one page off the list.
LEMMA RemoveLists ==
    ASSUME NEW S, NEW s, Lists(s, S), NEW i \in 1..Len(s)
    PROVE  Lists(RemoveAt(s, i), S \ {s[i]}) /\ Len(RemoveAt(s, i)) = Len(s) - 1
  <1> DEFINE t == RemoveAt(s, i)
             n == Len(s)
  <1>1. /\ s \in Seq(S) /\ n \in Nat /\ i \in Nat /\ 1 <= i /\ i <= n
        /\ \A k \in 1..n : s[k] \in S
    BY LenProperties, ElementOfSeq DEF Lists
  <1>2. /\ t \in Seq(S) /\ Len(t) = n - 1
        /\ \A k \in 1..n - 1 : t[k] = IF k < i THEN s[k] ELSE s[k + 1]
    BY <1>1, RemoveAtFacts
  <1>3. \A j, k \in 1..n : s[j] = s[k] => j = k
    BY DEF Lists
  <1> HIDE DEF t, n
  <1>4. ASSUME NEW k \in 1..n - 1 PROVE t[k] \in S \ {s[i]}
    <2>1. k \in 1..n /\ k + 1 \in 1..n /\ i \in 1..n
      BY <1>1
    <2>2. \/ k < i /\ t[k] = s[k] /\ k # i
          \/ ~(k < i) /\ t[k] = s[k + 1] /\ k + 1 # i
      BY <1>1, <1>2, <2>1
    <2>3. QED
      BY <1>1, <1>3, <2>1, <2>2
  <1>5. t \in Seq(S \ {s[i]})
    BY <1>1, <1>2, <1>4
  <1>6. \A j, k \in 1..n - 1 : t[j] = t[k] => j = k
    BY <1>1, <1>2, <1>3
  <1>7. ASSUME NEW p \in S \ {s[i]} PROVE \E k \in 1..n - 1 : t[k] = p
    <2>1. PICK j \in 1..n : s[j] = p
      BY DEF Lists, n
    <2>2. CASE j < i
      BY <1>1, <1>2, <2>1, <2>2
    <2>3. CASE j > i
      <3>1. j - 1 \in 1..n - 1 /\ ~(j - 1 < i) /\ j - 1 + 1 = j
        BY <1>1, <2>3
      <3>2. QED
        BY <1>2, <2>1, <3>1
    <2>4. QED
      BY <1>1, <2>1, <2>2, <2>3
  <1>8. QED
    BY <1>2, <1>5, <1>6, <1>7 DEF Lists, t, n

\* PushFront of a page that is not on the list.
LEMMA PushLists ==
    ASSUME NEW S, NEW s, Lists(s, S), NEW p, p \notin S
    PROVE  Lists(<<p>> \o s, S \cup {p}) /\ Len(<<p>> \o s) = Len(s) + 1
  <1> DEFINE T == S \cup {p}
             t == <<p>> \o s
             n == Len(s)
  <1>1. s \in Seq(T) /\ <<p>> \in Seq(T) /\ Len(<<p>>) = 1 /\ <<p>>[1] = p /\ n \in Nat
    BY SeqMonotonic, LenProperties DEF Lists
  <1>2. /\ t \in Seq(T) /\ Len(t) = 1 + n
        /\ \A k \in 1..1 + n : t[k] = IF k <= 1 THEN <<p>>[k] ELSE s[k - 1]
    BY <1>1, ConcatProperties
  <1>3. /\ \A k \in 1..n : s[k] \in S
        /\ \A j, k \in 1..n : s[j] = s[k] => j = k
        /\ \A q \in S : \E k \in 1..n : s[k] = q
    BY ElementOfSeq DEF Lists
  <1> HIDE DEF t, n, T
  <1>4. t[1] = p /\ \A k \in 2..1 + n : k - 1 \in 1..n /\ t[k] = s[k - 1]
    BY <1>1, <1>2
  <1>5. ASSUME NEW j \in 1..1 + n, NEW k \in 1..1 + n, t[j] = t[k] PROVE j = k
    <2>1. \A l \in 2..1 + n : t[l] # p
      BY <1>3, <1>4
    <2>2. /\ j = 1 \/ j \in 2..1 + n
          /\ k = 1 \/ k \in 2..1 + n
      BY <1>1
    <2>3. CASE j = 1 \/ k = 1
      BY <1>4, <1>5, <2>1, <2>2, <2>3
    <2>4. CASE j \in 2..1 + n /\ k \in 2..1 + n
      <3>1. j - 1 = k - 1
        BY <1>3, <1>4, <1>5, <2>4
      <3>2. QED
        BY <1>1, <3>1
    <2>5. QED
      BY <2>2, <2>3, <2>4
  <1>6. ASSUME NEW q \in T PROVE \E k \in 1..1 + n : t[k] = q
    <2>1. CASE q = p
      BY <1>1, <1>4, <2>1
    <2>2. CASE q \in S
      <3>1. PICK k \in 1..n : s[k] = q
        BY <1>3, <2>2
      <3>2. k + 1 \in 2..1 + n /\ k + 1 - 1 = k /\ k + 1 \in 1..1 + n
        BY <1>1
      <3>3. t[k + 1] = q
        BY <1>4, <3>1, <3>2
      <3>4. QED
        BY <3>2, <3>3
    <2>3. QED
      BY <2>1, <2>2 DEF T
  <1>7. Lists(t, T) /\ Len(t) = n + 1
    BY <1>1, <1>2, <1>5, <1>6 DEF Lists
  <1>8. QED
    BY <1>7 DEF T, t, n

-----------------------------------------------------------------------------
(* Log records.                                                            *)

Lsns == {n \in Nat : n < MaxLSN}
EndRecs == [lsn : Lsns, txn : Uids, op : {"commit", "abort"}, uid : Uids]
ChangeRecs(p) == [lsn : Lsns, txn : Uids, op : {"change"}, page : {p}, img : Image(p),
                  uid : Uids, row : RowsOn(p)]
Recs == EndRecs \cup UNION {ChangeRecs(p) : p \in Pages}

\* The parts of a record.
LEMMA RecFacts ==
    ASSUME NEW x \in Recs
    PROVE  /\ x.lsn \in Lsns /\ x.txn \in Uids /\ x.uid \in Uids
           /\ x.op \in {"change", "commit", "abort"}
           /\ x.op = "change" => /\ x.page \in Pages /\ x.row \in RowsOn(x.page)
                                /\ x.img \in Image(x.page)
                                /\ x.row \in Rows /\ PageOf[x.row] = x.page
  <1>1. CASE x \in EndRecs
    BY <1>1 DEF EndRecs
  <1>2. ASSUME NEW p \in Pages, x \in ChangeRecs(p)
        PROVE  /\ x.lsn \in Lsns /\ x.txn \in Uids /\ x.uid \in Uids
               /\ x.op = "change" /\ x.page = p /\ x.row \in RowsOn(p) /\ x.img \in Image(p)
    BY <1>2 DEF ChangeRecs
  <1>3. QED
    BY <1>1, <1>2 DEF Recs, RowsOn

\* The records that finishPage and Manager append.
LEMMA ChangeRecFacts ==
    ASSUME NEW t \in Uids, NEW p \in Pages, NEW m \in Image(p), NEW u \in Uids,
           NEW r \in RowsOn(p), nextLSN \in Nat, nextLSN < MaxLSN
    PROVE  /\ ChangeRec(t, p, m, u, r) \in Recs
           /\ ChangeRec(t, p, m, u, r).lsn = nextLSN /\ ChangeRec(t, p, m, u, r).txn = t
           /\ ChangeRec(t, p, m, u, r).op = "change" /\ ChangeRec(t, p, m, u, r).page = p
           /\ ChangeRec(t, p, m, u, r).img = m /\ ChangeRec(t, p, m, u, r).uid = u
           /\ ChangeRec(t, p, m, u, r).row = r
  BY DEF ChangeRec, ChangeRecs, Recs, Lsns

\* The fields of a COMMIT or ABORT record.
LEMMA EndRecFacts ==
    ASSUME NEW t \in Uids, NEW op \in {"commit", "abort"}, NEW u \in Uids,
           nextLSN \in Nat, nextLSN < MaxLSN
    PROVE  /\ EndRec(t, op, u) \in Recs
           /\ EndRec(t, op, u).lsn = nextLSN /\ EndRec(t, op, u).txn = t
           /\ EndRec(t, op, u).op = op /\ EndRec(t, op, u).uid = u
  BY DEF EndRec, EndRecs, Recs, Lsns

\* n records of the buffer are found in the file behind those that were there.
Grown(n) ==
    /\ n \in 0..Len(walBuf)
    /\ walFile' \in Seq(Recs) /\ Len(walFile') = Len(walFile) + n
    /\ \A i \in 1..Len(walFile) : walFile'[i] = walFile[i]
    /\ \A k \in 1..n : walFile'[Len(walFile) + k] = walBuf[k]

\* A write to a log that can be read afterwards; a garbled log stays garbled.
LEMMA WriteFacts ==
    ASSUME walFile \in Seq(Recs), walBuf \in Seq(Recs),
           walTail \in {"whole", "header", "data", "garbled"},
           NEW n \in 0..Len(walBuf), NEW left \in {"whole", "header", "data"}, Write(n, left)
    PROVE  /\ walFile' \in Seq(Recs)
           /\ walTail' \in {"whole", "header", "data", "garbled"}
           /\ walTail' # "garbled" => walTail # "garbled" /\ Grown(n)
  <1> DEFINE s == SubSeq(walBuf, 1, n)
  <1>1. Len(walFile) \in Nat /\ Len(walBuf) \in Nat /\ n \in Nat /\ n <= Len(walBuf)
        /\ \A i \in 1..n : walBuf[i] \in Recs
    BY LenProperties, ElementOfSeq
  <1>2. s \in Seq(Recs) /\ Len(s) = n /\ \A k \in 1..n : s[k] = walBuf[k]
    <2>1. /\ s \in Seq(Recs) /\ Len(s) = IF 1 <= n THEN n - 1 + 1 ELSE 0
          /\ \A k \in 1..n - 1 + 1 : s[k] = walBuf[1 + k - 1]
      BY <1>1, SubSeqProperties
    <2>2. QED
      BY <1>1, <2>1
  <1> HIDE DEF s
  <1>3. /\ walFile \o s \in Seq(Recs) /\ Len(walFile \o s) = Len(walFile) + n
        /\ \A i \in 1..Len(walFile) + n :
             (walFile \o s)[i] = IF i <= Len(walFile) THEN walFile[i] ELSE s[i - Len(walFile)]
    BY <1>2, ConcatProperties
  <1>4. walFile' = (IF walTail = "whole" THEN walFile \o s ELSE walFile) /\ walFile' \in Seq(Recs)
    BY <1>3 DEF Write, s
  <1>5. /\ walTail' \in {"whole", "header", "data", "garbled"}
        /\ walTail' # "garbled" => walTail # "garbled" /\ (walTail # "whole" => n = 0)
    BY DEF Write
  <1>6. ASSUME walTail = "whole" PROVE Grown(n)
    <2>1. \A i \in 1..Len(walFile) : i \in 1..Len(walFile) + n /\ i <= Len(walFile)
      BY <1>1
    <2>2. \A k \in 1..n : /\ Len(walFile) + k \in 1..Len(walFile) + n
                         /\ ~(Len(walFile) + k <= Len(walFile))
                         /\ Len(walFile) + k - Len(walFile) = k
      BY <1>1
    <2>3. walFile' = walFile \o s
      BY <1>4, <1>6
    <2>4. \A i \in 1..Len(walFile) : walFile'[i] = walFile[i]
      BY <1>3, <2>1, <2>3
    <2>5. \A k \in 1..n : walFile'[Len(walFile) + k] = walBuf[k]
      BY <1>2, <1>3, <2>2, <2>3
    <2>6. QED
      BY <1>3, <2>3, <2>4, <2>5 DEF Grown
  <1>7. ASSUME n = 0, walTail # "whole" PROVE Grown(n)
    BY <1>1, <1>4, <1>7 DEF Grown
  <1>8. QED
    BY <1>4, <1>5, <1>6, <1>7

\* RedoImage picks a record with the highest LSN, if there is any record.
LEMMA RedoFacts ==
    ASSUME walFile \in Seq(Recs), NEW p \in Pages, NEW d
    PROVE  \/ Redoable(p) = {} /\ RedoImage(p, d) = d
           \/ \E i \in Redoable(p) : /\ RedoImage(p, d) = walFile[i].img
                                    /\ \A j \in Redoable(p) : walFile[j].lsn <= walFile[i].lsn
  <1> DEFINE R == Redoable(p)
             Best(i) == \A j \in R : \/ walFile[j].lsn < walFile[i].lsn
                                     \/ walFile[j].lsn = walFile[i].lsn /\ i <= j
  <1>1. R \subseteq Nat /\ \A i \in R : walFile[i].lsn \in Nat /\ walFile[i].lsn <= MaxLSN
    <2>1. R \subseteq 1..Len(walFile) /\ Len(walFile) \in Nat
      BY LenProperties DEF Redoable
    <2>2. \A i \in R : walFile[i] \in Recs
      BY <2>1, ElementOfSeq
    <2>3. \A i \in R : walFile[i].lsn \in Lsns
      BY <2>2, RecFacts
    <2>4. QED
      BY <2>1, <2>3, StoreAssumption DEF Lsns
  <1>2. CASE R = {}
    BY <1>2 DEF RedoImage
  <1>3. CASE R # {}
    <2> DEFINE L == {walFile[i].lsn : i \in R}
    <2>1. PICK m \in L : \A n \in L : n <= m
      <3>1. L \in SUBSET Nat /\ L # {} /\ \A n \in L : n <= MaxLSN
        BY <1>1, <1>3
      <3> HIDE DEF L
      <3>2. QED
        BY <3>1, MaxExists, StoreAssumption
    <2> DEFINE T == {i \in R : walFile[i].lsn = m}
    <2>2. PICK k \in T : \A n \in T : k <= n
      <3>1. T \in SUBSET Nat /\ T # {}
        BY <1>1, <2>1
      <3> HIDE DEF T
      <3>2. QED
        BY <3>1, MinExists
    <2>3. k \in R /\ Best(k)
      <3>1. k \in R /\ walFile[k].lsn = m
        OBVIOUS
      <3>2. ASSUME NEW j \in R
            PROVE  \/ walFile[j].lsn < walFile[k].lsn
                   \/ walFile[j].lsn = walFile[k].lsn /\ k <= j
        <4>1. walFile[j].lsn \in L /\ (walFile[j].lsn = m => j \in T)
          OBVIOUS
        <4>2. walFile[j].lsn <= m /\ (walFile[j].lsn = m => k <= j)
          BY <2>1, <2>2, <4>1
        <4>3. QED
          BY <1>1, <3>1, <4>2
      <3> HIDE DEF L, T, R
      <3>3. QED
        BY <3>1, <3>2
    <2> DEFINE b == CHOOSE i \in R : Best(i)
    <2>4. b \in R /\ Best(b)
      BY <2>3
    <2>5. RedoImage(p, d) = walFile[b].img
      BY <1>3 DEF RedoImage
    <2> HIDE DEF b
    <2>6. \A j \in R : walFile[j].lsn <= walFile[b].lsn
      BY <1>1, <2>4
    <2>7. QED
      BY <2>4, <2>5, <2>6
  <1>4. QED
    BY <1>2, <1>3

\* What Recover writes to a page is an image of that page.
LEMMA RedoImageType ==
    ASSUME walFile \in Seq(Recs), NEW p \in Pages, NEW d \in Image(p)
    PROVE  RedoImage(p, d) \in Image(p)
  <1>1. ASSUME NEW i \in Redoable(p) PROVE walFile[i].img \in Image(p)
    <2>1. i \in 1..Len(walFile) /\ walFile[i].op = "change" /\ walFile[i].page = p
      BY LenProperties DEF Redoable
    <2>2. QED
      BY <2>1, ElementOfSeq, RecFacts
  <1>2. QED
    BY <1>1, RedoFacts

-----------------------------------------------------------------------------
(* Shapes and pin counts.                                                  *)

Frame(p) == [img : Image(p), pin : Nat, dirty : BOOLEAN, txn : 0..MaxTxns]

PoolTypes ==
    /\ disk = [p \in Pages |-> disk[p]] /\ \A p \in Pages : disk[p] \in Image(p)
    /\ frames = [p \in Cached |-> frames[p]] /\ \A p \in Cached : frames[p] \in Frame(p)
    /\ Cached \subseteq Pages /\ IsFiniteSet(Cached) /\ Cardinality(Cached) <= PoolSize
    /\ Lists(lru, Cached) /\ Len(lru) = Cardinality(Cached)

LogTypes ==
    /\ walFile \in Seq(Recs) /\ walBuf \in Seq(Recs)
    /\ walTail \in {"whole", "header", "data", "garbled"}
    /\ nextLSN \in 0..MaxLSN

TxnTypes ==
    /\ nextTxnID \in 0..uids
    /\ wlock \in [Tables -> 0..MaxTxns] /\ rlock \in [Tables -> SUBSET Uids]
    /\ pc \in [Clients -> PCs]
    /\ uid \in [Clients -> 0..MaxTxns] /\ txnID \in [Clients -> 0..MaxTxns]
    /\ at = [c \in Clients |-> at[c]] /\ \A c \in Clients : at[c] \in Rows \cup Pages \cup {0}
    /\ up \in BOOLEAN /\ boots \in 1..MaxBoots /\ uids \in 0..MaxTxns
    /\ wrote \in [Uids -> SUBSET Rows] /\ acked \subseteq Uids /\ undone \subseteq Uids

\* Who is at work, and on what.
WorkTypes ==
    /\ ~up => boots < MaxBoots
    /\ \A c \in Clients :
         /\ pc[c] # "idle" => up /\ uid[c] # 0 /\ txnID[c] # 0
         /\ pc[c] \in {"fetched", "changed", "logged"} => at[c] \in Rows
         /\ pc[c] = "reading" => at[c] \in Pages

Shapes == PoolTypes /\ LogTypes /\ TxnTypes /\ WorkTypes

-----------------------------------------------------------------------------
(* The pool.                                                               *)

\* FetchPage pins the page, brings it into the pool if it was not there, and
\* takes at most one page out that is neither pinned nor dirty.
LEMMA FetchFacts ==
    ASSUME PoolTypes, NEW p \in Pages, FetchPage(p)
    PROVE  /\ PoolTypes' /\ disk' = disk /\ p \in Cached'
           /\ p \in Cached => frames'[p] = [frames[p] EXCEPT !.pin = @ + 1]
           /\ p \notin Cached => frames'[p] = PinnedFrame(p)
           /\ \A q \in Cached' : q # p => q \in Cached /\ frames'[q] = frames[q]
           /\ \A q \in Cached : q \notin Cached' => frames[q].pin = 0 /\ ~frames[q].dirty
  <1> USE PoolAssumption
  <1>0. Len(lru) \in Nat /\ DOMAIN lru = 1..Len(lru) /\ \A i \in 1..Len(lru) : lru[i] \in Cached
    BY LenProperties, ElementOfSeq DEF PoolTypes, Lists
  <1>00. PinnedFrame(p) \in Frame(p)
    <2>1. disk[p] \in Image(p) /\ 0 \in 0..MaxTxns
      BY StoreAssumption DEF PoolTypes
    <2>2. QED
      BY <2>1 DEF PinnedFrame, Frame
  <1>1. CASE FetchHit(p)
    <2>1. /\ p \in Cached /\ disk' = disk /\ lru' = MoveToFront(p)
          /\ frames' = [frames EXCEPT ![p].pin = @ + 1]
      BY <1>1 DEF FetchHit
    <2>2. /\ Cached' = Cached /\ frames' = [q \in Cached |-> frames'[q]]
          /\ frames'[p] = [frames[p] EXCEPT !.pin = @ + 1]
          /\ \A q \in Cached : q # p => frames'[q] = frames[q]
      BY <2>1 DEF PoolTypes, Cached
    <2>3. frames'[p] \in Frame(p)
      <3>1. frames[p] \in Frame(p)
        BY <2>1 DEF PoolTypes
      <3>2. QED
        BY <2>2, <3>1 DEF Frame
    <2> DEFINE i == CHOOSE i \in DOMAIN lru : lru[i] = p
    <2>4. i \in 1..Len(lru) /\ lru[i] = p
      BY <1>0, <2>1 DEF PoolTypes, Lists
    <2>5. lru' = <<p>> \o RemoveAt(lru, i)
      BY <2>1 DEF MoveToFront
    <2> HIDE DEF i
    <2>6. Lists(RemoveAt(lru, i), Cached \ {p}) /\ Len(RemoveAt(lru, i)) = Len(lru) - 1
      BY <2>4, RemoveLists DEF PoolTypes
    <2>7. Lists(lru', (Cached \ {p}) \cup {p}) /\ Len(lru') = Len(lru) - 1 + 1
      BY <2>5, <2>6, PushLists
    <2>8. (Cached \ {p}) \cup {p} = Cached
      BY <2>1
    <2>9. PoolTypes'
      <3>0. Len(lru) = Cardinality(Cached) /\ (Cached \ {p}) \cup {p} = Cached'
        BY <2>2, <2>8 DEF PoolTypes
      <3>1. Lists(lru', Cached') /\ Len(lru') = Cardinality(Cached)
        <4>1. Len(lru) - 1 + 1 = Len(lru)
          BY <1>0
        <4>2. QED
          BY <2>7, <3>0, <4>1
      <3>2. \A q \in Cached' : frames'[q] \in Frame(q)
        BY <2>2, <2>3 DEF PoolTypes
      <3>3. QED
        BY <2>1, <2>2, <3>1, <3>2 DEF PoolTypes
    <2>10. QED
      BY <2>1, <2>2, <2>9
  <1>2. CASE FetchMiss(p)
    <2>1. /\ p \notin Cached /\ disk' = disk /\ lru' = <<p>> \o lru
          /\ Cardinality(Cached) < PoolSize
          /\ frames' = [q \in Cached \cup {p} |-> IF q = p THEN PinnedFrame(p) ELSE frames[q]]
      BY <1>2 DEF FetchMiss
    <2>2. /\ Cached' = Cached \cup {p} /\ frames' = [q \in Cached' |-> frames'[q]]
          /\ frames'[p] = PinnedFrame(p)
          /\ \A q \in Cached : frames'[q] = frames[q]
      BY <2>1 DEF Cached
    <2>3. Lists(lru', Cached') /\ Len(lru') = Len(lru) + 1
      BY <2>1, <2>2, PushLists DEF PoolTypes
    <2>4. /\ IsFiniteSet(Cached') /\ Cardinality(Cached') = Cardinality(Cached) + 1
          /\ Cardinality(Cached) \in Nat
      BY <2>1, <2>2, FS_AddElement, FS_CardinalityType DEF PoolTypes
    <2>5. PoolTypes'
      BY <1>00, <2>1, <2>2, <2>3, <2>4 DEF PoolTypes
    <2>6. QED
      BY <2>1, <2>2, <2>5
  <1>3. CASE FetchEvict(p)
    <2>1. PICK i \in DOMAIN lru :
            /\ IsVictim(i)
            /\ frames' = [q \in (Cached \ {lru[i]}) \cup {p} |->
                            IF q = p THEN PinnedFrame(p) ELSE frames[q]]
            /\ lru' = <<p>> \o RemoveAt(lru, i)
      BY <1>3 DEF FetchEvict
    <2> DEFINE v == lru[i]
    <2>2. p \notin Cached /\ disk' = disk /\ i \in 1..Len(lru) /\ v \in Cached
      BY <1>0, <1>3 DEF FetchEvict
    <2>3. frames[v].pin = 0 /\ ~frames[v].dirty
      BY <2>1 DEF IsVictim, Evictable
    <2>4. Lists(RemoveAt(lru, i), Cached \ {v}) /\ Len(RemoveAt(lru, i)) = Len(lru) - 1
      BY <2>2, RemoveLists DEF PoolTypes
    <2> HIDE DEF v
    <2>5. /\ Cached' = (Cached \ {v}) \cup {p} /\ frames' = [q \in Cached' |-> frames'[q]]
          /\ frames'[p] = PinnedFrame(p)
          /\ \A q \in Cached \ {v} : frames'[q] = frames[q]
      BY <2>1, <2>2 DEF Cached, v
    <2>6. Lists(lru', Cached') /\ Len(lru') = Len(lru) - 1 + 1
      BY <2>1, <2>2, <2>4, <2>5, PushLists
    <2>7. /\ IsFiniteSet(Cached') /\ Cardinality(Cached') = Cardinality(Cached) - 1 + 1
          /\ Cardinality(Cached) \in Nat
      <3>1. /\ IsFiniteSet(Cached \ {v}) /\ Cardinality(Cached \ {v}) = Cardinality(Cached) - 1
            /\ Cardinality(Cached) \in Nat
        BY <2>2, FS_RemoveElement, FS_CardinalityType DEF PoolTypes
      <3>2. QED
        BY <2>2, <2>5, <3>1, FS_AddElement
    <2>8. PoolTypes'
      BY <1>0, <1>00, <2>1, <2>2, <2>5, <2>6, <2>7 DEF PoolTypes
    <2>9. QED
      BY <2>2, <2>3, <2>5, <2>8
  <1>4. QED
    BY <1>1, <1>2, <1>3 DEF FetchPage

\* UnpinPage takes a pin from one frame; a dirty unpin marks it.
LEMMA UnpinDirtyFacts ==
    ASSUME PoolTypes, NEW p \in Cached, frames[p].pin > 0, NEW t \in 0..MaxTxns, UnpinPage(p, TRUE, t)
    PROVE  /\ PoolTypes' /\ disk' = disk /\ Cached' = Cached
           /\ frames'[p].img = frames[p].img /\ frames'[p].pin = frames[p].pin - 1
           /\ frames'[p].dirty /\ frames'[p].txn = t
           /\ \A q \in Cached : q # p => frames'[q] = frames[q]
  <1>1. /\ frames' = [frames EXCEPT ![p].pin = @ - 1, ![p].dirty = TRUE, ![p].txn = t]
        /\ disk' = disk /\ lru' = lru
    BY DEF UnpinPage
  <1>2. /\ frames[p] \in [img : Image(p), pin : Nat, dirty : BOOLEAN, txn : 0..MaxTxns]
        /\ frames = [q \in Cached |-> frames[q]]
    BY DEF PoolTypes, Frame
  <1>3. /\ Cached' = Cached /\ frames' = [q \in Cached |-> frames'[q]]
        /\ \A q \in Cached : q # p => frames'[q] = frames[q]
    BY <1>1, <1>2 DEF Cached
  <1>4. /\ frames'[p].img = frames[p].img /\ frames'[p].pin = frames[p].pin - 1
        /\ frames'[p].dirty /\ frames'[p].txn = t
    BY <1>1, <1>2
  <1>5. frames'[p] \in Frame(p)
    BY <1>1, <1>2 DEF Frame
  <1>6. PoolTypes'
    BY <1>1, <1>3, <1>5 DEF PoolTypes
  <1>7. QED
    BY <1>1, <1>3, <1>4, <1>6

\* A clean unpin only takes the pin.
LEMMA UnpinCleanFacts ==
    ASSUME PoolTypes, NEW p \in Cached, frames[p].pin > 0, NEW t \in 0..MaxTxns, UnpinPage(p, FALSE, t)
    PROVE  /\ PoolTypes' /\ disk' = disk /\ Cached' = Cached
           /\ frames'[p].img = frames[p].img /\ frames'[p].pin = frames[p].pin - 1
           /\ frames'[p].dirty = frames[p].dirty /\ frames'[p].txn = frames[p].txn
           /\ \A q \in Cached : q # p => frames'[q] = frames[q]
  <1>1. /\ frames' = [frames EXCEPT ![p].pin = @ - 1]
        /\ disk' = disk /\ lru' = lru
    BY DEF UnpinPage
  <1>2. /\ frames[p] \in [img : Image(p), pin : Nat, dirty : BOOLEAN, txn : 0..MaxTxns]
        /\ frames = [q \in Cached |-> frames[q]]
    BY DEF PoolTypes, Frame
  <1>3. /\ Cached' = Cached /\ frames' = [q \in Cached |-> frames'[q]]
        /\ \A q \in Cached : q # p => frames'[q] = frames[q]
    BY <1>1, <1>2 DEF Cached
  <1>4. /\ frames'[p].img = frames[p].img /\ frames'[p].pin = frames[p].pin - 1
        /\ frames'[p].dirty = frames[p].dirty /\ frames'[p].txn = frames[p].txn
    BY <1>1, <1>2
  <1>5. frames'[p] \in Frame(p)
    BY <1>1, <1>2 DEF Frame
  <1>6. PoolTypes'
    BY <1>1, <1>3, <1>5 DEF PoolTypes
  <1>7. QED
    BY <1>1, <1>3, <1>4, <1>6

\* FlushAll writes frames to the file and marks them clean.
LEMMA WriteBackFacts ==
    ASSUME PoolTypes, NEW S \in SUBSET Cached, WriteBack(S)
    PROVE  /\ PoolTypes' /\ Cached' = Cached
           /\ \A p \in Pages : disk'[p] = IF p \in S THEN frames[p].img ELSE disk[p]
           /\ \A p \in Cached : frames'[p] = IF p \in S THEN [frames[p] EXCEPT !.dirty = FALSE]
                                             ELSE frames[p]
  <1>1. /\ disk' = [p \in Pages |-> IF p \in S THEN frames[p].img ELSE disk[p]]
        /\ frames' = [p \in Cached |-> IF p \in S THEN [frames[p] EXCEPT !.dirty = FALSE]
                                       ELSE frames[p]]
        /\ lru' = lru
    BY DEF WriteBack
  <1>2. Cached' = Cached
    BY <1>1 DEF Cached
  <1>3. \A p \in Cached : frames[p] \in Frame(p) /\ [frames[p] EXCEPT !.dirty = FALSE] \in Frame(p)
    BY DEF PoolTypes, Frame
  <1>4. \A p \in Cached : frames[p].img \in Image(p)
    BY DEF PoolTypes, Frame
  <1>5. PoolTypes'
    BY <1>1, <1>2, <1>3, <1>4 DEF PoolTypes
  <1>6. QED
    BY <1>1, <1>2, <1>5

\* DiscardTxn reads frames again from the file.
LEMMA RereadFacts ==
    ASSUME PoolTypes, NEW S \in SUBSET Cached, Reread(S)
    PROVE  /\ PoolTypes' /\ Cached' = Cached /\ disk' = disk
           /\ \A p \in Cached : frames'[p] = IF p \in S
                                  THEN [frames[p] EXCEPT !.img = disk[p], !.dirty = FALSE]
                                  ELSE frames[p]
  <1>1. /\ frames' = [p \in Cached |-> IF p \in S
                        THEN [frames[p] EXCEPT !.img = disk[p], !.dirty = FALSE] ELSE frames[p]]
        /\ disk' = disk /\ lru' = lru
    BY DEF Reread
  <1>2. Cached' = Cached
    BY <1>1 DEF Cached
  <1>3. \A p \in Cached : /\ frames[p] \in Frame(p)
                          /\ [frames[p] EXCEPT !.img = disk[p], !.dirty = FALSE] \in Frame(p)
    BY DEF PoolTypes, Frame
  <1>4. PoolTypes'
    BY <1>1, <1>2, <1>3 DEF PoolTypes
  <1>5. QED
    BY <1>1, <1>2, <1>4

\* The caller changes the cell of a row in a page it has pinned.
LEMMA ChangeRowFacts ==
    ASSUME PoolTypes, NEW p \in Cached, NEW r \in RowsOn(p), NEW u \in 0..MaxTxns,
           frames' = [frames EXCEPT ![p].img[r] = u], UNCHANGED <<disk, lru>>
    PROVE  /\ PoolTypes' /\ disk' = disk /\ Cached' = Cached
           /\ frames'[p].img = [frames[p].img EXCEPT ![r] = u]
           /\ frames'[p].pin = frames[p].pin
           /\ frames'[p].dirty = frames[p].dirty /\ frames'[p].txn = frames[p].txn
           /\ \A q \in Cached : q # p => frames'[q] = frames[q]
  <1>1. /\ frames[p] \in [img : Image(p), pin : Nat, dirty : BOOLEAN, txn : 0..MaxTxns]
        /\ frames = [q \in Cached |-> frames[q]] /\ frames[p].img \in Image(p)
    BY DEF PoolTypes, Frame
  <1>2. /\ Cached' = Cached /\ frames' = [q \in Cached |-> frames'[q]]
        /\ \A q \in Cached : q # p => frames'[q] = frames[q]
    BY <1>1 DEF Cached
  <1>3. /\ frames'[p].img = [frames[p].img EXCEPT ![r] = u]
        /\ frames'[p].pin = frames[p].pin
        /\ frames'[p].dirty = frames[p].dirty /\ frames'[p].txn = frames[p].txn
    BY <1>1
  <1>4. [frames[p].img EXCEPT ![r] = u] \in Image(p)
    BY <1>1 DEF Image
  <1>5. frames'[p] \in Frame(p)
    BY <1>1, <1>4 DEF Frame
  <1>6. PoolTypes'
    BY <1>2, <1>5 DEF PoolTypes
  <1>7. QED
    BY <1>2, <1>3, <1>6

\* Nothing about the pool depends on other variables.
LEMMA PoolSame == PoolTypes /\ UNCHANGED poolVars => PoolTypes'
  BY DEF PoolTypes, poolVars, Cached

-----------------------------------------------------------------------------
(* The pin counts.                                                         *)

Pinners(p) == {c \in Clients : p \in PinnedBy(c)}

\* Finitely many clients pin a page.
LEMMA PinnersFinite == \A p : IsFiniteSet(Pinners(p)) /\ Cardinality(Pinners(p)) \in Nat
  BY StoreAssumption, FS_Subset, FS_CardinalityType DEF Pinners

\* Nobody pins or unpins.
LEMMA PinsKept ==
    ASSUME PinsCounted, Cached' = Cached, \A p \in Cached : frames'[p].pin = frames[p].pin,
           \A c \in Clients : PinnedBy(c)' = PinnedBy(c)
    PROVE  PinsCounted'
  <1>1. \A p : Pinners(p)' = Pinners(p)
    BY DEF Pinners
  <1>2. \A p \in Cached : frames[p].pin = Cardinality(Pinners(p))
    BY DEF PinsCounted, Pinners
  <1>3. \A p \in Cached' : frames'[p].pin = Cardinality(Pinners(p)')
    BY <1>1, <1>2
  <1>4. QED
    BY <1>3 DEF PinsCounted, Pinners

\* c pins page p.
LEMMA PinsTaken ==
    ASSUME PoolTypes, PinsCounted, NEW c \in Clients, NEW p \in Pages, FetchPage(p),
           PinnedBy(c) = {}, PinnedBy(c)' = {p},
           \A d \in Clients : d # c => PinnedBy(d)' = PinnedBy(d)
    PROVE  PinsCounted'
  <1>1. /\ p \in Cached'
        /\ p \in Cached => frames'[p].pin = frames[p].pin + 1
        /\ p \notin Cached => frames'[p].pin = 1
        /\ \A q \in Cached' : q # p => q \in Cached /\ frames'[q] = frames[q]
        /\ \A q \in Cached : q \notin Cached' => frames[q].pin = 0
    <2>1. /\ p \in Cached'
          /\ p \in Cached => frames'[p] = [frames[p] EXCEPT !.pin = @ + 1] /\ frames[p] \in Frame(p)
          /\ p \notin Cached => frames'[p] = PinnedFrame(p)
          /\ \A q \in Cached' : q # p => q \in Cached /\ frames'[q] = frames[q]
          /\ \A q \in Cached : q \notin Cached' => frames[q].pin = 0
      BY FetchFacts DEF PoolTypes
    <2>2. QED
      BY <2>1 DEF Frame, PinnedFrame
  <1>2. \A q \in Cached : frames[q].pin = Cardinality(Pinners(q))
    BY DEF PinsCounted, Pinners
  <1>3. Pinners(p)' = Pinners(p) \cup {c} /\ c \notin Pinners(p)
        /\ \A q : q # p => Pinners(q)' = Pinners(q)
    BY DEF Pinners
  <1>4. Cardinality(Pinners(p)') = Cardinality(Pinners(p)) + 1
    BY <1>3, PinnersFinite, FS_AddElement
  <1>5. p \notin Cached => Cardinality(Pinners(p)) = 0
    BY FS_EmptySet DEF PinsCounted, Pinners
  <1>6. ASSUME NEW q \in Cached' PROVE frames'[q].pin = Cardinality(Pinners(q)')
    <2>1. CASE q # p
      BY <1>1, <1>2, <1>3, <2>1
    <2>2. CASE q = p /\ p \in Cached
      BY <1>1, <1>2, <1>4, <2>2
    <2>3. CASE q = p /\ p \notin Cached
      BY <1>1, <1>4, <1>5, <2>3
    <2>4. QED
      BY <2>1, <2>2, <2>3
  <1>7. \A q \in Cached : q \notin Cached' => Pinners(q) = {}
    BY <1>1, <1>2, PinnersFinite, FS_EmptySet
  <1>8. \A d \in Clients : PinnedBy(d)' \subseteq Cached'
    BY <1>1, <1>7 DEF PinsCounted, Pinners
  <1>9. QED
    BY <1>6, <1>8 DEF PinsCounted, Pinners

\* c releases page p.
LEMMA PinsReleased ==
    ASSUME PinsCounted, NEW c \in Clients, NEW p \in Cached,
           PinnedBy(c) = {p}, PinnedBy(c)' = {},
           \A d \in Clients : d # c => PinnedBy(d)' = PinnedBy(d),
           Cached' = Cached, frames'[p].pin = frames[p].pin - 1,
           \A q \in Cached : q # p => frames'[q] = frames[q]
    PROVE  PinsCounted'
  <1>1. \A q \in Cached : frames[q].pin = Cardinality(Pinners(q))
    BY DEF PinsCounted, Pinners
  <1>2. Pinners(p)' = Pinners(p) \ {c} /\ c \in Pinners(p)
        /\ \A q : q # p => Pinners(q)' = Pinners(q)
    BY DEF Pinners
  <1>3. Cardinality(Pinners(p)') = Cardinality(Pinners(p)) - 1
    BY <1>2, PinnersFinite, FS_RemoveElement
  <1>4. \A q \in Cached' : frames'[q].pin = Cardinality(Pinners(q)')
    BY <1>1, <1>2, <1>3
  <1>5. \A d \in Clients : PinnedBy(d)' \subseteq Cached'
    BY DEF PinsCounted
  <1>6. QED
    BY <1>4, <1>5 DEF PinsCounted, Pinners

\* A page somebody has pinned has a positive pin count.
LEMMA PinPositive ==
    ASSUME PinsCounted, NEW c \in Clients, NEW p \in PinnedBy(c)
    PROVE  p \in Cached /\ frames[p].pin \in Nat /\ frames[p].pin > 0
  <1>1. p \in Cached /\ frames[p].pin = Cardinality(Pinners(p)) /\ c \in Pinners(p)
    BY DEF PinsCounted, Pinners
  <1>2. QED
    BY <1>1, PinnersFinite, FS_EmptySet

-----------------------------------------------------------------------------
(* The invariant and its steps.                                            *)

TInv == Shapes /\ PinsCounted

\* The initial states satisfy the strengthened type invariant.
LEMMA InitTInv == Init => TInv
  <1> SUFFICES ASSUME Init PROVE TInv
    OBVIOUS
  <1> USE StoreAssumption, PoolAssumption, PagesAssumption DEF Init
  <1>1. PoolTypes
    <2>1. Cached = {}
      BY DEF Cached
    <2>2. \A p \in Pages : EmptyPage(p) \in Image(p)
      BY DEF EmptyPage, Image
    <2>3. /\ <<>> \in Seq({}) /\ Len(<<>>) = 0
      BY EmptySeq
    <2>4. Lists(<<>>, {})
      BY <2>3 DEF Lists
    <2>5. IsFiniteSet({}) /\ Cardinality({}) = 0
      BY FS_EmptySet
    <2>6. QED
      BY <2>1, <2>2, <2>3, <2>4, <2>5 DEF PoolTypes
  <1>2. LogTypes
    BY EmptySeq DEF WalInit, LogTypes
  <1>3. TxnTypes
    BY DEF TxnTypes, PCs
  <1>4. WorkTypes
    BY DEF WorkTypes
  <1>5. PinsCounted
    BY DEF PinsCounted, PinnedBy, Cached
  <1>6. QED
    BY <1>1, <1>2, <1>3, <1>4, <1>5 DEF TInv, Shapes

\* A client between FetchPage and UnpinPage has its page in the pool, pinned.
LEMMA AtWork ==
    ASSUME TInv, NEW c \in Clients
    PROVE  /\ pc[c] \in {"fetched", "changed", "logged"} =>
                /\ at[c] \in Rows /\ PageOf[at[c]] \in Pages /\ at[c] \in RowsOn(PageOf[at[c]])
                /\ PageOf[at[c]] \in Cached /\ frames[PageOf[at[c]]].pin \in Nat \ {0}
                /\ frames[PageOf[at[c]]].img \in Image(PageOf[at[c]])
           /\ pc[c] = "reading" =>
                /\ at[c] \in Cached /\ at[c] \in Pages /\ frames[at[c]].pin \in Nat \ {0}
           /\ pc[c] # "idle" => up /\ uid[c] \in Uids /\ txnID[c] \in Uids
  <1>1. pc[c] # "idle" => up /\ uid[c] \in Uids /\ txnID[c] \in Uids
    BY StoreAssumption DEF TInv, Shapes, WorkTypes, TxnTypes, Uids
  <1>2. CASE pc[c] \in {"fetched", "changed", "logged"}
    <2>1. at[c] \in Rows /\ PageOf[at[c]] \in Pages /\ at[c] \in RowsOn(PageOf[at[c]])
      BY <1>2, StoreAssumption DEF TInv, Shapes, WorkTypes, RowsOn
    <2>2. PageOf[at[c]] \in PinnedBy(c)
      BY <1>2 DEF PinnedBy
    <2>3. PageOf[at[c]] \in Cached /\ frames[PageOf[at[c]]].pin \in Nat \ {0}
      BY <2>2, PinPositive DEF TInv
    <2>4. frames[PageOf[at[c]]].img \in Image(PageOf[at[c]])
      BY <2>3 DEF TInv, Shapes, PoolTypes, Frame
    <2>5. QED
      BY <1>1, <1>2, <2>1, <2>3, <2>4
  <1>3. CASE pc[c] = "reading"
    <2>1. at[c] \in PinnedBy(c) /\ at[c] \in Pages
      BY <1>3 DEF PinnedBy, TInv, Shapes, WorkTypes
    <2>2. at[c] \in Cached /\ frames[at[c]].pin \in Nat \ {0}
      BY <2>1, PinPositive DEF TInv
    <2>3. QED
      BY <1>1, <1>3, <2>1, <2>2
  <1>4. QED
    BY <1>1, <1>2, <1>3

\* How a step changes the log: not at all, by a record at the end of the
\* buffer, by a write to the file, or by the LSN that a new process finds.
LEMMA LogSteps ==
    ASSUME TInv, [Next]_vars
    PROVE  \/ UNCHANGED walVars
           \/ nextLSN < MaxLSN /\ \E rec \in Recs : WalAppend(rec)
           \/ /\ walBuf' = walBuf \/ walBuf' = <<>>
              /\ nextLSN' = nextLSN
              /\ \E n \in 0..Len(walBuf), left \in {"whole", "header", "data"} : Write(n, left)
           \/ WalOpen
  <1> USE DEF TInv, Shapes
  <1>1. Len(walBuf) \in 0..Len(walBuf) /\ \A fault : Tails(fault) \subseteq {"whole", "header", "data"}
    BY LenProperties DEF LogTypes, Tails
  <1>2. nextLSN \in Nat
    BY StoreAssumption DEF LogTypes
  <1>3. ASSUME NEW c \in Clients, LogChange(c) PROVE \E rec \in Recs : WalAppend(rec)
    BY <1>2, <1>3, AtWork, ChangeRecFacts DEF LogChange
  <1>4. ASSUME NEW c \in Clients, CommitAppend(c) \/ Rollback(c) \/ RollbackError(c)
        PROVE  nextLSN < MaxLSN /\ \E rec \in Recs : WalAppend(rec)
    <2>1. uid[c] \in Uids /\ txnID[c] \in Uids /\ nextLSN < MaxLSN
      BY <1>4, AtWork DEF CommitAppend, Rollback, RollbackError, MayCommit, MayRollback
    <2>2. \E op \in {"commit", "abort"} : WalAppend(EndRec(txnID[c], op, uid[c]))
      BY <1>4 DEF CommitAppend, Rollback, RollbackError
    <2>3. QED
      BY <1>2, <2>1, <2>2, EndRecFacts
  <1>5. ASSUME NEW c \in Clients, CommitFlush(c) \/ CommitPages(c) \/ CommitPagesError(c)
        PROVE  WalFlush
    BY <1>5 DEF CommitFlush, CommitPages, CommitPagesError
  <1>6. ASSUME NEW c \in Clients, CommitFlushError(c)
        PROVE  /\ walBuf' = walBuf /\ nextLSN' = nextLSN
               /\ \E n \in 0..Len(walBuf), left \in {"whole", "header", "data"} : Write(n, left)
    BY <1>1, <1>6 DEF CommitFlushError, WalFlushError
  <1>7. ASSUME Crash
        PROVE  /\ walBuf' = <<>> /\ nextLSN' = nextLSN
               /\ \E n \in 0..Len(walBuf), left \in {"whole", "header", "data"} : Write(n, left)
    BY <1>1, <1>7 DEF Crash, WalCrash
  <1>8. ASSUME WalFlush
        PROVE  /\ walBuf' = <<>> /\ nextLSN' = nextLSN
               /\ \E n \in 0..Len(walBuf), left \in {"whole", "header", "data"} : Write(n, left)
    BY <1>1, <1>8 DEF WalFlush
  <1>9. ASSUME NEW c \in Clients,
               \/ Begin(c) \/ ChangeRow(c) \/ UnpinRow(c) \/ UnpinRead(c) \/ Abandon(c)
               \/ \E tb \in Tables : LockTable(c, tb) \/ RLockTable(c, tb)
               \/ \E r \in Rows : FetchRow(c, r)
               \/ \E p \in Pages : ReadPage(c, p)
        PROVE  UNCHANGED walVars
    BY <1>9 DEF Begin, ChangeRow, UnpinRow, UnpinRead, Abandon, LockTable, RLockTable, FetchRow, ReadPage
  <1>10. ASSUME NEW p \in Pages, RecoverPage(p) PROVE UNCHANGED walVars
    BY <1>10 DEF RecoverPage
  <1>11. ASSUME UNCHANGED vars PROVE UNCHANGED walVars
    BY <1>11 DEF vars
  <1>12. ASSUME NEW c \in Clients, LogChange(c) PROVE nextLSN < MaxLSN
    BY <1>12 DEF LogChange
  <1>13. QED
    BY <1>3, <1>4, <1>5, <1>6, <1>7, <1>8, <1>9, <1>10, <1>11, <1>12 DEF Next, WalRecords, Open

\* The log keeps its shape, and a garbled one stays garbled.
LEMMA LogTypesStep ==
    ASSUME TInv, [Next]_vars
    PROVE  LogTypes' /\ (walTail' # "garbled" => walTail # "garbled")
  <1> USE DEF TInv, Shapes
  <1>1. CASE UNCHANGED walVars
    BY <1>1 DEF walVars, LogTypes
  <1>2. CASE nextLSN < MaxLSN /\ \E rec \in Recs : WalAppend(rec)
    <2>1. PICK rec \in Recs : WalAppend(rec)
      BY <1>2
    <2>2. Append(walBuf, rec) \in Seq(Recs)
      BY AppendProperties DEF LogTypes
    <2>3. nextLSN + 1 \in 0..MaxLSN
      BY <1>2, StoreAssumption DEF LogTypes
    <2>4. QED
      BY <2>1, <2>2, <2>3 DEF WalAppend, LogTypes
  <1>3. ASSUME walBuf' = walBuf \/ walBuf' = <<>>, nextLSN' = nextLSN,
               NEW n \in 0..Len(walBuf), NEW left \in {"whole", "header", "data"}, Write(n, left)
        PROVE  LogTypes' /\ (walTail' # "garbled" => walTail # "garbled")
    BY <1>3, WriteFacts, EmptySeq DEF LogTypes
  <1>4. CASE WalOpen
    <2>1. walFile # <<>> => Len(walFile) \in 1..Len(walFile)
      BY EmptySeq DEF LogTypes
    <2>2. walFile # <<>> => walFile[Len(walFile)] \in Recs
      BY <2>1, ElementOfSeq DEF LogTypes
    <2>3. walFile # <<>> => walFile[Len(walFile)].lsn + 1 \in 0..MaxLSN
      BY <2>2, RecFacts, StoreAssumption DEF Lsns
    <2>4. nextLSN' \in 0..MaxLSN
      BY <1>4, <2>3, StoreAssumption DEF WalOpen
    <2>5. QED
      BY <1>4, <2>4 DEF WalOpen, LogTypes
  <1>5. QED
    BY LogSteps, <1>1, <1>2, <1>3, <1>4

\* The transactions keep their shapes.
LEMMA TxnTypesStep ==
    ASSUME TInv, [Next]_vars PROVE TxnTypes' /\ WorkTypes'
  <1> USE StoreAssumption DEF TInv, Shapes, TxnTypes, WorkTypes, txnVars, hist
  <1>1. ASSUME NEW c \in Clients, Begin(c) PROVE TxnTypes' /\ WorkTypes'
    BY <1>1 DEF Begin, Goto, PCs
  <1>2. ASSUME NEW c \in Clients, NEW tb \in Tables, LockTable(c, tb) \/ RLockTable(c, tb)
        PROVE  TxnTypes' /\ WorkTypes'
    <2>1. uid[c] \in Uids
      BY <1>2, AtWork DEF LockTable, RLockTable
    <2>2. CASE LockTable(c, tb)
      BY <2>1, <2>2 DEF LockTable, Uids
    <2>3. CASE RLockTable(c, tb)
      BY <2>1, <2>3 DEF RLockTable
    <2>4. QED
      BY <1>2, <2>2, <2>3
  <1>3. ASSUME NEW c \in Clients, NEW r \in Rows, FetchRow(c, r) PROVE TxnTypes' /\ WorkTypes'
    BY <1>3 DEF FetchRow, Goto, PCs
  <1>4. ASSUME NEW c \in Clients, NEW p \in Pages, ReadPage(c, p) PROVE TxnTypes' /\ WorkTypes'
    BY <1>4 DEF ReadPage, Goto, PCs
  <1>5. ASSUME NEW c \in Clients, ChangeRow(c) \/ UnpinRow(c) \/ UnpinRead(c)
        PROVE  TxnTypes' /\ WorkTypes'
    BY <1>5 DEF ChangeRow, UnpinRow, UnpinRead, Goto, PCs
  <1>6. ASSUME NEW c \in Clients, LogChange(c) PROVE TxnTypes' /\ WorkTypes'
    <2>1. uid[c] \in Uids /\ at[c] \in Rows
      BY <1>6, AtWork DEF LogChange
    <2>2. QED
      BY <1>6, <2>1 DEF LogChange, Goto, PCs
  <1>7. ASSUME NEW c \in Clients, CommitAppend(c) \/ CommitFlush(c) \/ CommitFlushError(c)
                                 \/ CommitPagesError(c) \/ RollbackError(c) \/ Abandon(c)
        PROVE  TxnTypes' /\ WorkTypes'
    <2>1. /\ UNCHANGED <<nextTxnID, wlock, rlock, uid, txnID, at, up, boots, uids, wrote, acked, undone>>
          /\ pc[c] # "idle"
          /\ \E where \in {"flushLog", "flushPages", "commitFailed", "rollbackFailed", "idle"} :
               pc' = [pc EXCEPT ![c] = where]
      BY <1>7 DEF CommitAppend, CommitFlush, CommitFlushError, CommitPagesError, RollbackError, Abandon,
                  MayCommit, MayRollback, Goto
    <2>2. QED
      BY <2>1 DEF PCs
  <1>8. ASSUME NEW c \in Clients, CommitPages(c) PROVE TxnTypes' /\ WorkTypes'
    <2>1. uid[c] \in Uids
      BY <1>8, AtWork DEF CommitPages
    <2>2. QED
      BY <1>8, <2>1 DEF CommitPages, Unlock, Goto, PCs
  <1>9. ASSUME NEW c \in Clients, Rollback(c) PROVE TxnTypes' /\ WorkTypes'
    <2>1. uid[c] \in Uids
      BY <1>9, AtWork DEF Rollback, MayRollback
    <2>2. QED
      BY <1>9, <2>1 DEF Rollback, Unlock, Goto, PCs
  <1>10. ASSUME WalRecords \/ UNCHANGED vars \/ \E p \in Pages : RecoverPage(p)
         PROVE  TxnTypes' /\ WorkTypes'
    BY <1>10 DEF WalRecords, RecoverPage, vars
  <1>11. ASSUME Crash PROVE TxnTypes' /\ WorkTypes'
    <2>1. /\ up' = FALSE /\ boots < MaxBoots
          /\ wlock' = [tb \in Tables |-> 0] /\ rlock' = [tb \in Tables |-> {}]
          /\ pc' = [c \in Clients |-> "idle"] /\ wrote' = [u \in Uids |-> {}]
          /\ UNCHANGED <<nextTxnID, uid, txnID, at, boots, uids, acked, undone>>
      BY <1>11 DEF Crash
    <2>2. TxnTypes'
      <3>1. /\ wlock' \in [Tables -> 0..MaxTxns] /\ rlock' \in [Tables -> SUBSET Uids]
            /\ pc' \in [Clients -> PCs] /\ wrote' \in [Uids -> SUBSET Rows] /\ up' \in BOOLEAN
        <4>1. wlock' \in [Tables -> 0..MaxTxns]
          BY <2>1
        <4>2. rlock' \in [Tables -> SUBSET Uids] /\ wrote' \in [Uids -> SUBSET Rows]
          BY <2>1
        <4>3. pc' \in [Clients -> PCs] /\ up' \in BOOLEAN
          BY <2>1 DEF PCs
        <4>4. QED
          BY <4>1, <4>2, <4>3
      <3>2. QED
        BY <2>1, <3>1
    <2>3. WorkTypes'
      BY <2>1
    <2>4. QED
      BY <2>2, <2>3
  <1>12. ASSUME Open PROVE TxnTypes' /\ WorkTypes'
    BY <1>12 DEF Open
  <1>13. QED
    BY <1>1, <1>2, <1>3, <1>4, <1>5, <1>6, <1>7, <1>8, <1>9, <1>10, <1>11, <1>12 DEF Next

\* The pool keeps its shape and its pin counts.
LEMMA PoolStep ==
    ASSUME TInv, [Next]_vars PROVE PoolTypes' /\ PinsCounted'
  <1> USE DEF TInv, Shapes
  <1>0. pc \in [Clients -> PCs] /\ uid \in [Clients -> 0..MaxTxns] /\ txnID \in [Clients -> 0..MaxTxns]
        /\ at = [c \in Clients |-> at[c]]
    BY DEF TxnTypes
  <1>1. ASSUME NEW c \in Clients, NEW p \in Pages, FetchPage(p), PinnedBy(c) = {}, PinnedBy(c)' = {p},
               \A d \in Clients : d # c => PinnedBy(d)' = PinnedBy(d)
        PROVE  PoolTypes' /\ PinsCounted'
    BY <1>1, FetchFacts, PinsTaken
  <1>2. ASSUME NEW c \in Clients, NEW r \in Rows, FetchRow(c, r) PROVE PoolTypes' /\ PinsCounted'
    <2>1. /\ PageOf[r] \in Pages /\ FetchPage(PageOf[r])
          /\ pc[c] = "ready" /\ pc' = [pc EXCEPT ![c] = "fetched"] /\ at' = [at EXCEPT ![c] = r]
      BY <1>2, StoreAssumption DEF FetchRow, Goto
    <2>2. PinnedBy(c) = {} /\ PinnedBy(c)' = {PageOf[r]}
      BY <1>0, <2>1 DEF PinnedBy
    <2>3. \A d \in Clients : d # c => PinnedBy(d)' = PinnedBy(d)
      BY <1>0, <2>1 DEF PinnedBy
    <2>4. QED
      BY <1>1, <2>1, <2>2, <2>3
  <1>3. ASSUME NEW c \in Clients, NEW p \in Pages, ReadPage(c, p) PROVE PoolTypes' /\ PinsCounted'
    <2>1. /\ FetchPage(p)
          /\ pc[c] = "ready" /\ pc' = [pc EXCEPT ![c] = "reading"] /\ at' = [at EXCEPT ![c] = p]
      BY <1>3 DEF ReadPage, Goto
    <2>2. PinnedBy(c) = {} /\ PinnedBy(c)' = {p}
      BY <1>0, <2>1 DEF PinnedBy
    <2>3. \A d \in Clients : d # c => PinnedBy(d)' = PinnedBy(d)
      BY <1>0, <2>1 DEF PinnedBy
    <2>4. QED
      BY <1>1, <2>1, <2>2, <2>3
  <1>4. ASSUME NEW c \in Clients, ChangeRow(c) PROVE PoolTypes' /\ PinsCounted'
    <2> DEFINE p == PageOf[at[c]]
    <2>1. /\ pc[c] = "fetched" /\ pc' = [pc EXCEPT ![c] = "changed"] /\ at' = at
          /\ frames' = [frames EXCEPT ![p].img[at[c]] = uid[c]] /\ UNCHANGED <<disk, lru>>
      BY <1>4 DEF ChangeRow, Goto
    <2>2. p \in Cached /\ at[c] \in RowsOn(p) /\ uid[c] \in 0..MaxTxns
      BY <1>0, <2>1, AtWork
    <2> HIDE DEF p
    <2>3. /\ PoolTypes' /\ Cached' = Cached /\ \A q \in Cached : frames'[q].pin = frames[q].pin
      BY <2>1, <2>2, ChangeRowFacts
    <2>4. \A d \in Clients : PinnedBy(d)' = PinnedBy(d)
      BY <1>0, <2>1 DEF PinnedBy
    <2>5. QED
      BY <2>3, <2>4, PinsKept
  <1>5. ASSUME NEW c \in Clients, UnpinRow(c) PROVE PoolTypes' /\ PinsCounted'
    <2> DEFINE p == PageOf[at[c]]
    <2>1. /\ pc[c] = "logged" /\ pc' = [pc EXCEPT ![c] = "ready"] /\ at' = at
          /\ UnpinPage(p, TRUE, txnID[c])
      BY <1>5 DEF UnpinRow, Goto
    <2>2. p \in Cached /\ frames[p].pin > 0 /\ txnID[c] \in 0..MaxTxns
      BY <1>0, <2>1, AtWork
    <2>3. PinnedBy(c) = {p} /\ PinnedBy(c)' = {}
      BY <1>0, <2>1 DEF PinnedBy
    <2>4. \A d \in Clients : d # c => PinnedBy(d)' = PinnedBy(d)
      BY <1>0, <2>1 DEF PinnedBy
    <2> HIDE DEF p
    <2>5. /\ PoolTypes' /\ Cached' = Cached /\ frames'[p].pin = frames[p].pin - 1
          /\ \A q \in Cached : q # p => frames'[q] = frames[q]
      BY <2>1, <2>2, UnpinDirtyFacts
    <2>6. QED
      BY <2>2, <2>3, <2>4, <2>5, PinsReleased
  <1>6. ASSUME NEW c \in Clients, UnpinRead(c) PROVE PoolTypes' /\ PinsCounted'
    <2> DEFINE p == at[c]
    <2>1. /\ pc[c] = "reading" /\ pc' = [pc EXCEPT ![c] = "ready"] /\ at' = at
          /\ UnpinPage(p, FALSE, 0)
      BY <1>6 DEF UnpinRead, Goto
    <2>2. p \in Cached /\ frames[p].pin > 0 /\ 0 \in 0..MaxTxns
      BY <2>1, AtWork, StoreAssumption
    <2>3. PinnedBy(c) = {p} /\ PinnedBy(c)' = {}
      BY <1>0, <2>1 DEF PinnedBy
    <2>4. \A d \in Clients : d # c => PinnedBy(d)' = PinnedBy(d)
      BY <1>0, <2>1 DEF PinnedBy
    <2> HIDE DEF p
    <2>5. /\ PoolTypes' /\ Cached' = Cached /\ frames'[p].pin = frames[p].pin - 1
          /\ \A q \in Cached : q # p => frames'[q] = frames[q]
      BY <2>1, <2>2, UnpinCleanFacts
    <2>6. QED
      BY <2>2, <2>3, <2>4, <2>5, PinsReleased
  <1>7. ASSUME NEW c \in Clients, CommitPages(c) \/ CommitPagesError(c)
        PROVE  PoolTypes' /\ PinsCounted'
    <2>1. /\ pc[c] = "flushPages" /\ at' = at
          /\ \E where \in {"idle", "commitFailed"} : pc' = [pc EXCEPT ![c] = where]
      BY <1>7 DEF CommitPages, CommitPagesError, Goto
    <2>2. \E S \in SUBSET DirtyOf(txnID[c]) : WriteBack(S)
      BY <1>7 DEF CommitPages, CommitPagesError
    <2>3. PICK S \in SUBSET Cached : WriteBack(S)
      BY <2>2 DEF DirtyOf
    <2>4. /\ PoolTypes' /\ Cached' = Cached
          /\ \A q \in Cached : frames'[q] = IF q \in S THEN [frames[q] EXCEPT !.dirty = FALSE] ELSE frames[q]
      BY <2>3, WriteBackFacts
    <2>5. \A q \in Cached : frames'[q].pin = frames[q].pin
      BY <2>4 DEF PoolTypes, Frame
    <2>6. \A d \in Clients : PinnedBy(d)' = PinnedBy(d)
      BY <1>0, <2>1 DEF PinnedBy
    <2>7. QED
      BY <2>4, <2>5, <2>6, PinsKept
  <1>8. ASSUME NEW c \in Clients, Rollback(c) \/ RollbackError(c)
        PROVE  PoolTypes' /\ PinsCounted'
    <2>1. /\ pc[c] \in {"ready", "rollbackFailed", "commitFailed"} /\ at' = at
          /\ \E where \in {"idle", "rollbackFailed"} : pc' = [pc EXCEPT ![c] = where]
      BY <1>8 DEF Rollback, RollbackError, MayRollback, Goto
    <2>2. \E S \in SUBSET DirtyOf(txnID[c]) : Reread(S)
      BY <1>8 DEF Rollback, RollbackError, Unpinned
    <2>3. PICK S \in SUBSET Cached : Reread(S)
      BY <2>2 DEF DirtyOf
    <2>4. /\ PoolTypes' /\ Cached' = Cached
          /\ \A q \in Cached : frames'[q] = IF q \in S THEN [frames[q] EXCEPT !.img = disk[q], !.dirty = FALSE]
                                             ELSE frames[q]
      BY <2>3, RereadFacts
    <2>5. \A q \in Cached : frames'[q].pin = frames[q].pin
      BY <2>4 DEF PoolTypes, Frame
    <2>6. \A d \in Clients : PinnedBy(d)' = PinnedBy(d)
      BY <1>0, <2>1 DEF PinnedBy
    <2>7. QED
      BY <2>4, <2>5, <2>6, PinsKept
  <1>9. ASSUME UNCHANGED poolVars, \A d \in Clients : PinnedBy(d)' = PinnedBy(d)
        PROVE  PoolTypes' /\ PinsCounted'
    <2>1. Cached' = Cached /\ frames' = frames
      BY <1>9 DEF Cached, poolVars
    <2>2. QED
      BY <1>9, <2>1, PoolSame, PinsKept
  <1>10. ASSUME NEW c \in Clients,
                \/ Begin(c) \/ LogChange(c) \/ CommitAppend(c) \/ CommitFlush(c)
                \/ CommitFlushError(c) \/ Abandon(c)
         PROVE  PoolTypes' /\ PinsCounted'
    <2>1. UNCHANGED poolVars /\ at' = at
      BY <1>10 DEF Begin, LogChange, CommitAppend, CommitFlush, CommitFlushError, Abandon
    <2>2. \/ pc[c] = "changed" /\ pc' = [pc EXCEPT ![c] = "logged"]
          \/ /\ pc[c] \notin {"fetched", "changed", "logged", "reading"}
             /\ \E where \in {"idle", "ready", "flushLog", "flushPages", "commitFailed"} :
                  pc' = [pc EXCEPT ![c] = where]
      BY <1>10 DEF Begin, LogChange, CommitAppend, CommitFlush, CommitFlushError, Abandon, MayCommit, Goto
    <2>3. \A d \in Clients : PinnedBy(d)' = PinnedBy(d)
      BY <1>0, <2>1, <2>2 DEF PinnedBy
    <2>4. QED
      BY <1>9, <2>1, <2>3
  <1>11. ASSUME UNCHANGED <<pc, at, frames, lru>>, disk' = [p \in Pages |-> disk'[p]],
                \A p \in Pages : disk'[p] \in Image(p)
         PROVE  PoolTypes' /\ PinsCounted'
    <2>1. \A d \in Clients : PinnedBy(d)' = PinnedBy(d)
      BY <1>11 DEF PinnedBy
    <2>2. Cached' = Cached
      BY <1>11 DEF Cached
    <2>3. PoolTypes'
      BY <1>11, <2>2 DEF PoolTypes
    <2>4. QED
      BY <1>11, <2>1, <2>2, <2>3, PinsKept
  <1>12. ASSUME NEW p \in Pages, RecoverPage(p) PROVE PoolTypes' /\ PinsCounted'
    <2>1. RedoImage(p, disk[p]) \in Image(p)
      BY RedoImageType DEF PoolTypes, LogTypes
    <2>2. QED
      BY <1>11, <1>12, <2>1 DEF RecoverPage, PoolTypes, txnVars
  <1>13. ASSUME Crash PROVE PoolTypes' /\ PinsCounted'
    <2>1. /\ frames' = [p \in {} |-> 0] /\ lru' = <<>> /\ pc' = [c \in Clients |-> "idle"]
          /\ \E S \in SUBSET Pages, lost \in SUBSET Pages :
               /\ disk' = [p \in Pages |-> IF p \in lost THEN EmptyPage(p)
                                           ELSE IF p \in S THEN frames[p].img ELSE disk[p]]
               /\ S # {} => \E c \in Clients : S \subseteq DirtyOf(txnID[c])
      BY <1>13 DEF Crash
    <2>2. Cached' = {}
      BY <2>1 DEF Cached
    <2>3. \A p \in Pages : disk'[p] \in Image(p) /\ disk' = [q \in Pages |-> disk'[q]]
      <3>1. PICK S \in SUBSET Pages, lost \in SUBSET Pages :
              /\ disk' = [p \in Pages |-> IF p \in lost THEN EmptyPage(p)
                                          ELSE IF p \in S THEN frames[p].img ELSE disk[p]]
              /\ S \subseteq Cached
        BY <2>1 DEF DirtyOf
      <3>2. \A p \in Pages : EmptyPage(p) \in Image(p) /\ disk[p] \in Image(p)
        BY StoreAssumption DEF PoolTypes, EmptyPage, Image
      <3>3. \A p \in Cached : frames[p].img \in Image(p)
        BY DEF PoolTypes, Frame
      <3>4. QED
        BY <3>1, <3>2, <3>3
    <2>4. Lists(<<>>, {}) /\ Len(<<>>) = 0
      BY EmptySeq DEF Lists
    <2>5. IsFiniteSet({}) /\ Cardinality({}) = 0
      BY FS_EmptySet
    <2>6. disk' = [p \in Pages |-> disk'[p]]
      BY <2>1
    <2>7. PoolTypes'
      <3>1. frames' = [p \in Cached' |-> frames'[p]]
        BY <2>1, <2>2
      <3>2. Lists(lru', Cached') /\ Len(lru') = Cardinality(Cached')
        BY <2>1, <2>2, <2>4, <2>5
      <3>3. IsFiniteSet(Cached') /\ Cardinality(Cached') <= PoolSize
        BY <2>2, <2>5, PoolAssumption
      <3>4. QED
        BY <2>2, <2>3, <2>6, <3>1, <3>2, <3>3 DEF PoolTypes
    <2>8. \A c \in Clients : PinnedBy(c)' = {}
      BY <2>1 DEF PinnedBy
    <2>9. QED
      BY <2>2, <2>7, <2>8 DEF PinsCounted
  <1>14. ASSUME \/ \E c \in Clients, tb \in Tables : LockTable(c, tb) \/ RLockTable(c, tb)
                \/ WalRecords \/ Open \/ UNCHANGED vars
         PROVE  PoolTypes' /\ PinsCounted'
    <2>1. UNCHANGED poolVars /\ pc' = pc /\ at' = at
      BY <1>14 DEF LockTable, RLockTable, WalRecords, Open, vars, txnVars
    <2>2. \A d \in Clients : PinnedBy(d)' = PinnedBy(d)
      BY <2>1 DEF PinnedBy
    <2>3. QED
      BY <1>9, <2>1, <2>2
  <1>15. QED
    BY <1>2, <1>3, <1>4, <1>5, <1>6, <1>7, <1>8, <1>10, <1>12, <1>13, <1>14 DEF Next

\* The shapes and the pin counts hold in every state of every run.
THEOREM TypeInvariance == Spec => []TInv
  <1>1. TInv /\ [Next]_vars => TInv'
    BY LogTypesStep, TxnTypesStep, PoolStep DEF TInv, Shapes
  <1>2. QED
    BY InitTInv, <1>1, PTL DEF Spec

\* Pages, frames, the LRU list, locks and transactions keep the shapes that
\* BufferPool and Manager rely on, for any clients, tables, rows and faults: the
\* LRU list holds every cached page exactly once and never more than maxSize.
THEOREM TypeCorrect == Spec => []TypeOK
  <1>1. TInv => TypeOK
    <2>1. ASSUME PoolTypes
          PROVE  /\ \A p \in Pages : disk[p] \in Image(p)
                 /\ Cached \subseteq Pages /\ Cardinality(Cached) <= PoolSize
                 /\ \A p \in Cached : /\ frames[p].img \in Image(p)
                                      /\ frames[p].pin \in Nat /\ frames[p].dirty \in BOOLEAN
                                      /\ frames[p].txn \in 0..MaxTxns
                 /\ Len(lru) = Cardinality(Cached)
      BY <2>1 DEF PoolTypes, Frame
    <2>2. ASSUME PoolTypes PROVE {lru[i] : i \in DOMAIN lru} = Cached
      <3>1. DOMAIN lru = 1..Len(lru) /\ \A i \in 1..Len(lru) : lru[i] \in Cached
        BY <2>2, LenProperties, ElementOfSeq DEF PoolTypes, Lists
      <3>2. QED
        BY <2>2, <3>1 DEF PoolTypes, Lists
    <2>3. QED
      BY <2>1, <2>2, StoreAssumption DEF TInv, Shapes, LogTypes, TxnTypes, TypeOK
  <1>2. QED
    BY TypeInvariance, <1>1, PTL

\* Every FetchPage is matched by exactly one UnpinPage on all paths, and evict
\* never takes a page from the hands of a statement or a scan (buffer.go:110).
THEOREM PinsCountedTheorem == Spec => []PinsCounted
  <1>1. TInv => PinsCounted
    BY DEF TInv
  <1>2. QED
    BY TypeInvariance, <1>1, PTL

-----------------------------------------------------------------------------
(* The log as a set of records.                                            *)

Readable == walTail # "garbled"

FileRecs  == {walFile[i] : i \in DOMAIN walFile}
BufRecs   == {walBuf[i] : i \in DOMAIN walBuf}
LogRecs   == FileRecs \cup BufRecs
Prefix(n) == {walBuf[i] : i \in 1..n}

Ended(S, op)  == {x.uid : x \in {y \in S : y.op = op}}
Changes(S, u) == {x \in S : x.op = "change" /\ x.uid = u}
CommitRecs    == Ended(LogRecs, "commit")

\* The records of file and buffer are well-typed sets, the committed read off the file.
LEMMA LogSets ==
    ASSUME LogTypes
    PROVE  /\ FileRecs \subseteq Recs /\ BufRecs \subseteq Recs /\ LogRecs \subseteq Recs
           /\ CommittedUids = Ended(FileRecs, "commit")
           /\ CommittedUids \subseteq CommitRecs
           /\ DOMAIN walFile = 1..Len(walFile) /\ Len(walFile) \in Nat
           /\ DOMAIN walBuf = 1..Len(walBuf) /\ Len(walBuf) \in Nat
           /\ walFile \in [1..Len(walFile) -> Recs] /\ walBuf \in [1..Len(walBuf) -> Recs]
  <1>1. /\ DOMAIN walFile = 1..Len(walFile) /\ Len(walFile) \in Nat
        /\ DOMAIN walBuf = 1..Len(walBuf) /\ Len(walBuf) \in Nat
        /\ walFile \in [1..Len(walFile) -> Recs] /\ walBuf \in [1..Len(walBuf) -> Recs]
    BY LenProperties DEF LogTypes
  <1>2. FileRecs \subseteq Recs /\ BufRecs \subseteq Recs
    BY <1>1 DEF FileRecs, BufRecs
  <1>3. CommittedUids = Ended(FileRecs, "commit")
    BY DEF CommittedUids, Ended, FileRecs
  <1>4. QED
    BY <1>1, <1>2, <1>3 DEF LogRecs, CommitRecs, Ended

\* Append adds the record to the buffer.
LEMMA AppendSets ==
    ASSUME LogTypes, NEW rec, WalAppend(rec)
    PROVE  /\ FileRecs' = FileRecs /\ BufRecs' = BufRecs \cup {rec} /\ LogRecs' = LogRecs \cup {rec}
           /\ CommittedUids' = CommittedUids /\ walFile' = walFile
           /\ CommitRecs' = CommitRecs \cup (IF rec.op = "commit" THEN {rec.uid} ELSE {})
  <1>1. walFile' = walFile /\ walBuf' = Append(walBuf, rec)
    BY DEF WalAppend
  <1>2. /\ Len(walBuf) \in Nat /\ DOMAIN walBuf = 1..Len(walBuf)
        /\ walBuf \in Seq(Recs \cup {rec})
    BY LogSets, SeqMonotonic DEF LogTypes
  <1>3. /\ Len(walBuf') = Len(walBuf) + 1 /\ DOMAIN walBuf' = 1..Len(walBuf) + 1
        /\ \A i \in 1..Len(walBuf) : walBuf'[i] = walBuf[i]
        /\ walBuf'[Len(walBuf) + 1] = rec
    <2>1. /\ walBuf' \in Seq(Recs \cup {rec}) /\ Len(walBuf') = Len(walBuf) + 1
          /\ \A i \in 1..Len(walBuf) : walBuf'[i] = walBuf[i]
          /\ walBuf'[Len(walBuf) + 1] = rec
      BY <1>1, <1>2, AppendProperties
    <2>2. QED
      BY <2>1, LenProperties
  <1>4. BufRecs' = BufRecs \cup {rec}
    BY <1>2, <1>3 DEF BufRecs
  <1>5. FileRecs' = FileRecs /\ CommittedUids' = CommittedUids
    BY <1>1 DEF FileRecs, CommittedUids
  <1>6. QED
    BY <1>1, <1>4, <1>5 DEF LogRecs, CommitRecs, Ended

\* Writing n records of the buffer adds them to those of the file.
LEMMA WriteSets ==
    ASSUME LogTypes, NEW n \in 0..Len(walBuf), NEW left \in {"whole", "header", "data"},
           Write(n, left), Readable'
    PROVE  /\ Readable /\ Grown(n)
           /\ FileRecs' = FileRecs \cup Prefix(n) /\ Prefix(n) \subseteq BufRecs
           /\ n = Len(walBuf) => Prefix(n) = BufRecs
           /\ CommittedUids' = CommittedUids \cup Ended(Prefix(n), "commit")
  <1>1. Readable /\ Grown(n) /\ walFile' \in Seq(Recs)
    BY WriteFacts DEF LogTypes, Readable
  <1>2. /\ DOMAIN walFile = 1..Len(walFile) /\ Len(walFile) \in Nat /\ Len(walBuf) \in Nat
        /\ DOMAIN walBuf = 1..Len(walBuf)
    BY LogSets
  <1>3. DOMAIN walFile' = 1..Len(walFile) + n
    BY <1>1, LenProperties DEF Grown
  <1>4. FileRecs' = FileRecs \cup Prefix(n)
    <2>1. ASSUME NEW x \in FileRecs' PROVE x \in FileRecs \cup Prefix(n)
      <3>1. PICK i \in 1..Len(walFile) + n : x = walFile'[i]
        BY <1>3 DEF FileRecs
      <3>2. CASE i <= Len(walFile)
        BY <1>1, <1>2, <3>1, <3>2 DEF Grown, FileRecs
      <3>3. CASE ~(i <= Len(walFile))
        <4>1. i - Len(walFile) \in 1..n /\ i = Len(walFile) + (i - Len(walFile))
          BY <1>2, <3>1, <3>3
        <4>2. x = walBuf[i - Len(walFile)]
          BY <1>1, <3>1, <4>1 DEF Grown
        <4>3. QED
          BY <4>1, <4>2 DEF Prefix
      <3>4. QED
        BY <3>2, <3>3
    <2>2. ASSUME NEW i \in 1..Len(walFile) PROVE walFile[i] \in FileRecs'
      BY <1>1, <1>2, <1>3 DEF Grown, FileRecs
    <2>3. ASSUME NEW k \in 1..n PROVE walBuf[k] \in FileRecs'
      <3>1. Len(walFile) + k \in 1..Len(walFile) + n
        BY <1>2
      <3>2. QED
        BY <1>1, <1>3, <3>1 DEF Grown, FileRecs
    <2>4. QED
      BY <1>2, <2>1, <2>2, <2>3 DEF FileRecs, Prefix
  <1>5. Prefix(n) \subseteq BufRecs /\ (n = Len(walBuf) => Prefix(n) = BufRecs)
    <2>1. \A i \in 1..n : i \in DOMAIN walBuf
      BY <1>2
    <2>2. ASSUME n = Len(walBuf) PROVE DOMAIN walBuf = 1..n
      BY <1>2, <2>2
    <2>3. QED
      BY <2>1, <2>2 DEF Prefix, BufRecs
  <1>6. CommittedUids = Ended(FileRecs, "commit") /\ (CommittedUids = Ended(FileRecs, "commit"))'
    BY DEF CommittedUids, Ended, FileRecs
  <1>7. QED
    BY <1>1, <1>4, <1>5, <1>6 DEF Ended

\* Flush and a Flush that fails change neither the records nor the promised
\* commits, and a whole Flush makes all of these durable; a crash loses some.
LEMMA FlushSets ==
    ASSUME LogTypes, WalFlush, Readable'
    PROVE  /\ FileRecs' = LogRecs /\ BufRecs' = {} /\ LogRecs' = LogRecs
           /\ CommitRecs' = CommitRecs /\ CommittedUids' = CommitRecs
           /\ CommittedUids \subseteq CommittedUids' /\ Readable
  <1>1. Len(walBuf) \in 0..Len(walBuf) /\ Write(Len(walBuf), "whole") /\ walBuf' = <<>>
    BY LogSets DEF WalFlush
  <1>2. /\ FileRecs' = FileRecs \cup BufRecs /\ Readable
        /\ CommittedUids' = CommittedUids \cup Ended(BufRecs, "commit")
    BY <1>1, WriteSets
  <1>3. BufRecs' = {}
    BY <1>1 DEF BufRecs
  <1>4. CommittedUids = Ended(FileRecs, "commit")
    BY LogSets
  <1>5. QED
    BY <1>2, <1>3, <1>4 DEF LogRecs, CommitRecs, Ended

\* A flush that fails has put a prefix of the buffer into the file and kept the buffer.
LEMMA FlushErrorSets ==
    ASSUME LogTypes, NEW n \in 0..Len(walBuf), NEW left \in {"whole", "header", "data"},
           WalFlushError(n, left), Readable'
    PROVE  /\ FileRecs' = FileRecs \cup Prefix(n) /\ BufRecs' = BufRecs /\ LogRecs' = LogRecs
           /\ CommitRecs' = CommitRecs /\ CommittedUids \subseteq CommittedUids' /\ Readable
  <1>1. Write(n, left) /\ walBuf' = walBuf
    BY DEF WalFlushError
  <1>2. /\ FileRecs' = FileRecs \cup Prefix(n) /\ Prefix(n) \subseteq BufRecs /\ Readable
        /\ CommittedUids \subseteq CommittedUids'
    BY <1>1, WriteSets
  <1>3. BufRecs' = BufRecs
    BY <1>1 DEF BufRecs
  <1>4. QED
    BY <1>2, <1>3 DEF LogRecs, CommitRecs

\* A crash has put a prefix of the buffer into the file and lost the rest.
LEMMA CrashSets ==
    ASSUME LogTypes, NEW n \in 0..Len(walBuf), NEW left \in {"whole", "header", "data"},
           WalCrash(n, left), Readable'
    PROVE  /\ FileRecs' = FileRecs \cup Prefix(n) /\ BufRecs' = {} /\ LogRecs' \subseteq LogRecs
           /\ CommitRecs' \subseteq CommitRecs /\ CommittedUids \subseteq CommittedUids' /\ Readable
  <1>1. Write(n, left) /\ walBuf' = <<>>
    BY DEF WalCrash
  <1>2. /\ FileRecs' = FileRecs \cup Prefix(n) /\ Prefix(n) \subseteq BufRecs /\ Readable
        /\ CommittedUids \subseteq CommittedUids'
    BY <1>1, WriteSets
  <1>3. BufRecs' = {}
    BY <1>1 DEF BufRecs
  <1>4. QED
    BY <1>2, <1>3 DEF LogRecs, CommitRecs, Ended

\* While the log is unchanged, so are all the sets read off it.
LEMMA SameSets ==
    ASSUME walFile' = walFile, walBuf' = walBuf
    PROVE  /\ FileRecs' = FileRecs /\ BufRecs' = BufRecs /\ LogRecs' = LogRecs
           /\ CommitRecs' = CommitRecs /\ CommittedUids' = CommittedUids
  BY DEF FileRecs, BufRecs, LogRecs, CommitRecs, CommittedUids

-----------------------------------------------------------------------------
(* The outcomes: a transaction that an active client may still roll back   *)
(* has no COMMIT, neither in the file nor in the buffer.                   *)

Unfinished == {"ready", "fetched", "changed", "logged", "reading", "rollbackFailed"}

OutcomeInv ==
    /\ \A x \in LogRecs : x.uid <= uids
    /\ \A c \in Clients : uid[c] <= uids
    /\ \A u \in undone : u <= uids
    /\ \A c, d \in Clients : pc[c] # "idle" /\ pc[d] # "idle" /\ c # d => uid[c] # uid[d]
    /\ \A c \in Clients : pc[c] # "idle" => uid[c] \notin undone
    /\ \A c \in Clients : pc[c] \in Unfinished => uid[c] \notin CommitRecs
    /\ \A c \in Clients : pc[c] \in {"flushLog", "flushPages", "commitFailed"} => uid[c] \in CommitRecs
    /\ \A c \in Clients : pc[c] = "flushPages" => uid[c] \in CommittedUids
    /\ acked \subseteq CommittedUids
    /\ undone \cap CommitRecs = {}

NoRollbackAfterCommit == "rollbackAfterCommitError" \notin Faults

\* The records, and what they say of the outcomes, in a step of a readable log.
LEMMA OutcomeStep ==
    ASSUME NoRollbackAfterCommit, TInv, OutcomeInv, [Next]_vars, Readable'
    PROVE  OutcomeInv'
  <1> USE StoreAssumption DEF Goto
  <1>0. /\ LogTypes /\ pc \in [Clients -> PCs] /\ uid \in [Clients -> 0..MaxTxns]
        /\ uids \in Nat /\ uids \in 0..MaxTxns /\ undone \subseteq Uids
        /\ LogRecs \subseteq Recs /\ CommittedUids \subseteq CommitRecs
        /\ CommitRecs \subseteq Uids /\ \A x \in LogRecs : x.uid \in Nat
    <2>1. \A x \in Recs : x.uid \in Uids
      BY RecFacts
    <2>2. QED
      BY <2>1, LogSets DEF TInv, Shapes, TxnTypes, CommitRecs, Ended, Uids
  <1>1. ASSUME UNCHANGED <<walFile, walBuf, uids, uid, acked, undone>>,
               \/ pc' = pc
               \/ \E c \in Clients : /\ pc[c] \in Unfinished
                                     /\ \E w \in Unfinished : pc' = [pc EXCEPT ![c] = w]
               \/ \E c \in Clients : pc' = [pc EXCEPT ![c] = "idle"]
        PROVE  OutcomeInv'
    BY <1>0, <1>1, SameSets DEF OutcomeInv, Unfinished
  <1>2. ASSUME NEW c \in Clients, Begin(c) PROVE OutcomeInv'
    <2>1. /\ UNCHANGED <<walFile, walBuf, acked, undone>> /\ pc[c] = "idle"
          /\ uids' = uids + 1 /\ uid' = [uid EXCEPT ![c] = uids + 1] /\ pc' = [pc EXCEPT ![c] = "ready"]
      BY <1>2 DEF Begin, walVars
    <2>2. \A u \in CommitRecs : u <= uids
      BY DEF OutcomeInv, CommitRecs, Ended
    <2>3. \A d \in Clients : uid[d] \in Nat /\ uid[d] <= uids
      BY <1>0 DEF OutcomeInv
    <2>4. \A u \in undone : u \in Nat /\ u <= uids
      BY <1>0 DEF OutcomeInv, Uids
    <2>5. QED
      BY <1>0, <2>1, <2>2, <2>3, <2>4, SameSets DEF OutcomeInv, Unfinished
  <1>3. ASSUME NEW c \in Clients, NEW rec, WalAppend(rec), rec.op # "commit", rec.uid = uid[c],
               pc[c] \in Unfinished, UNCHANGED <<uids, uid, acked>>
        PROVE  /\ \A w \in Unfinished : pc' = [pc EXCEPT ![c] = w] /\ undone' = undone => OutcomeInv'
               /\ pc' = [pc EXCEPT ![c] = "idle"] /\ undone' = undone \cup {uid[c]} => OutcomeInv'
    BY <1>0, <1>3, AppendSets DEF OutcomeInv, Unfinished
  <1>4. ASSUME NEW c \in Clients, LogChange(c) PROVE OutcomeInv'
    <2>1. PICK rec : WalAppend(rec) /\ rec.op = "change" /\ rec.uid = uid[c]
      <3>1. LET p == PageOf[at[c]]
                rec == ChangeRec(txnID[c], p, frames[p].img, uid[c], at[c])
            IN WalAppend(rec) /\ rec.op = "change" /\ rec.uid = uid[c]
        BY <1>4 DEF LogChange, ChangeRec
      <3>2. QED
        BY <3>1
    <2>2. /\ pc[c] = "changed" /\ pc' = [pc EXCEPT ![c] = "logged"]
          /\ UNCHANGED <<uids, uid, acked, undone>>
      BY <1>4 DEF LogChange
    <2>3. QED
      BY <1>3, <2>1, <2>2 DEF Unfinished
  <1>5. ASSUME NEW c \in Clients, Rollback(c) \/ RollbackError(c) PROVE OutcomeInv'
    <2>1. PICK rec : WalAppend(rec) /\ rec.op = "abort" /\ rec.uid = uid[c]
      BY <1>5 DEF Rollback, RollbackError, EndRec
    <2>2. pc[c] \in Unfinished
      BY <1>5 DEF Rollback, RollbackError, MayRollback, Unfinished, NoRollbackAfterCommit
    <2>3. CASE Rollback(c)
      <3>1. /\ pc' = [pc EXCEPT ![c] = "idle"] /\ undone' = undone \cup {uid[c]}
            /\ UNCHANGED <<uids, uid, acked>>
        BY <2>3 DEF Rollback
      <3>2. QED
        BY <1>3, <2>1, <2>2, <3>1
    <2>4. CASE RollbackError(c)
      <3>1. /\ pc' = [pc EXCEPT ![c] = "rollbackFailed"] /\ undone' = undone
            /\ UNCHANGED <<uids, uid, acked>>
        BY <2>4 DEF RollbackError, hist
      <3>2. QED
        BY <1>3, <2>1, <2>2, <3>1 DEF Unfinished
    <2>5. QED
      BY <1>5, <2>3, <2>4
  <1>6. ASSUME NEW c \in Clients, CommitAppend(c) PROVE OutcomeInv'
    <2>1. PICK rec : WalAppend(rec) /\ rec.op = "commit" /\ rec.uid = uid[c]
      BY <1>6 DEF CommitAppend, EndRec
    <2>2. /\ pc[c] # "idle" /\ pc' = [pc EXCEPT ![c] = "flushLog"]
          /\ UNCHANGED <<uids, uid, acked, undone>>
      BY <1>6 DEF CommitAppend, MayCommit, hist
    <2>3. /\ LogRecs' = LogRecs \cup {rec} /\ CommitRecs' = CommitRecs \cup {uid[c]}
          /\ CommittedUids' = CommittedUids
      BY <1>0, <2>1, AppendSets
    <2>4. QED
      BY <1>0, <2>1, <2>2, <2>3 DEF OutcomeInv, Unfinished
  <1>7. ASSUME LogRecs' = LogRecs, CommitRecs' = CommitRecs, CommittedUids \subseteq CommittedUids',
               UNCHANGED <<uids, uid, undone>>
        PROVE  /\ pc' = pc /\ acked' = acked => OutcomeInv'
               /\ \A c \in Clients : pc' = [pc EXCEPT ![c] = "flushPages"] /\ acked' = acked
                    /\ pc[c] = "flushLog" /\ CommittedUids' = CommitRecs => OutcomeInv'
               /\ \A c \in Clients : pc' = [pc EXCEPT ![c] = "commitFailed"] /\ acked' = acked
                    /\ pc[c] \in {"flushLog", "flushPages"} => OutcomeInv'
               /\ \A c \in Clients : pc' = [pc EXCEPT ![c] = "idle"] /\ acked' = acked \cup {uid[c]}
                    /\ pc[c] = "flushPages" => OutcomeInv'
    <2>1. pc' = pc /\ acked' = acked => OutcomeInv'
      BY <1>0, <1>7 DEF OutcomeInv, Unfinished
    <2>2. ASSUME NEW c \in Clients, pc' = [pc EXCEPT ![c] = "flushPages"], acked' = acked,
                 pc[c] = "flushLog", CommittedUids' = CommitRecs
          PROVE  OutcomeInv'
      BY <1>0, <1>7, <2>2 DEF OutcomeInv, Unfinished
    <2>3. ASSUME NEW c \in Clients, pc' = [pc EXCEPT ![c] = "commitFailed"], acked' = acked,
                 pc[c] \in {"flushLog", "flushPages"}
          PROVE  OutcomeInv'
      BY <1>0, <1>7, <2>3 DEF OutcomeInv, Unfinished
    <2>4. ASSUME NEW c \in Clients, pc' = [pc EXCEPT ![c] = "idle"], acked' = acked \cup {uid[c]},
                 pc[c] = "flushPages"
          PROVE  OutcomeInv'
      BY <1>0, <1>7, <2>4 DEF OutcomeInv, Unfinished
    <2>5. QED
      BY <2>1, <2>2, <2>3, <2>4
  <1>8. ASSUME NEW c \in Clients, CommitFlush(c) \/ CommitPages(c) \/ CommitPagesError(c)
        PROVE  OutcomeInv'
    <2>1. WalFlush /\ UNCHANGED <<uids, uid, undone>>
      BY <1>8 DEF CommitFlush, CommitPages, CommitPagesError, hist
    <2>2. /\ LogRecs' = LogRecs /\ CommitRecs' = CommitRecs
          /\ CommittedUids \subseteq CommittedUids' /\ CommittedUids' = CommitRecs
      BY <1>0, <2>1, FlushSets
    <2>3. \/ /\ pc' = [pc EXCEPT ![c] = "flushPages"] /\ acked' = acked /\ pc[c] = "flushLog"
          \/ /\ pc' = [pc EXCEPT ![c] = "commitFailed"] /\ acked' = acked /\ pc[c] = "flushPages"
          \/ /\ pc' = [pc EXCEPT ![c] = "idle"] /\ acked' = acked \cup {uid[c]} /\ pc[c] = "flushPages"
      BY <1>8 DEF CommitFlush, CommitPages, CommitPagesError, hist
    <2>4. QED
      BY <1>7, <2>1, <2>2, <2>3
  <1>9. ASSUME NEW c \in Clients, CommitFlushError(c) PROVE OutcomeInv'
    <2>1. PICK n \in 0..Len(walBuf), left \in Tails("tornError") : WalFlushError(n, left)
      BY <1>9 DEF CommitFlushError
    <2>2. left \in {"whole", "header", "data"}
      BY DEF Tails
    <2>3. LogRecs' = LogRecs /\ CommitRecs' = CommitRecs /\ CommittedUids \subseteq CommittedUids'
      BY <1>0, <2>1, <2>2, FlushErrorSets
    <2>4. /\ pc' = [pc EXCEPT ![c] = "commitFailed"] /\ pc[c] \in {"flushLog", "flushPages"}
          /\ UNCHANGED <<uids, uid, acked, undone>>
      BY <1>9 DEF CommitFlushError, hist
    <2>5. QED
      BY <1>7, <2>3, <2>4
  <1>10. ASSUME WalRecords PROVE OutcomeInv'
    <2>1. WalFlush /\ UNCHANGED <<pc, uids, uid, acked, undone>>
      BY <1>10 DEF WalRecords, txnVars, hist
    <2>2. LogRecs' = LogRecs /\ CommitRecs' = CommitRecs /\ CommittedUids \subseteq CommittedUids'
      BY <1>0, <2>1, FlushSets
    <2>3. QED
      BY <1>7, <2>1, <2>2
  <1>11. ASSUME Crash PROVE OutcomeInv'
    <2>1. PICK n \in 0..Len(walBuf), left \in Tails("tornCrash") : WalCrash(n, left)
      BY <1>11 DEF Crash
    <2>2. left \in {"whole", "header", "data"}
      BY DEF Tails
    <2>3. /\ LogRecs' \subseteq LogRecs /\ CommitRecs' \subseteq CommitRecs
          /\ CommittedUids \subseteq CommittedUids'
      BY <1>0, <2>1, <2>2, CrashSets
    <2>4. /\ pc' = [d \in Clients |-> "idle"] /\ UNCHANGED <<uids, uid, acked, undone>>
      BY <1>11 DEF Crash
    <2>5. QED
      BY <1>0, <2>3, <2>4 DEF OutcomeInv, Unfinished
  <1>12. ASSUME NEW c \in Clients,
                \/ ChangeRow(c) \/ UnpinRow(c) \/ UnpinRead(c) \/ Abandon(c)
                \/ \E tb \in Tables : LockTable(c, tb) \/ RLockTable(c, tb)
                \/ \E r \in Rows : FetchRow(c, r)
                \/ \E p \in Pages : ReadPage(c, p)
         PROVE  OutcomeInv'
    <2>1. UNCHANGED <<walFile, walBuf, uids, uid, acked, undone>>
      BY <1>12 DEF ChangeRow, UnpinRow, UnpinRead, Abandon, LockTable, RLockTable, FetchRow, ReadPage,
                   walVars, hist
    <2>2. \/ pc' = pc
          \/ /\ pc[c] \in Unfinished
             /\ \E w \in Unfinished : pc' = [pc EXCEPT ![c] = w]
          \/ pc' = [pc EXCEPT ![c] = "idle"]
      BY <1>12 DEF ChangeRow, UnpinRow, UnpinRead, Abandon, LockTable, RLockTable, FetchRow, ReadPage,
                   Unfinished
    <2>3. QED
      BY <1>1, <2>1, <2>2
  <1>13. ASSUME Open \/ UNCHANGED vars \/ \E p \in Pages : RecoverPage(p) PROVE OutcomeInv'
    <2>1. UNCHANGED <<walFile, walBuf, pc, uids, uid, acked, undone>>
      BY <1>13 DEF Open, RecoverPage, WalOpen, vars, walVars, txnVars, hist
    <2>2. QED
      BY <1>1, <2>1
  <1>14. QED
    BY <1>2, <1>4, <1>5, <1>6, <1>8, <1>9, <1>10, <1>11, <1>12, <1>13 DEF Next

\* In the initial states nothing was acknowledged and nothing rolled back.
LEMMA InitOutcome == Init => OutcomeInv
  <1> SUFFICES ASSUME Init PROVE OutcomeInv
    OBVIOUS
  <1>1. /\ walFile = <<>> /\ walBuf = <<>> /\ DOMAIN <<>> = {}
        /\ uids = 0 /\ acked = {} /\ undone = {}
        /\ \A c \in Clients : pc[c] = "idle" /\ uid[c] = 0
    BY EmptySeq DEF Init, WalInit
  <1>2. LogRecs = {} /\ CommitRecs = {} /\ CommittedUids = {}
    BY <1>1 DEF LogRecs, FileRecs, BufRecs, CommitRecs, CommittedUids, Ended
  <1>3. QED
    BY <1>1, <1>2 DEF OutcomeInv, Unfinished

\* While the log can be read.
LEMMA OutcomeInvariance ==
    ASSUME NoRollbackAfterCommit
    PROVE  Spec => [](Readable => OutcomeInv)
  <1>1. TInv /\ (Readable => OutcomeInv) /\ [Next]_vars => (Readable => OutcomeInv)'
    <2>1. TInv /\ [Next]_vars /\ Readable' => Readable
      BY LogTypesStep DEF Readable
    <2>2. QED
      BY <2>1, OutcomeStep
  <1>2. QED
    BY InitOutcome, TypeInvariance, <1>1, PTL DEF Spec

\* What Commit and Rollback told their caller is what the log says forever, in
\* every incarnation of the process, whatever else fails: an acknowledged COMMIT
\* is in the log file, and one that was rolled back never gets there.
THEOREM OutcomesHonouredTheorem ==
    ASSUME NoRollbackAfterCommit
    PROVE  Spec => [](Readable => OutcomesHonoured)
  <1>1. TInv /\ (Readable => OutcomeInv) => (Readable => OutcomesHonoured)
    <2>1. TInv => CommittedUids \subseteq CommitRecs
      BY LogSets DEF TInv, Shapes
    <2>2. QED
      BY <2>1 DEF OutcomeInv, OutcomesHonoured
  <1>2. QED
    BY OutcomeInvariance, TypeInvariance, <1>1, PTL

-----------------------------------------------------------------------------
(* How the steps change the log.                                           *)

\* The records that finishPage, Commit and Rollback append.
LEMMA AppendSteps ==
    ASSUME TInv, NEW c \in Clients
    PROVE  /\ LogChange(c) =>
                \E rec \in Recs : /\ WalAppend(rec) /\ rec.op = "change" /\ rec.lsn = nextLSN
                                  /\ rec.uid = uid[c] /\ rec.txn = txnID[c] /\ rec.row = at[c]
                                  /\ rec.page = PageOf[at[c]] /\ rec.img = frames[PageOf[at[c]]].img
           /\ CommitAppend(c) =>
                \E rec \in Recs : /\ WalAppend(rec) /\ rec.op = "commit" /\ rec.lsn = nextLSN
                                  /\ rec.uid = uid[c] /\ rec.txn = txnID[c]
           /\ Rollback(c) \/ RollbackError(c) =>
                \E rec \in Recs : /\ WalAppend(rec) /\ rec.op = "abort" /\ rec.lsn = nextLSN
                                  /\ rec.uid = uid[c] /\ rec.txn = txnID[c]
  <1>1. nextLSN \in Nat
    BY StoreAssumption DEF TInv, Shapes, LogTypes
  <1>2. ASSUME LogChange(c)
        PROVE  \E rec \in Recs : /\ WalAppend(rec) /\ rec.op = "change" /\ rec.lsn = nextLSN
                                 /\ rec.uid = uid[c] /\ rec.txn = txnID[c] /\ rec.row = at[c]
                                 /\ rec.page = PageOf[at[c]] /\ rec.img = frames[PageOf[at[c]]].img
    <2> DEFINE p == PageOf[at[c]]
               rec == ChangeRec(txnID[c], p, frames[p].img, uid[c], at[c])
    <2>1. WalAppend(rec) /\ pc[c] = "changed" /\ nextLSN < MaxLSN
      BY <1>2 DEF LogChange
    <2>2. p \in Pages /\ frames[p].img \in Image(p) /\ uid[c] \in Uids /\ txnID[c] \in Uids /\ at[c] \in RowsOn(p)
      BY <2>1, AtWork
    <2> HIDE DEF p
    <2>3. /\ rec \in Recs /\ rec.op = "change" /\ rec.lsn = nextLSN
          /\ rec.uid = uid[c] /\ rec.txn = txnID[c] /\ rec.row = at[c]
          /\ rec.page = p /\ rec.img = frames[p].img
      BY <1>1, <2>1, <2>2, ChangeRecFacts
    <2> HIDE DEF rec
    <2>4. QED
      BY <2>1, <2>3 DEF p
  <1>3. ASSUME NEW op \in {"commit", "abort"}, pc[c] # "idle", nextLSN < MaxLSN,
               WalAppend(EndRec(txnID[c], op, uid[c]))
        PROVE  \E rec \in Recs : /\ WalAppend(rec) /\ rec.op = op /\ rec.lsn = nextLSN
                                 /\ rec.uid = uid[c] /\ rec.txn = txnID[c]
    <2>1. uid[c] \in Uids /\ txnID[c] \in Uids
      BY <1>3, AtWork
    <2>2. QED
      BY <1>1, <1>3, <2>1, EndRecFacts
  <1>4. QED
    BY <1>2, <1>3 DEF CommitAppend, Rollback, RollbackError, MayCommit, MayRollback

\* Every write while the process runs: n records reach the file, all of the
\* buffer if it is emptied.
LiveWrite ==
    \E n \in 0..Len(walBuf) :
       /\ Grown(n) /\ FileRecs' = FileRecs \cup Prefix(n)
       /\ \/ walBuf' = walBuf /\ BufRecs' = BufRecs
          \/ walBuf' = <<>> /\ BufRecs' = {} /\ FileRecs' = LogRecs
       /\ CommittedUids' = CommittedUids \cup Ended(Prefix(n), "commit")

WriteStep ==
    \/ \E c \in Clients : CommitFlush(c) \/ CommitPages(c) \/ CommitPagesError(c) \/ CommitFlushError(c)
    \/ WalRecords

\* A step that writes the log moves records from the buffer to the file and makes none.
LEMMA WriteSteps ==
    ASSUME TInv, Readable', WriteStep
    PROVE  /\ LiveWrite /\ LogRecs' = LogRecs /\ CommitRecs' = CommitRecs /\ nextLSN' = nextLSN
           /\ Prefix(Len(walBuf)) = BufRecs /\ \A n \in 0..Len(walBuf) : Prefix(n) \subseteq BufRecs
  <1>0. LogTypes /\ Len(walBuf) \in 0..Len(walBuf)
    BY LogSets DEF TInv, Shapes
  <1>1. Prefix(Len(walBuf)) = BufRecs /\ \A n \in 0..Len(walBuf) : Prefix(n) \subseteq BufRecs
    <2>1. DOMAIN walBuf = 1..Len(walBuf) /\ \A n \in 0..Len(walBuf) : \A i \in 1..n : i \in 1..Len(walBuf)
      BY <1>0, LogSets
    <2>2. QED
      BY <2>1 DEF Prefix, BufRecs
  <1>2. ASSUME WalFlush
        PROVE  LiveWrite /\ LogRecs' = LogRecs /\ CommitRecs' = CommitRecs /\ nextLSN' = nextLSN
    <2>1. Write(Len(walBuf), "whole") /\ walBuf' = <<>> /\ nextLSN' = nextLSN
      BY <1>2 DEF WalFlush
    <2>2. /\ FileRecs' = LogRecs /\ BufRecs' = {} /\ LogRecs' = LogRecs /\ CommitRecs' = CommitRecs
      BY <1>0, <1>2, FlushSets
    <2>3. /\ Grown(Len(walBuf)) /\ FileRecs' = FileRecs \cup Prefix(Len(walBuf))
          /\ CommittedUids' = CommittedUids \cup Ended(Prefix(Len(walBuf)), "commit")
      BY <1>0, <2>1, WriteSets
    <2>4. QED
      BY <1>0, <2>1, <2>2, <2>3 DEF LiveWrite
  <1>3. ASSUME NEW n \in 0..Len(walBuf), NEW left \in {"whole", "header", "data"}, WalFlushError(n, left)
        PROVE  LiveWrite /\ LogRecs' = LogRecs /\ CommitRecs' = CommitRecs /\ nextLSN' = nextLSN
    <2>1. Write(n, left) /\ walBuf' = walBuf /\ nextLSN' = nextLSN
      BY <1>3 DEF WalFlushError
    <2>2. BufRecs' = BufRecs /\ LogRecs' = LogRecs /\ CommitRecs' = CommitRecs
      BY <1>0, <1>3, FlushErrorSets
    <2>3. /\ Grown(n) /\ FileRecs' = FileRecs \cup Prefix(n)
          /\ CommittedUids' = CommittedUids \cup Ended(Prefix(n), "commit")
      BY <1>0, <2>1, WriteSets
    <2>4. QED
      BY <2>1, <2>2, <2>3 DEF LiveWrite
  <1>4. ASSUME NEW c \in Clients, CommitFlushError(c)
        PROVE  \E n \in 0..Len(walBuf), left \in {"whole", "header", "data"} : WalFlushError(n, left)
    BY <1>4 DEF CommitFlushError, Tails
  <1>5. QED
    BY <1>1, <1>2, <1>3, <1>4 DEF WriteStep, CommitFlush, CommitPages, CommitPagesError, WalRecords

\* Every step of the system is one of these.
LEMMA StepKinds ==
    ASSUME [Next]_vars
    PROVE  \/ \E c \in Clients : LogChange(c) \/ CommitAppend(c) \/ Rollback(c) \/ RollbackError(c)
           \/ WriteStep
           \/ Crash
           \/ UNCHANGED <<walFile, walBuf>>
  BY DEF Next, WriteStep, Begin, ChangeRow, UnpinRow, UnpinRead, Abandon, LockTable, RLockTable, FetchRow,
         ReadPage, RecoverPage, Open, WalOpen, vars, walVars

-----------------------------------------------------------------------------
(* The transactions of one process.                                        *)

\* TxnIDs start again in every process and Recover goes by them, so clients are
\* active in one process; an application gives up a Tx whose Commit or Rollback
\* failed, as Execute does; a leaf holds rows of one table.
OneClientProcess == ClientBoots <= 1
NoSecondThoughts == {"rollbackAfterCommitError", "commitAfterRollbackError"} \cap Faults = {}
TablesOwnLeaves  == \A r, s \in Rows : PageOf[r] = PageOf[s] => TableOf[r] = TableOf[s]
OrderlyUse       == OneClientProcess /\ NoSecondThoughts /\ TablesOwnLeaves

Current   == up /\ boots = 1
AbortRecs == Ended(LogRecs, "abort")
Active(u) == \E c \in Clients : pc[c] # "idle" /\ uid[c] = u

\* TxnIDs are uids; only the first process has clients, locks and buffers.
IdInv ==
    /\ \A x \in LogRecs : x.txn = x.uid
    /\ \A c \in Clients : pc[c] # "idle" => boots = 1 /\ txnID[c] = uid[c]
    /\ Current => nextTxnID = uids
    /\ \A tb \in Tables : wlock[tb] # 0 => Current
    /\ ~Current => walBuf = <<>> /\ Cached = {} /\ \A u \in Uids : wrote[u] = {}
    /\ \A u \in Uids : wrote[u] # {} => u <= uids

\* No transaction has a COMMIT and an ABORT.
AbortInv ==
    /\ AbortRecs \cap CommitRecs = {}
    /\ \A c \in Clients : pc[c] \notin {"rollbackFailed", "idle"} => uid[c] \notin AbortRecs

\* Who changed a row has its table locked, or is done with everything.
HeldInv ==
    /\ \A u \in Uids : \A r \in wrote[u] :
         \/ wlock[TableOf[r]] = u
         \/ u \in CommittedUids /\ u \notin Ended(BufRecs, "commit") /\ ~Active(u)
    /\ \A c \in Clients :
         /\ pc[c] \in {"fetched", "changed", "logged"} => wlock[TableOf[at[c]]] = uid[c]
         /\ pc[c] = "logged" => at[c] \in wrote[uid[c]]

\* The changes not discarded are those in the log.
WroteInv ==
    /\ \A u \in Uids : \A r \in wrote[u] :
         \E x \in LogRecs : x.op = "change" /\ x.uid = u /\ x.row = r
    /\ Current => \A x \in LogRecs : x.op = "change" => x.row \in wrote[x.uid] \/ x.uid \in undone

\* A COMMIT comes after the changes.
OrderInv ==
    /\ \A i, j \in 1..Len(walBuf) :
         /\ walBuf[i].op = "commit" /\ walBuf[j].op = "change"
         /\ walBuf[i].uid = walBuf[j].uid
         => j < i
    /\ \A u \in CommittedUids : Changes(BufRecs, u) \subseteq FileRecs

\* LSNs name records, and follow the locks.
LsnInv ==
    /\ \A x, y \in LogRecs : x.lsn = y.lsn => x = y
    /\ Current => \A x \in LogRecs : x.lsn < nextLSN
    /\ \A x, y \in LogRecs :
         /\ x.op = "change" /\ y.op = "change" /\ x.page = y.page /\ x.uid # y.uid
         /\ x.uid = wlock[TableOf[x.row]]
         => y.lsn < x.lsn

HistoryInv == IdInv /\ AbortInv /\ HeldInv /\ WroteInv /\ OrderInv /\ LsnInv

\* What all proofs about a step start from.
Before == TInv /\ OutcomeInv /\ HistoryInv

-----------------------------------------------------------------------------
\* What the history's invariants say of a state, gathered for the step lemmas.
LEMMA BeforeFacts ==
    ASSUME OrderlyUse, Before
    PROVE  /\ LogTypes /\ pc \in [Clients -> PCs] /\ uid \in [Clients -> 0..MaxTxns]
           /\ txnID \in [Clients -> 0..MaxTxns] /\ wlock \in [Tables -> 0..MaxTxns]
           /\ wrote \in [Uids -> SUBSET Rows] /\ undone \subseteq Uids
           /\ up \in BOOLEAN /\ boots \in Nat /\ uids \in 0..MaxTxns /\ nextTxnID \in Nat
           /\ nextLSN \in Nat /\ MaxTxns \in Nat /\ 0 \notin Uids /\ Uids \subseteq 0..MaxTxns
           /\ LogRecs \subseteq Recs /\ FileRecs \subseteq LogRecs /\ BufRecs \subseteq LogRecs
           /\ \A x \in LogRecs : /\ x.uid \in Uids /\ x.lsn \in Nat
                                 /\ x.op \in {"change", "commit", "abort"}
                                 /\ x.op = "change" => x.row \in Rows /\ x.page = PageOf[x.row]
           /\ CommittedUids \subseteq CommitRecs /\ CommitRecs \subseteq Uids
           /\ CommittedUids = Ended(FileRecs, "commit")
           /\ \A r \in Rows : TableOf[r] \in Tables /\ PageOf[r] \in Pages
           /\ \A c \in Clients : pc[c] # "idle" => Current /\ uid[c] \in Uids /\ txnID[c] = uid[c]
  <1>1. \A x \in LogRecs : /\ x.uid \in Uids /\ x.lsn \in Nat
                           /\ x.op \in {"change", "commit", "abort"}
                           /\ x.op = "change" => x.row \in Rows /\ x.page = PageOf[x.row]
    BY LogSets, RecFacts DEF Before, TInv, Shapes, Lsns
  <1>2. \A c \in Clients : pc[c] # "idle" => Current /\ uid[c] \in Uids /\ txnID[c] = uid[c]
    BY AtWork DEF Before, HistoryInv, IdInv, Current
  <1>3. /\ LogRecs \subseteq Recs /\ FileRecs \subseteq LogRecs /\ BufRecs \subseteq LogRecs
        /\ CommittedUids \subseteq CommitRecs /\ CommittedUids = Ended(FileRecs, "commit")
    BY LogSets DEF Before, TInv, Shapes, LogRecs
  <1>4. CommitRecs \subseteq Uids
    BY <1>1 DEF CommitRecs, Ended
  <1>5. \A r \in Rows : TableOf[r] \in Tables /\ PageOf[r] \in Pages
    BY StoreAssumption
  <1>6. /\ LogTypes /\ pc \in [Clients -> PCs] /\ uid \in [Clients -> 0..MaxTxns]
        /\ txnID \in [Clients -> 0..MaxTxns] /\ wlock \in [Tables -> 0..MaxTxns]
        /\ wrote \in [Uids -> SUBSET Rows] /\ undone \subseteq Uids
        /\ up \in BOOLEAN /\ boots \in Nat /\ uids \in 0..MaxTxns /\ nextTxnID \in Nat
        /\ nextLSN \in Nat /\ MaxTxns \in Nat
    BY StoreAssumption DEF Before, TInv, Shapes, TxnTypes, LogTypes
  <1>7. 0 \notin Uids /\ Uids \subseteq 0..MaxTxns
    BY StoreAssumption DEF Uids
  <1>8. QED
    BY <1>1, <1>2, <1>3, <1>4, <1>5, <1>6, <1>7

\* What a client does within a transaction.
ClientStep(c) ==
    \/ ChangeRow(c) \/ LogChange(c) \/ UnpinRow(c) \/ UnpinRead(c)
    \/ CommitAppend(c) \/ CommitFlush(c) \/ CommitPages(c)
    \/ CommitFlushError(c) \/ CommitPagesError(c)
    \/ Rollback(c) \/ RollbackError(c) \/ Abandon(c)
    \/ \E tb \in Tables : LockTable(c, tb) \/ RLockTable(c, tb)
    \/ \E r \in Rows : FetchRow(c, r)
    \/ \E p \in Pages : ReadPage(c, p)

\* A step of a client's own transaction moves that client's program counter only.
LEMMA ClientSteps ==
    ASSUME NEW c \in Clients, ClientStep(c), pc \in [Clients -> PCs]
    PROVE  /\ pc[c] # "idle" /\ UNCHANGED <<nextTxnID, uid, txnID, up, boots, uids>>
           /\ \E w \in PCs : pc' = [pc EXCEPT ![c] = w]
  <1>1. UNCHANGED <<nextTxnID, uid, txnID, up, boots, uids>>
    BY DEF ClientStep, ChangeRow, LogChange, UnpinRow, UnpinRead, CommitAppend, CommitFlush, CommitPages,
           CommitFlushError, CommitPagesError, Rollback, RollbackError, Abandon, LockTable, RLockTable,
           FetchRow, ReadPage, hist
  <1>2. CASE \E tb \in Tables : LockTable(c, tb) \/ RLockTable(c, tb)
    <2>1. pc[c] = "ready" /\ pc' = pc
      BY <1>2 DEF LockTable, RLockTable
    <2>2. pc = [pc EXCEPT ![c] = "ready"]
      BY <2>1
    <2>3. QED
      BY <1>1, <2>1, <2>2 DEF PCs
  <1>3. CASE ~ \E tb \in Tables : LockTable(c, tb) \/ RLockTable(c, tb)
    BY <1>1, <1>3 DEF ClientStep, ChangeRow, LogChange, UnpinRow, UnpinRead, CommitAppend, CommitFlush, CommitPages,
           CommitFlushError, CommitPagesError, Rollback, RollbackError, Abandon,
           FetchRow, ReadPage, Goto, PCs, MayCommit, MayRollback
  <1>4. QED
    BY <1>2, <1>3

\* The four kinds of step: a client's, the log's, a crash or start, and recovery of a page.
LEMMA NextKinds ==
    ASSUME [Next]_vars
    PROVE  \/ \E c \in Clients : Begin(c) \/ ClientStep(c)
           \/ WalRecords \/ Crash \/ Open \/ UNCHANGED vars
           \/ \E p \in Pages : RecoverPage(p)
  BY DEF Next, ClientStep

\* The steps that change wrote, and those that release locks.
LEMMA WroteSteps ==
    ASSUME NEW c \in Clients, ClientStep(c)
    PROVE  \/ wrote' = wrote
           \/ LogChange(c) /\ wrote' = [wrote EXCEPT ![uid[c]] = @ \cup {at[c]}]
           \/ Rollback(c) /\ wrote' = [wrote EXCEPT ![uid[c]] = {}]
  BY DEF ClientStep, ChangeRow, LogChange, UnpinRow, UnpinRead, CommitAppend, CommitFlush, CommitPages,
         CommitFlushError, CommitPagesError, Rollback, RollbackError, Abandon, LockTable, RLockTable,
         FetchRow, ReadPage, hist

\* Only taking a lock and the end of a transaction change the table write locks.
LEMMA LockSteps ==
    ASSUME NEW c \in Clients, ClientStep(c)
    PROVE  \/ wlock' = wlock
           \/ \E tb \in Tables : LockTable(c, tb)
           \/ CommitPages(c) /\ Unlock(c)
           \/ Rollback(c) /\ Unlock(c)
  BY DEF ClientStep, ChangeRow, LogChange, UnpinRow, UnpinRead, CommitAppend, CommitFlush, CommitPages,
         CommitFlushError, CommitPagesError, Rollback, RollbackError, Abandon, LockTable, RLockTable,
         FetchRow, ReadPage

\* New records are those of an append.
LEMMA RecordSteps ==
    ASSUME OrderlyUse, Before, [Next]_vars, Readable', NEW x \in LogRecs', x \notin LogRecs
    PROVE  \E c \in Clients :
             /\ x.lsn = nextLSN /\ x.uid = uid[c] /\ x.txn = txnID[c] /\ pc[c] # "idle"
             /\ LogRecs' = LogRecs \cup {x} /\ nextLSN' = nextLSN + 1
             /\ \/ LogChange(c) /\ x.op = "change" /\ x.row = at[c] /\ x.page = PageOf[at[c]]
                                /\ x.img = frames[PageOf[at[c]]].img
                \/ CommitAppend(c) /\ x.op = "commit"
                \/ (Rollback(c) \/ RollbackError(c)) /\ x.op = "abort"
  <1>0. TInv /\ LogTypes
    BY DEF Before, TInv, Shapes
  <1>1. CASE UNCHANGED <<walFile, walBuf>>
    BY <1>1, SameSets
  <1>2. CASE WriteStep
    BY <1>0, <1>2, WriteSteps
  <1>3. CASE Crash
    <2>1. PICK n \in 0..Len(walBuf), left \in Tails("tornCrash") : WalCrash(n, left)
      BY <1>3 DEF Crash
    <2>2. left \in {"whole", "header", "data"}
      BY DEF Tails
    <2>3. LogRecs' \subseteq LogRecs
      BY <1>0, <2>1, <2>2, CrashSets
    <2>4. QED
      BY <2>3
  <1>4. ASSUME NEW c \in Clients, LogChange(c) \/ CommitAppend(c) \/ Rollback(c) \/ RollbackError(c)
        PROVE  \E rec \in Recs :
                 /\ WalAppend(rec) /\ rec.lsn = nextLSN /\ rec.uid = uid[c] /\ rec.txn = txnID[c]
                 /\ \/ LogChange(c) /\ rec.op = "change" /\ rec.row = at[c] /\ rec.page = PageOf[at[c]]
                                    /\ rec.img = frames[PageOf[at[c]]].img
                    \/ CommitAppend(c) /\ rec.op = "commit"
                    \/ (Rollback(c) \/ RollbackError(c)) /\ rec.op = "abort"
    BY <1>0, <1>4, AppendSteps
  <1>5. ASSUME NEW c \in Clients, LogChange(c) \/ CommitAppend(c) \/ Rollback(c) \/ RollbackError(c)
        PROVE  pc[c] # "idle"
    BY <1>5 DEF LogChange, CommitAppend, Rollback, RollbackError, MayCommit, MayRollback
  <1>6. ASSUME NEW rec, WalAppend(rec) PROVE LogRecs' = LogRecs \cup {rec} /\ nextLSN' = nextLSN + 1
    BY <1>0, <1>6, AppendSets DEF WalAppend
  <1>7. QED
    BY <1>1, <1>2, <1>3, <1>4, <1>5, <1>6, StepKinds

-----------------------------------------------------------------------------
(* The steps of the invariant.                                             *)

\* Every step keeps the ids: a record's, a lock holder's and an active client's transaction agree.
LEMMA IdStep ==
    ASSUME OrderlyUse, Before, [Next]_vars, Readable' PROVE IdInv'
  <1> USE DEF Before, HistoryInv, IdInv
  <1>0. /\ pc \in [Clients -> PCs] /\ uid \in [Clients -> 0..MaxTxns] /\ txnID \in [Clients -> 0..MaxTxns]
        /\ wrote \in [Uids -> SUBSET Rows] /\ wlock \in [Tables -> 0..MaxTxns] /\ uids \in Nat
        /\ \A c \in Clients : pc[c] # "idle" => Current /\ uid[c] \in Uids /\ txnID[c] = uid[c]
        /\ boots \in Nat /\ boots >= 1 /\ ClientBoots \in Nat /\ \A u \in Uids : u \in Nat
    BY BeforeFacts, StoreAssumption DEF TInv, Shapes, TxnTypes, Uids
  <1>1. \A x \in LogRecs' : x.txn = x.uid
    BY <1>0, RecordSteps
  <1>2. ASSUME NEW c \in Clients, Begin(c) PROVE IdInv'
    <2>1. /\ up /\ boots <= ClientBoots /\ nextTxnID' = nextTxnID + 1 /\ uids' = uids + 1
          /\ uid' = [uid EXCEPT ![c] = uids + 1] /\ txnID' = [txnID EXCEPT ![c] = nextTxnID + 1]
          /\ pc' = [pc EXCEPT ![c] = "ready"] /\ UNCHANGED <<wlock, up, boots, wrote>>
      BY <1>2 DEF Begin, Goto
    <2>2. boots = 1 /\ Current /\ Current'
      BY <1>0, <2>1 DEF OrderlyUse, OneClientProcess, Current
    <2>3. nextTxnID' = uids' /\ \A u \in Uids : wrote'[u] # {} => u <= uids'
      BY <1>0, <2>1, <2>2
    <2>4. \A d \in Clients : pc'[d] # "idle" => txnID'[d] = uid'[d]
      BY <1>0, <2>1, <2>2
    <2>5. boots' = 1
      BY <2>1, <2>2
    <2>6. QED
      BY <1>1, <2>2, <2>3, <2>4, <2>5
  <1>3. ASSUME NEW c \in Clients, ClientStep(c) PROVE IdInv'
    <2>1. /\ pc[c] # "idle" /\ UNCHANGED <<nextTxnID, uid, txnID, up, boots, uids>>
          /\ \E w \in PCs : pc' = [pc EXCEPT ![c] = w]
      BY <1>0, <1>3, ClientSteps
    <2>2. Current /\ Current' /\ boots = 1
      BY <1>0, <2>1 DEF Current
    <2>3. \A u \in Uids : wrote'[u] # {} => u <= uids
      <3>1. uid[c] \in Uids /\ uid[c] <= uids
        BY <1>0, <2>1 DEF OutcomeInv
      <3>2. \/ wrote' = wrote
            \/ wrote' = [wrote EXCEPT ![uid[c]] = @ \cup {at[c]}]
            \/ wrote' = [wrote EXCEPT ![uid[c]] = {}]
        BY <1>3, WroteSteps
      <3>3. QED
        BY <1>0, <3>1, <3>2
    <2>4. QED
      BY <1>0, <1>1, <2>1, <2>2, <2>3
  <1>4. ASSUME WalRecords PROVE IdInv'
    <2>1. WalFlush /\ UNCHANGED <<frames, nextTxnID, wlock, pc, uid, txnID, up, boots, uids, wrote>>
      BY <1>4 DEF WalRecords, poolVars, txnVars, hist
    <2>2. walBuf' = <<>>
      BY <2>1 DEF WalFlush
    <2>3. QED
      BY <1>1, <2>1, <2>2 DEF Current, Cached
  <1>5. ASSUME Crash PROVE IdInv'
    <2>1. walBuf' = <<>>
      BY <1>5 DEF Crash, WalCrash
    <2>2. /\ Cached' = {} /\ up' = FALSE /\ wlock' = [tb \in Tables |-> 0]
          /\ pc' = [c \in Clients |-> "idle"] /\ wrote' = [u \in Uids |-> {}]
      BY <1>5 DEF Crash, Cached
    <2>3. ~Current'
      BY <2>2 DEF Current
    <2>4. QED
      BY <1>1, <2>1, <2>2, <2>3
  <1>6. ASSUME Open PROVE IdInv'
    <2>1. /\ ~up /\ boots' = boots + 1 /\ UNCHANGED <<walBuf, frames, wlock, pc, wrote, uids, uid, txnID>>
      BY <1>6 DEF Open, WalOpen, poolVars
    <2>2. ~Current /\ ~Current'
      BY <1>0, <2>1 DEF Current
    <2>3. \A c \in Clients : pc[c] = "idle"
      BY <1>0, <2>2
    <2>4. QED
      BY <1>1, <2>1, <2>2, <2>3 DEF Cached
  <1>7. ASSUME UNCHANGED vars \/ \E p \in Pages : RecoverPage(p) PROVE IdInv'
    <2>1. UNCHANGED <<walBuf, frames, nextTxnID, wlock, pc, wrote, uids, uid, txnID, up, boots>>
      BY <1>7 DEF RecoverPage, vars, poolVars, walVars, txnVars, hist
    <2>2. QED
      BY <1>1, <2>1 DEF Current, Cached
  <1>8. QED
    BY <1>2, <1>3, <1>4, <1>5, <1>6, <1>7, NextKinds

\* Commit is not called after a Rollback that failed, nor the other way round.
LEMMA AbortStep ==
    ASSUME OrderlyUse, Before, OutcomeInv', [Next]_vars, Readable' PROVE AbortInv'
  <1>0. /\ pc \in [Clients -> PCs] /\ uid \in [Clients -> 0..MaxTxns] /\ uids \in Nat
        /\ \A x \in LogRecs : x.uid \in Nat
    BY BeforeFacts, RecFacts DEF Uids
  <1>1. NoSecondThoughts /\ AbortInv /\ OutcomeInv
    BY DEF OrderlyUse, Before, HistoryInv
  <1>2. \A x \in LogRecs' : x.op = "abort" =>
          \/ x \in LogRecs
          \/ \E c \in Clients : (Rollback(c) \/ RollbackError(c)) /\ x.uid = uid[c]
    BY RecordSteps
  <1>3. \A x \in LogRecs' : x.op = "commit" =>
          \/ x \in LogRecs
          \/ \E c \in Clients : CommitAppend(c) /\ x.uid = uid[c] /\ LogRecs' = LogRecs \cup {x}
    BY RecordSteps
  <1>4. \A u \in AbortRecs' : u \in AbortRecs \/ \E c \in Clients : (Rollback(c) \/ RollbackError(c)) /\ u = uid[c]
    BY <1>2 DEF AbortRecs, Ended
  <1>5. \A u \in CommitRecs' : \/ u \in CommitRecs
                               \/ \E c \in Clients : CommitAppend(c) /\ u = uid[c] /\ AbortRecs' = AbortRecs
    BY <1>3 DEF CommitRecs, AbortRecs, Ended
  <1>6. ASSUME NEW c \in Clients, Rollback(c) \/ RollbackError(c)
        PROVE  /\ pc[c] \in {"ready", "rollbackFailed"} /\ uid' = uid
               /\ \E w \in {"idle", "rollbackFailed"} : pc' = [pc EXCEPT ![c] = w]
    BY <1>1, <1>6 DEF Rollback, RollbackError, MayRollback, NoSecondThoughts, Goto
  <1>7. ASSUME NEW c \in Clients, CommitAppend(c)
        PROVE  /\ pc[c] \in {"ready", "commitFailed"} /\ uid' = uid /\ pc' = [pc EXCEPT ![c] = "flushLog"]
    BY <1>1, <1>7 DEF CommitAppend, MayCommit, NoSecondThoughts, Goto
  <1>8. ASSUME NEW u \in AbortRecs', u \in CommitRecs' PROVE FALSE
    <2>1. CASE u \in CommitRecs
      <3>1. PICK c \in Clients : (Rollback(c) \/ RollbackError(c)) /\ u = uid[c]
        BY <1>1, <1>4, <1>8, <2>1 DEF AbortInv
      <3>2. QED
        BY <1>1, <1>6, <2>1, <3>1 DEF OutcomeInv, Unfinished
    <2>2. CASE u \notin CommitRecs
      <3>1. PICK c \in Clients : CommitAppend(c) /\ u = uid[c] /\ AbortRecs' = AbortRecs
        BY <1>5, <1>8, <2>2
      <3>2. QED
        BY <1>1, <1>7, <1>8, <3>1 DEF AbortInv
    <2>3. QED
      BY <2>1, <2>2
  <1>9. ASSUME NEW d \in Clients, pc'[d] \notin {"rollbackFailed", "idle"} PROVE uid'[d] \notin AbortRecs'
    <2>1. CASE \E c \in Clients : Rollback(c) \/ RollbackError(c)
      <3>1. PICK c \in Clients : Rollback(c) \/ RollbackError(c)
        BY <2>1
      <3>2. d # c /\ pc'[d] = pc[d] /\ uid'[d] = uid[d] /\ pc[c] # "idle"
        BY <1>0, <1>6, <1>9, <3>1
      <3>3. uid[d] # uid[c] /\ uid[d] \notin AbortRecs
        BY <1>1, <1>9, <3>2 DEF OutcomeInv, AbortInv
      <3>4. \A e \in Clients : Rollback(e) \/ RollbackError(e) => uid[e] # uid[d]
        BY <1>0, <1>1, <1>6, <1>9, <3>2, <3>3 DEF OutcomeInv
      <3>5. QED
        BY <1>4, <3>2, <3>3, <3>4
    <2>2. CASE ~ \E c \in Clients : Rollback(c) \/ RollbackError(c)
      <3>1. AbortRecs' \subseteq AbortRecs
        BY <1>4, <2>2
      <3>2. CASE \E c \in Clients : Begin(c)
        <4>1. PICK c \in Clients : Begin(c)
          BY <3>2
        <4>2. uid' = [uid EXCEPT ![c] = uids + 1] /\ pc' = [pc EXCEPT ![c] = "ready"]
          BY <4>1 DEF Begin, Goto
        <4>3. uids + 1 \notin AbortRecs
          BY <1>0, <1>1 DEF AbortRecs, Ended, OutcomeInv
        <4>4. QED
          BY <1>0, <1>1, <1>9, <3>1, <4>2, <4>3 DEF AbortInv
      <3>3. CASE \E c \in Clients : ClientStep(c)
        <4>1. PICK c \in Clients : ClientStep(c)
          BY <3>3
        <4>2. uid' = uid /\ pc[c] # "idle" /\ \A e \in Clients : e # c => pc'[e] = pc[e]
          BY <1>0, <4>1, ClientSteps
        <4>3. pc[c] = "rollbackFailed" => pc'[c] \in {"idle", "rollbackFailed"}
          BY <1>0, <1>1, <2>2, <4>1 DEF ClientStep, ChangeRow, LogChange, UnpinRow, UnpinRead, CommitAppend,
             CommitFlush, CommitPages, CommitFlushError, CommitPagesError, Abandon, LockTable, RLockTable,
             FetchRow, ReadPage, MayCommit, NoSecondThoughts, Goto
        <4>4. QED
          BY <1>1, <1>9, <3>1, <4>2, <4>3 DEF AbortInv
      <3>4. CASE WalRecords \/ Open \/ UNCHANGED vars \/ \E p \in Pages : RecoverPage(p)
        <4>1. pc' = pc /\ uid' = uid
          BY <3>4 DEF WalRecords, Open, RecoverPage, vars, txnVars
        <4>2. QED
          BY <1>1, <1>9, <3>1, <4>1 DEF AbortInv
      <3>5. CASE Crash
        BY <1>9, <3>5 DEF Crash
      <3>6. QED
        BY <3>2, <3>3, <3>4, <3>5, NextKinds
    <2>3. QED
      BY <2>1, <2>2
  <1>10. QED
    BY <1>8, <1>9 DEF AbortInv

\* Commits are never lost, and only CommitAppend puts one into the buffer.
LEMMA CommitSteps ==
    ASSUME TInv, [Next]_vars, Readable'
    PROVE  /\ CommittedUids \subseteq CommittedUids'
           /\ \A u \in Ended(BufRecs, "commit")' :
                \/ u \in Ended(BufRecs, "commit")
                \/ \E c \in Clients : CommitAppend(c) /\ u = uid[c]
  <1>0. LogTypes
    BY DEF TInv, Shapes
  <1>1. CASE UNCHANGED <<walFile, walBuf>>
    BY <1>1, SameSets DEF Ended
  <1>2. CASE WriteStep
    <2>1. CommittedUids \subseteq CommittedUids' /\ BufRecs' \subseteq BufRecs
      BY <1>2, WriteSteps DEF LiveWrite
    <2>2. QED
      BY <2>1 DEF Ended
  <1>3. CASE Crash
    <2>1. PICK n \in 0..Len(walBuf), left \in Tails("tornCrash") : WalCrash(n, left)
      BY <1>3 DEF Crash
    <2>2. left \in {"whole", "header", "data"}
      BY DEF Tails
    <2>3. CommittedUids \subseteq CommittedUids' /\ BufRecs' = {}
      BY <1>0, <2>1, <2>2, CrashSets
    <2>4. QED
      BY <2>3 DEF Ended
  <1>4. ASSUME NEW c \in Clients, LogChange(c) \/ CommitAppend(c) \/ Rollback(c) \/ RollbackError(c)
        PROVE  /\ CommittedUids \subseteq CommittedUids'
               /\ \A u \in Ended(BufRecs, "commit")' :
                    u \in Ended(BufRecs, "commit") \/ (CommitAppend(c) /\ u = uid[c])
    <2>1. PICK rec \in Recs : WalAppend(rec) /\ (rec.op = "commit" => CommitAppend(c) /\ rec.uid = uid[c])
      BY <1>4, AppendSteps
    <2>2. CommittedUids' = CommittedUids /\ BufRecs' = BufRecs \cup {rec}
      BY <1>0, <2>1, AppendSets
    <2>3. QED
      BY <2>1, <2>2 DEF Ended
  <1>5. QED
    BY <1>1, <1>2, <1>3, <1>4, StepKinds

\* The other clients stay where they are.
LEMMA OtherClients ==
    ASSUME TInv, NEW c \in Clients, ClientStep(c) \/ Begin(c), NEW d \in Clients, d # c
    PROVE  pc'[d] = pc[d] /\ at'[d] = at[d] /\ uid'[d] = uid[d]
  <1>1. /\ pc \in [Clients -> PCs] /\ uid \in [Clients -> 0..MaxTxns] /\ at = [e \in Clients |-> at[e]]
    BY DEF TInv, Shapes, TxnTypes
  <1>2. CASE Begin(c)
    BY <1>1, <1>2 DEF Begin, Goto
  <1>3. CASE ClientStep(c)
    <2>1. pc'[d] = pc[d] /\ uid'[d] = uid[d]
      BY <1>1, <1>3, ClientSteps
    <2>2. at' = at \/ \E x : at' = [at EXCEPT ![c] = x]
      BY <1>3 DEF ClientStep, ChangeRow, LogChange, UnpinRow, UnpinRead, CommitAppend, CommitFlush, CommitPages,
         CommitFlushError, CommitPagesError, Rollback, RollbackError, Abandon, LockTable, RLockTable,
         FetchRow, ReadPage
    <2>3. QED
      BY <1>1, <2>1, <2>2
  <1>4. QED
    BY <1>2, <1>3

\* Every step keeps the table locks of what an unfinished transaction wrote.
LEMMA HeldStep ==
    ASSUME OrderlyUse, Before, [Next]_vars, Readable' PROVE HeldInv'
  <1>0. /\ pc \in [Clients -> PCs] /\ uid \in [Clients -> 0..MaxTxns] /\ wlock \in [Tables -> 0..MaxTxns]
        /\ wrote \in [Uids -> SUBSET Rows] /\ uids \in Nat /\ 0 \notin Uids /\ \A u \in Uids : u \in Nat
        /\ \A r \in Rows : TableOf[r] \in Tables
        /\ \A c \in Clients : pc[c] # "idle" => uid[c] \in Uids
        /\ at = [e \in Clients |-> at[e]]
    BY BeforeFacts DEF Uids, Before, TInv, Shapes, TxnTypes
  <1>1. TInv /\ HeldInv /\ OutcomeInv /\ IdInv
    BY DEF Before, HistoryInv
  <1>2. /\ CommittedUids \subseteq CommittedUids'
        /\ \A u \in Ended(BufRecs, "commit")' :
             u \in Ended(BufRecs, "commit") \/ \E c \in Clients : CommitAppend(c) /\ u = uid[c]
    BY <1>1, CommitSteps
  <1> DEFINE Done(u) == u \in CommittedUids /\ u \notin Ended(BufRecs, "commit") /\ ~Active(u)
             AtRows == {"fetched", "changed", "logged"}
  <1>3. ASSUME NEW c \in Clients, ClientStep(c), NEW tb \in Tables, wlock[tb] # 0, wlock'[tb] # wlock[tb]
        PROVE  wlock[tb] = uid[c] /\ (CommitPages(c) \/ Rollback(c))
    <2>1. \A t \in Tables : LockTable(c, t) => wlock[t] = 0 /\ wlock' = [wlock EXCEPT ![t] = uid[c]]
      BY DEF LockTable
    <2>2. Unlock(c) => wlock' = [t \in Tables |-> IF wlock[t] = uid[c] THEN 0 ELSE wlock[t]]
      BY DEF Unlock
    <2>3. QED
      BY <1>0, <1>3, <2>1, <2>2, LockSteps
  <1>4. ASSUME NEW c \in Clients, ClientStep(c)
        PROVE  /\ pc[c] # "idle" /\ uid[c] \in Uids /\ uid' = uid
               /\ \A u : Active(u)' => Active(u)
               /\ \A u : Done(u) => Done(u)'
    <2>1. /\ pc[c] # "idle" /\ uid[c] \in Uids /\ uid' = uid
          /\ \A u : Active(u)' => Active(u)
      BY <1>0, <1>4, ClientSteps DEF Active
    <2>2. ASSUME NEW u, Done(u) PROVE u \notin Ended(BufRecs, "commit")'
      <3>1. \A d \in Clients : CommitAppend(d) => uid[d] # u
        BY <2>2 DEF CommitAppend, MayCommit, Active
      <3>2. QED
        BY <1>2, <2>2, <3>1
    <2>3. QED
      BY <1>2, <2>1, <2>2
  <1>5. ASSUME NEW c \in Clients, ClientStep(c), NEW u \in Uids, NEW r \in wrote'[u]
        PROVE  wlock'[TableOf[r]] = u \/ Done(u)'
    <2>1. r \in Rows /\ TableOf[r] \in Tables
      BY <1>0, <1>4, <1>5, WroteSteps, AtWork, <1>1 DEF LogChange
    <2>2. CASE r \notin wrote[u]
      <3>1. LogChange(c) /\ u = uid[c] /\ r = at[c]
        BY <1>0, <1>4, <1>5, <2>2, WroteSteps
      <3>2. wlock[TableOf[r]] = u /\ wlock' = wlock
        BY <1>1, <3>1 DEF LogChange, HeldInv
      <3>3. QED
        BY <3>2
    <2>3. CASE r \in wrote[u] /\ wlock[TableOf[r]] # u
      <3>1. Done(u)
        BY <1>1, <2>3 DEF HeldInv
      <3>2. QED
        BY <1>4, <1>5, <3>1
    <2>4. CASE r \in wrote[u] /\ wlock[TableOf[r]] = u
      <3>1. CASE wlock'[TableOf[r]] = u
        BY <3>1
      <3>2. CASE wlock'[TableOf[r]] # u
        <4>1. u = uid[c] /\ (CommitPages(c) \/ Rollback(c))
          BY <1>0, <1>3, <1>5, <2>1, <2>4, <3>2
        <4>2. CASE CommitPages(c)
          <5>1. pc[c] = "flushPages" /\ WalFlush /\ pc' = [pc EXCEPT ![c] = "idle"]
            BY <4>2 DEF CommitPages, Goto
          <5>2. u \in CommittedUids'
            BY <1>1, <1>2, <4>1, <5>1 DEF OutcomeInv
          <5>3. Ended(BufRecs, "commit")' = {}
            BY <5>1 DEF WalFlush, Ended, BufRecs
          <5>4. ~Active(u)'
            BY <1>0, <1>1, <1>4, <4>1, <5>1, <1>5 DEF Active, OutcomeInv
          <5>5. QED
            BY <5>2, <5>3, <5>4
        <4>3. CASE Rollback(c)
          <5>1. wrote' = [wrote EXCEPT ![uid[c]] = {}]
            BY <4>3 DEF Rollback
          <5>2. QED
            BY <1>0, <1>5, <4>1, <5>1
        <4>4. QED
          BY <4>1, <4>2, <4>3
      <3>3. QED
        BY <3>1, <3>2
    <2>5. QED
      BY <2>2, <2>3, <2>4
  <1>6. ASSUME NEW c \in Clients, ClientStep(c), NEW d \in Clients, pc'[d] \in AtRows
        PROVE  wlock'[TableOf[at'[d]]] = uid'[d] /\ (pc'[d] = "logged" => at'[d] \in wrote'[uid'[d]])
    <2>1. CASE d # c
      <3>1. pc'[d] = pc[d] /\ at'[d] = at[d] /\ uid'[d] = uid[d]
        BY <1>1, <1>6, <2>1, OtherClients
      <3>2. /\ wlock[TableOf[at[d]]] = uid[d] /\ (pc[d] = "logged" => at[d] \in wrote[uid[d]])
            /\ uid[d] \in Uids /\ uid[d] # uid[c] /\ TableOf[at[d]] \in Tables
        BY <1>0, <1>1, <1>4, <1>6, <2>1, <3>1, AtWork DEF HeldInv, OutcomeInv
      <3>3. wlock'[TableOf[at[d]]] = uid[d]
        BY <1>0, <1>3, <1>6, <3>2
      <3>4. pc[d] = "logged" => at[d] \in wrote'[uid[d]]
        BY <1>0, <1>4, <1>6, <3>2, WroteSteps
      <3>5. QED
        BY <3>1, <3>3, <3>4
    <2>2. CASE d = c
      <3>1. \/ ChangeRow(c) /\ pc[c] = "fetched" /\ pc'[c] = "changed"
               /\ UNCHANGED <<wlock, at, uid, wrote>>
            \/ LogChange(c) /\ pc[c] = "changed" /\ wrote' = [wrote EXCEPT ![uid[c]] = @ \cup {at[c]}]
               /\ UNCHANGED <<wlock, at, uid>>
            \/ \E r \in Rows : /\ wlock[TableOf[r]] = uid[c] /\ at' = [at EXCEPT ![c] = r]
                               /\ pc'[c] = "fetched" /\ UNCHANGED <<wlock, uid>>
        BY <1>0, <1>6, <2>2 DEF ClientStep, ChangeRow, LogChange, UnpinRow, UnpinRead, CommitAppend,
           CommitFlush, CommitPages, CommitFlushError, CommitPagesError, Rollback, RollbackError, Abandon,
           LockTable, RLockTable, FetchRow, ReadPage, Goto, hist
      <3>2. QED
        BY <1>0, <1>1, <1>4, <1>6, <2>2, <3>1 DEF HeldInv
    <2>3. QED
      BY <2>1, <2>2
  <1>7. ASSUME NEW c \in Clients, Begin(c) PROVE HeldInv'
    <2>1. /\ UNCHANGED <<walFile, walBuf, wlock, wrote>> /\ pc[c] = "idle" /\ at' = at
          /\ uid' = [uid EXCEPT ![c] = uids + 1] /\ pc' = [pc EXCEPT ![c] = "ready"]
      BY <1>7 DEF Begin, Goto, walVars
    <2>2. ASSUME NEW u \in Uids, NEW r \in wrote[u], Done(u) PROVE Done(u)'
      <3>1. u # uids + 1
        BY <1>0, <1>1 DEF IdInv
      <3>2. ~Active(u)'
        BY <1>0, <2>1, <2>2, <3>1 DEF Active
      <3>3. QED
        BY <2>1, <2>2, <3>2, SameSets DEF Ended
    <2>3. QED
      BY <1>0, <1>1, <2>1, <2>2 DEF HeldInv
  <1>8. ASSUME \/ WalRecords \/ Open \/ UNCHANGED vars
               \/ \E p \in Pages : RecoverPage(p)
        PROVE  HeldInv'
    <2>1. UNCHANGED <<pc, at, uid, wlock, wrote>>
      BY <1>8 DEF WalRecords, Open, RecoverPage, vars, txnVars, hist
    <2>2. \A d \in Clients : ~CommitAppend(d)
      <3>1. \A d \in Clients : CommitAppend(d) => pc'[d] = "flushLog" /\ pc[d] \in {"ready", "commitFailed", "rollbackFailed"}
        BY <1>0 DEF CommitAppend, MayCommit, Goto
      <3>2. QED
        BY <2>1, <3>1
    <2>3. \A u : Done(u) => Done(u)'
      BY <1>2, <2>1, <2>2 DEF Active
    <2>4. QED
      BY <1>1, <2>1, <2>3 DEF HeldInv
  <1>9. ASSUME Crash PROVE HeldInv'
    BY <1>9 DEF Crash, HeldInv
  <1>10. ASSUME NEW c \in Clients, ClientStep(c) PROVE HeldInv'
    BY <1>5, <1>6, <1>10 DEF HeldInv
  <1>11. QED
    BY <1>7, <1>8, <1>9, <1>10, NextKinds

\* Only a crash loses records, and only Open moves the LSN back.
LEMMA KeptSteps ==
    ASSUME OrderlyUse, Before, [Next]_vars, Readable'
    PROVE  /\ Crash \/ LogRecs \subseteq LogRecs'
           /\ Open \/ nextLSN' \in {nextLSN, nextLSN + 1}
           /\ Current' => Current /\ ~Open /\ ~Crash
           /\ undone \subseteq undone'
  <1>0. TInv /\ LogTypes /\ boots \in Nat /\ boots >= 1
    BY DEF Before, TInv, Shapes, TxnTypes
  <1>1. Crash \/ LogRecs \subseteq LogRecs'
    <2>1. CASE UNCHANGED <<walFile, walBuf>>
      BY <2>1, SameSets
    <2>2. CASE WriteStep
      BY <1>0, <2>2, WriteSteps
    <2>3. ASSUME NEW c \in Clients, LogChange(c) \/ CommitAppend(c) \/ Rollback(c) \/ RollbackError(c)
          PROVE  LogRecs \subseteq LogRecs'
      <3>1. PICK rec : WalAppend(rec)
        BY <1>0, <2>3, AppendSteps
      <3>2. QED
        BY <1>0, <3>1, AppendSets
    <2>4. QED
      BY <2>1, <2>2, <2>3, StepKinds
  <1>2. ASSUME NEW c \in Clients, ClientStep(c) PROVE nextLSN' \in {nextLSN, nextLSN + 1} /\ undone \subseteq undone'
    BY <1>2 DEF ClientStep, ChangeRow, LogChange, UnpinRow, UnpinRead, CommitAppend, CommitFlush, CommitPages,
         CommitFlushError, CommitPagesError, Rollback, RollbackError, Abandon, LockTable, RLockTable,
         FetchRow, ReadPage, WalAppend, WalFlush, WalFlushError, walVars, hist
  <1>3. ASSUME \/ \E c \in Clients : Begin(c)
               \/ WalRecords \/ Crash \/ UNCHANGED vars
               \/ \E p \in Pages : RecoverPage(p)
        PROVE  nextLSN' \in {nextLSN, nextLSN + 1} /\ undone \subseteq undone'
    BY <1>3 DEF Begin, WalRecords, Crash, RecoverPage, WalFlush, WalCrash, vars, walVars, hist
  <1>4. Current' => Current /\ ~Open /\ ~Crash
    <2>1. ASSUME NEW c \in Clients, ClientStep(c) \/ Begin(c) PROVE UNCHANGED <<up, boots>>
      BY <1>0, <2>1, ClientSteps DEF Begin, TInv, Shapes, TxnTypes
    <2>2. WalRecords \/ UNCHANGED vars \/ (\E p \in Pages : RecoverPage(p)) => UNCHANGED <<up, boots>>
      BY DEF WalRecords, RecoverPage, vars, hist
    <2>3. Crash => up' = FALSE
      BY DEF Crash
    <2>4. Open => boots' = boots + 1
      BY DEF Open
    <2>5. UNCHANGED <<up, boots>> /\ Current' => up' = TRUE /\ boots' = 1 /\ Current
      BY DEF Current
    <2>6. Current' => ~Open /\ ~Crash
      BY <1>0, <2>3, <2>4 DEF Current
    <2>7. QED
      BY <2>1, <2>2, <2>5, <2>6, NextKinds
  <1>5. Open => undone' = undone
    BY DEF Open
  <1>6. QED
    BY <1>1, <1>2, <1>3, <1>4, <1>5, NextKinds

\* Every step keeps wrote in agreement with the change records of the log.
LEMMA WroteStep ==
    ASSUME OrderlyUse, Before, [Next]_vars, Readable' PROVE WroteInv'
  <1>0. /\ wrote \in [Uids -> SUBSET Rows]
        /\ \A c \in Clients : pc[c] # "idle" => uid[c] \in Uids
        /\ pc \in [Clients -> PCs] /\ \A x \in LogRecs : x.uid \in Uids
    BY BeforeFacts
  <1>1. WroteInv
    BY DEF Before, HistoryInv
  <1>2. ASSUME NEW c \in Clients, LogChange(c)
        PROVE  \E x \in LogRecs' : x.op = "change" /\ x.uid = uid[c] /\ x.row = at[c]
    <2>1. PICK rec \in Recs : WalAppend(rec) /\ rec.op = "change" /\ rec.uid = uid[c] /\ rec.row = at[c]
      BY <1>2, AppendSteps DEF Before
    <2>2. LogRecs' = LogRecs \cup {rec}
      BY <2>1, AppendSets DEF Before, TInv, Shapes
    <2>3. QED
      BY <2>1, <2>2
  <1>3. \/ \A u \in Uids : wrote'[u] = {}
        \/ wrote' = wrote
        \/ \E c \in Clients : /\ uid[c] \in Uids
                              /\ \/ LogChange(c) /\ wrote' = [wrote EXCEPT ![uid[c]] = @ \cup {at[c]}]
                                 \/ /\ wrote' = [wrote EXCEPT ![uid[c]] = {}]
                                    /\ uid[c] \in undone'
    <2>1. ASSUME NEW c \in Clients, ClientStep(c)
          PROVE  \/ wrote' = wrote
                 \/ /\ uid[c] \in Uids
                    /\ \/ LogChange(c) /\ wrote' = [wrote EXCEPT ![uid[c]] = @ \cup {at[c]}]
                       \/ wrote' = [wrote EXCEPT ![uid[c]] = {}] /\ uid[c] \in undone'
      BY <1>0, <2>1, ClientSteps, WroteSteps DEF Rollback
    <2>2. \/ \E c \in Clients : Begin(c)
          \/ WalRecords \/ Open \/ UNCHANGED vars
          \/ \E p \in Pages : RecoverPage(p)
          => wrote' = wrote
      BY DEF Begin, WalRecords, Open, RecoverPage, vars, hist
    <2>3. Crash => \A u \in Uids : wrote'[u] = {}
      BY DEF Crash
    <2>4. QED
      BY <2>1, <2>2, <2>3, NextKinds
  <1>4. ASSUME NEW u \in Uids, NEW r \in wrote'[u]
        PROVE  \E x \in LogRecs' : x.op = "change" /\ x.uid = u /\ x.row = r
    <2>1. CASE r \in wrote[u] /\ ~Crash
      <3>1. PICK x \in LogRecs : x.op = "change" /\ x.uid = u /\ x.row = r
        BY <1>1, <2>1 DEF WroteInv
      <3>2. QED
        BY <2>1, <3>1, KeptSteps
    <2>2. CASE r \notin wrote[u] /\ ~Crash
      <3>1. PICK c \in Clients : LogChange(c) /\ u = uid[c] /\ r = at[c]
        BY <1>0, <1>3, <1>4, <2>2
      <3>2. QED
        BY <1>2, <3>1
    <2>3. CASE Crash
      BY <1>4, <2>3 DEF Crash
    <2>4. QED
      BY <2>1, <2>2, <2>3
  <1>5. ASSUME Current', NEW x \in LogRecs', x.op = "change"
        PROVE  x.row \in wrote'[x.uid] \/ x.uid \in undone'
    <2>1. Current /\ undone \subseteq undone' /\ ~Crash
      BY <1>5, KeptSteps
    <2>2. CASE x \in LogRecs
      <3>1. x.row \in wrote[x.uid] \/ x.uid \in undone
        BY <1>1, <1>5, <2>1, <2>2 DEF WroteInv
      <3>2. x.uid \in Uids
        BY <1>0, <2>2
      <3>3. CASE \A u \in Uids : wrote'[u] = {}
        <4>1. CASE \E c \in Clients : ClientStep(c)
          BY <1>0, <2>1, <3>1, <3>2, <4>1, ClientSteps, WroteSteps DEF Rollback
        <4>2. CASE ~ \E c \in Clients : ClientStep(c)
          <5>1. wrote' = wrote
            BY <2>1, <4>2, NextKinds DEF Begin, WalRecords, Open, RecoverPage, vars, hist
          <5>2. QED
            BY <2>1, <3>1, <5>1
        <4>3. QED
          BY <4>1, <4>2
      <3>4. CASE ~ \A u \in Uids : wrote'[u] = {}
        BY <1>0, <1>3, <2>1, <3>1, <3>2, <3>4
      <3>5. QED
        BY <3>3, <3>4
    <2>3. CASE x \notin LogRecs
      <3>1. PICK c \in Clients : /\ pc[c] # "idle" /\ LogChange(c) /\ x.uid = uid[c] /\ x.row = at[c]
        BY <1>5, <2>3, RecordSteps
      <3>2. wrote' = [wrote EXCEPT ![uid[c]] = @ \cup {at[c]}]
        BY <3>1 DEF LogChange
      <3>3. QED
        BY <1>0, <3>1, <3>2
    <2>4. QED
      BY <2>2, <2>3
  <1>6. QED
    BY <1>4, <1>5 DEF WroteInv

\* Every step keeps a transaction's changes ahead of its COMMIT in the log.
LEMMA OrderStep ==
    ASSUME OrderlyUse, Before, [Next]_vars, Readable' PROVE OrderInv'
  <1>0. /\ TInv /\ LogTypes /\ OutcomeInv /\ OrderInv /\ CommittedUids \subseteq CommitRecs
        /\ DOMAIN walBuf = 1..Len(walBuf) /\ Len(walBuf) \in Nat /\ walBuf \in Seq(Recs)
        /\ FileRecs \subseteq LogRecs
    BY LogSets DEF Before, TInv, Shapes, HistoryInv, LogRecs, LogTypes
  <1>1. \A i \in 1..Len(walBuf) : walBuf[i].op = "commit" => walBuf[i].uid \in CommitRecs
    BY <1>0 DEF CommitRecs, Ended, LogRecs, BufRecs
  <1>2. CASE UNCHANGED <<walFile, walBuf>>
    BY <1>0, <1>2, SameSets DEF OrderInv, Changes
  <1>3. ASSUME walBuf' = <<>>, BufRecs' = {} PROVE OrderInv'
    BY <1>3 DEF OrderInv, Changes
  <1>4. CASE WriteStep
    <2>1. PICK n \in 0..Len(walBuf) :
            /\ FileRecs' = FileRecs \cup Prefix(n)
            /\ \/ walBuf' = walBuf /\ BufRecs' = BufRecs
               \/ walBuf' = <<>> /\ BufRecs' = {}
            /\ CommittedUids' = CommittedUids \cup Ended(Prefix(n), "commit")
      BY <1>0, <1>4, WriteSteps DEF LiveWrite
    <2>2. ASSUME walBuf' = walBuf, BufRecs' = BufRecs, NEW u \in CommittedUids', NEW x \in Changes(BufRecs, u)
          PROVE  x \in FileRecs'
      <3>1. CASE u \in CommittedUids
        BY <1>0, <2>1, <2>2, <3>1 DEF OrderInv
      <3>2. CASE u \in Ended(Prefix(n), "commit")
        <4>1. PICK i \in 1..n : walBuf[i].op = "commit" /\ walBuf[i].uid = u
          BY <3>2 DEF Ended, Prefix
        <4>2. PICK j \in 1..Len(walBuf) : x = walBuf[j] /\ x.op = "change" /\ x.uid = u
          BY <1>0, <2>2 DEF Changes, BufRecs
        <4>3. j < i /\ j \in 1..n
          BY <1>0, <4>1, <4>2 DEF OrderInv
        <4>4. QED
          BY <2>1, <4>2, <4>3 DEF Prefix
      <3>3. QED
        BY <2>1, <3>1, <3>2
    <2>3. CASE walBuf' = walBuf /\ BufRecs' = BufRecs
      BY <1>0, <2>2, <2>3 DEF OrderInv, Changes
    <2>4. QED
      BY <1>3, <2>1, <2>3
  <1>5. CASE Crash
    BY <1>3, <1>5 DEF Crash, WalCrash, BufRecs
  <1>6. ASSUME NEW c \in Clients, LogChange(c) \/ CommitAppend(c) \/ Rollback(c) \/ RollbackError(c)
        PROVE  OrderInv'
    <2>1. PICK rec \in Recs : /\ WalAppend(rec) /\ rec.uid = uid[c]
                              /\ rec.op = "change" => pc[c] = "changed"
      BY <1>0, <1>6, AppendSteps DEF LogChange
    <2>2. rec.op = "change" => rec.uid \notin CommitRecs
      BY <1>0, <2>1 DEF OutcomeInv, Unfinished
    <2>3. /\ FileRecs' = FileRecs /\ BufRecs' = BufRecs \cup {rec} /\ CommittedUids' = CommittedUids
      BY <1>0, <2>1, AppendSets
    <2>4. /\ Len(walBuf') = Len(walBuf) + 1 /\ walBuf'[Len(walBuf) + 1] = rec
          /\ \A i \in 1..Len(walBuf) : walBuf'[i] = walBuf[i]
      BY <1>0, <2>1, AppendProperties DEF WalAppend
    <2>5. ASSUME NEW i \in 1..Len(walBuf'), NEW j \in 1..Len(walBuf'),
                 walBuf'[i].op = "commit", walBuf'[j].op = "change", walBuf'[i].uid = walBuf'[j].uid
          PROVE  j < i
      <3>1. CASE i = Len(walBuf) + 1
        <4>1. j # i
          BY <2>5
        <4>2. QED
          BY <1>0, <2>4, <3>1, <4>1
      <3>2. CASE i \in 1..Len(walBuf) /\ j \in 1..Len(walBuf)
        BY <1>0, <2>4, <2>5, <3>2 DEF OrderInv
      <3>3. CASE i \in 1..Len(walBuf) /\ j = Len(walBuf) + 1
        BY <1>1, <2>2, <2>4, <2>5, <3>3
      <3>4. QED
        BY <1>0, <2>4, <3>1, <3>2, <3>3
    <2>6. ASSUME NEW u \in CommittedUids', NEW x \in Changes(BufRecs', u) PROVE x \in FileRecs'
      BY <1>0, <2>2, <2>3, <2>6 DEF OrderInv, Changes
    <2>7. QED
      BY <2>5, <2>6 DEF OrderInv, Changes
  <1>7. QED
    BY <1>2, <1>4, <1>5, <1>6, StepKinds

\* Every step keeps the LSNs of a page's changes in the order of the locks on its table.
LEMMA LsnStep ==
    ASSUME OrderlyUse, Before, [Next]_vars, Readable' PROVE LsnInv'
  <1>0. /\ LsnInv /\ HeldInv /\ WroteInv /\ IdInv /\ OutcomeInv /\ TInv /\ TablesOwnLeaves
        /\ nextLSN \in Nat /\ 0 \notin Uids /\ wlock \in [Tables -> 0..MaxTxns]
        /\ \A x \in LogRecs : /\ x.uid \in Uids /\ x.lsn \in Nat
                              /\ x.op = "change" => x.row \in Rows /\ x.page = PageOf[x.row]
        /\ \A r \in Rows : TableOf[r] \in Tables
        /\ \A c \in Clients : pc[c] # "idle" => Current /\ uid[c] \in Uids
    BY BeforeFacts DEF Before, HistoryInv, OrderlyUse
  <1>1. ASSUME NEW x \in LogRecs', x \notin LogRecs
        PROVE  /\ Current /\ x.lsn = nextLSN /\ LogRecs' = LogRecs \cup {x} /\ nextLSN' = nextLSN + 1
               /\ x.op = "change" =>
                    \E c \in Clients : /\ LogChange(c) /\ x.uid = uid[c] /\ x.row = at[c]
                                       /\ x.row \in Rows /\ x.page = PageOf[x.row]
                                       /\ wlock[TableOf[x.row]] = uid[c] /\ wlock' = wlock
    <2>1. PICK c \in Clients :
            /\ x.lsn = nextLSN /\ x.uid = uid[c] /\ pc[c] # "idle"
            /\ LogRecs' = LogRecs \cup {x} /\ nextLSN' = nextLSN + 1
            /\ x.op = "change" => LogChange(c) /\ x.row = at[c] /\ x.page = PageOf[at[c]]
      BY <1>1, RecordSteps
    <2>2. LogChange(c) => /\ at[c] \in Rows /\ wlock[TableOf[at[c]]] = uid[c] /\ wlock' = wlock
      BY <1>0, AtWork DEF LogChange, HeldInv
    <2>3. QED
      BY <1>0, <2>1, <2>2
  <1>2. ASSUME NEW x \in LogRecs', NEW y \in LogRecs', x.lsn = y.lsn PROVE x = y
    <2>1. CASE x \in LogRecs /\ y \in LogRecs
      BY <1>0, <1>2, <2>1 DEF LsnInv
    <2>2. CASE x \notin LogRecs
      <3>1. y \in LogRecs => y.lsn < nextLSN /\ y.lsn \in Nat /\ x.lsn = nextLSN
        BY <1>0, <1>1, <2>2 DEF LsnInv
      <3>2. y \notin LogRecs
        BY <1>0, <1>2, <3>1
      <3>3. QED
        BY <1>1, <2>2, <3>2
    <2>3. CASE x \in LogRecs /\ y \notin LogRecs
      <3>1. x.lsn < nextLSN /\ x.lsn \in Nat /\ y.lsn = nextLSN
        BY <1>0, <1>1, <2>3 DEF LsnInv
      <3>2. QED
        BY <1>0, <1>2, <3>1
    <2>4. QED
      BY <2>1, <2>2, <2>3
  <1>3. ASSUME Current', NEW x \in LogRecs' PROVE x.lsn < nextLSN'
    <2>1. Current /\ nextLSN' \in {nextLSN, nextLSN + 1}
      BY <1>3, KeptSteps
    <2>2. CASE x \in LogRecs
      BY <1>0, <2>1, <2>2 DEF LsnInv
    <2>3. CASE x \notin LogRecs
      BY <1>0, <1>1, <2>3
    <2>4. QED
      BY <2>2, <2>3
  \* The holder of a lock had it before, or has no records on the table.
  <1>4. ASSUME NEW x \in LogRecs, x.op = "change", x.uid = wlock'[TableOf[x.row]]
        PROVE  x.uid = wlock[TableOf[x.row]]
    <2>1. x.uid \in Uids /\ TableOf[x.row] \in Tables
      BY <1>0, <1>4
    <2>2. ASSUME NEW c \in Clients, NEW tb \in Tables, LockTable(c, tb), tb = TableOf[x.row] PROVE FALSE
      <3>1. /\ pc[c] = "ready" /\ wlock[tb] = 0 /\ wlock' = [wlock EXCEPT ![tb] = uid[c]]
        BY <2>2 DEF LockTable
      <3>2. x.uid = uid[c]
        BY <1>0, <1>4, <2>2, <3>1
      <3>3. x.row \in wrote[x.uid]
        BY <1>0, <1>4, <3>1, <3>2 DEF WroteInv, OutcomeInv
      <3>4. Active(x.uid)
        BY <3>1, <3>2 DEF Active
      <3>5. wlock[TableOf[x.row]] = x.uid
        BY <1>0, <2>1, <3>3, <3>4 DEF HeldInv
      <3>6. QED
        BY <1>0, <2>1, <2>2, <3>1, <3>5
    <2>3. CASE \E c \in Clients, tb \in Tables : LockTable(c, tb)
      <3>1. PICK c \in Clients, tb \in Tables : LockTable(c, tb)
        BY <2>3
      <3>2. tb # TableOf[x.row] /\ wlock' = [wlock EXCEPT ![tb] = uid[c]]
        BY <2>2, <3>1 DEF LockTable
      <3>3. QED
        BY <1>0, <1>4, <2>1, <3>2
    <2>4. CASE ~ \E c \in Clients, tb \in Tables : LockTable(c, tb)
      <3>1. \/ wlock' = wlock
            \/ \E c \in Clients : Unlock(c)
            \/ Crash
        BY <2>4, NextKinds, LockSteps DEF Begin, WalRecords, Open, RecoverPage, vars, txnVars
      <3>2. \A c \in Clients : Unlock(c) => wlock' = [tb \in Tables |-> IF wlock[tb] = uid[c] THEN 0 ELSE wlock[tb]]
        BY DEF Unlock
      <3>3. Crash => wlock' = [tb \in Tables |-> 0]
        BY DEF Crash
      <3>4. QED
        BY <1>0, <1>4, <2>1, <3>1, <3>2, <3>3
    <2>5. QED
      BY <2>3, <2>4
  <1>5. ASSUME NEW x \in LogRecs', NEW y \in LogRecs', x.op = "change", y.op = "change",
               x.page = y.page, x.uid # y.uid, x.uid = wlock'[TableOf[x.row]]
        PROVE  y.lsn < x.lsn
    <2>1. CASE x \in LogRecs /\ y \in LogRecs
      BY <1>0, <1>4, <1>5, <2>1 DEF LsnInv
    <2>2. CASE x \notin LogRecs
      <3>1. y \in LogRecs /\ Current /\ x.lsn = nextLSN
        BY <1>1, <1>5, <2>2
      <3>2. QED
        BY <1>0, <3>1 DEF LsnInv
    <2>3. CASE x \in LogRecs /\ y \notin LogRecs
      <3>1. PICK c \in Clients : /\ LogChange(c) /\ y.uid = uid[c]
                                 /\ y.row \in Rows /\ y.page = PageOf[y.row]
                                 /\ wlock[TableOf[y.row]] = uid[c] /\ wlock' = wlock
        BY <1>1, <1>5, <2>3
      <3>2. x.row \in Rows /\ TableOf[x.row] = TableOf[y.row]
        BY <1>0, <1>5, <2>3, <3>1 DEF TablesOwnLeaves
      <3>3. QED
        BY <1>5, <3>1, <3>2
    <2>4. QED
      BY <1>1, <1>5, <2>1, <2>2, <2>3
  <1>6. QED
    BY <1>2, <1>3, <1>5 DEF LsnInv

\* The empty log has a history.
LEMMA InitHistory == Init => HistoryInv
  <1> SUFFICES ASSUME Init PROVE HistoryInv
    OBVIOUS
  <1>1. /\ walFile = <<>> /\ walBuf = <<>> /\ DOMAIN <<>> = {} /\ Len(<<>>) = 0
        /\ uids = 0 /\ nextTxnID = 0 /\ up = TRUE /\ boots = 1
        /\ \A c \in Clients : pc[c] = "idle"
        /\ \A tb \in Tables : wlock[tb] = 0
        /\ \A u \in Uids : wrote[u] = {}
    BY EmptySeq DEF Init, WalInit
  <1>2. LogRecs = {} /\ BufRecs = {} /\ CommitRecs = {} /\ AbortRecs = {} /\ CommittedUids = {}
    BY <1>1 DEF LogRecs, FileRecs, BufRecs, CommitRecs, AbortRecs, CommittedUids, Ended
  <1>3. QED
    BY <1>1, <1>2 DEF HistoryInv, IdInv, AbortInv, HeldInv, WroteInv, OrderInv, LsnInv, Current, Changes

\* Every step keeps the history.
LEMMA HistoryStep ==
    ASSUME OrderlyUse, Before, OutcomeInv', [Next]_vars, Readable' PROVE HistoryInv'
  BY IdStep, AbortStep, HeldStep, WroteStep, OrderStep, LsnStep DEF HistoryInv

\* The history holds together while the log can be read.
LEMMA HistoryInvariance ==
    ASSUME OrderlyUse
    PROVE  Spec => [](Readable => HistoryInv)
  <1>1. NoRollbackAfterCommit
    BY DEF OrderlyUse, NoSecondThoughts, NoRollbackAfterCommit
  <1>2. TInv /\ (Readable => OutcomeInv) /\ (Readable => OutcomeInv)' /\ (Readable => HistoryInv)
           /\ [Next]_vars => (Readable => HistoryInv)'
    <2>1. TInv /\ [Next]_vars /\ Readable' => Readable
      BY LogTypesStep DEF Readable
    <2>2. ASSUME TInv, OutcomeInv, OutcomeInv', HistoryInv, [Next]_vars, Readable' PROVE HistoryInv'
      <3>1. Before
        BY <2>2 DEF Before
      <3>2. QED
        BY <2>2, <3>1, HistoryStep
    <2>3. QED
      BY <2>1, <2>2
  <1>3. Spec => [](Readable => OutcomeInv)
    BY <1>1, OutcomeInvariance
  <1>4. QED
    BY InitHistory, TypeInvariance, <1>2, <1>3, PTL DEF Spec

=============================================================================
