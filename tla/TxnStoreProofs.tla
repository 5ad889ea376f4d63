--------------------------- MODULE TxnStoreProofs ---------------------------
(***************************************************************************)
(* The storage properties of TxnStore: what the log commits, what Recover  *)
(* makes of it, what the page file and the pool hold.                      *)
(***************************************************************************)
EXTENDS TxnStoreHistory

Holder(r)   == wlock[TableOf[r]]
Written(u)  == IF u \in Uids THEN wrote[u] ELSE {}
PageRecs(p) == {x \in LogRecs : x.op = "change" /\ x.page = p}
RedoRecs(p) == {x \in FileRecs : x.op = "change" /\ x.page = p /\ x.uid \in CommittedUids}
Newest(x, S) == x \in S /\ \A y \in S : y.lsn <= x.lsn

Dirty(p) == p \in Cached /\ frames[p].dirty

\* A client of transaction u has changed page p and has not yet marked it dirty;
\* it has changed row r and not yet logged that.
Busy(p, u)     == \E c \in Clients : pc[c] \in {"changed", "logged"} /\ uid[c] = u /\ PageOf[at[c]] = p
Changing(r, u) == \E c \in Clients : pc[c] = "changed" /\ uid[c] = u /\ at[c] = r

\* Once the transaction that holds the lock is committed, its rows are its own.
LockInv ==
    \A r \in Rows : Holder(r) \in CommittedUids /\ r \in Written(Holder(r)) => Committed(r) = Holder(r)

\* The newest image of a page is the committed one with the changes of the
\* transaction that has the lock.
ImageInv ==
    \A p \in Pages : \A x \in PageRecs(p) :
      Newest(x, PageRecs(p)) /\ x.uid = Holder(x.row) =>
        \A r \in RowsOn(p) : x.img[r] = IF r \in Written(x.uid) THEN x.uid ELSE Committed(r)

\* The newest committed image of a page is the committed one; without any, the
\* page has never been written.
RedoInv ==
    \A p \in Pages :
      /\ \A x \in RedoRecs(p) : Newest(x, RedoRecs(p)) =>
           \A r \in RowsOn(p) : x.img[r] = Committed(r)
      /\ RedoRecs(p) = {} => disk[p] = EmptyPage(p) /\ \A r \in RowsOn(p) : Committed(r) = 0

\* A dirty page has been changed by the transaction that has the lock, and is
\* marked with it.
DirtyInv ==
    \A p \in Pages : Dirty(p) =>
      \E s \in RowsOn(p) : /\ Holder(s) # 0 /\ frames[p].txn = Holder(s)
                           /\ s \in Written(Holder(s))

\* A row in the pool, in the page file and in the log; u has its table locked.
RowInv(r, u) ==
    /\ InMemory(r) = Committed(r) \/ (u # 0 /\ InMemory(r) = u)
    /\ r \in Written(u) /\ u \notin AbortRecs => InMemory(r) = u
    /\ Changing(r, u) => InMemory(r) = u
    /\ u # 0 /\ InMemory(r) = u => r \in Written(u) \/ Changing(r, u)
    /\ disk[PageOf[r]][r] = Committed(r) \/ (u \in CommittedUids /\ Dirty(PageOf[r]))
    /\ ~Dirty(PageOf[r]) /\ ~Busy(PageOf[r], u) => InMemory(r) = disk[PageOf[r]][r]
    /\ r \in Written(u) /\ u \notin CommittedUids \cup AbortRecs => Dirty(PageOf[r]) \/ Busy(PageOf[r], u)

RowsInv == up => \A r \in Rows : RowInv(r, Holder(r))

StoreInv == NoSteal /\ LockInv /\ ImageInv /\ RedoInv /\ DirtyInv /\ RowsInv

-----------------------------------------------------------------------------
(* The committed database.                                                 *)

\* The greatest of the positions in T.
LastOf(T) == CHOOSE i \in T : \A j \in T : j <= i

\* A bounded, nonempty set of positions has a last one.
LEMMA LastOfFacts ==
    ASSUME NEW T \in SUBSET Nat, T # {}, NEW b \in Nat, \A n \in T : n <= b
    PROVE  LastOf(T) \in T /\ \A j \in T : j <= LastOf(T)
  <1>1. \E m \in T : \A n \in T : n <= m
    BY MaxExists
  <1>2. QED
    BY <1>1 DEF LastOf

\* The committed value of a row is that of the last committed writer in the file.
LEMMA CommittedIs ==
    ASSUME NEW r
    PROVE  /\ Committed(r) = IF WriterPositions(r) = {} THEN 0 ELSE walFile[LastOf(WriterPositions(r))].uid
           /\ Committed(r)' = IF WriterPositions(r)' = {} THEN 0 ELSE walFile'[LastOf(WriterPositions(r)')].uid
  BY DEF Committed, LastOf

\* The committed value of a row is a committed transaction, or none.
LEMMA CommittedType ==
    ASSUME walFile \in Seq(Recs), NEW r \in Rows
    PROVE  Committed(r) \in CommittedUids \cup {0}
  <1>1. \A i \in WriterPositions(r) : walFile[i].uid \in CommittedUids
    BY DEF WriterPositions, CommittedUids
  <1>2. /\ WriterPositions(r) \in SUBSET Nat /\ Len(walFile) \in Nat
        /\ \A i \in WriterPositions(r) : i <= Len(walFile)
    BY LenProperties DEF WriterPositions
  <1>3. WriterPositions(r) # {} => LastOf(WriterPositions(r)) \in WriterPositions(r)
    BY <1>2, LastOfFacts
  <1>4. QED
    BY <1>1, <1>3, CommittedIs

\* It is what the file says.
LEMMA CommittedSame ==
    ASSUME walFile' = walFile PROVE \A r : Committed(r)' = Committed(r)
  BY DEF Committed, WriterPositions

\* n more records in the file, none of which commits a change to the row.
LEMMA CommittedKept ==
    ASSUME LogTypes, NEW n, Grown(n), NEW r \in Rows,
           \A k \in 1..n : walBuf[k].op = "commit" =>
             \A y \in LogRecs : y.op = "change" /\ y.uid = walBuf[k].uid => y.row # r
    PROVE  Committed(r)' = Committed(r)
  <1>1. /\ n \in 0..Len(walBuf) /\ walFile' \in Seq(Recs) /\ Len(walFile') = Len(walFile) + n
        /\ \A i \in 1..Len(walFile) : walFile'[i] = walFile[i]
        /\ \A k \in 1..n : walFile'[Len(walFile) + k] = walBuf[k]
        /\ DOMAIN walFile = 1..Len(walFile) /\ Len(walFile) \in Nat /\ Len(walBuf) \in Nat
        /\ DOMAIN walBuf = 1..Len(walBuf)
    BY LogSets DEF Grown
  <1>2. DOMAIN walFile' = 1..Len(walFile) + n
    BY <1>1, LenProperties
  <1>3. ASSUME NEW j \in 1..Len(walFile) + n PROVE walFile'[j] \in LogRecs
    <2>1. CASE j <= Len(walFile)
      BY <1>1, <2>1 DEF LogRecs, FileRecs
    <2>2. CASE ~(j <= Len(walFile))
      <3>1. j - Len(walFile) \in 1..n /\ j = Len(walFile) + (j - Len(walFile)) /\ j - Len(walFile) \in 1..Len(walBuf)
        BY <1>1, <2>2
      <3>2. QED
        BY <1>1, <3>1 DEF LogRecs, BufRecs
    <2>3. QED
      BY <2>1, <2>2
  <1>4. ASSUME NEW i \in WriterPositions(r)' PROVE i \in WriterPositions(r)
    <2>1. /\ i \in 1..Len(walFile) + n /\ walFile'[i].op = "commit"
          /\ \E j \in 1..i : /\ walFile'[j].op = "change" /\ walFile'[j].row = r
                             /\ walFile'[j].uid = walFile'[i].uid
      BY <1>2 DEF WriterPositions
    <2>2. PICK j \in 1..i : /\ walFile'[j].op = "change" /\ walFile'[j].row = r
                            /\ walFile'[j].uid = walFile'[i].uid
      BY <2>1
    <2>3. j \in 1..Len(walFile) + n /\ walFile'[j] \in LogRecs
      BY <1>1, <1>3, <2>1
    <2>4. i <= Len(walFile)
      <3>1. SUFFICES ASSUME ~(i <= Len(walFile)) PROVE FALSE
        OBVIOUS
      <3>2. i - Len(walFile) \in 1..n /\ i = Len(walFile) + (i - Len(walFile))
        BY <1>1, <2>1, <3>1
      <3>3. walFile'[i] = walBuf[i - Len(walFile)]
        BY <1>1, <3>2
      <3>4. QED
        BY <2>1, <2>2, <2>3, <3>2, <3>3
    <2>5. i \in 1..Len(walFile) /\ j \in 1..Len(walFile)
      BY <1>1, <2>1, <2>4
    <2>6. QED
      BY <1>1, <2>1, <2>2, <2>5 DEF WriterPositions
  <1>5. ASSUME NEW i \in WriterPositions(r) PROVE i \in WriterPositions(r)'
    <2>1. i \in 1..Len(walFile) /\ walFile[i].op = "commit"
      BY <1>1 DEF WriterPositions
    <2>2. PICK j \in 1..i : walFile[j].op = "change" /\ walFile[j].row = r /\ walFile[j].uid = walFile[i].uid
      BY DEF WriterPositions
    <2>3. /\ walFile'[i] = walFile[i] /\ walFile'[j] = walFile[j] /\ i \in DOMAIN walFile'
      BY <1>1, <1>2, <2>1
    <2>4. QED
      BY <2>1, <2>2, <2>3 DEF WriterPositions
  <1>6. WriterPositions(r)' = WriterPositions(r) /\ WriterPositions(r) \subseteq 1..Len(walFile)
    BY <1>1, <1>4, <1>5 DEF WriterPositions
  <1>7. CASE WriterPositions(r) = {}
    BY <1>6, <1>7, CommittedIs
  <1>8. CASE WriterPositions(r) # {}
    <2>1. WriterPositions(r) \in SUBSET Nat /\ \A i \in WriterPositions(r) : i <= Len(walFile)
      BY <1>1, <1>6
    <2>2. LastOf(WriterPositions(r)) \in WriterPositions(r)
      BY <1>1, <1>8, <2>1, LastOfFacts
    <2>3. walFile'[LastOf(WriterPositions(r))] = walFile[LastOf(WriterPositions(r))]
      BY <1>1, <1>6, <2>2
    <2>4. QED
      BY <1>6, <1>8, <2>3, CommittedIs
  <1>9. QED
    BY <1>7, <1>8

\* n more records in the file, which commit a change to the row by u, and by
\* nobody else.
LEMMA CommittedNew ==
    ASSUME LogTypes, NEW n, Grown(n), NEW r \in Rows, NEW u,
           NEW k \in 1..n, walBuf[k].op = "commit", walBuf[k].uid = u,
           NEW x \in FileRecs \cup Prefix(k), x.op = "change", x.uid = u, x.row = r,
           \A l \in 1..n : walBuf[l].op = "commit" =>
             \A y \in LogRecs : y.op = "change" /\ y.uid = walBuf[l].uid /\ y.row = r => y.uid = u
    PROVE  Committed(r)' = u
  <1>1. /\ n \in 0..Len(walBuf) /\ walFile' \in Seq(Recs) /\ Len(walFile') = Len(walFile) + n
        /\ \A i \in 1..Len(walFile) : walFile'[i] = walFile[i]
        /\ \A l \in 1..n : walFile'[Len(walFile) + l] = walBuf[l]
        /\ DOMAIN walFile = 1..Len(walFile) /\ Len(walFile) \in Nat /\ Len(walBuf) \in Nat
        /\ DOMAIN walBuf = 1..Len(walBuf)
    BY LogSets DEF Grown
  <1>2. DOMAIN walFile' = 1..Len(walFile) + n
    BY <1>1, LenProperties
  <1>3. ASSUME NEW j \in 1..Len(walFile) + n PROVE walFile'[j] \in LogRecs
    <2>1. CASE j <= Len(walFile)
      BY <1>1, <2>1 DEF LogRecs, FileRecs
    <2>2. CASE ~(j <= Len(walFile))
      <3>1. j - Len(walFile) \in 1..n /\ j = Len(walFile) + (j - Len(walFile)) /\ j - Len(walFile) \in 1..Len(walBuf)
        BY <1>1, <2>2
      <3>2. QED
        BY <1>1, <3>1 DEF LogRecs, BufRecs
    <2>3. QED
      BY <2>1, <2>2
  <1> DEFINE P == WriterPositions(r)'
             i == Len(walFile) + k
  <1>4. i \in P
    <2>1. i \in 1..Len(walFile) + n /\ walFile'[i] = walBuf[k]
      BY <1>1
    <2>2. \E j \in 1..i : walFile'[j] = x
      <3>1. CASE x \in FileRecs
        <4>1. PICK j \in 1..Len(walFile) : walFile[j] = x
          BY <1>1, <3>1 DEF FileRecs
        <4>2. j \in 1..i
          BY <1>1
        <4>3. QED
          BY <1>1, <4>1, <4>2
      <3>2. CASE x \in Prefix(k)
        <4>1. PICK j \in 1..k : walBuf[j] = x
          BY <3>2 DEF Prefix
        <4>2. Len(walFile) + j \in 1..i /\ j \in 1..n
          BY <1>1
        <4>3. QED
          BY <1>1, <4>1, <4>2
      <3>3. QED
        BY <3>1, <3>2
    <2>3. PICK j \in 1..i : walFile'[j] = x
      BY <2>2
    <2> HIDE DEF i
    <2>4. QED
      BY <1>2, <2>1, <2>3 DEF WriterPositions
  <1>5. P \in SUBSET Nat /\ \A j \in P : j <= Len(walFile) + n
    BY <1>1, <1>2 DEF WriterPositions
  <1> DEFINE m == LastOf(P)
  <1>6. m \in P /\ i <= m
    <2>1. Len(walFile) + n \in Nat /\ P # {}
      BY <1>1, <1>4
    <2> HIDE DEF P
    <2>2. QED
      BY <1>4, <1>5, <2>1, LastOfFacts
  <1>7. Committed(r)' = walFile'[m].uid
    BY <1>4, CommittedIs
  <1> HIDE DEF m
  <1>8. /\ m \in 1..Len(walFile) + n /\ walFile'[m].op = "commit"
        /\ \E j \in 1..m : /\ walFile'[j].op = "change" /\ walFile'[j].row = r
                           /\ walFile'[j].uid = walFile'[m].uid
    BY <1>2, <1>6 DEF WriterPositions
  <1>9. m - Len(walFile) \in 1..n /\ walFile'[m] = walBuf[m - Len(walFile)]
    <2>1. m - Len(walFile) \in 1..n /\ Len(walFile) + (m - Len(walFile)) = m
      BY <1>1, <1>6, <1>8
    <2>2. QED
      BY <1>1, <2>1
  <1>10. PICK j \in 1..m : /\ walFile'[j].op = "change" /\ walFile'[j].row = r
                           /\ walFile'[j].uid = walFile'[m].uid
    BY <1>8
  <1>11. walFile'[j] \in LogRecs
    <2>1. j \in 1..Len(walFile) + n
      BY <1>1, <1>8
    <2>2. QED
      BY <1>3, <2>1
  <1>12. QED
    BY <1>7, <1>8, <1>9, <1>10, <1>11

-----------------------------------------------------------------------------
(* Writing the log.                                                        *)

\* A transaction whose COMMIT waits in the buffer still has its rows locked.
LEMMA WaitingCommits ==
    ASSUME OrderlyUse, Before, NEW v \in Ended(BufRecs, "commit")
    PROVE  /\ v \in Uids /\ Current
           /\ \A y \in LogRecs : y.op = "change" /\ y.uid = v =>
                y.row \in Rows /\ y.row \in Written(v) /\ Holder(y.row) = v
           /\ \A r \in Written(v) : \E y \in LogRecs : y.op = "change" /\ y.uid = v /\ y.row = r
  <1>1. PICK z \in BufRecs : z.op = "commit" /\ z.uid = v
    BY DEF Ended
  <1>2. z \in LogRecs /\ v \in Uids /\ v \in CommitRecs /\ wrote[v] \subseteq Rows
    BY <1>1, BeforeFacts DEF CommitRecs, Ended, LogRecs
  <1>3. Current
    <2>1. walBuf # <<>>
      BY <1>1 DEF BufRecs
    <2>2. QED
      BY <2>1 DEF Before, HistoryInv, IdInv
  <1>4. v \notin undone
    BY <1>2 DEF Before, OutcomeInv
  <1>5. ASSUME NEW y \in LogRecs, y.op = "change", y.uid = v
        PROVE  y.row \in Rows /\ y.row \in wrote[v] /\ wlock[TableOf[y.row]] = v
    <2>1. y.row \in wrote[v]
      BY <1>3, <1>4, <1>5 DEF Before, HistoryInv, WroteInv
    <2>2. wlock[TableOf[y.row]] = v
      BY <1>2, <2>1 DEF Before, HistoryInv, HeldInv
    <2>3. QED
      BY <1>2, <2>1, <2>2
  <1>6. \A r \in wrote[v] : \E y \in LogRecs : y.op = "change" /\ y.uid = v /\ y.row = r
    BY <1>2 DEF Before, HistoryInv, WroteInv
  <1>7. QED
    BY <1>2, <1>3, <1>5, <1>6 DEF Written, Holder

\* What n more records in the file make of the database: every transaction of
\* which a COMMIT is among them is committed, with all the rows it has changed.
Advance(K) ==
    /\ K \subseteq Ended(BufRecs, "commit")
    /\ CommittedUids' = CommittedUids \cup K
    /\ FileRecs \subseteq FileRecs' /\ FileRecs' \subseteq LogRecs
    /\ \A u \in K : Changes(LogRecs, u) \subseteq FileRecs'
    /\ \A r \in Rows : Committed(r)' =
         IF Holder(r) \in K /\ r \in Written(Holder(r)) THEN Holder(r) ELSE Committed(r)

\* A file that grows by records of the buffer advances by the COMMITs among them.
LEMMA Growth ==
    ASSUME OrderlyUse, Before, NEW n \in 0..Len(walBuf), Grown(n),
           FileRecs' = FileRecs \cup Prefix(n),
           CommittedUids' = CommittedUids \cup Ended(Prefix(n), "commit")
    PROVE  Advance(Ended(Prefix(n), "commit"))
  <1> DEFINE K == Ended(Prefix(n), "commit")
  <1>1. /\ LogTypes /\ DOMAIN walBuf = 1..Len(walBuf) /\ Len(walBuf) \in Nat
        /\ Prefix(n) \subseteq BufRecs
    <2>1. LogTypes
      BY DEF Before, TInv, Shapes
    <2>2. QED
      BY <2>1, LogSets DEF Prefix, BufRecs
  <1>2. K \subseteq Ended(BufRecs, "commit")
    BY <1>1 DEF Ended
  <1>3. ASSUME NEW k \in 1..n, walBuf[k].op = "commit",
               NEW x \in LogRecs, x.op = "change", x.uid = walBuf[k].uid
        PROVE  x \in FileRecs \cup Prefix(k)
    <2>1. SUFFICES ASSUME x \in BufRecs PROVE x \in Prefix(k)
      BY DEF LogRecs
    <2>2. PICK j \in 1..Len(walBuf) : walBuf[j] = x
      BY <1>1, <2>1 DEF BufRecs
    <2>3. j < k
      BY <1>1, <1>3, <2>2 DEF Before, HistoryInv, OrderInv
    <2>4. j \in 1..k
      BY <1>1, <2>3
    <2>5. QED
      BY <2>2, <2>4 DEF Prefix
  <1>4. ASSUME NEW k \in 1..n PROVE Prefix(k) \subseteq Prefix(n)
    BY <1>1 DEF Prefix
  <1>5. ASSUME NEW u \in K PROVE Changes(LogRecs, u) \subseteq FileRecs'
    <2>1. PICK k \in 1..n : walBuf[k].op = "commit" /\ walBuf[k].uid = u
      BY DEF Ended, Prefix
    <2>2. QED
      BY <1>3, <1>4, <2>1 DEF Changes
  <1>6. ASSUME NEW l \in 1..n, walBuf[l].op = "commit"
        PROVE  walBuf[l].uid \in K
    BY <1>6 DEF Ended, Prefix
  <1>7. ASSUME NEW r \in Rows
        PROVE  Committed(r)' = IF Holder(r) \in K /\ r \in Written(Holder(r)) THEN Holder(r) ELSE Committed(r)
    <2>1. ASSUME NEW l \in 1..n, walBuf[l].op = "commit",
                 NEW y \in LogRecs, y.op = "change", y.uid = walBuf[l].uid, y.row = r
          PROVE  y.uid = Holder(r) /\ Holder(r) \in K /\ r \in Written(Holder(r))
      BY <1>2, <1>6, <2>1, WaitingCommits
    <2>2. CASE Holder(r) \in K /\ r \in Written(Holder(r))
      <3>1. PICK k \in 1..n : walBuf[k].op = "commit" /\ walBuf[k].uid = Holder(r)
        BY <2>2 DEF Ended, Prefix
      <3>2. PICK x \in LogRecs : x.op = "change" /\ x.uid = Holder(r) /\ x.row = r
        BY <1>2, <2>2, WaitingCommits
      <3>3. x \in FileRecs \cup Prefix(k)
        BY <1>3, <3>1, <3>2
      <3> HIDE DEF K
      <3>4. Committed(r)' = Holder(r)
        BY <1>1, <2>1, <3>1, <3>2, <3>3, CommittedNew
      <3>5. QED
        BY <2>2, <3>4
    <2>3. CASE ~(Holder(r) \in K /\ r \in Written(Holder(r)))
      <3>1. \A l \in 1..n : walBuf[l].op = "commit" =>
              \A y \in LogRecs : y.op = "change" /\ y.uid = walBuf[l].uid => y.row # r
        BY <2>1, <2>3
      <3> HIDE DEF K
      <3>2. Committed(r)' = Committed(r)
        BY <1>1, <3>1, CommittedKept
      <3>3. QED
        BY <2>3, <3>2
    <2>4. QED
      BY <2>2, <2>3
  <1>8. FileRecs \subseteq FileRecs' /\ FileRecs' \subseteq LogRecs
    BY <1>1 DEF LogRecs
  <1> HIDE DEF K
  <1>9. QED
    BY <1>2, <1>5, <1>7, <1>8 DEF Advance, K

\* A step that leaves the file alone commits nothing.
LEMMA NoAdvance ==
    ASSUME OrderlyUse, Before, walFile' = walFile
    PROVE  Advance({})
  <1>1. FileRecs' = FileRecs /\ CommittedUids' = CommittedUids /\ \A r : Committed(r)' = Committed(r)
    BY CommittedSame DEF FileRecs, CommittedUids
  <1>2. QED
    BY <1>1 DEF Advance, LogRecs

\* Every step commits some transactions, most often none.
LEMMA LogAdvance ==
    ASSUME OrderlyUse, Before, [Next]_vars, Readable'
    PROVE  \E K \in SUBSET Uids : Advance(K)
  <1>1. TInv /\ LogTypes
    BY DEF Before, TInv, Shapes
  <1>2. \A K : Advance(K) => K \in SUBSET Uids
    BY WaitingCommits DEF Advance
  <1>3. CASE \E c \in Clients : LogChange(c) \/ CommitAppend(c) \/ Rollback(c) \/ RollbackError(c)
    <2>1. \E rec : WalAppend(rec)
      BY <1>3 DEF LogChange, CommitAppend, Rollback, RollbackError
    <2>2. walFile' = walFile
      BY <2>1 DEF WalAppend
    <2>3. QED
      BY <1>2, <2>2, NoAdvance
  <1>4. CASE WriteStep
    <2>1. LiveWrite
      BY <1>1, <1>4, WriteSteps
    <2>2. PICK n \in 0..Len(walBuf) :
            /\ Grown(n) /\ FileRecs' = FileRecs \cup Prefix(n)
            /\ CommittedUids' = CommittedUids \cup Ended(Prefix(n), "commit")
      BY <2>1 DEF LiveWrite
    <2>3. QED
      BY <1>2, <2>2, Growth
  <1>5. CASE Crash
    <2>1. PICK n \in 0..Len(walBuf), left \in Tails("tornCrash") : WalCrash(n, left)
      BY <1>5 DEF Crash
    <2>2. Write(n, left) /\ left \in {"whole", "header", "data"}
      BY <2>1 DEF WalCrash, Tails
    <2>3. /\ Grown(n) /\ FileRecs' = FileRecs \cup Prefix(n)
          /\ CommittedUids' = CommittedUids \cup Ended(Prefix(n), "commit")
      BY <1>1, <2>2, WriteSets
    <2>4. QED
      BY <1>2, <2>3, Growth
  <1>6. CASE UNCHANGED <<walFile, walBuf>>
    BY <1>2, <1>6, NoAdvance
  <1>7. QED
    BY <1>3, <1>4, <1>5, <1>6, StepKinds

-----------------------------------------------------------------------------
(* Locks and the clients that work on pages.                               *)

\* Who holds the lock on a row's table, and what it says of pages in use.
LEMMA HolderFacts ==
    ASSUME OrderlyUse, Before
    PROVE  /\ \A r \in Rows : Holder(r) \in 0..MaxTxns /\ (Holder(r) # 0 => Holder(r) \in Uids)
           /\ \A p : \A r, s \in RowsOn(p) : Holder(r) = Holder(s) /\ r \in Rows /\ PageOf[r] = p
           /\ \A c \in Clients : pc[c] \in {"fetched", "changed", "logged"} => Holder(at[c]) = uid[c]
           /\ \A p, u : Busy(p, u) => u # 0
           /\ \A r, u : Changing(r, u) => u # 0 /\ Busy(PageOf[r], u)
           /\ Written(0) = {}
  <1>1. \A r \in Rows : Holder(r) \in 0..MaxTxns /\ (Holder(r) # 0 => Holder(r) \in Uids)
    BY BeforeFacts DEF Holder, Uids
  <1>2. \A p : \A r, s \in RowsOn(p) : Holder(r) = Holder(s) /\ r \in Rows /\ PageOf[r] = p
    BY DEF OrderlyUse, TablesOwnLeaves, RowsOn, Holder
  <1>3. \A c \in Clients : pc[c] \in {"fetched", "changed", "logged"} => Holder(at[c]) = uid[c]
    BY DEF Before, HistoryInv, HeldInv, Holder
  <1>4. \A c \in Clients : pc[c] \in {"changed", "logged"} => uid[c] # 0
    BY BeforeFacts DEF Uids
  <1>5. QED
    BY <1>1, <1>2, <1>3, <1>4 DEF Busy, Changing, Written, Uids

\* Only the steps of a transaction's client change what it is busy with.
LEMMA BusySteps ==
    ASSUME OrderlyUse, Before, NEW c \in Clients, ClientStep(c)
    PROVE  /\ \A p, u : u # uid[c] => (Busy(p, u)' <=> Busy(p, u)) /\ (Changing(p, u)' <=> Changing(p, u))
           /\ \A p, u : u = uid[c] => (Busy(p, u) <=> pc[c] \in {"changed", "logged"} /\ PageOf[at[c]] = p)
           /\ \A p, u : u = uid[c] => (Busy(p, u)' <=> pc'[c] \in {"changed", "logged"} /\ PageOf[at'[c]] = p)
           /\ \A r, u : u = uid[c] => (Changing(r, u) <=> pc[c] = "changed" /\ at[c] = r)
           /\ \A r, u : u = uid[c] => (Changing(r, u)' <=> pc'[c] = "changed" /\ at'[c] = r)
  <1>1. pc \in [Clients -> PCs] /\ TInv
    BY BeforeFacts DEF Before
  <1>2. pc[c] # "idle" /\ uid' = uid
    BY <1>1, ClientSteps
  <1>3. \A d \in Clients : d # c => pc'[d] = pc[d] /\ at'[d] = at[d]
    BY <1>1, OtherClients
  <1>4. \A d \in Clients : d # c /\ pc[d] # "idle" => uid[d] # uid[c]
    BY <1>2 DEF Before, OutcomeInv
  <1>5. ASSUME NEW p, NEW u, u # uid[c]
        PROVE  (Busy(p, u)' <=> Busy(p, u)) /\ (Changing(p, u)' <=> Changing(p, u))
    BY <1>2, <1>3, <1>5 DEF Busy, Changing
  <1>6. ASSUME NEW p, NEW u, u = uid[c]
        PROVE  (Busy(p, u) <=> pc[c] \in {"changed", "logged"} /\ PageOf[at[c]] = p)
    BY <1>4, <1>6 DEF Busy
  <1>7. ASSUME NEW p, NEW u, u = uid[c]
        PROVE  (Busy(p, u)' <=> pc'[c] \in {"changed", "logged"} /\ PageOf[at'[c]] = p)
    BY <1>2, <1>3, <1>4, <1>7 DEF Busy
  <1>8. ASSUME NEW r, NEW u, u = uid[c]
        PROVE  (Changing(r, u) <=> pc[c] = "changed" /\ at[c] = r)
    BY <1>4, <1>8 DEF Changing
  <1>9. ASSUME NEW r, NEW u, u = uid[c]
        PROVE  (Changing(r, u)' <=> pc'[c] = "changed" /\ at'[c] = r)
    BY <1>2, <1>3, <1>4, <1>9 DEF Changing
  <1>10. QED
    BY <1>5, <1>6, <1>7, <1>8, <1>9

\* The invariant of a row in the next state, with its lock's next holder.
LEMMA RowInvNext ==
    ASSUME \A r \in Rows : \A u : u = Holder(r)' => RowInv(r, u)'
    PROVE  RowsInv'
  BY DEF RowsInv

\* A row whose table is locked was locked before, and who has the lock goes on
\* with what he has written; or he has just locked it and written nothing there.
HeldOn(r, u)  == Holder(r) = u /\ Written(u)' = Written(u)
Logs(r, u)    == /\ Holder(r) = u /\ u \notin CommitRecs
                 /\ \E c \in Clients : /\ LogChange(c) /\ uid[c] = u
                                       /\ Written(u)' = Written(u) \cup {at[c]}
Acquires(r, u) ==
    /\ Holder(r) = 0 /\ Written(u)' = Written(u) /\ u \notin CommitRecs
    /\ \E c \in Clients : LockTable(c, TableOf[r]) /\ uid[c] = u
    /\ \A s \in Rows : TableOf[s] = TableOf[r] =>
         s \notin Written(u) /\ \A x \in LogRecs : x.op = "change" /\ x.uid = u => x.row # s

\* A row is held after a step because it was, because its change is logged, or by a new lock.
LEMMA HolderSteps ==
    ASSUME OrderlyUse, Before, [Next]_vars, Readable', NEW r \in Rows, NEW u, u = Holder(r)', u # 0
    PROVE  ~Crash /\ ~Open /\ u \in Uids /\ (HeldOn(r, u) \/ Logs(r, u) \/ Acquires(r, u))
  <1>1. /\ pc \in [Clients -> PCs] /\ TInv /\ TableOf[r] \in Tables
        /\ wrote \in [Uids -> SUBSET Rows] /\ wlock \in [Tables -> 0..MaxTxns]
        /\ \A c \in Clients : pc[c] # "idle" => Current /\ uid[c] \in Uids
    BY BeforeFacts DEF Before
  <1>2. ~Crash
    BY <1>1 DEF Crash, Holder
  <1>3. ASSUME wlock' = wlock, wrote' = wrote PROVE HeldOn(r, u)
    BY <1>3 DEF HeldOn, Holder, Written
  <1>4. ASSUME NEW c \in Clients, Unlock(c) PROVE u = Holder(r) /\ u # uid[c]
    <2>1. wlock' = [tb \in Tables |-> IF wlock[tb] = uid[c] THEN 0 ELSE wlock[tb]]
      BY <1>4 DEF Unlock
    <2>2. QED
      BY <1>1, <2>1 DEF Holder
  <1>5. ASSUME NEW c \in Clients, ClientStep(c)
        PROVE  HeldOn(r, u) \/ Logs(r, u) \/ Acquires(r, u)
    <2>2. pc[c] # "idle" /\ uid[c] \in Uids /\ Current /\ up' = up
      BY <1>1, <1>5, ClientSteps
    <2>3. CASE LogChange(c)
      <3>1. wlock' = wlock /\ pc[c] = "changed" /\ wrote' = [wrote EXCEPT ![uid[c]] = @ \cup {at[c]}]
        BY <2>3 DEF LogChange
      <3>10. /\ wrote'[uid[c]] = wrote[uid[c]] \cup {at[c]}
             /\ \A v \in Uids : v # uid[c] => wrote'[v] = wrote[v]
        BY <1>1, <2>2, <3>1
      <3>2. uid[c] \notin CommitRecs
        BY <3>1 DEF Before, OutcomeInv, Unfinished
      <3>3. Holder(r) = u
        BY <3>1 DEF Holder
      <3>4. CASE u = uid[c]
        BY <2>2, <2>3, <3>10, <3>2, <3>3, <3>4 DEF Logs, Written
      <3>5. CASE u # uid[c]
        BY <3>10, <3>3, <3>5 DEF HeldOn, Written
      <3>6. QED
        BY <3>4, <3>5
    <2>4. CASE Rollback(c)
      <3>1. Unlock(c) /\ wrote' = [wrote EXCEPT ![uid[c]] = {}]
        BY <2>4 DEF Rollback
      <3>2. u = Holder(r) /\ u # uid[c]
        BY <1>4, <3>1
      <3>3. QED
        BY <1>1, <3>1, <3>2 DEF HeldOn, Written
    <2>5. CASE \E tb \in Tables : LockTable(c, tb)
      <3>1. PICK tb \in Tables : LockTable(c, tb)
        BY <2>5
      <3>2. /\ pc[c] = "ready" /\ wlock[tb] = 0 /\ wrote' = wrote
            /\ wlock' = [wlock EXCEPT ![tb] = uid[c]]
        BY <3>1 DEF LockTable, hist
      <3>3. CASE tb # TableOf[r]
        BY <1>1, <3>2, <3>3 DEF HeldOn, Holder, Written
      <3>4. CASE tb = TableOf[r]
        <4>1. Holder(r) = 0 /\ u = uid[c] /\ Written(u)' = Written(u)
          BY <1>1, <3>2, <3>4 DEF Holder, Written
        <4>2. u \notin CommitRecs /\ u \notin undone /\ Active(u)
          BY <2>2, <3>2, <4>1 DEF Before, OutcomeInv, Unfinished, Active
        <4>3. ASSUME NEW s \in Rows, TableOf[s] = TableOf[r] PROVE s \notin Written(u)
          BY <2>2, <3>2, <3>4, <4>1, <4>2, <4>3 DEF Before, HistoryInv, HeldInv, Written, Uids
        <4>4. ASSUME NEW x \in LogRecs, x.op = "change", x.uid = u PROVE x.row \in Written(u)
          BY <2>2, <4>1, <4>2, <4>4 DEF Before, HistoryInv, WroteInv, Written
        <4>5. QED
          BY <3>1, <3>4, <4>1, <4>2, <4>3, <4>4 DEF Acquires
      <3>5. QED
        BY <3>3, <3>4
    <2>6. CASE CommitPages(c)
      <3>1. Unlock(c) /\ wrote' = wrote
        BY <2>6 DEF CommitPages
      <3>2. u = Holder(r)
        BY <1>4, <3>1
      <3>3. QED
        BY <3>1, <3>2 DEF HeldOn, Written
    <2>7. CASE ~LogChange(c) /\ ~Rollback(c) /\ ~CommitPages(c) /\ ~\E tb \in Tables : LockTable(c, tb)
      <3>1. wlock' = wlock /\ wrote' = wrote
        BY <1>5, <2>7, LockSteps, WroteSteps
      <3>2. QED
        BY <1>3, <3>1
    <2>8. QED
      BY <2>3, <2>4, <2>5, <2>6, <2>7
  <1>50. ASSUME NEW c \in Clients, ClientStep(c) PROVE ~Open /\ u \in Uids
    <2>1. pc[c] # "idle" /\ uid[c] \in Uids /\ Current
      BY <1>1, <1>50, ClientSteps
    <2>2. u \in Uids
      BY <1>1, <1>5, <1>50, HolderFacts DEF HeldOn, Logs, Acquires, LockTable
    <2>3. QED
      BY <2>1, <2>2 DEF Open, Current
  <1>6. CASE (\E c \in Clients : Begin(c)) \/ WalRecords \/ UNCHANGED vars \/ \E p \in Pages : RecoverPage(p)
    <2>1. wlock' = wlock /\ wrote' = wrote
      BY <1>6 DEF Begin, WalRecords, RecoverPage, vars, txnVars, hist
    <2>2. HeldOn(r, u) /\ Holder(r) # 0
      BY <1>3, <2>1 DEF HeldOn
    <2>3. up
      BY <1>1, <2>2 DEF Before, HistoryInv, IdInv, Holder, Current
    <2>4. QED
      BY <1>2, <2>2, <2>3, HolderFacts DEF Open, HeldOn
  <1>7. CASE Open
    <2>1. wlock' = wlock /\ ~up
      BY <1>7 DEF Open
    <2>2. Holder(r) # 0
      BY <2>1 DEF Holder
    <2>3. QED
      BY <1>1, <2>1, <2>2 DEF Before, HistoryInv, IdInv, Holder, Current
  <1>8. QED
    BY <1>2, <1>5, <1>50, <1>6, <1>7, NextKinds

\* What a step commits has its COMMIT in the log already.
LEMMA AdvanceFacts ==
    ASSUME OrderlyUse, Before, NEW K, Advance(K)
    PROVE  /\ K \subseteq CommitRecs /\ K \subseteq Uids /\ CommittedUids' \subseteq CommitRecs
           /\ 0 \notin CommitRecs /\ 0 \notin CommittedUids'
  <1>1. K \subseteq CommitRecs
    BY DEF Advance, Ended, CommitRecs, LogRecs
  <1>2. QED
    BY <1>1, BeforeFacts DEF Advance

\* A client that has not called Commit has no COMMIT waiting.
LEMMA BusyUncommitted ==
    ASSUME OrderlyUse, Before, NEW u \in CommitRecs
    PROVE  (\A p : ~Busy(p, u)) /\ (\A r : ~Changing(r, u)) /\ u \notin AbortRecs
  BY DEF Before, OutcomeInv, Unfinished, Busy, Changing, HistoryInv, AbortInv

\* Every step keeps the committed value of a row its holder wrote and committed.
LEMMA LockStep ==
    ASSUME OrderlyUse, Before, LockInv, [Next]_vars, Readable' PROVE LockInv'
  <1>1. SUFFICES ASSUME NEW r \in Rows, NEW u, u = Holder(r)', u \in CommittedUids', r \in Written(u)'
                 PROVE  Committed(r)' = u
    BY DEF LockInv
  <1>2. PICK K \in SUBSET Uids : Advance(K)
    BY LogAdvance
  <1>3. u # 0 /\ u \in CommitRecs
    BY <1>1, <1>2, AdvanceFacts
  <1>4. Holder(r) = u /\ r \in Written(u)
    BY <1>1, <1>3, HolderSteps DEF HeldOn, Logs, Acquires
  <1>5. CASE u \in K
    BY <1>2, <1>4, <1>5 DEF Advance
  <1>6. CASE u \notin K
    BY <1>1, <1>2, <1>4, <1>6 DEF Advance, LockInv
  <1>7. QED
    BY <1>5, <1>6

\* What a client logs is the committed image with its own changes.
LEMMA NewImage ==
    ASSUME OrderlyUse, Before, RowsInv, NEW c \in Clients, LogChange(c),
           NEW r \in RowsOn(PageOf[at[c]])
    PROVE  frames[PageOf[at[c]]].img[r] =
             IF r \in Written(uid[c]) \cup {at[c]} THEN uid[c] ELSE Committed(r)
  <1> DEFINE p == PageOf[at[c]]
             u == uid[c]
  <1>1. /\ pc[c] = "changed" /\ u \in Uids /\ up /\ at[c] \in RowsOn(p) /\ at[c] \in Rows /\ p \in Cached
    <2>1. pc[c] = "changed"
      BY DEF LogChange
    <2>2. QED
      BY <2>1, AtWork DEF Before
  <1>2. r \in Rows /\ PageOf[r] = p /\ Holder(r) = u /\ u # 0
    BY <1>1, HolderFacts DEF Uids
  <1>3. \A s : Changing(s, u) <=> s = at[c]
    <2>1. ClientStep(c)
      BY DEF ClientStep
    <2>2. QED
      BY <1>1, <2>1, BusySteps
  <1>4. RowInv(r, u) /\ InMemory(r) = frames[p].img[r]
    BY <1>1, <1>2 DEF RowsInv, InMemory
  <1>5. u \notin AbortRecs
    BY <1>1 DEF Before, HistoryInv, AbortInv
  <1> HIDE DEF u, p
  <1>6. frames[p].img[r] = IF r \in Written(u) \cup {at[c]} THEN u ELSE Committed(r)
    BY <1>2, <1>3, <1>4, <1>5 DEF RowInv
  <1>7. QED
    BY <1>6 DEF u, p

\* Every step keeps the newest logged image of a page in agreement with the committed rows.
LEMMA ImageStep ==
    ASSUME OrderlyUse, Before, ImageInv, RowsInv, [Next]_vars, Readable' PROVE ImageInv'
  <1>1. SUFFICES ASSUME NEW p \in Pages, NEW x \in LogRecs', x.op = "change", x.page = p,
                        \A y \in PageRecs(p)' : y.lsn <= x.lsn,
                        NEW u, u = x.uid, u = Holder(x.row)', NEW r \in RowsOn(p)
                 PROVE  x.img[r] = IF r \in Written(u)' THEN u ELSE Committed(r)'
    BY DEF ImageInv, PageRecs, Newest
  <1>2. PICK K \in SUBSET Uids : Advance(K)
    BY LogAdvance
  <1>3. r \in Rows /\ PageOf[r] = p
    BY DEF RowsOn
  <1>4. CASE x \notin LogRecs
    <2>1. PICK c \in Clients : /\ LogChange(c) /\ x.uid = uid[c] /\ x.page = PageOf[at[c]]
                               /\ x.img = frames[PageOf[at[c]]].img
      BY <1>1, <1>4, RecordSteps
    <2>2. x.img[r] = IF r \in Written(u) \cup {at[c]} THEN u ELSE Committed(r)
      <3>1. r \in RowsOn(PageOf[at[c]]) /\ u = uid[c]
        BY <1>1, <2>1
      <3>2. frames[PageOf[at[c]]].img[r] =
              IF r \in Written(uid[c]) \cup {at[c]} THEN uid[c] ELSE Committed(r)
        BY <2>1, <3>1, NewImage
      <3>3. QED
        BY <2>1, <3>1, <3>2
    <2>3. /\ walFile' = walFile /\ wrote' = [wrote EXCEPT ![u] = @ \cup {at[c]}]
          /\ pc[c] = "changed"
      BY <1>1, <2>1 DEF LogChange, WalAppend
    <2>4. Written(u)' = Written(u) \cup {at[c]}
      <3>1. u \in Uids /\ wrote \in [Uids -> SUBSET Rows]
        BY <1>1, <2>1, <2>3, BeforeFacts
      <3>2. QED
        BY <2>3, <3>1 DEF Written
    <2>5. QED
      BY <2>2, <2>3, <2>4, CommittedSame
  <1>5. CASE x \in LogRecs
    <2>1. x.row \in Rows /\ PageOf[x.row] = p /\ u \in Uids /\ u # 0 /\ x \in PageRecs(p)
      BY <1>1, <1>5, BeforeFacts DEF PageRecs
    <2>2. ~Crash /\ (HeldOn(x.row, u) \/ Logs(x.row, u) \/ Acquires(x.row, u))
      BY <1>1, <2>1, HolderSteps
    <2>3. LogRecs \subseteq LogRecs'
      BY <2>2, KeptSteps
    <2>4. \A y \in PageRecs(p) : y \in PageRecs(p)'
      BY <2>3 DEF PageRecs
    <2>5. Newest(x, PageRecs(p))
      BY <1>1, <2>1, <2>4 DEF Newest
    <2>6. ASSUME Holder(x.row) = u
          PROVE  /\ Holder(r) = u
                 /\ x.img[r] = IF r \in Written(u) THEN u ELSE Committed(r)
      <3>1. x.row \in RowsOn(p)
        BY <2>1 DEF RowsOn
      <3>2. Holder(r) = u
        BY <2>6, <3>1, HolderFacts
      <3>3. QED
        BY <1>1, <2>1, <2>5, <2>6, <3>2 DEF ImageInv
    <2>7. CASE HeldOn(x.row, u)
      BY <1>2, <1>3, <2>6, <2>7 DEF HeldOn, Advance
    <2>8. CASE Logs(x.row, u)
      <3>1. PICK c \in Clients : LogChange(c) /\ uid[c] = u /\ Written(u)' = Written(u) \cup {at[c]}
        BY <2>8 DEF Logs
      <3>2. u \notin K /\ Holder(x.row) = u
        BY <1>2, <2>8, AdvanceFacts DEF Logs
      <3>3. PICK rec \in Recs : /\ WalAppend(rec) /\ rec.op = "change" /\ rec.lsn = nextLSN
                                /\ rec.page = PageOf[at[c]]
        BY <3>1, AppendSteps DEF Before
      <3>4. rec \in LogRecs' /\ Current
        <4>1. LogTypes
          BY BeforeFacts
        <4>2. pc[c] = "changed"
          BY <3>1 DEF LogChange
        <4>3. QED
          BY <3>3, <4>1, <4>2, AppendSets, BeforeFacts
      <3>5. x.lsn < nextLSN /\ x.lsn \in Nat /\ nextLSN \in Nat
        BY <1>5, <3>4, BeforeFacts DEF Before, HistoryInv, LsnInv
      <3>6. PageOf[at[c]] # p
        BY <1>1, <3>3, <3>4, <3>5 DEF PageRecs
      <3>7. QED
        BY <1>2, <1>3, <2>6, <3>1, <3>2, <3>6 DEF Advance
    <2>9. CASE Acquires(x.row, u)
      BY <1>1, <1>5, <2>1, <2>9 DEF Acquires
    <2>10. QED
      BY <2>2, <2>7, <2>8, <2>9
  <1>6. QED
    BY <1>4, <1>5

-----------------------------------------------------------------------------
(* What Recover makes of the log, and what reaches the page file.          *)

\* Recover goes by TxnIDs, which identify the transactions of one process.
LEMMA RedoableRecs ==
    ASSUME OrderlyUse, Before, NEW p \in Pages
    PROVE  /\ RedoRecs(p) = {walFile[i] : i \in Redoable(p)}
           /\ RedoRecs(p) = {} <=> Redoable(p) = {}
  <1>1. \A x \in FileRecs : x.txn = x.uid
    BY DEF Before, HistoryInv, IdInv, LogRecs
  <1>2. \A i \in DOMAIN walFile : walFile[i] \in FileRecs
    BY DEF FileRecs
  <1>3. CommittedIDs = CommittedUids
    BY <1>1, <1>2 DEF CommittedIDs, CommittedUids
  <1>4. \A x \in RedoRecs(p) : \E i \in Redoable(p) : walFile[i] = x
    BY <1>1, <1>3 DEF RedoRecs, Redoable, FileRecs
  <1>5. \A i \in Redoable(p) : walFile[i] \in RedoRecs(p)
    BY <1>1, <1>2, <1>3 DEF RedoRecs, Redoable
  <1>6. QED
    BY <1>4, <1>5

\* Recover would write the committed rows to every page.
LEMMA RedoneFacts ==
    ASSUME OrderlyUse, Before, RedoInv, NEW p \in Pages, NEW r \in RowsOn(p)
    PROVE  RedoImage(p, disk[p])[r] = Committed(r)
  <1>1. walFile \in Seq(Recs)
    BY BeforeFacts DEF LogTypes
  <1>2. CASE Redoable(p) = {}
    <2>1. disk[p] = EmptyPage(p) /\ Committed(r) = 0
      BY <1>2, RedoableRecs DEF RedoInv
    <2>2. RedoImage(p, disk[p]) = disk[p]
      BY <1>2 DEF RedoImage
    <2>3. QED
      BY <2>1, <2>2 DEF EmptyPage
  <1>3. CASE Redoable(p) # {}
    <2>1. PICK i \in Redoable(p) : /\ RedoImage(p, disk[p]) = walFile[i].img
                                   /\ \A j \in Redoable(p) : walFile[j].lsn <= walFile[i].lsn
      BY <1>1, <1>3, RedoFacts
    <2>2. walFile[i] \in RedoRecs(p) /\ Newest(walFile[i], RedoRecs(p))
      BY <2>1, RedoableRecs DEF Newest
    <2>3. QED
      BY <2>1, <2>2 DEF RedoInv
  <1>4. QED
    BY <1>2, <1>3

\* A page that FlushAll writes has been changed by the transaction that commits.
LEMMA FlushedPages ==
    ASSUME OrderlyUse, Before, DirtyInv, RowsInv, NEW c \in Clients, pc[c] = "flushPages",
           NEW p \in DirtyOf(txnID[c])
    PROVE  /\ p \in Pages /\ Dirty(p) /\ up /\ uid[c] \in CommittedUids
           /\ \A r \in RowsOn(p) : /\ Holder(r) = uid[c] /\ InMemory(r) = frames[p].img[r]
                                   /\ frames[p].img[r] \in CommittedUids \cup {0}
           /\ \E x \in LogRecs : x.op = "change" /\ x.page = p /\ x.uid = uid[c]
  <1>1. p \in Pages /\ Dirty(p) /\ p \in Cached /\ frames[p].txn = txnID[c]
    BY DEF DirtyOf, Dirty, Before, TInv, Shapes, PoolTypes
  <1>2. up /\ uid[c] \in CommittedUids /\ txnID[c] = uid[c] /\ uid[c] \in Uids
    BY BeforeFacts DEF Before, OutcomeInv, Current
  <1>3. PICK s \in RowsOn(p) : Holder(s) = uid[c] /\ s \in Written(uid[c])
    BY <1>1, <1>2 DEF DirtyInv
  <1>4. ASSUME NEW r \in RowsOn(p)
        PROVE  /\ Holder(r) = uid[c] /\ InMemory(r) = frames[p].img[r]
               /\ frames[p].img[r] \in CommittedUids \cup {0}
    <2>1. Holder(r) = uid[c] /\ r \in Rows /\ PageOf[r] = p
      BY <1>3, HolderFacts
    <2>2. InMemory(r) = frames[p].img[r]
      BY <1>1, <2>1 DEF InMemory
    <2>3. InMemory(r) = Committed(r) \/ InMemory(r) = uid[c]
      BY <1>2, <2>1 DEF RowsInv, RowInv
    <2>4. walFile \in Seq(Recs)
      BY BeforeFacts DEF LogTypes
    <2>5. QED
      BY <1>2, <2>1, <2>2, <2>3, <2>4, CommittedType
  <1>5. PICK x \in LogRecs : x.op = "change" /\ x.uid = uid[c] /\ x.row = s
    BY <1>2, <1>3 DEF Before, HistoryInv, WroteInv, Written
  <1>6. x.page = p
    BY <1>3, <1>5, BeforeFacts, HolderFacts
  <1>7. QED
    BY <1>1, <1>2, <1>4, <1>5, <1>6

\* How a page of the file can change.
LEMMA DiskSteps ==
    ASSUME OrderlyUse, Before, [Next]_vars, Readable', NEW p \in Pages
    PROVE  \/ disk'[p] = disk[p]
           \/ disk'[p] = EmptyPage(p)
           \/ disk'[p] = RedoImage(p, disk[p]) /\ RedoImage(p, disk[p]) # disk[p]
           \/ \E c \in Clients : /\ pc[c] = "flushPages" /\ p \in DirtyOf(txnID[c])
                                 /\ FileRecs' = LogRecs /\ disk'[p] = frames[p].img
  <1>1. LogTypes
    BY BeforeFacts
  <1>2. ASSUME NEW c \in Clients, pc[c] = "flushPages", WalFlush,
               NEW S, S \subseteq DirtyOf(txnID[c]), WriteBack(S)
        PROVE  \/ disk'[p] = disk[p]
               \/ p \in DirtyOf(txnID[c]) /\ FileRecs' = LogRecs /\ disk'[p] = frames[p].img
    BY <1>1, <1>2, FlushSets DEF WriteBack
  <1>3. ASSUME NEW c \in Clients, ClientStep(c) \/ Begin(c),
               ~CommitPages(c), ~CommitPagesError(c)
        PROVE  disk' = disk
    BY <1>3 DEF ClientStep, ChangeRow, LogChange, UnpinRow, UnpinRead, CommitAppend, CommitFlush,
         CommitFlushError, Rollback, RollbackError, Abandon, LockTable, RLockTable, FetchRow,
         ReadPage, Begin, FetchPage, FetchHit, FetchMiss, FetchEvict, UnpinPage, Reread, poolVars
  <1>4. CASE \E c \in Clients : Begin(c) \/ ClientStep(c)
    <2>1. PICK c \in Clients : Begin(c) \/ ClientStep(c)
      BY <1>4
    <2>2. CASE CommitPages(c)
      <3>1. pc[c] = "flushPages" /\ WalFlush /\ WriteBack(DirtyOf(txnID[c]))
        BY <2>2 DEF CommitPages
      <3>2. QED
        BY <1>2, <3>1
    <2>3. CASE CommitPagesError(c)
      <3>1. /\ pc[c] = "flushPages" /\ WalFlush
            /\ \E S \in SUBSET DirtyOf(txnID[c]) : WriteBack(S)
        BY <2>3 DEF CommitPagesError
      <3>2. QED
        BY <1>2, <3>1
    <2>4. QED
      BY <1>3, <2>1, <2>2, <2>3
  <1>5. CASE Crash
    <2>1. PICK n \in 0..Len(walBuf), S \in SUBSET Pages, lost \in SUBSET Pages, left \in Tails("tornCrash") :
            /\ S # {} => n = Len(walBuf) /\ \E c \in Clients :
                           pc[c] = "flushPages" /\ S \subseteq DirtyOf(txnID[c])
            /\ WalCrash(n, left)
            /\ disk' = [q \in Pages |-> IF q \in lost THEN EmptyPage(q)
                                        ELSE IF q \in S THEN frames[q].img ELSE disk[q]]
      BY <1>5 DEF Crash
    <2>2. CASE p \in S /\ p \notin lost
      <3>1. PICK c \in Clients : pc[c] = "flushPages" /\ S \subseteq DirtyOf(txnID[c])
        BY <2>1, <2>2
      <3>2. Write(n, left) /\ left \in {"whole", "header", "data"} /\ n = Len(walBuf)
        BY <2>1, <2>2 DEF WalCrash, Tails
      <3>3. FileRecs' = LogRecs
        BY <1>1, <3>2, WriteSets DEF LogRecs
      <3>4. QED
        BY <2>1, <2>2, <3>1, <3>3
    <2>3. CASE ~(p \in S /\ p \notin lost)
      BY <2>1, <2>3
    <2>4. QED
      BY <2>2, <2>3
  <1>6. CASE WalRecords \/ Open \/ UNCHANGED vars
    BY <1>6 DEF WalRecords, Open, vars, poolVars
  <1>7. CASE \E q \in Pages : RecoverPage(q)
    <2>1. PICK q \in Pages : RecoverPage(q)
      BY <1>7
    <2>2. disk = [i \in Pages |-> disk[i]]
      BY DEF Before, TInv, Shapes, PoolTypes
    <2>3. QED
      BY <2>1, <2>2 DEF RecoverPage
  <1>8. QED
    BY <1>4, <1>5, <1>6, <1>7, NextKinds

\* Every step keeps uncommitted rows off the disk.
LEMMA NoStealStep ==
    ASSUME OrderlyUse, Before, NoSteal, RedoInv, DirtyInv, RowsInv, [Next]_vars, Readable'
    PROVE  NoSteal'
  <1>1. SUFFICES ASSUME NEW p \in Pages, NEW r \in RowsOn(p)
                 PROVE  disk'[p][r] \in CommittedUids' \cup {0}
    BY DEF NoSteal
  <1>2. CommittedUids \subseteq CommittedUids' /\ walFile \in Seq(Recs) /\ r \in Rows
    BY CommitSteps, BeforeFacts DEF Before, LogTypes, RowsOn
  <1>3. CASE disk'[p] = disk[p]
    BY <1>2, <1>3 DEF NoSteal
  <1>4. CASE disk'[p] = EmptyPage(p)
    BY <1>4 DEF EmptyPage
  <1>5. CASE disk'[p] = RedoImage(p, disk[p])
    BY <1>2, <1>5, RedoneFacts, CommittedType
  <1>6. ASSUME NEW c \in Clients, pc[c] = "flushPages", p \in DirtyOf(txnID[c]), disk'[p] = frames[p].img
        PROVE  disk'[p][r] \in CommittedUids' \cup {0}
    BY <1>2, <1>6, FlushedPages
  <1>7. QED
    BY <1>3, <1>4, <1>5, <1>6, DiskSteps

\* Every step keeps on disk, or in a record recovery will redo, what was committed.
LEMMA RedoStep ==
    ASSUME OrderlyUse, Before, LockInv, ImageInv, RedoInv, DirtyInv, RowsInv, [Next]_vars, Readable'
    PROVE  RedoInv'
  <1>1. PICK K \in SUBSET Uids : Advance(K)
    BY LogAdvance
  <1>2. /\ \A x \in LogRecs : /\ x.lsn \in Nat
                              /\ x.op = "change" => x.row \in RowsOn(x.page) /\ x.row \in Rows
                                                    /\ PageOf[x.row] = x.page
        /\ FileRecs' \subseteq LogRecs /\ FileRecs \subseteq FileRecs' /\ FileRecs \subseteq LogRecs
        /\ CommittedUids' = CommittedUids \cup K
    BY <1>1, BeforeFacts DEF Advance, RowsOn
  <1>3. ASSUME NEW p \in Pages, NEW z \in RedoRecs(p)', z.uid \in K,
               NEW x \in RedoRecs(p)', Newest(x, RedoRecs(p)'), NEW r \in RowsOn(p)
        PROVE  x.img[r] = Committed(r)'
    <2> DEFINE u == z.uid
    <2>1. /\ z \in LogRecs /\ z.op = "change" /\ z.page = p
          /\ x \in LogRecs /\ x.op = "change" /\ x.page = p
      BY <1>2 DEF RedoRecs
    <2>2. Holder(z.row) = u
      BY <1>1, <1>3, <2>1, WaitingCommits DEF Advance
    <2>3. \A s \in RowsOn(p) : Holder(s) = u
      BY <1>2, <2>1, <2>2, HolderFacts
    <2>4. ASSUME NEW y \in LogRecs, y.op = "change", y.page = p, y.uid # u PROVE y.lsn < z.lsn
      BY <2>1, <2>2, <2>4 DEF Before, HistoryInv, LsnInv, Holder
    <2>5. z.lsn <= x.lsn
      BY <1>3 DEF Newest
    <2>6. x.uid = u
      BY <1>2, <2>1, <2>4, <2>5
    <2>7. ASSUME NEW y \in PageRecs(p) PROVE y.lsn <= x.lsn
      <3>1. CASE y.uid = u
        <4>1. y \in FileRecs'
          BY <1>1, <1>3, <3>1 DEF Advance, Changes, PageRecs
        <4>2. y \in RedoRecs(p)'
          BY <1>2, <1>3, <3>1, <4>1 DEF RedoRecs, PageRecs
        <4>3. QED
          BY <1>3, <4>2 DEF Newest
      <3>2. CASE y.uid # u
        <4>1. y.lsn < z.lsn /\ y.lsn \in Nat /\ z.lsn \in Nat /\ x.lsn \in Nat
          BY <1>2, <2>1, <2>4, <3>2 DEF PageRecs
        <4>2. QED
          BY <2>5, <4>1
      <3>3. QED
        BY <3>1, <3>2
    <2>8. x \in PageRecs(p) /\ Newest(x, PageRecs(p)) /\ x.uid = Holder(x.row)
      BY <1>2, <2>1, <2>3, <2>6, <2>7 DEF PageRecs, Newest
    <2>9. x.img[r] = IF r \in Written(u) THEN u ELSE Committed(r)
      BY <2>6, <2>8 DEF ImageInv
    <2>10. Holder(r) = u /\ u \in K /\ r \in Rows
      BY <1>3, <2>3, HolderFacts
    <2> HIDE DEF u
    <2>11. QED
      BY <1>1, <2>9, <2>10 DEF Advance
  <1>4. ASSUME NEW p \in Pages, \A z \in RedoRecs(p)' : z.uid \notin K
        PROVE  RedoRecs(p)' = RedoRecs(p) /\ \A r \in RowsOn(p) : Committed(r)' = Committed(r)
    <2>1. \A x \in RedoRecs(p) : x \in RedoRecs(p)'
      BY <1>2 DEF RedoRecs
    <2>2. ASSUME NEW x \in RedoRecs(p)' PROVE x \in RedoRecs(p)
      <3>1. x \in LogRecs /\ x.uid \in CommittedUids /\ x.op = "change" /\ x.page = p
        BY <1>2, <1>4 DEF RedoRecs
      <3>2. x \in FileRecs
        BY <3>1 DEF Before, HistoryInv, OrderInv, Changes, LogRecs
      <3>3. QED
        BY <3>1, <3>2 DEF RedoRecs
    <2>3. ASSUME NEW r \in RowsOn(p), Holder(r) \in K, r \in Written(Holder(r)) PROVE FALSE
      <3>1. PICK y \in LogRecs : y.op = "change" /\ y.uid = Holder(r) /\ y.row = r
        BY <1>1, <2>3, WaitingCommits DEF Advance
      <3>2. y \in FileRecs' /\ y.page = p
        BY <1>1, <1>2, <2>3, <3>1 DEF Advance, Changes, RowsOn
      <3>3. y \in RedoRecs(p)'
        BY <1>2, <2>3, <3>1, <3>2 DEF RedoRecs
      <3>4. QED
        BY <1>4, <2>3, <3>1, <3>3
    <2>4. \A r \in RowsOn(p) : Committed(r)' = Committed(r)
      BY <1>1, <2>3 DEF Advance, RowsOn
    <2>5. QED
      BY <2>1, <2>2, <2>4
  <1>5. ASSUME NEW p \in Pages, NEW x \in RedoRecs(p)', Newest(x, RedoRecs(p)'), NEW r \in RowsOn(p)
        PROVE  x.img[r] = Committed(r)'
    <2>1. CASE \E z \in RedoRecs(p)' : z.uid \in K
      BY <1>3, <1>5, <2>1
    <2>2. CASE \A z \in RedoRecs(p)' : z.uid \notin K
      <3>1. RedoRecs(p)' = RedoRecs(p) /\ Committed(r)' = Committed(r)
        BY <1>4, <2>2
      <3>2. QED
        BY <1>5, <3>1 DEF RedoInv
    <2>3. QED
      BY <2>1, <2>2
  <1>6. ASSUME NEW p \in Pages, RedoRecs(p)' = {}
        PROVE  disk'[p] = EmptyPage(p) /\ \A r \in RowsOn(p) : Committed(r)' = 0
    <2>1. RedoRecs(p) = {} /\ \A r \in RowsOn(p) : Committed(r)' = Committed(r)
      BY <1>4, <1>6
    <2>2. disk[p] = EmptyPage(p) /\ \A r \in RowsOn(p) : Committed(r) = 0
      BY <2>1 DEF RedoInv
    <2>3. RedoImage(p, disk[p]) = disk[p]
      BY <2>1, RedoableRecs DEF RedoImage
    <2>4. ASSUME NEW c \in Clients, pc[c] = "flushPages", p \in DirtyOf(txnID[c]), FileRecs' = LogRecs
          PROVE  FALSE
      <3>1. PICK x \in LogRecs : x.op = "change" /\ x.page = p /\ x.uid = uid[c]
        BY <2>4, FlushedPages
      <3>2. uid[c] \in CommittedUids
        BY <2>4, FlushedPages
      <3>3. x \in RedoRecs(p)'
        BY <1>2, <2>4, <3>1, <3>2 DEF RedoRecs
      <3>4. QED
        BY <1>6, <3>3
    <2>5. QED
      BY <2>1, <2>2, <2>3, <2>4, DiskSteps
  <1>7. QED
    BY <1>5, <1>6 DEF RedoInv

-----------------------------------------------------------------------------
(* The rows in the pool.                                                   *)

\* What a step that commits the transactions K makes of a row, before it
\* touches the pool or the locks.
LEMMA Middle ==
    ASSUME OrderlyUse, Before, LockInv, RowsInv, up, NEW K, Advance(K),
           NEW r \in Rows, NEW u, u = Holder(r)
    PROVE  /\ InMemory(r) = Committed(r)' \/ (u # 0 /\ InMemory(r) = u)
           /\ r \in Written(u) /\ u \notin AbortRecs => InMemory(r) = u
           /\ Changing(r, u) => InMemory(r) = u
           /\ u # 0 /\ InMemory(r) = u => r \in Written(u) \/ Changing(r, u)
           /\ disk[PageOf[r]][r] = Committed(r)' \/ (u \in CommittedUids' /\ Dirty(PageOf[r]))
           /\ ~Dirty(PageOf[r]) /\ ~Busy(PageOf[r], u) => InMemory(r) = disk[PageOf[r]][r]
           /\ r \in Written(u) /\ u \notin CommittedUids' \cup AbortRecs =>
                Dirty(PageOf[r]) \/ Busy(PageOf[r], u)
           /\ r \in Written(u) /\ u \in CommittedUids' => Committed(r)' = u
           /\ u \in CommittedUids' => ~Busy(PageOf[r], u) /\ ~Changing(r, u) /\ u \notin AbortRecs
  <1>1. RowInv(r, u)
    BY DEF RowsInv
  <1>2. CommittedUids' = CommittedUids \cup K /\ CommittedUids' \subseteq CommitRecs
    BY AdvanceFacts DEF Advance
  <1>3. u \in CommittedUids' => ~Busy(PageOf[r], u) /\ ~Changing(r, u) /\ u \notin AbortRecs
    BY <1>2, BusyUncommitted
  <1>4. r \in Written(u) /\ u \in CommittedUids => Committed(r) = u
    BY DEF LockInv
  <1>5. Committed(r)' = IF u \in K /\ r \in Written(u) THEN u ELSE Committed(r)
    BY DEF Advance
  <1>6. CASE u \in K /\ r \in Written(u)
    <2>1. InMemory(r) = u /\ Committed(r)' = u /\ u \in CommittedUids'
      BY <1>1, <1>2, <1>3, <1>5, <1>6 DEF RowInv
    <2>2. disk[PageOf[r]][r] = u \/ Dirty(PageOf[r])
      BY <1>1, <1>2, <1>3, <1>4, <1>6 DEF RowInv
    <2>3. QED
      BY <1>1, <1>3, <2>1, <2>2 DEF RowInv
  <1>7. CASE ~(u \in K /\ r \in Written(u))
    <2>1. Committed(r)' = Committed(r)
      BY <1>5, <1>7
    <2>2. r \in Written(u) /\ u \in CommittedUids' => Committed(r)' = u
      BY <1>2, <1>4, <1>7, <2>1
    <2>3. QED
      BY <1>1, <1>2, <1>3, <2>1, <2>2 DEF RowInv
  <1>8. QED
    BY <1>6, <1>7

\* A row that the step leaves alone.
LEMMA RowKept ==
    ASSUME OrderlyUse, Before, LockInv, RowsInv, up, NEW K, Advance(K),
           NEW r \in Rows, NEW u, u = Holder(r),
           InMemory(r)' = InMemory(r), disk'[PageOf[r]][r] = disk[PageOf[r]][r],
           Dirty(PageOf[r])' <=> Dirty(PageOf[r]),
           r \in Written(u)' <=> r \in Written(u), u \in AbortRecs' <=> u \in AbortRecs,
           Busy(PageOf[r], u)' <=> Busy(PageOf[r], u), Changing(r, u)' <=> Changing(r, u)
    PROVE  RowInv(r, u)'
  BY Middle DEF RowInv

\* A step that leaves the rows, the locks and what is dirty alone.
LEMMA AllKept ==
    ASSUME OrderlyUse, Before, LockInv, DirtyInv, RowsInv, up, [Next]_vars, Readable',
           wlock' = wlock, wrote' = wrote, AbortRecs' = AbortRecs, disk' = disk,
           \A r \in Rows : InMemory(r)' = InMemory(r),
           \A p \in Pages : /\ Dirty(p)' <=> Dirty(p)
                            /\ Dirty(p) => frames'[p].txn = frames[p].txn,
           \A p, u : Busy(p, u)' <=> Busy(p, u), \A r, u : Changing(r, u)' <=> Changing(r, u)
    PROVE  DirtyInv' /\ RowsInv'
  <1>1. PICK K \in SUBSET Uids : Advance(K)
    BY LogAdvance
  <1>2. \A u : Written(u)' = Written(u)
    BY DEF Written
  <1>3. \A r : Holder(r)' = Holder(r)
    BY DEF Holder
  <1>4. ASSUME NEW r \in Rows, NEW u, u = Holder(r)' PROVE RowInv(r, u)'
    <2>1. u = Holder(r) /\ PageOf[r] \in Pages
      BY <1>3, <1>4, BeforeFacts
    <2>2. QED
      BY <1>1, <1>2, <2>1, RowKept
  <1>5. RowsInv'
    BY <1>4, RowInvNext
  <1>6. ASSUME NEW p \in Pages, Dirty(p)'
        PROVE  \E s \in RowsOn(p) : /\ Holder(s)' # 0 /\ frames'[p].txn = Holder(s)'
                                    /\ \A u : u = Holder(s)' => s \in Written(u)'
    BY <1>2, <1>3, <1>6 DEF DirtyInv
  <1>7. DirtyInv'
    BY <1>6 DEF DirtyInv
  <1>8. QED
    BY <1>5, <1>7

\* A page is dirty for the transaction that has the lock of its rows.
LEMMA DirtyFacts ==
    ASSUME OrderlyUse, Before, DirtyInv
    PROVE  /\ \A r \in Rows : Dirty(PageOf[r]) => Holder(r) = frames[PageOf[r]].txn
           /\ \A t : \A p \in Pages : p \in DirtyOf(t) <=> Dirty(p) /\ frames[p].txn = t
           /\ \A t : DirtyOf(t) \subseteq Pages /\ DirtyOf(t) \subseteq Cached
           /\ \A r \in Rows : \A t : PageOf[r] \in DirtyOf(t) => Holder(r) = t
           /\ \A r \in Rows : \A t : Dirty(PageOf[r]) /\ Holder(r) = t => PageOf[r] \in DirtyOf(t)
  <1>1. ASSUME NEW r \in Rows, Dirty(PageOf[r]) PROVE Holder(r) = frames[PageOf[r]].txn
    <2>1. PageOf[r] \in Pages /\ r \in RowsOn(PageOf[r])
      BY BeforeFacts DEF RowsOn
    <2>2. PICK s \in RowsOn(PageOf[r]) : frames[PageOf[r]].txn = Holder(s)
      BY <1>1, <2>1 DEF DirtyInv
    <2>3. QED
      BY <2>1, <2>2, HolderFacts
  <1>2. \A t : \A p : p \in DirtyOf(t) <=> Dirty(p) /\ frames[p].txn = t
    BY DEF DirtyOf, Dirty
  <1>3. Cached \subseteq Pages
    BY DEF Before, TInv, Shapes, PoolTypes
  <1>4. QED
    BY <1>1, <1>2, <1>3 DEF DirtyOf

\* ABORT records are those of Rollback.
LEMMA AbortSteps ==
    ASSUME OrderlyUse, Before, Readable'
    PROVE  /\ UNCHANGED <<walFile, walBuf>> => AbortRecs' = AbortRecs
           /\ WriteStep => AbortRecs' = AbortRecs
           /\ \A c \in Clients :
                /\ LogChange(c) \/ CommitAppend(c) => AbortRecs' = AbortRecs
                /\ Rollback(c) \/ RollbackError(c) => AbortRecs' = AbortRecs \cup {uid[c]}
  <1>1. LogTypes /\ TInv
    BY BeforeFacts DEF Before
  <1>2. UNCHANGED <<walFile, walBuf>> => AbortRecs' = AbortRecs
    BY SameSets DEF AbortRecs
  <1>3. WriteStep => AbortRecs' = AbortRecs
    BY <1>1, WriteSteps DEF AbortRecs
  <1>4. ASSUME NEW rec, WalAppend(rec)
        PROVE  AbortRecs' = AbortRecs \cup (IF rec.op = "abort" THEN {rec.uid} ELSE {})
    BY <1>1, <1>4, AppendSets DEF AbortRecs, Ended
  <1>5. ASSUME NEW c \in Clients
        PROVE  /\ LogChange(c) \/ CommitAppend(c) =>
                    \E rec : WalAppend(rec) /\ rec.op # "abort"
               /\ Rollback(c) \/ RollbackError(c) =>
                    \E rec : WalAppend(rec) /\ rec.op = "abort" /\ rec.uid = uid[c]
    <2>1. /\ LogChange(c) => \E rec \in Recs : WalAppend(rec) /\ rec.op = "change"
          /\ CommitAppend(c) => \E rec \in Recs : WalAppend(rec) /\ rec.op = "commit"
          /\ Rollback(c) \/ RollbackError(c) =>
               \E rec \in Recs : WalAppend(rec) /\ rec.op = "abort" /\ rec.uid = uid[c]
      BY <1>1, AppendSteps
    <2>2. QED
      BY <2>1
  <1>6. QED
    BY <1>2, <1>3, <1>4, <1>5

\* A client between two changes neither starts nor ends the use of a page.
LEMMA BusyKept ==
    ASSUME OrderlyUse, Before, NEW c \in Clients, ClientStep(c),
           pc[c] \notin {"changed", "logged"}, pc'[c] \notin {"changed", "logged"}
    PROVE  (\A p, u : Busy(p, u)' <=> Busy(p, u)) /\ (\A r, u : Changing(r, u)' <=> Changing(r, u))
  <1>1. ASSUME NEW p, NEW u PROVE (Busy(p, u)' <=> Busy(p, u)) /\ (Changing(p, u)' <=> Changing(p, u))
    <2>1. CASE u = uid[c]
      BY <2>1, BusySteps
    <2>2. CASE u # uid[c]
      BY <2>2, BusySteps
    <2>3. QED
      BY <2>1, <2>2
  <1>2. QED
    BY <1>1

\* Steps that touch neither the pool nor locks.
LEMMA QuietSteps ==
    ASSUME OrderlyUse, Before, LockInv, DirtyInv, RowsInv, up, [Next]_vars, Readable',
           \/ WalRecords \/ UNCHANGED vars
           \/ \E c \in Clients : \/ Begin(c) \/ Abandon(c) \/ CommitAppend(c) \/ CommitFlush(c)
                                 \/ CommitFlushError(c) \/ \E tb \in Tables : RLockTable(c, tb)
    PROVE  DirtyInv' /\ RowsInv'
  <1>1. UNCHANGED poolVars /\ wlock' = wlock /\ wrote' = wrote
    BY DEF WalRecords, vars, txnVars, hist, Begin, Abandon, CommitAppend, CommitFlush, CommitFlushError,
           RLockTable
  <1>2. /\ \A r : InMemory(r)' = InMemory(r)
        /\ \A p : Dirty(p)' <=> Dirty(p)
        /\ frames' = frames /\ disk' = disk
    BY <1>1 DEF poolVars, InMemory, Dirty, Cached
  <1>3. AbortRecs' = AbortRecs
    <2>1. \A c \in Clients : CommitFlush(c) \/ CommitFlushError(c) \/ WalRecords => WriteStep
      BY DEF WriteStep
    <2>2. \A c \in Clients : Begin(c) \/ Abandon(c) \/ UNCHANGED vars \/ (\E tb \in Tables : RLockTable(c, tb))
            => UNCHANGED <<walFile, walBuf>>
      BY DEF vars, walVars, Begin, Abandon, RLockTable
    <2>3. UNCHANGED vars => UNCHANGED <<walFile, walBuf>>
      BY DEF vars, walVars
    <2>4. WalRecords => WriteStep
      BY DEF WriteStep
    <2>5. QED
      BY <2>1, <2>2, <2>3, <2>4, AbortSteps
  <1>4. (\A p, u : Busy(p, u)' <=> Busy(p, u)) /\ (\A r, u : Changing(r, u)' <=> Changing(r, u))
    <2>1. CASE WalRecords \/ UNCHANGED vars
      <3>1. pc' = pc /\ uid' = uid /\ at' = at
        BY <2>1 DEF WalRecords, vars, txnVars
      <3>2. QED
        BY <3>1 DEF Busy, Changing
    <2>2. ASSUME NEW c \in Clients, Begin(c)
          PROVE  (\A p, u : Busy(p, u)' <=> Busy(p, u)) /\ (\A r, u : Changing(r, u)' <=> Changing(r, u))
      <3>1. /\ pc \in [Clients -> PCs] /\ uid \in [Clients -> 0..MaxTxns] /\ pc[c] = "idle"
            /\ pc' = [pc EXCEPT ![c] = "ready"] /\ uid' = [uid EXCEPT ![c] = uids + 1] /\ at' = at
        BY <2>2, BeforeFacts DEF Begin, Goto
      <3>2. /\ pc'[c] = "ready" /\ \A d \in Clients : d # c => pc'[d] = pc[d] /\ uid'[d] = uid[d]
        BY <3>1
      <3>3. ASSUME NEW p, NEW u PROVE Busy(p, u)' <=> Busy(p, u)
        BY <3>1, <3>2 DEF Busy
      <3>4. ASSUME NEW p, NEW u PROVE Changing(p, u)' <=> Changing(p, u)
        BY <3>1, <3>2 DEF Changing
      <3>5. QED
        BY <3>3, <3>4
    <2>3. ASSUME NEW c \in Clients,
                 \/ Abandon(c) \/ CommitAppend(c) \/ CommitFlush(c) \/ CommitFlushError(c)
                 \/ \E tb \in Tables : RLockTable(c, tb)
          PROVE  (\A p, u : Busy(p, u)' <=> Busy(p, u)) /\ (\A r, u : Changing(r, u)' <=> Changing(r, u))
      <3>1. ClientStep(c)
        BY <2>3 DEF ClientStep
      <3>2. pc \in [Clients -> PCs]
        BY BeforeFacts
      <3>3. /\ pc[c] \notin {"changed", "logged"}
            /\ pc' = pc \/ \E w \in {"idle", "flushLog", "flushPages", "commitFailed"} : pc' = [pc EXCEPT ![c] = w]
        BY <2>3 DEF Abandon, CommitAppend, MayCommit, CommitFlush, CommitFlushError, RLockTable, Goto
      <3>4. pc'[c] \notin {"changed", "logged"}
        BY <3>2, <3>3
      <3>5. QED
        BY <3>1, <3>3, <3>4, BusyKept
    <2>4. QED
      BY <2>1, <2>2, <2>3
  <1>5. QED
    BY <1>1, <1>2, <1>3, <1>4, AllKept

\* FetchPage and UnpinPage of a reader: a page that leaves the pool is clean and
\* nobody works on it, so its rows are those of the file.
LEMMA ReadSteps ==
    ASSUME OrderlyUse, Before, LockInv, DirtyInv, RowsInv, up, [Next]_vars, Readable',
           NEW c \in Clients,
           \/ UnpinRead(c)
           \/ \E r \in Rows : FetchRow(c, r)
           \/ \E p \in Pages : ReadPage(c, p)
    PROVE  DirtyInv' /\ RowsInv'
  <1>1. PoolTypes /\ pc \in [Clients -> PCs] /\ at = [d \in Clients |-> at[d]] /\ ClientStep(c) /\ TInv
    BY BeforeFacts DEF Before, TInv, Shapes, TxnTypes, ClientStep
  <1>2. ASSUME NEW r \in Rows
        PROVE  PageOf[r] \in Pages /\ r \in RowsOn(PageOf[r]) /\ RowInv(r, Holder(r))
    BY BeforeFacts DEF RowsOn, RowsInv
  <1>3. /\ walFile' = walFile /\ walBuf' = walBuf /\ wlock' = wlock /\ wrote' = wrote
    BY DEF UnpinRead, FetchRow, ReadPage, walVars, hist
  <1>4. pc[c] \notin {"changed", "logged"} /\ pc'[c] \notin {"changed", "logged"}
    BY <1>1 DEF UnpinRead, FetchRow, ReadPage, Goto
  <1>5. ASSUME NEW q \in Cached, frames[q].pin = 0 PROVE \A u : ~Busy(q, u)
    BY <1>1, <1>5, AtWork DEF Busy
  <1>6. ASSUME NEW p \in Pages, FetchPage(p)
        PROVE  /\ disk' = disk /\ \A r \in Rows : InMemory(r)' = InMemory(r)
               /\ \A q \in Pages : (Dirty(q)' <=> Dirty(q)) /\ (Dirty(q) => frames'[q].txn = frames[q].txn)
    <2>1. /\ disk' = disk /\ p \in Cached'
          /\ p \in Cached => frames'[p] = [frames[p] EXCEPT !.pin = @ + 1]
          /\ p \notin Cached => frames'[p] = PinnedFrame(p)
          /\ \A q \in Cached' : q # p => q \in Cached /\ frames'[q] = frames[q]
          /\ \A q \in Cached : q \notin Cached' => frames[q].pin = 0 /\ ~frames[q].dirty
      BY <1>1, <1>6, FetchFacts
    <2>2. p \in Cached => frames[p] \in Frame(p)
      BY <1>1 DEF PoolTypes
    <2>3. /\ p \in Cached => /\ frames'[p].img = frames[p].img /\ frames'[p].txn = frames[p].txn
                             /\ frames'[p].dirty = frames[p].dirty
          /\ p \notin Cached => frames'[p].img = disk[p] /\ ~frames'[p].dirty
      BY <2>1, <2>2 DEF PinnedFrame, Frame
    <2>4. ASSUME NEW q \in Pages
          PROVE  (Dirty(q)' <=> Dirty(q)) /\ (Dirty(q) => frames'[q].txn = frames[q].txn)
      BY <2>1, <2>3 DEF Dirty
    <2>5. ASSUME NEW r \in Rows PROVE InMemory(r)' = InMemory(r)
      <3> DEFINE q == PageOf[r]
      <3>1. CASE q \in Cached' /\ q # p
        BY <2>1, <3>1 DEF InMemory
      <3>2. CASE q = p
        BY <2>1, <2>3, <3>2 DEF InMemory
      <3>3. CASE q \notin Cached' /\ q \notin Cached
        BY <2>1, <3>3 DEF InMemory
      <3>4. CASE q \notin Cached' /\ q \in Cached
        <4>1. ~Dirty(q) /\ \A u : ~Busy(q, u)
          BY <1>5, <2>1, <3>4 DEF Dirty
        <4>2. InMemory(r) = disk[q][r]
          BY <1>2, <4>1 DEF RowInv
        <4>3. QED
          BY <2>1, <3>4, <4>2 DEF InMemory
      <3>5. QED
        BY <2>1, <3>1, <3>2, <3>3, <3>4
    <2>6. QED
      BY <2>1, <2>4, <2>5
  <1>7. CASE UnpinRead(c)
    <2>1. UnpinPage(at[c], FALSE, 0) /\ pc[c] = "reading"
      BY <1>7 DEF UnpinRead
    <2>2. at[c] \in Cached /\ frames[at[c]].pin > 0 /\ 0 \in 0..MaxTxns
      BY <1>1, <2>1, AtWork, StoreAssumption
    <2>3. /\ disk' = disk /\ Cached' = Cached
          /\ \A q \in Cached : /\ frames'[q].img = frames[q].img /\ frames'[q].dirty = frames[q].dirty
                               /\ frames'[q].txn = frames[q].txn
      BY <1>1, <2>1, <2>2, UnpinCleanFacts
    <2>4. \A r \in Rows : InMemory(r)' = InMemory(r)
      BY <2>3 DEF InMemory
    <2>5. \A q \in Pages : (Dirty(q)' <=> Dirty(q)) /\ (Dirty(q) => frames'[q].txn = frames[q].txn)
      BY <2>3 DEF Dirty
    <2>6. QED
      BY <1>1, <1>3, <1>4, <2>3, <2>4, <2>5, AbortSteps, BusyKept, AllKept
  <1>8. CASE \E p \in Pages : FetchPage(p)
    <2>1. QED
      BY <1>1, <1>3, <1>4, <1>6, <1>8, AbortSteps, BusyKept, AllKept
  <1>9. QED
    BY <1>2, <1>7, <1>8 DEF FetchRow, ReadPage

\* Rows of other pages, and of the pages of other tables, stay as they are when
\* a client works on its page.
LEMMA ElsewhereKept ==
    ASSUME OrderlyUse, Before, LockInv, RowsInv, up, NEW c \in Clients, ClientStep(c),
           pc[c] \in {"fetched", "changed", "logged"}, at' = at,
           walFile' = walFile, AbortRecs' = AbortRecs, wlock' = wlock, disk' = disk,
           NEW r \in Rows, PageOf[r] # PageOf[at[c]], NEW u, u = Holder(r)',
           InMemory(r)' = InMemory(r), Dirty(PageOf[r])' <=> Dirty(PageOf[r]),
           r \in Written(u)' <=> r \in Written(u)
    PROVE  RowInv(r, u)'
  <1>1. Advance({}) /\ u = Holder(r)
    BY NoAdvance DEF Holder
  <1>2. (Busy(PageOf[r], u)' <=> Busy(PageOf[r], u)) /\ (Changing(r, u)' <=> Changing(r, u))
    <2>1. CASE u = uid[c]
      <3>1. ~Busy(PageOf[r], u) /\ ~Changing(r, u)
        BY <2>1, BusySteps
      <3>2. ~Busy(PageOf[r], u)'
        BY <2>1, BusySteps
      <3>3. ~Changing(r, u)'
        BY <2>1, BusySteps
      <3>4. QED
        BY <3>1, <3>2, <3>3
    <2>2. CASE u # uid[c]
      BY <2>2, BusySteps
    <2>3. QED
      BY <2>1, <2>2
  <1>3. QED
    BY <1>1, <1>2, RowKept

\* Changing a pinned page keeps what the dirty marks and the cached rows promise.
LEMMA ChangeStep ==
    ASSUME OrderlyUse, Before, LockInv, DirtyInv, RowsInv, up, Readable',
           NEW c \in Clients, ChangeRow(c)
    PROVE  DirtyInv' /\ RowsInv'
  <1>0. PICK p, v : p = PageOf[at[c]] /\ v = uid[c]
    OBVIOUS
  <1>1. /\ PoolTypes /\ pc \in [Clients -> PCs] /\ ClientStep(c) /\ TInv
        /\ pc[c] = "fetched" /\ pc' = [pc EXCEPT ![c] = "changed"] /\ at' = at
        /\ frames' = [frames EXCEPT ![p].img[at[c]] = v] /\ UNCHANGED <<disk, lru>>
        /\ walFile' = walFile /\ walBuf' = walBuf /\ wlock' = wlock /\ wrote' = wrote /\ uid' = uid
    BY <1>0, BeforeFacts DEF Before, TInv, Shapes, ClientStep, ChangeRow, walVars, hist, Goto
  <1>2. /\ p \in Cached /\ p \in Pages /\ at[c] \in RowsOn(p) /\ at[c] \in Rows /\ v \in Uids
        /\ v \in 0..MaxTxns /\ v # 0 /\ pc'[c] = "changed"
    BY <1>0, <1>1, AtWork, BeforeFacts DEF Uids
  <1>3. v \notin CommitRecs /\ AbortRecs' = AbortRecs /\ Advance({})
    BY <1>0, <1>1, AbortSteps, NoAdvance DEF Before, OutcomeInv, Unfinished
  <1>4. /\ Cached' = Cached /\ frames'[p].img = [frames[p].img EXCEPT ![at[c]] = v]
        /\ frames'[p].dirty = frames[p].dirty /\ frames'[p].txn = frames[p].txn
        /\ \A q \in Cached : q # p => frames'[q] = frames[q]
    <2>1. QED
      BY <1>1, <1>2, ChangeRowFacts
  <1>5. \A q : (Dirty(q)' <=> Dirty(q)) /\ (Dirty(q) => frames'[q].txn = frames[q].txn)
    BY <1>4 DEF Dirty
  <1>6. frames[p].img \in [RowsOn(p) -> 0..MaxTxns]
    BY <1>1, <1>2 DEF PoolTypes, Frame, Image
  <1>7. /\ \A r : r = at[c] => InMemory(r)' = v
        /\ \A r \in Rows : r # at[c] => InMemory(r)' = InMemory(r)
    BY <1>0, <1>1, <1>2, <1>4, <1>6 DEF InMemory, RowsOn
  <1>8. /\ \A u : Written(u)' = Written(u)
        /\ \A r : Holder(r)' = Holder(r)
        /\ \A r \in RowsOn(p) : Holder(r) = v
    BY <1>0, <1>1, <1>2, HolderFacts DEF Written, Holder
  <1>9. DirtyInv'
    <2>1. ASSUME NEW q \in Pages, Dirty(q)'
          PROVE  \E s \in RowsOn(q) : /\ Holder(s)' # 0 /\ frames'[q].txn = Holder(s)'
                                      /\ \A u : u = Holder(s)' => s \in Written(u)'
      BY <1>5, <1>8, <2>1 DEF DirtyInv
    <2>2. QED
      BY <2>1 DEF DirtyInv
  <1>10. ASSUME NEW r \in Rows, NEW u, u = Holder(r)', PageOf[r] = p PROVE RowInv(r, u)'
    <2>1. r \in RowsOn(p) /\ u = v /\ u = Holder(r)
      BY <1>8, <1>10 DEF RowsOn
    <2>2. /\ RowInv(r, u) /\ Committed(r)' = Committed(r) /\ CommittedUids' = CommittedUids
          /\ u \notin CommittedUids
      BY <1>1, <1>3, <2>1, CommittedSame, SameSets, BeforeFacts DEF RowsInv
    <2>3. Busy(p, u)' /\ ~Changing(r, u) /\ (Changing(r, u)' <=> r = at[c])
      <3>0. /\ ClientStep(c) /\ u = uid[c] /\ PageOf[at'[c]] = p
            /\ pc'[c] \in {"changed", "logged"}
        BY <1>0, <1>1, <1>2, <2>1
      <3>1. Busy(p, u)'
        BY <3>0, BusySteps
      <3>2. ~Changing(r, u)
        BY <1>0, <1>1, <2>1, BusySteps
      <3>3. Changing(r, u)' <=> r = at[c]
        BY <1>0, <1>1, <1>2, <2>1, BusySteps
      <3>4. QED
        BY <3>1, <3>2, <3>3
    <2>4. disk'[PageOf[r]][r] = Committed(r)'
      BY <1>1, <2>2 DEF RowInv
    <2>5. CASE r = at[c]
      <3>1. InMemory(r)' = u /\ u # 0
        BY <1>2, <1>7, <2>1, <2>5
      <3>2. QED
        BY <1>10, <2>2, <2>3, <2>4, <2>5, <3>1 DEF RowInv
    <2>6. CASE r # at[c]
      <3>1. InMemory(r)' = InMemory(r) /\ Written(u)' = Written(u)
        BY <1>7, <1>8, <2>6
      <3>2. QED
        BY <1>3, <1>10, <2>2, <2>3, <2>4, <2>6, <3>1 DEF RowInv
    <2>7. QED
      BY <2>5, <2>6
  <1>11. ASSUME NEW r \in Rows, NEW u, u = Holder(r)', PageOf[r] # p PROVE RowInv(r, u)'
    <2>1. InMemory(r)' = InMemory(r) /\ Written(u)' = Written(u)
      <3>1. r # at[c]
        BY <1>0, <1>11
      <3>2. QED
        BY <1>7, <1>8, <3>1
    <2>2. QED
      BY <1>0, <1>1, <1>3, <1>5, <1>11, <2>1, ElsewhereKept
  <1>12. QED
    BY <1>9, <1>10, <1>11, RowInvNext

\* Marking the page dirty under its transaction keeps what the marks and rows promise.
LEMMA UnpinStep ==
    ASSUME OrderlyUse, Before, LockInv, DirtyInv, RowsInv, up, Readable',
           NEW c \in Clients, UnpinRow(c)
    PROVE  DirtyInv' /\ RowsInv'
  <1>0. PICK p, v : p = PageOf[at[c]] /\ v = uid[c]
    OBVIOUS
  <1>1. /\ PoolTypes /\ pc \in [Clients -> PCs] /\ ClientStep(c) /\ TInv
        /\ pc[c] = "logged" /\ pc' = [pc EXCEPT ![c] = "ready"] /\ at' = at
        /\ UnpinPage(p, TRUE, txnID[c])
        /\ walFile' = walFile /\ walBuf' = walBuf /\ wlock' = wlock /\ wrote' = wrote /\ uid' = uid
    BY <1>0, BeforeFacts DEF Before, TInv, Shapes, ClientStep, UnpinRow, walVars, hist, Goto
  <1>2. /\ p \in Cached /\ p \in Pages /\ at[c] \in RowsOn(p) /\ at[c] \in Rows /\ v \in Uids
        /\ frames[p].pin > 0 /\ txnID[c] = v /\ txnID[c] \in 0..MaxTxns /\ v # 0 /\ pc'[c] = "ready"
    BY <1>0, <1>1, AtWork, BeforeFacts DEF Uids
  <1>3. v \notin CommitRecs /\ AbortRecs' = AbortRecs /\ Advance({}) /\ at[c] \in Written(v)
    BY <1>0, <1>1, <1>2, AbortSteps, NoAdvance DEF Before, OutcomeInv, Unfinished, HistoryInv, HeldInv, Written
  <1>4. /\ disk' = disk /\ Cached' = Cached /\ frames'[p].img = frames[p].img
        /\ frames'[p].dirty /\ frames'[p].txn = v
        /\ \A q \in Cached : q # p => frames'[q] = frames[q]
    <2>1. QED
      BY <1>1, <1>2, UnpinDirtyFacts
  <1>5. Dirty(p)' /\ \A q : q # p => (Dirty(q)' <=> Dirty(q)) /\ (Dirty(q) => frames'[q] = frames[q])
    BY <1>2, <1>4 DEF Dirty
  <1>7. \A r \in Rows : InMemory(r)' = InMemory(r)
    BY <1>4 DEF InMemory
  <1>8. /\ \A u : Written(u)' = Written(u)
        /\ \A r : Holder(r)' = Holder(r)
        /\ \A r \in RowsOn(p) : Holder(r) = v
    BY <1>0, <1>1, <1>2, HolderFacts DEF Written, Holder
  <1>9. DirtyInv'
    <2>1. ASSUME NEW q \in Pages, Dirty(q)'
          PROVE  \E s \in RowsOn(q) : /\ Holder(s)' # 0 /\ frames'[q].txn = Holder(s)'
                                      /\ \A u : u = Holder(s)' => s \in Written(u)'
      <3>1. CASE q = p
        BY <1>2, <1>3, <1>4, <1>8, <3>1
      <3>2. CASE q # p
        BY <1>5, <1>8, <2>1, <3>2 DEF DirtyInv
      <3>3. QED
        BY <3>1, <3>2
    <2>2. QED
      BY <2>1 DEF DirtyInv
  <1>10. ASSUME NEW r \in Rows, NEW u, u = Holder(r)', PageOf[r] = p PROVE RowInv(r, u)'
    <2>1. r \in RowsOn(p) /\ u = v /\ u = Holder(r)
      BY <1>8, <1>10 DEF RowsOn
    <2>2. /\ RowInv(r, u) /\ Committed(r)' = Committed(r) /\ CommittedUids' = CommittedUids
          /\ u \notin CommittedUids
      BY <1>1, <1>3, <2>1, CommittedSame, SameSets, BeforeFacts DEF RowsInv
    <2>3. ~Busy(p, u)' /\ ~Changing(r, u) /\ ~Changing(r, u)'
      <3>0. /\ ClientStep(c) /\ u = uid[c] /\ PageOf[at'[c]] = p
            /\ pc'[c] \notin {"changed", "logged"}
        BY <1>0, <1>1, <1>2, <2>1
      <3>1. ~Busy(p, u)'
        BY <3>0, BusySteps
      <3>2. ~Changing(r, u)
        BY <1>0, <1>1, <2>1, BusySteps
      <3>3. ~Changing(r, u)'
        BY <1>0, <1>1, <1>2, <2>1, BusySteps
      <3>4. QED
        BY <3>1, <3>2, <3>3
    <2>4. disk'[PageOf[r]][r] = Committed(r)' /\ InMemory(r)' = InMemory(r)
      BY <1>4, <1>7, <2>2 DEF RowInv
    <2>5. QED
      BY <1>3, <1>5, <1>8, <1>10, <2>2, <2>3, <2>4 DEF RowInv
  <1>11. ASSUME NEW r \in Rows, NEW u, u = Holder(r)', PageOf[r] # p PROVE RowInv(r, u)'
    <2>1. InMemory(r)' = InMemory(r) /\ Written(u)' = Written(u)
      BY <1>7, <1>8
    <2>2. QED
      BY <1>0, <1>1, <1>3, <1>4, <1>5, <1>11, <2>1, ElsewhereKept
  <1>12. QED
    BY <1>9, <1>10, <1>11, RowInvNext

\* Whoever locks a table finds its rows as they are committed.
LEMMA LockTableStep ==
    ASSUME OrderlyUse, Before, LockInv, DirtyInv, RowsInv, up, [Next]_vars, Readable',
           NEW c \in Clients, NEW tb \in Tables, LockTable(c, tb)
    PROVE  DirtyInv' /\ RowsInv'
  <1>0. PICK v : v = uid[c]
    OBVIOUS
  <1>1. /\ pc \in [Clients -> PCs] /\ ClientStep(c) /\ pc[c] = "ready" /\ pc' = pc /\ at' = at
        /\ wlock \in [Tables -> 0..MaxTxns] /\ wlock[tb] = 0 /\ wlock' = [wlock EXCEPT ![tb] = v]
        /\ walFile' = walFile /\ walBuf' = walBuf /\ wrote' = wrote /\ UNCHANGED poolVars
    BY <1>0, BeforeFacts DEF ClientStep, LockTable, walVars, hist
  <1>2. v \in Uids /\ v # 0 /\ v \notin CommitRecs
    BY <1>0, <1>1, BeforeFacts DEF Uids, Before, OutcomeInv, Unfinished
  <1>3. AbortRecs' = AbortRecs /\ Advance({}) /\ CommittedUids' = CommittedUids
    BY <1>1, AbortSteps, NoAdvance DEF Advance
  <1>4. /\ disk' = disk /\ frames' = frames /\ \A r : InMemory(r)' = InMemory(r)
        /\ \A q : Dirty(q)' <=> Dirty(q)
        /\ \A u : Written(u)' = Written(u)
    BY <1>1 DEF poolVars, InMemory, Dirty, Cached, Written
  <1>5. \A r \in Rows : /\ TableOf[r] = tb => Holder(r) = 0 /\ Holder(r)' = v
                        /\ TableOf[r] # tb => Holder(r)' = Holder(r)
    BY <1>1, BeforeFacts DEF Holder
  <1>6. (\A p, u : Busy(p, u)' <=> Busy(p, u)) /\ (\A r, u : Changing(r, u)' <=> Changing(r, u))
    BY <1>1, BusyKept
  <1>7. DirtyInv'
    <2>1. ASSUME NEW q \in Pages, Dirty(q)'
          PROVE  \E s \in RowsOn(q) : /\ Holder(s)' # 0 /\ frames'[q].txn = Holder(s)'
                                      /\ \A u : u = Holder(s)' => s \in Written(u)'
      <3>1. PICK s \in RowsOn(q) : Holder(s) # 0 /\ frames[q].txn = Holder(s) /\ s \in Written(Holder(s))
        BY <1>4, <2>1 DEF DirtyInv
      <3>2. Holder(s)' = Holder(s)
        BY <1>5, <3>1 DEF RowsOn
      <3>3. QED
        BY <1>4, <3>1, <3>2
    <2>2. QED
      BY <2>1 DEF DirtyInv
  <1>8. ASSUME NEW r \in Rows, NEW u, u = Holder(r)', TableOf[r] = tb PROVE RowInv(r, u)'
    <2>1. u = v /\ Holder(r) = 0
      BY <1>5, <1>8
    <2>2. RowInv(r, 0) /\ Committed(r)' = Committed(r) /\ 0 \notin CommittedUids
      BY <1>1, <2>1, CommittedSame, BeforeFacts DEF RowsInv
    <2>3. InMemory(r) = Committed(r) /\ disk[PageOf[r]][r] = Committed(r)
      BY <2>2 DEF RowInv
    <2>4. InMemory(r) # u
      <3>1. walFile \in Seq(Recs)
        BY BeforeFacts DEF LogTypes
      <3>2. Committed(r) \in CommittedUids \cup {0}
        BY <3>1, CommittedType
      <3>3. QED
        BY <1>2, <2>1, <2>3, <3>2, BeforeFacts
    <2>5. ~Changing(r, u)
      BY <1>0, <1>1, <2>1, BusySteps
    <2>6. r \notin Written(u)
      <3>1. u # 0 /\ Readable'
        BY <1>2, <2>1
      <3>2. HeldOn(r, u) \/ Logs(r, u) \/ Acquires(r, u)
        BY <1>8, <3>1, HolderSteps
      <3>3. QED
        BY <2>1, <3>1, <3>2 DEF HeldOn, Logs, Acquires
    <2>7. QED
      BY <1>4, <1>6, <2>2, <2>3, <2>4, <2>5, <2>6 DEF RowInv
  <1>9. ASSUME NEW r \in Rows, NEW u, u = Holder(r)', TableOf[r] # tb PROVE RowInv(r, u)'
    <2>1. u = Holder(r)
      BY <1>5, <1>9
    <2>2. QED
      BY <1>3, <1>4, <1>6, <2>1, RowKept
  <1>10. QED
    BY <1>7, <1>8, <1>9, RowInvNext

\* finishPage logs a change before it gives the page back.
LEMMA LogChangeStep ==
    ASSUME OrderlyUse, Before, LockInv, DirtyInv, RowsInv, up, Readable',
           NEW c \in Clients, LogChange(c)
    PROVE  DirtyInv' /\ RowsInv'
  <1>0. PICK p, v : p = PageOf[at[c]] /\ v = uid[c]
    OBVIOUS
  <1>1. /\ pc \in [Clients -> PCs] /\ ClientStep(c) /\ TInv
        /\ pc[c] = "changed" /\ pc' = [pc EXCEPT ![c] = "logged"] /\ at' = at
        /\ wrote' = [wrote EXCEPT ![v] = @ \cup {at[c]}] /\ wrote \in [Uids -> SUBSET Rows]
        /\ walFile' = walFile /\ wlock' = wlock /\ uid' = uid /\ UNCHANGED poolVars
    BY <1>0, BeforeFacts DEF Before, ClientStep, LogChange, WalAppend, Goto
  <1>2. /\ p \in Pages /\ at[c] \in RowsOn(p) /\ at[c] \in Rows /\ v \in Uids /\ v # 0 /\ pc'[c] = "logged"
    BY <1>0, <1>1, AtWork, BeforeFacts DEF Uids
  <1>3. /\ v \notin CommitRecs /\ AbortRecs' = AbortRecs /\ Advance({}) /\ CommittedUids' = CommittedUids
        /\ v \notin CommittedUids
    BY <1>0, <1>1, AbortSteps, NoAdvance, BeforeFacts DEF Advance, Before, OutcomeInv, Unfinished
  <1>4. /\ disk' = disk /\ frames' = frames /\ \A r : InMemory(r)' = InMemory(r)
        /\ \A q : Dirty(q)' <=> Dirty(q)
    BY <1>1 DEF poolVars, InMemory, Dirty, Cached
  <1>5. /\ \A u : Written(u)' = IF u = v THEN Written(v) \cup {at[c]} ELSE Written(u)
        /\ \A r : Holder(r)' = Holder(r)
        /\ \A r \in RowsOn(p) : Holder(r) = v
    BY <1>0, <1>1, <1>2, HolderFacts DEF Written, Holder
  <1>6. DirtyInv'
    <2>1. ASSUME NEW q \in Pages, Dirty(q)'
          PROVE  \E s \in RowsOn(q) : /\ Holder(s)' # 0 /\ frames'[q].txn = Holder(s)'
                                      /\ \A u : u = Holder(s)' => s \in Written(u)'
      BY <1>4, <1>5, <2>1 DEF DirtyInv
    <2>2. QED
      BY <2>1 DEF DirtyInv
  <1>7. ASSUME NEW r \in Rows, NEW u, u = Holder(r)', PageOf[r] = p PROVE RowInv(r, u)'
    <2>1. r \in RowsOn(p) /\ u = v /\ u = Holder(r)
      BY <1>5, <1>7 DEF RowsOn
    <2>2. RowInv(r, u) /\ Committed(r)' = Committed(r) /\ u \notin CommittedUids
      BY <1>1, <1>3, <2>1, CommittedSame DEF RowsInv
    <2>3. /\ ClientStep(c) /\ u = uid[c] /\ PageOf[at'[c]] = p /\ PageOf[at[c]] = p
          /\ pc'[c] \in {"changed", "logged"} /\ pc'[c] # "changed"
      BY <1>0, <1>1, <1>2, <2>1
    <2>4. Busy(p, u)'
      BY <2>3, BusySteps
    <2>5. ~Changing(r, u)'
      BY <2>3, BusySteps
    <2>6. Changing(r, u) <=> r = at[c]
      <3>1. Changing(r, u) <=> pc[c] = "changed" /\ at[c] = r
        BY <2>3, BusySteps
      <3>2. QED
        BY <1>1, <3>1
    <2>7. Written(u)' = Written(u) \cup {at[c]}
      BY <1>5, <2>1
    <2>8. disk'[PageOf[r]][r] = Committed(r)'
      BY <1>4, <2>2 DEF RowInv
    <2>9. r \in Written(u)' <=> r \in Written(u) \/ Changing(r, u)
      BY <2>6, <2>7
    <2>10. QED
      BY <1>3, <1>4, <1>7, <2>2, <2>4, <2>5, <2>8, <2>9 DEF RowInv
  <1>8. ASSUME NEW r \in Rows, NEW u, u = Holder(r)', PageOf[r] # p PROVE RowInv(r, u)'
    <2>1. r \in Written(u)' <=> r \in Written(u)
      <3>1. r # at[c]
        BY <1>0, <1>8
      <3>2. QED
        BY <1>5, <3>1
    <2>2. QED
      BY <1>0, <1>1, <1>3, <1>4, <1>8, <2>1, ElsewhereKept
  <1>9. QED
    BY <1>6, <1>7, <1>8, RowInvNext

\* FlushAll writes only committed rows.
LEMMA WrittenRows ==
    ASSUME OrderlyUse, Before, LockInv, DirtyInv, RowsInv, up, NEW K, Advance(K),
           NEW c \in Clients, pc[c] = "flushPages",
           NEW S \in SUBSET DirtyOf(txnID[c]), WriteBack(S)
    PROVE  /\ uid[c] \in Uids /\ uid[c] # 0 /\ uid[c] \in CommittedUids' /\ txnID[c] = uid[c]
           /\ \A r \in Rows : InMemory(r)' = InMemory(r)
           /\ \A r \in Rows : /\ Dirty(PageOf[r])' <=> Dirty(PageOf[r]) /\ PageOf[r] \notin S
                              /\ PageOf[r] \in S => disk'[PageOf[r]][r] = InMemory(r)
                              /\ PageOf[r] \notin S => disk'[PageOf[r]][r] = disk[PageOf[r]][r]
           /\ \A r \in Rows : Holder(r) = uid[c] =>
                /\ InMemory(r) = Committed(r)'
                /\ ~Dirty(PageOf[r]) => disk[PageOf[r]][r] = Committed(r)'
           /\ \A q \in Pages : Dirty(q)' => q \notin S /\ Dirty(q) /\ frames'[q].txn = frames[q].txn
  <1>1. PoolTypes /\ S \in SUBSET Cached /\ S \subseteq Pages
    BY DirtyFacts DEF Before, TInv, Shapes
  <1>2. /\ Cached' = Cached
        /\ \A p \in Pages : disk'[p] = IF p \in S THEN frames[p].img ELSE disk[p]
        /\ \A p \in Cached : frames'[p] = IF p \in S THEN [frames[p] EXCEPT !.dirty = FALSE]
                                          ELSE frames[p]
    BY <1>1, WriteBackFacts
  <1>3. \A p \in Cached : /\ frames'[p].img = frames[p].img /\ frames'[p].txn = frames[p].txn
                          /\ p \in S => ~frames'[p].dirty
                          /\ p \notin S => frames'[p].dirty = frames[p].dirty
    <2>1. \A p \in Cached : frames[p] \in Frame(p)
      BY <1>1 DEF PoolTypes
    <2>2. QED
      BY <1>2, <2>1 DEF Frame
  <1>4. uid[c] \in Uids /\ uid[c] # 0 /\ txnID[c] = uid[c] /\ uid[c] \in CommittedUids'
    BY BeforeFacts DEF Uids, Before, OutcomeInv, Advance
  <1>5. \A r \in Rows : PageOf[r] \in Pages
    BY BeforeFacts
  <1>6. ASSUME NEW r \in Rows PROVE InMemory(r)' = InMemory(r)
    <2>1. CASE PageOf[r] \in Cached
      BY <1>2, <1>3, <2>1 DEF InMemory
    <2>2. CASE PageOf[r] \notin Cached
      BY <1>1, <1>2, <1>5, <2>2 DEF InMemory
    <2>3. QED
      BY <2>1, <2>2
  <1>7. ASSUME NEW r \in Rows
        PROVE  /\ Dirty(PageOf[r])' <=> Dirty(PageOf[r]) /\ PageOf[r] \notin S
               /\ PageOf[r] \in S => disk'[PageOf[r]][r] = InMemory(r)
               /\ PageOf[r] \notin S => disk'[PageOf[r]][r] = disk[PageOf[r]][r]
    <2>1. Dirty(PageOf[r])' <=> Dirty(PageOf[r]) /\ PageOf[r] \notin S
      BY <1>2, <1>3 DEF Dirty
    <2>2. PageOf[r] \in S => disk'[PageOf[r]][r] = InMemory(r)
      BY <1>1, <1>2, <1>5 DEF InMemory
    <2>3. QED
      BY <1>2, <1>5, <2>1, <2>2
  <1>8. ASSUME NEW r \in Rows, Holder(r) = uid[c]
        PROVE  /\ InMemory(r) = Committed(r)'
               /\ ~Dirty(PageOf[r]) => disk[PageOf[r]][r] = Committed(r)'
    <2>1. PICK v : v = uid[c]
      OBVIOUS
    <2>2. /\ InMemory(r) = Committed(r)' \/ (v # 0 /\ InMemory(r) = v)
          /\ v # 0 /\ InMemory(r) = v => r \in Written(v) \/ Changing(r, v)
          /\ r \in Written(v) /\ v \in CommittedUids' => Committed(r)' = v
          /\ disk[PageOf[r]][r] = Committed(r)' \/ (v \in CommittedUids' /\ Dirty(PageOf[r]))
          /\ v \in CommittedUids' => ~Changing(r, v)
      BY <1>8, <2>1, Middle
    <2>3. QED
      BY <1>4, <2>1, <2>2
  <1>9. ASSUME NEW q \in Pages, Dirty(q)'
        PROVE  q \notin S /\ Dirty(q) /\ frames'[q].txn = frames[q].txn
    BY <1>2, <1>3, <1>9 DEF Dirty
  <1>10. QED
    BY <1>4, <1>6, <1>7, <1>8, <1>9

\* The rows of a transaction that lets go of its locks are committed and clean.
LEMMA Released ==
    ASSUME OrderlyUse, Before, NEW c \in Clients, ClientStep(c), uid[c] # 0, NEW r \in Rows,
           InMemory(r)' = Committed(r)', disk'[PageOf[r]][r] = Committed(r)'
    PROVE  RowInv(r, 0)'
  <1>1. ~Changing(r, 0)'
    BY BusySteps, HolderFacts
  <1>2. Written(0)' = {}
    BY DEF Written, Uids
  <1>3. QED
    BY <1>1, <1>2 DEF RowInv

\* Releasing the locks of a transaction frees its rows and no others.
LEMMA UnlockFacts ==
    ASSUME OrderlyUse, Before, NEW c \in Clients, Unlock(c)
    PROVE  /\ \A r \in Rows : Holder(r) = uid[c] => Holder(r)' = 0
           /\ \A r \in Rows : Holder(r) # uid[c] => Holder(r)' = Holder(r)
  BY BeforeFacts DEF Unlock, Holder

\* Writing a committed transaction's pages back, all or some, keeps the pool's promises.
LEMMA CommitPagesStep ==
    ASSUME OrderlyUse, Before, LockInv, DirtyInv, RowsInv, up, [Next]_vars, Readable',
           NEW c \in Clients, CommitPages(c) \/ CommitPagesError(c)
    PROVE  DirtyInv' /\ RowsInv'
  <1>0. PICK v : v = uid[c]
    OBVIOUS
  <1>1. PICK S \in SUBSET DirtyOf(txnID[c]) :
          /\ WriteBack(S)
          /\ \/ S = DirtyOf(txnID[c]) /\ Unlock(c)
             \/ wlock' = wlock
    BY DEF CommitPages, CommitPagesError
  <1>2. /\ ClientStep(c) /\ pc[c] = "flushPages" /\ pc'[c] \in {"idle", "commitFailed"}
        /\ wrote' = wrote
    <2>1. pc \in [Clients -> PCs]
      BY BeforeFacts
    <2>2. QED
      BY <2>1 DEF ClientStep, CommitPages, CommitPagesError, Goto, hist
  <1>3. PICK K \in SUBSET Uids : Advance(K)
    BY LogAdvance
  <1>4. /\ v \in Uids /\ v # 0 /\ v \in CommittedUids' /\ txnID[c] = v
        /\ \A r \in Rows : InMemory(r)' = InMemory(r)
        /\ \A r \in Rows : /\ Dirty(PageOf[r])' <=> Dirty(PageOf[r]) /\ PageOf[r] \notin S
                           /\ PageOf[r] \in S => disk'[PageOf[r]][r] = InMemory(r)
                           /\ PageOf[r] \notin S => disk'[PageOf[r]][r] = disk[PageOf[r]][r]
        /\ \A r \in Rows : Holder(r) = v =>
             /\ InMemory(r) = Committed(r)'
             /\ ~Dirty(PageOf[r]) => disk[PageOf[r]][r] = Committed(r)'
        /\ \A q \in Pages : Dirty(q)' => q \notin S /\ Dirty(q) /\ frames'[q].txn = frames[q].txn
    BY <1>0, <1>1, <1>2, <1>3, WrittenRows
  <1>5. (\A p, u : Busy(p, u)' <=> Busy(p, u)) /\ (\A r, u : Changing(r, u)' <=> Changing(r, u))
    BY <1>2, BusyKept
  <1>6. AbortRecs' = AbortRecs /\ \A u : Written(u)' = Written(u)
    BY <1>2, AbortSteps DEF WriteStep, Written
  <1>7. /\ \A r \in Rows : Holder(r)' = Holder(r) \/ (Holder(r) = v /\ Holder(r)' = 0 /\ S = DirtyOf(v))
    <2>1. CASE wlock' = wlock
      BY <2>1 DEF Holder
    <2>2. CASE S = DirtyOf(txnID[c]) /\ Unlock(c)
      BY <1>0, <1>4, <2>2, UnlockFacts
    <2>3. QED
      BY <1>1, <2>1, <2>2
  <1>8. ASSUME NEW r \in Rows, NEW u, u = Holder(r)', u # v PROVE RowInv(r, u)'
    <2>1. CASE u = Holder(r)
      <3>1. PageOf[r] \notin S
        BY <1>1, <1>4, <1>8, <2>1, DirtyFacts
      <3>2. QED
        BY <1>3, <1>4, <1>5, <1>6, <2>1, <3>1, RowKept
    <2>2. CASE u # Holder(r)
      <3>1. Holder(r) = v /\ u = 0 /\ S = DirtyOf(v)
        BY <1>7, <1>8, <2>2
      <3>2. Dirty(PageOf[r]) => PageOf[r] \in S
        BY <3>1, DirtyFacts
      <3>3. InMemory(r)' = Committed(r)' /\ disk'[PageOf[r]][r] = Committed(r)'
        BY <1>4, <3>1, <3>2, DirtyFacts DEF Dirty
      <3>4. QED
        BY <1>0, <1>2, <1>4, <3>1, <3>3, Released
    <2>3. QED
      BY <2>1, <2>2
  <1>9. ASSUME NEW r \in Rows, NEW u, u = Holder(r)', u = v PROVE RowInv(r, u)'
    <2>1. Holder(r) = v
      BY <1>4, <1>7, <1>9
    <2>2. ~Busy(PageOf[r], v) /\ ~Changing(r, v)
      BY <1>3, <1>4, <2>1, Middle
    <2>3. InMemory(r)' = Committed(r)'
      BY <1>4, <2>1
    <2>4. disk'[PageOf[r]][r] = Committed(r)' \/ Dirty(PageOf[r])'
      BY <1>4, <2>1
    <2>5. ~Dirty(PageOf[r])' => disk'[PageOf[r]][r] = Committed(r)'
      BY <2>4
    <2>6. r \in Written(v) => Committed(r)' = v
      BY <1>3, <1>4, <2>1, Middle
    <2>7. v = Committed(r)' => r \in Written(v)
      <3>1. v # 0 /\ InMemory(r) = v => r \in Written(v) \/ Changing(r, v)
        BY <1>3, <2>1, Middle
      <3>2. QED
        BY <1>4, <2>1, <2>2, <3>1
    <2>8. QED
      BY <1>4, <1>5, <1>6, <1>9, <2>2, <2>3, <2>4, <2>5, <2>6, <2>7 DEF RowInv
  <1>10. DirtyInv'
    <2>1. ASSUME NEW q \in Pages, Dirty(q)'
          PROVE  \E s \in RowsOn(q) : /\ Holder(s)' # 0 /\ frames'[q].txn = Holder(s)'
                                      /\ \A u : u = Holder(s)' => s \in Written(u)'
      <3>1. q \notin S /\ Dirty(q) /\ frames'[q].txn = frames[q].txn
        BY <1>4, <2>1
      <3>2. PICK s \in RowsOn(q) : Holder(s) # 0 /\ frames[q].txn = Holder(s) /\ s \in Written(Holder(s))
        BY <3>1 DEF DirtyInv
      <3>3. Holder(s)' = Holder(s)
        BY <1>7, <3>1, <3>2, DirtyFacts DEF RowsOn
      <3>4. QED
        BY <1>6, <3>1, <3>2, <3>3
    <2>2. QED
      BY <2>1 DEF DirtyInv
  <1>11. QED
    BY <1>8, <1>9, <1>10, RowInvNext

\* DiscardTxn reads the pages of a transaction without COMMIT back from the file,
\* which holds the committed rows.
LEMMA DiscardedRows ==
    ASSUME OrderlyUse, Before, DirtyInv, RowsInv, up, NEW c \in Clients, MayRollback(c),
           walFile' = walFile, NEW S \in SUBSET DirtyOf(txnID[c]), Reread(S)
    PROVE  /\ uid[c] \in Uids /\ uid[c] # 0 /\ uid[c] \notin CommitRecs /\ txnID[c] = uid[c]
           /\ disk' = disk
           /\ \A r \in Rows : /\ Dirty(PageOf[r])' <=> Dirty(PageOf[r]) /\ PageOf[r] \notin S
                              /\ PageOf[r] \in S => InMemory(r)' = disk[PageOf[r]][r]
                              /\ PageOf[r] \notin S => InMemory(r)' = InMemory(r)
           /\ \A r \in Rows : Holder(r) = uid[c] =>
                /\ disk[PageOf[r]][r] = Committed(r)'
                /\ ~Dirty(PageOf[r]) => InMemory(r) = Committed(r)'
                /\ uid[c] # Committed(r)'
           /\ \A q \in Pages : Dirty(q)' => q \notin S /\ Dirty(q) /\ frames'[q].txn = frames[q].txn
  <1>1. PoolTypes /\ S \in SUBSET Cached /\ S \subseteq Pages
    BY DirtyFacts DEF Before, TInv, Shapes
  <1>2. /\ Cached' = Cached /\ disk' = disk
        /\ \A p \in Cached : frames'[p] = IF p \in S THEN [frames[p] EXCEPT !.img = disk[p], !.dirty = FALSE]
                                          ELSE frames[p]
    BY <1>1, RereadFacts
  <1>3. \A p \in Cached : /\ p \in S => /\ frames'[p].img = disk[p] /\ ~frames'[p].dirty
                          /\ p \notin S => frames'[p] = frames[p]
    <2>1. \A p \in Cached : frames[p] \in Frame(p)
      BY <1>1 DEF PoolTypes
    <2>2. QED
      BY <1>2, <2>1 DEF Frame
  <1>4. uid[c] \in Uids /\ uid[c] # 0 /\ txnID[c] = uid[c] /\ uid[c] \notin CommitRecs
    <2>1. pc[c] \in {"ready", "rollbackFailed"}
      BY DEF MayRollback, OrderlyUse, NoSecondThoughts
    <2>2. QED
      BY <2>1, BeforeFacts DEF Uids, Before, OutcomeInv, Unfinished
  <1>5. \A r \in Rows : PageOf[r] \in Pages
    BY BeforeFacts
  <1>6. ASSUME NEW r \in Rows
        PROVE  /\ Dirty(PageOf[r])' <=> Dirty(PageOf[r]) /\ PageOf[r] \notin S
               /\ PageOf[r] \in S => InMemory(r)' = disk[PageOf[r]][r]
               /\ PageOf[r] \notin S => InMemory(r)' = InMemory(r)
    <2>1. Dirty(PageOf[r])' <=> Dirty(PageOf[r]) /\ PageOf[r] \notin S
      BY <1>2, <1>3 DEF Dirty
    <2>2. PageOf[r] \in S => InMemory(r)' = disk[PageOf[r]][r]
      BY <1>1, <1>2, <1>3 DEF InMemory
    <2>3. PageOf[r] \notin S => InMemory(r)' = InMemory(r)
      BY <1>2, <1>3 DEF InMemory
    <2>4. QED
      BY <2>1, <2>2, <2>3
  <1>7. ASSUME NEW r \in Rows, Holder(r) = uid[c]
        PROVE  /\ disk[PageOf[r]][r] = Committed(r)'
               /\ ~Dirty(PageOf[r]) => InMemory(r) = Committed(r)'
               /\ uid[c] # Committed(r)'
    <2>1. PICK v : v = uid[c]
      OBVIOUS
    <2>2. RowInv(r, v) /\ v \notin CommittedUids
      BY <1>4, <1>7, <2>1, BeforeFacts DEF RowsInv
    <2>3. Committed(r)' = Committed(r)
      BY CommittedSame
    <2>4. disk[PageOf[r]][r] = Committed(r)'
      BY <2>2, <2>3 DEF RowInv
    <2>5. ~Busy(PageOf[r], v)
      <3>1. \A d \in Clients : d # c /\ pc[d] # "idle" => uid[d] # uid[c]
        <4>1. pc[c] # "idle"
          BY DEF MayRollback
        <4>2. QED
          BY <4>1 DEF Before, OutcomeInv
      <3>2. pc[c] \notin {"changed", "logged"}
        BY DEF MayRollback
      <3>3. QED
        BY <2>1, <3>1, <3>2 DEF Busy
    <2>6. ~Dirty(PageOf[r]) => InMemory(r) = Committed(r)'
      BY <2>2, <2>4, <2>5 DEF RowInv
    <2>7. Committed(r)' \in CommittedUids \cup {0}
      <3>1. walFile \in Seq(Recs)
        BY BeforeFacts DEF LogTypes
      <3>2. QED
        BY <2>3, <3>1, CommittedType
    <2>8. QED
      BY <1>4, <2>1, <2>2, <2>4, <2>6, <2>7
  <1>8. ASSUME NEW q \in Pages, Dirty(q)'
        PROVE  q \notin S /\ Dirty(q) /\ frames'[q].txn = frames[q].txn
    BY <1>2, <1>3, <1>8 DEF Dirty
  <1>9. QED
    BY <1>2, <1>4, <1>6, <1>7, <1>8

\* Rereading a transaction's pages from disk, all or some, keeps the pool's promises.
LEMMA RollbackStep ==
    ASSUME OrderlyUse, Before, LockInv, DirtyInv, RowsInv, up, [Next]_vars, Readable',
           NEW c \in Clients, Rollback(c) \/ RollbackError(c)
    PROVE  DirtyInv' /\ RowsInv'
  <1>0. PICK v : v = uid[c]
    OBVIOUS
  <1>1. PICK S \in SUBSET DirtyOf(txnID[c]) :
          /\ Reread(S)
          /\ \/ S = DirtyOf(txnID[c]) /\ Unlock(c) /\ wrote' = [wrote EXCEPT ![v] = {}]
             \/ wlock' = wlock /\ wrote' = wrote
    BY <1>0 DEF Rollback, RollbackError, Unpinned, hist
  <1>2. /\ ClientStep(c) /\ MayRollback(c) /\ pc'[c] \in {"idle", "rollbackFailed"}
        /\ pc[c] \notin {"changed", "logged"} /\ walFile' = walFile /\ wrote \in [Uids -> SUBSET Rows]
    <2>1. pc \in [Clients -> PCs] /\ wrote \in [Uids -> SUBSET Rows]
      BY BeforeFacts
    <2>2. QED
      BY <2>1 DEF ClientStep, Rollback, RollbackError, Goto, WalAppend, MayRollback
  <1>3. Advance({}) /\ CommittedUids' = CommittedUids
    BY <1>2, NoAdvance DEF Advance
  <1>4. /\ v \in Uids /\ v # 0 /\ v \notin CommitRecs /\ txnID[c] = v /\ disk' = disk
        /\ \A r \in Rows : /\ Dirty(PageOf[r])' <=> Dirty(PageOf[r]) /\ PageOf[r] \notin S
                           /\ PageOf[r] \in S => InMemory(r)' = disk[PageOf[r]][r]
                           /\ PageOf[r] \notin S => InMemory(r)' = InMemory(r)
        /\ \A r \in Rows : Holder(r) = v =>
             /\ disk[PageOf[r]][r] = Committed(r)'
             /\ ~Dirty(PageOf[r]) => InMemory(r) = Committed(r)'
             /\ v # Committed(r)'
        /\ \A q \in Pages : Dirty(q)' => q \notin S /\ Dirty(q) /\ frames'[q].txn = frames[q].txn
    BY <1>0, <1>1, <1>2, DiscardedRows
  <1>5. (\A p, u : Busy(p, u)' <=> Busy(p, u)) /\ (\A r, u : Changing(r, u)' <=> Changing(r, u))
    BY <1>2, BusyKept
  <1>6. /\ AbortRecs' = AbortRecs \cup {v} /\ \A u : u # v => Written(u)' = Written(u)
        /\ wrote' = wrote => Written(v)' = Written(v)
    BY <1>0, <1>1, <1>2, AbortSteps DEF Written
  <1>7. /\ \A r \in Rows : \/ Holder(r)' = Holder(r) /\ (Holder(r) = v => wrote' = wrote)
                           \/ Holder(r) = v /\ Holder(r)' = 0 /\ S = DirtyOf(v)
    <2>1. CASE wlock' = wlock /\ wrote' = wrote
      BY <2>1 DEF Holder
    <2>2. CASE S = DirtyOf(txnID[c]) /\ Unlock(c)
      BY <1>0, <1>4, <2>2, UnlockFacts
    <2>3. QED
      BY <1>1, <2>1, <2>2
  <1>8. ASSUME NEW r \in Rows, NEW u, u = Holder(r)', u # v PROVE RowInv(r, u)'
    <2>1. CASE u = Holder(r)
      <3>1. PageOf[r] \notin S
        BY <1>1, <1>4, <1>8, <2>1, DirtyFacts
      <3>2. Written(u)' = Written(u) /\ (u \in AbortRecs' <=> u \in AbortRecs)
        BY <1>6, <1>8
      <3>3. QED
        BY <1>3, <1>4, <1>5, <2>1, <3>1, <3>2, RowKept
    <2>2. CASE u # Holder(r)
      <3>1. Holder(r) = v /\ u = 0 /\ S = DirtyOf(v)
        BY <1>7, <1>8, <2>2
      <3>2. Dirty(PageOf[r]) => PageOf[r] \in S
        BY <3>1, DirtyFacts
      <3>3. PageOf[r] \in S => Dirty(PageOf[r])
        BY <3>1, DirtyFacts, BeforeFacts
      <3>4. InMemory(r)' = Committed(r)' /\ disk'[PageOf[r]][r] = Committed(r)'
        BY <1>4, <3>1, <3>2, <3>3
      <3>5. QED
        BY <1>0, <1>2, <1>4, <3>1, <3>4, Released
    <2>3. QED
      BY <2>1, <2>2
  <1>9. ASSUME NEW r \in Rows, NEW u, u = Holder(r)', u = v PROVE RowInv(r, u)'
    <2>1. Holder(r) = v /\ Written(v)' = Written(v)
      BY <1>4, <1>6, <1>7, <1>9
    <2>2. RowInv(r, v) /\ v \in AbortRecs'
      BY <1>6, <2>1 DEF RowsInv
    <2>3. ~Busy(PageOf[r], v) /\ ~Changing(r, v)
      <3>1. \A p : ~Busy(p, v)
        BY <1>0, <1>2, BusySteps
      <3>2. QED
        BY <3>1, HolderFacts
    <2>4. disk'[PageOf[r]][r] = Committed(r)' /\ v # Committed(r)'
      BY <1>4, <2>1
    <2>5. CASE PageOf[r] \in S
      <3>1. InMemory(r)' = Committed(r)'
        BY <1>4, <2>1, <2>5
      <3>2. QED
        BY <1>4, <1>5, <1>9, <2>2, <2>3, <2>4, <3>1 DEF RowInv
    <2>6. CASE PageOf[r] \notin S
      <3>1. InMemory(r)' = InMemory(r) /\ (Dirty(PageOf[r])' <=> Dirty(PageOf[r]))
        BY <1>4, <2>6
      <3>2. Committed(r)' = Committed(r)
        BY <1>2, CommittedSame
      <3>3. QED
        BY <1>4, <1>5, <1>9, <2>1, <2>2, <2>3, <2>4, <3>1, <3>2 DEF RowInv
    <2>7. QED
      BY <2>5, <2>6
  <1>10. DirtyInv'
    <2>1. ASSUME NEW q \in Pages, Dirty(q)'
          PROVE  \E s \in RowsOn(q) : /\ Holder(s)' # 0 /\ frames'[q].txn = Holder(s)'
                                      /\ \A u : u = Holder(s)' => s \in Written(u)'
      <3>1. q \notin S /\ Dirty(q) /\ frames'[q].txn = frames[q].txn
        BY <1>4, <2>1
      <3>2. PICK s \in RowsOn(q) : Holder(s) # 0 /\ frames[q].txn = Holder(s) /\ s \in Written(Holder(s))
        BY <3>1 DEF DirtyInv
      <3>3. Holder(s)' = Holder(s) /\ (Holder(s) = v => wrote' = wrote)
        BY <1>7, <3>1, <3>2, DirtyFacts DEF RowsOn
      <3>4. \A u : u = Holder(s) => s \in Written(u)'
        BY <1>6, <3>2, <3>3
      <3>5. QED
        BY <3>1, <3>2, <3>3, <3>4
    <2>2. QED
      BY <2>1 DEF DirtyInv
  <1>11. QED
    BY <1>8, <1>9, <1>10, RowInvNext

\* The process ends, Recover writes a page, or the database is opened.
LEMMA RestartSteps ==
    ASSUME OrderlyUse, Before, RedoInv, Crash \/ Open \/ \E p \in Pages : RecoverPage(p)
    PROVE  DirtyInv' /\ RowsInv'
  <1>1. Cached' = {}
    <2>1. CASE Crash
      BY <2>1 DEF Crash, Cached
    <2>2. CASE Open \/ \E p \in Pages : RecoverPage(p)
      <3>1. ~up /\ frames' = frames
        BY <2>2 DEF Open, RecoverPage, poolVars
      <3>2. QED
        BY <3>1 DEF Before, HistoryInv, IdInv, Current, Cached
    <2>3. QED
      BY <2>1, <2>2
  <1>2. DirtyInv'
    BY <1>1 DEF DirtyInv, Dirty
  <1>3. CASE Crash \/ \E p \in Pages : RecoverPage(p)
    <2>1. ~up'
      BY <1>3 DEF Crash, RecoverPage
    <2>2. QED
      BY <1>2, <2>1 DEF RowsInv
  <1>4. CASE Open
    <2>1. /\ ~up /\ disk' = disk /\ wlock' = wlock /\ walFile' = walFile /\ pc' = pc
          /\ \A p \in Pages : RedoImage(p, disk[p]) = disk[p]
      BY <1>4 DEF Open, poolVars, WalOpen
    <2>2. \A c \in Clients : pc'[c] = "idle"
      BY <2>1, BeforeFacts DEF Current
    <2>3. ASSUME NEW r \in Rows, NEW u, u = Holder(r)' PROVE RowInv(r, u)'
      <3>1. PageOf[r] \in Pages /\ r \in RowsOn(PageOf[r]) /\ TableOf[r] \in Tables
        BY BeforeFacts DEF RowsOn
      <3>2. u = 0
        BY <2>1, <2>3, <3>1 DEF Before, HistoryInv, IdInv, Current, Holder
      <3>3. disk'[PageOf[r]][r] = Committed(r)'
        BY <2>1, <3>1, RedoneFacts, CommittedSame
      <3>4. InMemory(r)' = disk'[PageOf[r]][r]
        BY <1>1 DEF InMemory
      <3>5. ~Changing(r, u)' /\ Written(u)' = {}
        BY <2>2, <3>2 DEF Changing, Written, Uids
      <3>6. QED
        BY <3>2, <3>3, <3>4, <3>5 DEF RowInv
    <2>4. QED
      BY <1>2, <2>3, RowInvNext
  <1>5. QED
    BY <1>3, <1>4

\* Every step keeps the dirty marks and the cached rows.
LEMMA PoolRowsStep ==
    ASSUME OrderlyUse, Before, StoreInv, [Next]_vars, Readable'
    PROVE  DirtyInv' /\ RowsInv'
  <1>1. LockInv /\ RedoInv /\ DirtyInv /\ RowsInv
    BY DEF StoreInv
  <1>2. CASE Crash \/ Open \/ \E p \in Pages : RecoverPage(p)
    BY <1>1, <1>2, RestartSteps
  <1>3. CASE WalRecords \/ \E c \in Clients : Begin(c)
    <2>1. up
      BY <1>3 DEF WalRecords, Begin
    <2>2. QED
      BY <1>1, <1>3, <2>1, QuietSteps
  <1>4. CASE UNCHANGED vars
    <2>1. CASE up
      BY <1>1, <1>4, <2>1, QuietSteps
    <2>2. CASE ~up
      <3>1. ~up' /\ frames' = frames
        BY <1>4, <2>2 DEF vars, poolVars
      <3>2. Cached' = {}
        BY <2>2, <3>1 DEF Before, HistoryInv, IdInv, Current, Cached
      <3>3. QED
        BY <3>1, <3>2 DEF RowsInv, DirtyInv, Dirty
    <2>3. QED
      BY <2>1, <2>2
  <1>5. ASSUME NEW c \in Clients, ClientStep(c) PROVE DirtyInv' /\ RowsInv'
    <2>1. up
      <3>1. pc[c] # "idle"
        BY <1>5, BeforeFacts, ClientSteps
      <3>2. QED
        BY <3>1, BeforeFacts DEF Current
    <2>2. CASE ChangeRow(c)
      BY <1>1, <2>1, <2>2, ChangeStep
    <2>3. CASE LogChange(c)
      BY <1>1, <2>1, <2>3, LogChangeStep
    <2>4. CASE UnpinRow(c)
      BY <1>1, <2>1, <2>4, UnpinStep
    <2>5. CASE UnpinRead(c) \/ (\E r \in Rows : FetchRow(c, r)) \/ \E p \in Pages : ReadPage(c, p)
      BY <1>1, <2>1, <2>5, ReadSteps
    <2>6. CASE \/ Abandon(c) \/ CommitAppend(c) \/ CommitFlush(c) \/ CommitFlushError(c)
               \/ \E tb \in Tables : RLockTable(c, tb)
      BY <1>1, <2>1, <2>6, QuietSteps
    <2>7. CASE CommitPages(c) \/ CommitPagesError(c)
      BY <1>1, <2>1, <2>7, CommitPagesStep
    <2>8. CASE Rollback(c) \/ RollbackError(c)
      BY <1>1, <2>1, <2>8, RollbackStep
    <2>9. CASE \E tb \in Tables : LockTable(c, tb)
      BY <1>1, <2>1, <2>9, LockTableStep
    <2>10. QED
      BY <1>5, <2>2, <2>3, <2>4, <2>5, <2>6, <2>7, <2>8, <2>9 DEF ClientStep
  <1>6. QED
    BY <1>2, <1>3, <1>4, <1>5, NextKinds

-----------------------------------------------------------------------------
(* The invariant, and what it says of the store.                           *)

\* Every step keeps the store's invariant.
LEMMA StoreStep ==
    ASSUME OrderlyUse, Before, StoreInv, [Next]_vars, Readable' PROVE StoreInv'
  <1>1. NoSteal /\ LockInv /\ ImageInv /\ RedoInv /\ DirtyInv /\ RowsInv
    BY DEF StoreInv
  <1>2. DirtyInv' /\ RowsInv'
    BY PoolRowsStep
  <1>3. NoSteal' /\ LockInv' /\ ImageInv' /\ RedoInv'
    BY <1>1, NoStealStep, LockStep, ImageStep, RedoStep
  <1>4. QED
    BY <1>2, <1>3 DEF StoreInv

\* The empty store satisfies the store's invariant.
LEMMA InitStore == Init => StoreInv
  <1> SUFFICES ASSUME Init PROVE StoreInv
    OBVIOUS
  <1>1. /\ walFile = <<>> /\ walBuf = <<>> /\ disk = [p \in Pages |-> EmptyPage(p)] /\ Cached = {}
        /\ wlock = [tb \in Tables |-> 0] /\ wrote = [u \in Uids |-> {}]
        /\ pc = [c \in Clients |-> "idle"]
    BY DEF Init, WalInit, Cached
  <1>2. DOMAIN walFile = {} /\ DOMAIN walBuf = {}
    BY <1>1
  <1>3. FileRecs = {} /\ BufRecs = {} /\ LogRecs = {} /\ CommittedUids = {}
    BY <1>2 DEF FileRecs, BufRecs, LogRecs, CommittedUids
  <1>4. \A r : Committed(r) = 0
    BY <1>2 DEF Committed, WriterPositions
  <1>5. \A r \in Rows : /\ Holder(r) = 0 /\ PageOf[r] \in Pages /\ r \in RowsOn(PageOf[r])
                        /\ disk[PageOf[r]][r] = 0 /\ InMemory(r) = 0 /\ Written(0) = {}
                        /\ ~Changing(r, 0)
    BY <1>1, StoreAssumption DEF Holder, RowsOn, EmptyPage, InMemory, Written, Uids, Changing
  <1>6. NoSteal
    BY <1>1 DEF NoSteal, EmptyPage
  <1>7. LockInv /\ ImageInv /\ DirtyInv
    BY <1>1, <1>3 DEF LockInv, ImageInv, PageRecs, DirtyInv, Dirty
  <1>8. RedoInv
    BY <1>1, <1>3, <1>4 DEF RedoInv, RedoRecs
  <1>9. \A r \in Rows : RowInv(r, Holder(r))
    BY <1>4, <1>5 DEF RowInv
  <1>10. QED
    BY <1>6, <1>7, <1>8, <1>9 DEF StoreInv, RowsInv

\* The store holds together while the log can be read.
LEMMA StoreInvariance ==
    ASSUME OrderlyUse
    PROVE  Spec => [](Readable => Before /\ StoreInv)
  <1>1. NoRollbackAfterCommit
    BY DEF OrderlyUse, NoSecondThoughts, NoRollbackAfterCommit
  <1>2. TInv /\ (Readable => OutcomeInv) /\ (Readable => HistoryInv) /\ (Readable => StoreInv)
           /\ [Next]_vars => (Readable => StoreInv)'
    <2>1. TInv /\ [Next]_vars /\ Readable' => Readable
      BY LogTypesStep DEF Readable
    <2>2. ASSUME TInv, OutcomeInv, HistoryInv, StoreInv, [Next]_vars, Readable' PROVE StoreInv'
      <3>1. Before
        BY <2>2 DEF Before
      <3>2. QED
        BY <2>2, <3>1, StoreStep
    <2>3. QED
      BY <2>1, <2>2
  <1>3. Spec => [](Readable => OutcomeInv)
    BY <1>1, OutcomeInvariance
  <1>4. Spec => [](Readable => HistoryInv)
    BY HistoryInvariance
  <1>5. TInv /\ (Readable => OutcomeInv) /\ (Readable => HistoryInv) /\ (Readable => StoreInv)
          => (Readable => Before /\ StoreInv)
    BY DEF Before
  <1>6. QED
    BY InitStore, TypeInvariance, <1>2, <1>3, <1>4, <1>5, PTL DEF Spec

\* FlushAll runs after the log is written, and evict spares dirty pages: the page
\* file never holds a row of a transaction that the log file does not commit.
THEOREM NoStealTheorem ==
    ASSUME OrderlyUse
    PROVE  Spec => [](Readable => NoSteal)
  <1>1. (Readable => Before /\ StoreInv) => (Readable => NoSteal)
    BY DEF StoreInv
  <1>2. QED
    BY StoreInvariance, <1>1, PTL

\* Recover, whenever and however often the process ends, in the middle of a flush
\* and after lost page writes too, produces exactly the rows that committed
\* transactions wrote last.  As clients are active in one process, no TxnID is
\* used twice and the exception of RecoveryExactUnlessReused is not needed.
THEOREM RecoveryTheorem ==
    ASSUME OrderlyUse
    PROVE  Spec => [](Readable => RecoveryExact /\ RecoveryExactUnlessReused)
  <1>1. ASSUME Before, StoreInv PROVE RecoveryExact
    <2>1. \A r \in Rows : PageOf[r] \in Pages /\ r \in RowsOn(PageOf[r])
      BY <1>1, BeforeFacts DEF RowsOn
    <2>2. RedoInv
      BY <1>1 DEF StoreInv
    <2>3. QED
      BY <1>1, <2>1, <2>2, RedoneFacts DEF RecoveryExact, Recovered
  <1>2. (Readable => Before /\ StoreInv) => (Readable => RecoveryExact /\ RecoveryExactUnlessReused)
    BY <1>1 DEF RecoveryExactUnlessReused
  <1>3. QED
    BY StoreInvariance, <1>2, PTL

\* Whoever reads a row through the pool sees what is committed or what the
\* transaction with the lock of its table has written: never the changes of one
\* that was rolled back, nor an old image read again after an eviction.
THEOREM ReadsCommittedTheorem ==
    ASSUME OrderlyUse
    PROVE  Spec => [](Readable => ReadsCommitted)
  <1>1. ASSUME StoreInv PROVE ReadsCommitted
    BY <1>1 DEF StoreInv, RowsInv, RowInv, ReadsCommitted, Holder
  <1>2. (Readable => Before /\ StoreInv) => (Readable => ReadsCommitted)
    BY <1>1
  <1>3. QED
    BY StoreInvariance, <1>2, PTL

\* A dirty page belongs to a transaction that still has a lock, so that Commit or
\* Rollback, which go by the TxnID of the frame, find it.
THEOREM DirtyHasWriterTheorem ==
    ASSUME OrderlyUse
    PROVE  Spec => [](Readable => DirtyHasWriter)
  <1>1. ASSUME Before, StoreInv PROVE DirtyHasWriter
    <2>1. Cached \subseteq Pages
      BY <1>1 DEF Before, TInv, Shapes, PoolTypes
    <2>2. QED
      BY <1>1, <2>1 DEF StoreInv, DirtyInv, DirtyHasWriter, Holder, Dirty
  <1>2. (Readable => Before /\ StoreInv) => (Readable => DirtyHasWriter)
    BY <1>1
  <1>3. QED
    BY StoreInvariance, <1>2, PTL

\* All of it at once, with the pin counts and the outcomes that were reported.
THEOREM StoreExactTheorem ==
    ASSUME OrderlyUse
    PROVE  Spec => [](Readable => StoreExact)
  <1>1. NoRollbackAfterCommit
    BY DEF OrderlyUse, NoSecondThoughts, NoRollbackAfterCommit
  <1>2. PinsCounted /\ (Readable => NoSteal) /\ (Readable => ReadsCommitted)
          /\ (Readable => DirtyHasWriter) /\ (Readable => OutcomesHonoured)
          => (Readable => StoreExact)
    BY DEF StoreExact
  <1>3. Spec => [](Readable => OutcomesHonoured)
    BY <1>1, OutcomesHonouredTheorem
  <1>4. QED
    BY <1>2, <1>3, PinsCountedTheorem, NoStealTheorem, ReadsCommittedTheorem,
       DirtyHasWriterTheorem, PTL

-----------------------------------------------------------------------------
(* The store implements the abstract database.                             *)


\* A step that writes the log commits what it makes durable, and drops what the
\* clients of D have written.
LEMMA CommitAndDropStep ==
    ASSUME OrderlyUse, Before, LockInv, RecoveryExact, RecoveryExact', NEW K, Advance(K),
           NEW D \in SUBSET Uids, wrote' = [u \in Uids |-> IF u \in D THEN {} ELSE wrote[u]]
    PROVE  AS!CommitAndDrop(K \ CommittedUids, D) /\ K \ CommittedUids \in SUBSET Uids
  <1> DEFINE U == K \ CommittedUids
  <1>1. /\ CommittedUids' = CommittedUids \cup K /\ K \subseteq Uids
        /\ \A r \in Rows : Committed(r)' =
             IF Holder(r) \in K /\ r \in Written(Holder(r)) THEN Holder(r) ELSE Committed(r)
    BY AdvanceFacts DEF Advance
  <1>2. /\ \A r \in Rows : Recovered(r) = Committed(r)
        /\ \A r \in Rows : Recovered(r)' = Committed(r)'
    BY DEF RecoveryExact
  <1>3. \A u \in Uids : Pending[u] = IF u \in CommittedUids THEN {} ELSE wrote[u]
    BY DEF Pending
  <1>4. ASSUME NEW r \in Rows, NEW u \in Uids, r \in Pending[u]
        PROVE  u = Holder(r) /\ r \in Written(u) /\ u \notin CommittedUids
    <2>1. u \notin CommittedUids /\ r \in wrote[u]
      BY <1>3, <1>4
    <2>2. u = Holder(r)
      BY <2>1 DEF Before, HistoryInv, HeldInv, Holder
    <2>3. QED
      BY <2>1, <2>2 DEF Written
  <1>5. ASSUME NEW r \in Rows
        PROVE  Recovered(r)' = IF \E u \in U : r \in Pending[u]
                               THEN CHOOSE u \in U : r \in Pending[u] ELSE Recovered(r)
    <2>1. CASE \E u \in U : r \in Pending[u]
      <3>1. \A u \in U : r \in Pending[u] => u = Holder(r) /\ r \in Written(u) /\ u \in K
        BY <1>1, <1>4
      <3>2. (CHOOSE u \in U : r \in Pending[u]) = Holder(r)
        BY <2>1, <3>1
      <3>3. Recovered(r)' = Holder(r)
        BY <1>1, <1>2, <2>1, <3>1
      <3>4. QED
        BY <2>1, <3>2, <3>3
    <2>2. CASE ~\E u \in U : r \in Pending[u]
      <3>1. CASE Holder(r) \in K /\ r \in Written(Holder(r))
        <4>1. Holder(r) \in Uids /\ r \in wrote[Holder(r)]
          BY <1>1, <3>1 DEF Written
        <4>2. Holder(r) \in CommittedUids
          BY <1>3, <2>2, <3>1, <4>1
        <4>3. Committed(r) = Holder(r)
          BY <3>1, <4>2 DEF LockInv
        <4>4. QED
          BY <1>1, <1>2, <2>2, <4>3
      <3>2. CASE ~(Holder(r) \in K /\ r \in Written(Holder(r)))
        BY <1>1, <1>2, <2>2, <3>2
      <3>3. QED
        BY <3>1, <3>2
    <2>3. QED
      BY <2>1, <2>2
  <1>6. Pending' = [u \in Uids |-> IF u \in U \cup D THEN {} ELSE Pending[u]]
    <2>1. Pending' = [u \in Uids |-> IF u \in CommittedUids' THEN {} ELSE wrote'[u]]
      BY DEF Pending, Uids
    <2>2. \A u \in Uids : (IF u \in CommittedUids' THEN {} ELSE wrote'[u]) =
                          (IF u \in U \cup D THEN {} ELSE Pending[u])
      BY <1>1, <1>3
    <2>3. QED
      BY <2>1, <2>2
  <1>7. U \in SUBSET Uids
    BY <1>1
  <1>8. QED
    BY <1>5, <1>6, <1>7 DEF AS!CommitAndDrop

\* finishPage logs a change to a row that nobody else has changed.
LEMMA ChangeRefines ==
    ASSUME OrderlyUse, Before, RecoveryExact, RecoveryExact', NEW c \in Clients, LogChange(c)
    PROVE  uid[c] \in Uids /\ at[c] \in Rows /\ AS!Change(uid[c], at[c])
  <1>1. /\ uid[c] \in Uids /\ at[c] \in Rows /\ Holder(at[c]) = uid[c]
        /\ uid[c] \notin CommittedUids
    <2>1. pc[c] = "changed" /\ TInv
      BY DEF LogChange, Before
    <2>2. uid[c] \in Uids /\ at[c] \in Rows
      BY <2>1, AtWork
    <2>3. Holder(at[c]) = uid[c]
      BY <2>1, HolderFacts
    <2>4. uid[c] \notin CommitRecs
      BY <2>1 DEF Before, OutcomeInv, Unfinished
    <2>5. QED
      BY <2>2, <2>3, <2>4, BeforeFacts
  <1>2. CommittedUids' = CommittedUids /\ \A r : Committed(r)' = Committed(r)
    <2>1. walFile' = walFile
      BY DEF LogChange, WalAppend
    <2>2. QED
      BY <2>1, CommittedSame DEF CommittedUids
  <1>3. wrote' = [wrote EXCEPT ![uid[c]] = @ \cup {at[c]}] /\ wrote \in [Uids -> SUBSET Rows]
    BY BeforeFacts DEF LogChange
  <1>4. \A r \in Rows : Recovered(r)' = Recovered(r)
    BY <1>2 DEF RecoveryExact
  <1>5. [r \in Rows |-> Recovered(r)]' = [r \in Rows |-> Recovered(r)]
    BY <1>4
  <1>6. \A v \in Uids \ {uid[c]} : at[c] \notin Pending[v]
    <2>1. ASSUME NEW v \in Uids, v # uid[c], at[c] \in Pending[v] PROVE FALSE
      <3>1. v \notin CommittedUids /\ at[c] \in wrote[v]
        BY <2>1 DEF Pending
      <3>2. v = Holder(at[c])
        BY <3>1 DEF Before, HistoryInv, HeldInv, Holder
      <3>3. QED
        BY <1>1, <2>1, <3>2
    <2>2. QED
      BY <2>1
  <1>7. Pending' = [Pending EXCEPT ![uid[c]] = @ \cup {at[c]}]
    <2>1. Pending' = [u \in Uids |-> IF u \in CommittedUids' THEN {} ELSE wrote'[u]]
      BY DEF Pending, Uids
    <2>2. Pending = [u \in Uids |-> IF u \in CommittedUids THEN {} ELSE wrote[u]]
      BY DEF Pending
    <2>3. \A u \in Uids : wrote'[u] = IF u = uid[c] THEN wrote[u] \cup {at[c]} ELSE wrote[u]
      BY <1>1, <1>3
    <2>4. QED
      BY <1>1, <1>2, <2>1, <2>2, <2>3
  <1>8. QED
    BY <1>1, <1>5, <1>6, <1>7 DEF AS!Change

\* Every step of the store is one of the abstract database.
LEMMA RefinementStep ==
    ASSUME OrderlyUse, Before, LockInv, RecoveryExact, RecoveryExact', [Next]_vars, Readable'
    PROVE  AS!Next
  <1>1. PICK K \in SUBSET Uids : Advance(K)
    BY LogAdvance
  <1>2. wrote \in [Uids -> SUBSET Rows]
    BY BeforeFacts
  <1>3. ASSUME NEW D \in SUBSET Uids, wrote' = [u \in Uids |-> IF u \in D THEN {} ELSE wrote[u]]
        PROVE  AS!Next
    <2>1. PICK U \in SUBSET Uids : AS!CommitAndDrop(U, D)
      BY <1>1, <1>3, CommitAndDropStep
    <2>2. QED
      BY <2>1 DEF AS!Next
  <1>4. ASSUME wrote' = wrote PROVE AS!Next
    <2>1. wrote' = [u \in Uids |-> IF u \in {} THEN {} ELSE wrote[u]]
      BY <1>2, <1>4
    <2>2. QED
      BY <1>3, <2>1
  <1>5. CASE Crash
    <2>1. wrote' = [u \in Uids |-> {}]
      BY <1>5 DEF Crash
    <2>2. wrote' = [u \in Uids |-> IF u \in Uids THEN {} ELSE wrote[u]]
      BY <2>1
    <2>3. QED
      BY <1>3, <2>2
  <1>6. ASSUME NEW c \in Clients, ClientStep(c) PROVE AS!Next
    <2>1. CASE LogChange(c)
      BY <2>1, ChangeRefines DEF AS!Next
    <2>2. CASE wrote' = [wrote EXCEPT ![uid[c]] = {}]
      <3>1. wrote' = [u \in Uids |-> IF u \in Uids \cap {uid[c]} THEN {} ELSE wrote[u]]
        BY <1>2, <2>2
      <3>2. QED
        BY <1>3, <3>1
    <2>3. QED
      BY <1>4, <1>6, <2>1, <2>2, WroteSteps
  <1>7. CASE WalRecords \/ Open \/ UNCHANGED vars
    BY <1>4, <1>7 DEF WalRecords, Open, vars, hist
  <1>8. ASSUME NEW c \in Clients, Begin(c) PROVE AS!Next
    BY <1>4, <1>8 DEF Begin
  <1>9. ASSUME NEW p \in Pages, RecoverPage(p) PROVE AS!Next
    BY <1>4, <1>9 DEF RecoverPage, hist
  <1>10. QED
    BY <1>5, <1>6, <1>7, <1>8, <1>9, NextKinds

\* The store starts as the abstract database does.
LEMMA RefinementInit ==
    ASSUME OrderlyUse, Init PROVE AS!Init
  <1>1. CommittedUids = {} /\ walFile = <<>> /\ Redoable(0) = {}
    BY DEF Init, WalInit, CommittedUids, Redoable
  <1>2. ASSUME NEW r \in Rows PROVE Recovered(r) = 0
    <2>1. Redoable(PageOf[r]) = {}
      BY <1>1 DEF Redoable
    <2>2. Recovered(r) = disk[PageOf[r]][r]
      BY <2>1 DEF Recovered, RedoImage
    <2>3. PageOf[r] \in Pages /\ r \in RowsOn(PageOf[r])
      BY StoreAssumption DEF RowsOn
    <2>4. QED
      BY <2>2, <2>3 DEF Init, EmptyPage
  <1>3. Pending = [u \in Uids |-> {}]
    BY <1>1 DEF Pending, Init
  <1>4. QED
    BY <1>2, <1>3 DEF AS!Init

\* Through all interleavings, failed writes, crashes, torn log records, lost page
\* writes and interrupted recoveries, what a restart would produce changes only by
\* whole transactions, and no two unfinished transactions have changed one row.
THEOREM RefinementTheorem ==
    ASSUME OrderlyUse
    PROVE  Spec /\ []Readable => ImplementsAtomicStore
  <1>1. Init => AS!Init
    BY RefinementInit
  <1>2. ASSUME Readable, Readable', Readable => Before /\ StoreInv,
               Readable => RecoveryExact /\ RecoveryExactUnlessReused,
               (Readable => RecoveryExact /\ RecoveryExactUnlessReused)', [Next]_vars
        PROVE  [AS!Next]_AS!asVars
    <2>1. Before /\ LockInv /\ RecoveryExact /\ RecoveryExact'
      BY <1>2 DEF StoreInv
    <2>2. QED
      BY <1>2, <2>1, RefinementStep
  <1>3. Spec => [](Readable => Before /\ StoreInv)
    BY StoreInvariance
  <1>4. Spec => [](Readable => RecoveryExact /\ RecoveryExactUnlessReused)
    BY RecoveryTheorem
  <1>5. QED
    BY <1>1, <1>2, <1>3, <1>4, PTL DEF Spec, ImplementsAtomicStore, AS!Spec

=============================================================================
