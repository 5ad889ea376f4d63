------------------------------ MODULE TxnStore ------------------------------
(***************************************************************************)
(* Transactions over the buffer pool and the log: what txn.Manager,        *)
(* BTree.finishPage, BufferPool, WALManager and Recover do together when   *)
(* statements of several clients interleave and the process can end at any *)
(* step.  The B+tree is abstracted to a fixed placement of rows on leaf    *)
(* pages (PageOf); a row is identified with its key, and its contents with *)
(* the uid of the transaction that wrote it last.  The table locks are     *)
(* those of TableLocks, without the helper goroutines.                     *)
(***************************************************************************)
EXTENDS BufferPool, Wal

CONSTANTS
    Clients,
    ExplicitClients, \* drive a client.Tx; the others use Engine.Execute
    Tables,          \* table IDs, ordered as in the composite keys of the tree
    Rows,            \* the rows, all tables together
    TableOf, PageOf, \* row -> its table, row -> its leaf page
    Views,           \* whether somebody looks at the log while the clients work
    Faults,          \* which of FaultKinds may happen
    MaxTxns,         \* bound on the transactions begun over all incarnations
    MaxLSN,          \* bound on the log records of a run
    MaxBoots,        \* bound on the restarts of the process
    ClientBoots      \* clients are active in the first ClientBoots incarnations

FaultKinds == {"walError",    \* Flush fails in Commit
               "tornError",   \* ... in the middle of a record
               "tornCrash",   \* a crash stops Flush in the middle of a record
               "pageError",   \* a page write of FlushAll fails in Commit
               "powerLoss",   \* a crash loses page writes (they are never fsynced)
               "rollbackAfterCommitError",  \* the application rolls back a Tx whose Commit failed
               "commitAfterRollbackError"}  \* ... or commits one whose Rollback failed

ASSUME StoreAssumption ==
    /\ IsFiniteSet(Clients) /\ ExplicitClients \subseteq Clients
    /\ Tables \subseteq Nat
    /\ TableOf \in [Rows -> Tables]
    /\ PageOf \in [Rows -> Pages]
    /\ Views \in BOOLEAN
    /\ Faults \subseteq FaultKinds
    /\ {MaxTxns, MaxLSN, ClientBoots} \subseteq Nat /\ MaxBoots \in Nat \ {0}

VARIABLES
    nextTxnID, \* Manager.nextTxnID
    wlock,     \* table -> uid that holds its write lock, 0 for none
    rlock,     \* table -> uids that hold its read lock
    pc,        \* client -> where it is
    uid,       \* client -> history: identity of its current transaction
    txnID,     \* client -> Txn.ID of its current transaction
    at,        \* client -> row it is writing, or page it is reading
    up,        \* whether the process runs (FALSE: between a crash and main's end)
    boots,     \* history: restarts so far
    uids,      \* history: transactions begun so far
    wrote,     \* history: uid -> rows it has changed and neither committed nor lost
    acked,     \* history: uids whose Commit returned nil
    undone     \* history: uids whose Rollback returned nil

txnVars == <<nextTxnID, wlock, rlock, pc, uid, txnID, at>>
hist    == <<boots, uids, wrote, acked, undone>>
vars    == <<poolVars, walVars, txnVars, up, hist>>

Uids == 1..MaxTxns
RowsOn(p) == {r \in Rows : PageOf[r] = p}
EmptyPage(p) == [r \in RowsOn(p) |-> 0]

PCs == {"idle", "ready", "fetched", "changed", "logged", "reading",
        "flushLog", "flushPages", "commitFailed", "rollbackFailed"}

-----------------------------------------------------------------------------
(* The database, as the log defines it.                                    *)

Positions(op, u) == {i \in DOMAIN walFile : walFile[i].op = op /\ walFile[i].uid = u}
CommittedUids == {walFile[i].uid : i \in {j \in DOMAIN walFile : walFile[j].op = "commit"}}

WriterPositions(r) ==
    {i \in DOMAIN walFile :
       /\ walFile[i].op = "commit"
       /\ \E j \in 1..i : /\ walFile[j].op = "change" /\ walFile[j].row = r
                          /\ walFile[j].uid = walFile[i].uid}

\* The writer of row r in the committed database: the transaction that changed
\* it and whose COMMIT is the last such in the log.
Committed(r) ==
    IF WriterPositions(r) = {} THEN 0
    ELSE walFile[CHOOSE i \in WriterPositions(r) : \A j \in WriterPositions(r) : j <= i].uid

\* What a restart at this moment would produce, and what a reader sees now.
Recovered(r) == RedoImage(PageOf[r], disk[PageOf[r]])[r]
InMemory(r)  == IF PageOf[r] \in Cached THEN frames[PageOf[r]].img[r] ELSE disk[PageOf[r]][r]

\* Recover goes by TxnID; the identification is wrong once two transactions of
\* different incarnations left records under the same TxnID.
IdReused == \E i, j \in DOMAIN walFile :
              walFile[i].txn = walFile[j].txn /\ walFile[i].uid # walFile[j].uid

-----------------------------------------------------------------------------
Init ==
    /\ disk = [p \in Pages |-> EmptyPage(p)]
    /\ frames = [p \in {} |-> 0] /\ lru = <<>>
    /\ WalInit
    /\ nextTxnID = 0
    /\ wlock = [tb \in Tables |-> 0] /\ rlock = [tb \in Tables |-> {}]
    /\ pc = [c \in Clients |-> "idle"]
    /\ uid = [c \in Clients |-> 0] /\ txnID = [c \in Clients |-> 0]
    /\ at = [c \in Clients |-> 0]
    /\ up = TRUE /\ boots = 1 /\ uids = 0
    /\ wrote = [u \in Uids |-> {}]
    /\ acked = {} /\ undone = {}

Goto(c, where) == pc' = [pc EXCEPT ![c] = where]

\* Manager.Begin.
Begin(c) ==
    /\ up /\ pc[c] = "idle" /\ uids < MaxTxns /\ boots <= ClientBoots
    /\ nextTxnID' = nextTxnID + 1
    /\ uids' = uids + 1
    /\ uid' = [uid EXCEPT ![c] = uids + 1]
    /\ txnID' = [txnID EXCEPT ![c] = nextTxnID + 1]
    /\ Goto(c, "ready")
    /\ UNCHANGED <<poolVars, walVars, wlock, rlock, at, up, boots, wrote, acked, undone>>

\* Manager.Lock and Manager.RLock when the mutex is free; lock upgrades fail.
LockTable(c, tb) ==
    /\ pc[c] = "ready"
    /\ wlock[tb] = 0 /\ rlock[tb] = {}
    /\ wlock' = [wlock EXCEPT ![tb] = uid[c]]
    /\ UNCHANGED <<poolVars, walVars, nextTxnID, rlock, pc, uid, txnID, at, up, hist>>

RLockTable(c, tb) ==
    /\ pc[c] = "ready"
    /\ wlock[tb] = 0 /\ uid[c] \notin rlock[tb]
    /\ rlock' = [rlock EXCEPT ![tb] = @ \cup {uid[c]}]
    /\ UNCHANGED <<poolVars, walVars, nextTxnID, wlock, pc, uid, txnID, at, up, hist>>

\* BTree.Insert, Update or Delete of one row: FetchPage, change the cell in
\* place, finishPage (Append the image, then UnpinPage).
FetchRow(c, r) ==
    /\ pc[c] = "ready" /\ wlock[TableOf[r]] = uid[c]
    /\ FetchPage(PageOf[r])
    /\ at' = [at EXCEPT ![c] = r]
    /\ Goto(c, "fetched")
    /\ UNCHANGED <<walVars, nextTxnID, wlock, rlock, uid, txnID, up, hist>>

ChangeRow(c) ==
    /\ pc[c] = "fetched"
    /\ frames' = [frames EXCEPT ![PageOf[at[c]]].img[at[c]] = uid[c]]
    /\ Goto(c, "changed")
    /\ UNCHANGED <<disk, lru, walVars, nextTxnID, wlock, rlock, uid, txnID, at, up, hist>>

LogChange(c) ==
    /\ pc[c] = "changed" /\ nextLSN < MaxLSN
    /\ LET p == PageOf[at[c]]
       IN WalAppend(ChangeRec(txnID[c], p, frames[p].img, uid[c], at[c]))
    /\ wrote' = [wrote EXCEPT ![uid[c]] = @ \cup {at[c]}]
    /\ Goto(c, "logged")
    /\ UNCHANGED <<poolVars, nextTxnID, wlock, rlock, uid, txnID, at, up, boots, uids, acked, undone>>

UnpinRow(c) ==
    /\ pc[c] = "logged"
    /\ UnpinPage(PageOf[at[c]], TRUE, txnID[c])
    /\ Goto(c, "ready")
    /\ UNCHANGED <<walVars, nextTxnID, wlock, rlock, uid, txnID, at, up, hist>>

\* BTree.Scan starts at the leftmost leaf and stops on the first page that
\* holds a row of a later table, so it pins pages of other tables as well.
ScanPages(tb) == {p \in Pages : \A r \in Rows : PageOf[r] < p => TableOf[r] <= tb}

ReadPage(c, p) ==
    /\ pc[c] = "ready"
    /\ \E tb \in Tables : /\ wlock[tb] = uid[c] \/ uid[c] \in rlock[tb]
                          /\ p \in ScanPages(tb)
    /\ FetchPage(p)
    /\ at' = [at EXCEPT ![c] = p]
    /\ Goto(c, "reading")
    /\ UNCHANGED <<walVars, nextTxnID, wlock, rlock, uid, txnID, up, hist>>

UnpinRead(c) ==
    /\ pc[c] = "reading"
    /\ UnpinPage(at[c], FALSE, 0)
    /\ Goto(c, "ready")
    /\ UNCHANGED <<walVars, nextTxnID, wlock, rlock, uid, txnID, at, up, hist>>

\* Manager.unlock; the client's transaction is over.
Unlock(c) ==
    /\ wlock' = [tb \in Tables |-> IF wlock[tb] = uid[c] THEN 0 ELSE wlock[tb]]
    /\ rlock' = [tb \in Tables |-> rlock[tb] \ {uid[c]}]

\* The states in which the client calls Commit, and Rollback.
MayCommit(c) ==
    \/ pc[c] = "ready"
    \/ pc[c] = "commitFailed" /\ c \in ExplicitClients
    \/ pc[c] = "rollbackFailed" /\ c \in ExplicitClients /\ "commitAfterRollbackError" \in Faults
\* Mutant: Execute rolls back when Commit fails.
MutMayRollback(c) == pc[c] \in {"ready", "commitFailed", "rollbackFailed"}

MayRollback(c) ==
    \/ pc[c] = "ready"
    \/ pc[c] = "rollbackFailed" /\ c \in ExplicitClients
    \/ pc[c] = "commitFailed" /\ c \in ExplicitClients /\ "rollbackAfterCommitError" \in Faults

\* Mutant: the pages are written before the log.
MutCommitAppend(c) ==
    /\ MayCommit(c) /\ nextLSN < MaxLSN
    /\ WalAppend(EndRec(txnID[c], "commit", uid[c]))
    /\ WriteBack(DirtyOf(txnID[c]))
    /\ Goto(c, "flushLog")
    /\ UNCHANGED <<nextTxnID, wlock, rlock, uid, txnID, at, up, hist>>

\* Manager.Commit: Append, Flush, FlushAll (which flushes the log once more),
\* then unlock.
CommitAppend(c) ==
    /\ MayCommit(c) /\ nextLSN < MaxLSN
    /\ WalAppend(EndRec(txnID[c], "commit", uid[c]))
    /\ Goto(c, "flushLog")
    /\ UNCHANGED <<poolVars, nextTxnID, wlock, rlock, uid, txnID, at, up, hist>>

CommitFlush(c) ==
    /\ pc[c] = "flushLog"
    /\ WalFlush
    /\ Goto(c, "flushPages")
    /\ UNCHANGED <<poolVars, nextTxnID, wlock, rlock, uid, txnID, at, up, hist>>

CommitPages(c) ==
    /\ pc[c] = "flushPages"
    /\ WalFlush
    /\ WriteBack(DirtyOf(txnID[c]))
    /\ Unlock(c)
    /\ Goto(c, "idle")
    /\ acked' = acked \cup {uid[c]}
    /\ UNCHANGED <<nextTxnID, uid, txnID, at, up, boots, uids, wrote, undone>>

\* How a write to the log may end.
Tails(fault) == {"whole"} \cup (IF fault \in Faults THEN {"header", "data"} ELSE {})

\* Flush or a page write fails: Commit returns with the transaction still
\* active and its locks held.
CommitFlushError(c) ==
    /\ "walError" \in Faults /\ pc[c] \in {"flushLog", "flushPages"}
    /\ \E n \in 0..Len(walBuf), left \in Tails("tornError") : WalFlushError(n, left)
    /\ Goto(c, "commitFailed")
    /\ UNCHANGED <<poolVars, nextTxnID, wlock, rlock, uid, txnID, at, up, hist>>

\* Mutant: the locks are released although pages are still dirty.
MutCommitPagesError(c) ==
    /\ "pageError" \in Faults /\ pc[c] = "flushPages" /\ DirtyOf(txnID[c]) # {}
    /\ WalFlush
    /\ \E S \in SUBSET DirtyOf(txnID[c]) : S # DirtyOf(txnID[c]) /\ WriteBack(S)
    /\ Unlock(c)
    /\ Goto(c, "commitFailed")
    /\ UNCHANGED <<nextTxnID, uid, txnID, at, up, hist>>

CommitPagesError(c) ==
    /\ "pageError" \in Faults /\ pc[c] = "flushPages" /\ DirtyOf(txnID[c]) # {}
    /\ WalFlush
    /\ \E S \in SUBSET DirtyOf(txnID[c]) : S # DirtyOf(txnID[c]) /\ WriteBack(S)
    /\ Goto(c, "commitFailed")
    /\ UNCHANGED <<nextTxnID, wlock, rlock, uid, txnID, at, up, hist>>

\* Manager.Rollback: Append, DiscardTxn, unlock.
Rollback(c) ==
    /\ MayRollback(c) /\ nextLSN < MaxLSN
    /\ Unpinned(DirtyOf(txnID[c])) = DirtyOf(txnID[c])
    /\ WalAppend(EndRec(txnID[c], "abort", uid[c]))
    /\ Reread(DirtyOf(txnID[c]))
    /\ Unlock(c)
    /\ Goto(c, "idle")
    /\ undone' = undone \cup {uid[c]}
    /\ wrote' = [wrote EXCEPT ![uid[c]] = {}]
    /\ UNCHANGED <<nextTxnID, uid, txnID, at, up, boots, uids, acked>>

\* Mutant: the locks are released although DiscardTxn failed.
MutRollbackError(c) ==
    /\ MayRollback(c) /\ nextLSN < MaxLSN
    /\ Unpinned(DirtyOf(txnID[c])) # DirtyOf(txnID[c])
    /\ WalAppend(EndRec(txnID[c], "abort", uid[c]))
    /\ \E S \in SUBSET Unpinned(DirtyOf(txnID[c])) : Reread(S)
    /\ Unlock(c)
    /\ Goto(c, "rollbackFailed")
    /\ UNCHANGED <<nextTxnID, uid, txnID, at, up, hist>>

\* DiscardTxn meets a pinned page: it returns after discarding some of the
\* others (map order), and the transaction stays active with its locks.
RollbackError(c) ==
    /\ MayRollback(c) /\ nextLSN < MaxLSN
    /\ Unpinned(DirtyOf(txnID[c])) # DirtyOf(txnID[c])
    /\ WalAppend(EndRec(txnID[c], "abort", uid[c]))
    /\ \E S \in SUBSET Unpinned(DirtyOf(txnID[c])) : Reread(S)
    /\ Goto(c, "rollbackFailed")
    /\ UNCHANGED <<nextTxnID, wlock, rlock, uid, txnID, at, up, hist>>

\* Execute returns the error of Commit, ignores that of Rollback, and forgets
\* the transaction; an application can forget a Tx as well.
Abandon(c) ==
    /\ pc[c] \in {"commitFailed", "rollbackFailed"}
    /\ Goto(c, "idle")
    /\ UNCHANGED <<poolVars, walVars, nextTxnID, wlock, rlock, uid, txnID, at, up, hist>>

\* Session.WalRecords, which shows the log, flushes it first, whatever the
\* transactions have reached.  If that fails, it leaves what CommitFlushError does.
WalRecords ==
    /\ Views /\ up /\ walBuf # <<>>
    /\ WalFlush
    /\ UNCHANGED <<poolVars, txnVars, up, hist>>

-----------------------------------------------------------------------------
(* Crash and restart.                                                      *)

\* The process ends.  A Flush under way may have written some records, a
\* FlushAll under way some pages.
Crash ==
    /\ up /\ boots < MaxBoots
    /\ \E n \in 0..Len(walBuf), S \in SUBSET Pages, lost \in SUBSET Pages, left \in Tails("tornCrash") :
         /\ n > 0 \/ left # "whole" => Views \/ \E c \in Clients : pc[c] \in {"flushLog", "flushPages"}
         /\ S # {} => n = Len(walBuf) /\ \E c \in Clients :
                        pc[c] = "flushPages" /\ S \subseteq DirtyOf(txnID[c])
         /\ lost # {} => "powerLoss" \in Faults
         /\ WalCrash(n, left)
         /\ disk' = [p \in Pages |-> IF p \in lost THEN EmptyPage(p)
                                     ELSE IF p \in S THEN frames[p].img ELSE disk[p]]
    /\ frames' = [p \in {} |-> 0] /\ lru' = <<>>
    /\ up' = FALSE
    /\ wlock' = [tb \in Tables |-> 0] /\ rlock' = [tb \in Tables |-> {}]
    /\ pc' = [c \in Clients |-> "idle"]
    /\ wrote' = [u \in Uids |-> {}]
    /\ UNCHANGED <<nextTxnID, uid, txnID, at, boots, uids, acked, undone>>

\* One WritePage of Recover; a crash between two of them loses nothing else.
RecoverPage(p) ==
    /\ ~up /\ walTail \in {"whole", "header"}
    /\ RedoImage(p, disk[p]) # disk[p]
    /\ disk' = [disk EXCEPT ![p] = RedoImage(p, disk[p])]
    /\ UNCHANGED <<frames, lru, walVars, txnVars, up, hist>>

\* Recover is done and main or client.Open continues: NewWALManager found the
\* next LSN, NewManager starts the TxnIDs over.
Open ==
    /\ ~up
    /\ \A p \in Pages : RedoImage(p, disk[p]) = disk[p]
    /\ WalOpen
    /\ up' = TRUE /\ boots' = boots + 1
    /\ nextTxnID' = 0
    /\ UNCHANGED <<poolVars, wlock, rlock, pc, uid, txnID, at, uids, wrote, acked, undone>>

-----------------------------------------------------------------------------
Next ==
    \/ \E c \in Clients :
         \/ Begin(c) \/ ChangeRow(c) \/ LogChange(c) \/ UnpinRow(c) \/ UnpinRead(c)
         \/ CommitAppend(c) \/ CommitFlush(c) \/ CommitPages(c)
         \/ CommitFlushError(c) \/ CommitPagesError(c)
         \/ Rollback(c) \/ RollbackError(c) \/ Abandon(c)
         \/ \E tb \in Tables : LockTable(c, tb) \/ RLockTable(c, tb)
         \/ \E r \in Rows : FetchRow(c, r)
         \/ \E p \in Pages : ReadPage(c, p)
    \/ WalRecords \/ Crash \/ Open
    \/ \E p \in Pages : RecoverPage(p)

Spec == Init /\ [][Next]_vars

-----------------------------------------------------------------------------
(* Properties.                                                             *)

PinnedBy(c) == CASE pc[c] \in {"fetched", "changed", "logged"} -> {PageOf[at[c]]}
                 [] pc[c] = "reading" -> {at[c]}
                 [] OTHER -> {}

Image(p) == [RowsOn(p) -> 0..MaxTxns]

TypeOK ==
    /\ \A p \in Pages : disk[p] \in Image(p)
    /\ Cached \subseteq Pages /\ Cardinality(Cached) <= PoolSize
    /\ \A p \in Cached : /\ frames[p].img \in Image(p)
                         /\ frames[p].pin \in Nat /\ frames[p].dirty \in BOOLEAN
                         /\ frames[p].txn \in 0..MaxTxns
    /\ Len(lru) = Cardinality(Cached) /\ {lru[i] : i \in DOMAIN lru} = Cached
    /\ walTail \in {"whole", "header", "data", "garbled"}
    /\ nextLSN \in 0..MaxLSN /\ nextTxnID \in 0..MaxTxns
    /\ wlock \in [Tables -> 0..MaxTxns] /\ rlock \in [Tables -> SUBSET Uids]
    /\ pc \in [Clients -> PCs]
    /\ uid \in [Clients -> 0..MaxTxns] /\ txnID \in [Clients -> 0..MaxTxns]
    /\ \A c \in Clients : at[c] \in Rows \cup Pages \cup {0}
    /\ up \in BOOLEAN /\ boots \in 1..MaxBoots /\ uids \in 0..MaxTxns
    /\ wrote \in [Uids -> SUBSET Rows] /\ acked \subseteq Uids /\ undone \subseteq Uids

\* A page somebody works on stays in the pool and its pin count is the number
\* of those who do: evict never takes it away and no path forgets an unpin.
PinsCounted ==
    /\ \A c \in Clients : PinnedBy(c) \subseteq Cached
    /\ \A p \in Cached : frames[p].pin = Cardinality({c \in Clients : p \in PinnedBy(c)})

\* No-Steal: the page file holds only rows of transactions whose COMMIT is in
\* the log file (docs/storage.md: there is only committed data on the disk).
NoSteal ==
    \A p \in Pages : \A r \in RowsOn(p) : disk[p][r] \in CommittedUids \cup {0}

\* Whenever the process ends, Recover produces the committed database, exactly:
\* all rows of committed transactions and none of any other (recovery.go:8).
RecoveryExact == \A r \in Rows : Recovered(r) = Committed(r)

\* The same as long as no TxnID was used twice in the log.
RecoveryExactUnlessReused == IdReused \/ RecoveryExact

\* The pool shows a row as committed, or as changed by the transaction that has
\* the write lock of its table: readers see committed data only, also after a
\* rollback (buffer.go:130) and after pages were evicted and read again.
ReadsCommitted ==
    up => \A r \in Rows :
            \/ InMemory(r) = Committed(r)
            \/ wlock[TableOf[r]] # 0 /\ InMemory(r) = wlock[TableOf[r]]

\* A dirty frame has a live writer; otherwise nobody would ever clean it and
\* evict could never use its slot again.
DirtyHasWriter ==
    \A p \in Cached : frames[p].dirty => \E r \in RowsOn(p) : wlock[TableOf[r]] # 0

\* What Commit and Rollback told their caller is what the log says forever.
OutcomesHonoured == acked \subseteq CommittedUids /\ undone \cap CommittedUids = {}

\* All of this at once, where a Tx and an auto-commit client work on tables of
\* their own and the pool holds fewer pages than the tree.
StoreExact == PinsCounted /\ NoSteal /\ ReadsCommitted /\ DirtyHasWriter /\ OutcomesHonoured

\* The abstract database this implements: the rows a restart would produce,
\* and the uncommitted changes of every transaction.
Pending == [u \in Uids |-> IF u \in CommittedUids THEN {} ELSE wrote[u]]
AS == INSTANCE AtomicStore WITH db <- [r \in Rows |-> Recovered(r)], pending <- Pending
ImplementsAtomicStore == AS!Spec

=============================================================================
