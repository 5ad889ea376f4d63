-------------------------------- MODULE Wal --------------------------------
(***************************************************************************)
(* The write-ahead log: wal.WALManager (storage/wal/wal.go) and            *)
(* btree.Recover (storage/btree/recovery.go).  A record carries the        *)
(* transaction's TxnID, which Recover goes by, and as history information  *)
(* (uid, row) who really wrote it and which row changed: TxnIDs start at 1 *)
(* again in every process, uids do not.                                    *)
(***************************************************************************)
EXTENDS Naturals, Sequences, FiniteSets

VARIABLES
    walFile,  \* records that ReadAll finds in the log file, oldest first; never truncated
    walTail,  \* what follows them: nothing ("whole"), the beginning of a record that ends
              \* in its "header" or in its RedoData ("data"), or such a beginning
              \* with further records behind it ("garbled")
    walBuf,   \* records appended to WALManager.buf and not yet written
    nextLSN

walVars == <<walFile, walTail, walBuf, nextLSN>>

WalInit == walFile = <<>> /\ walTail = "whole" /\ walBuf = <<>> /\ nextLSN = 0

\* A page change (OpInsert, OpUpdate and OpDelete are treated alike) and the
\* end of a transaction (op is "commit" or "abort").
ChangeRec(txn, page, img, uid, row) ==
    [lsn |-> nextLSN, txn |-> txn, op |-> "change", page |-> page, img |-> img,
     uid |-> uid, row |-> row]
EndRec(txn, op, uid) == [lsn |-> nextLSN, txn |-> txn, op |-> op, uid |-> uid]

\* Append: the LSN is taken and the record goes to the buffer.
WalAppend(rec) ==
    /\ nextLSN' = nextLSN + 1
    /\ walBuf' = Append(walBuf, rec)
    /\ UNCHANGED <<walFile, walTail>>

\* Write appends n records of the buffer and, if it stops there, perhaps the
\* beginning of the next one, of which left is the last part.  Nothing is ever
\* cut off the file: what is written behind a torn record is not found again.
Write(n, left) ==
    /\ left = "whole" \/ (n < Len(walBuf) /\ (left = "header" \/ (left = "data" /\ walBuf[n + 1].op = "change")))
    /\ walFile' = IF walTail = "whole" THEN walFile \o SubSeq(walBuf, 1, n) ELSE walFile
    /\ walTail' = CASE walTail = "whole" -> left
                    [] walTail # "whole" /\ n = 0 /\ left = "whole" -> walTail
                    [] OTHER -> "garbled"

\* Flush: the whole buffer, whoever appended to it, is written and synced.
WalFlush ==
    /\ Write(Len(walBuf), "whole")
    /\ walBuf' = <<>>
    /\ UNCHANGED nextLSN

\* Flush fails after n records reached the file (all of them when only the sync
\* failed); the buffer is kept, so the next Flush writes those records again.
WalFlushError(n, left) ==
    /\ Write(n, left)
    /\ UNCHANGED <<walBuf, nextLSN>>

\* The process ends after n records of a Flush under way reached the file.
WalCrash(n, left) ==
    /\ Write(n, left)
    /\ walBuf' = <<>>
    /\ UNCHANGED nextLSN

\* NewWALManager, scanNextLSN.  decodeOne takes a torn header, or a header without
\* any RedoData, for the end of the file, but fails in the middle of RedoData: the database cannot be opened.
\* What it makes of a garbled file depends on the bytes and is left open.
WalOpen ==
    /\ walTail \in {"whole", "header"}
    /\ nextLSN' = IF walFile = <<>> THEN 0 ELSE walFile[Len(walFile)].lsn + 1
    /\ UNCHANGED <<walFile, walTail, walBuf>>

-----------------------------------------------------------------------------
(* Recover.                                                                *)

\* Mutant: every transaction with an end record counts as committed.
MutCommittedIDs == {walFile[i].txn : i \in {j \in DOMAIN walFile : walFile[j].op # "change"}}

\* A transaction counts as committed if its TxnID has an OpCommit anywhere.
CommittedIDs == {walFile[i].txn : i \in {j \in DOMAIN walFile : walFile[j].op = "commit"}}

\* Mutant: Recover redoes the changes of every transaction.
MutRedoable(page) ==
    {i \in DOMAIN walFile : walFile[i].op = "change" /\ walFile[i].page = page}

Redoable(page) ==
    {i \in DOMAIN walFile : /\ walFile[i].op = "change" /\ walFile[i].page = page
                            /\ walFile[i].txn \in CommittedIDs}

\* The image Recover writes to a page: that of the highest LSN among its
\* redoable records (the first of equal ones); the page is left alone without one.
RedoImage(page, onDisk) ==
    IF Redoable(page) = {} THEN onDisk
    ELSE LET best == CHOOSE i \in Redoable(page) : \A j \in Redoable(page) :
                       \/ walFile[j].lsn < walFile[i].lsn
                       \/ walFile[j].lsn = walFile[i].lsn /\ i <= j
         IN walFile[best].img

=============================================================================
