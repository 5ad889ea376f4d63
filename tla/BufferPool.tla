----------------------------- MODULE BufferPool -----------------------------
(***************************************************************************)
(* buffer.BufferPool (storage/buffer/buffer.go) on top of the page file of *)
(* page.DiskManager.  Every operation runs under BufferPool.mu, so it is   *)
(* one step; page contents are changed by the caller between FetchPage and *)
(* UnpinPage without any lock.  A page image maps each row stored on the   *)
(* page to the uid of the transaction that wrote it last (0: never).       *)
(***************************************************************************)
EXTENDS Naturals, SequencesExt

CONSTANTS
    Pages,    \* page IDs, numbered in the order of the chain of leaves
    PoolSize  \* BufferPool.maxSize

ASSUME PagesAssumption == Pages \subseteq Nat
ASSUME PoolAssumption  == PoolSize \in Nat \ {0}

VARIABLES
    disk,    \* page -> its image in the page file
    frames,  \* BufferPool.frames: cached page -> [img, pin, dirty, txn]
    lru      \* BufferPool.lru: cached pages, most recently used first

poolVars == <<disk, frames, lru>>

Cached == DOMAIN frames
MoveToFront(p) == <<p>> \o RemoveAt(lru, CHOOSE i \in DOMAIN lru : lru[i] = p)

\* evict skips pinned and dirty frames (No-Steal) from the back of the list.
Evictable == {i \in DOMAIN lru : frames[lru[i]].pin = 0 /\ ~frames[lru[i]].dirty}
IsVictim(i) == i \in Evictable /\ \A j \in Evictable : j <= i

PinnedFrame(p) == [img |-> disk[p], pin |-> 1, dirty |-> FALSE, txn |-> 0]

\* Mutant: a hit pushes the page to the front of the list once more.
MutFetchHit(p) ==
    /\ p \in Cached
    /\ frames' = [frames EXCEPT ![p].pin = @ + 1]
    /\ lru' = <<p>> \o lru
    /\ UNCHANGED disk

\* FetchPage; with a full pool and nothing evictable it fails and changes nothing.
FetchHit(p) ==
    /\ p \in Cached
    /\ frames' = [frames EXCEPT ![p].pin = @ + 1]
    /\ lru' = MoveToFront(p)
    /\ UNCHANGED disk

FetchMiss(p) ==
    /\ p \notin Cached /\ Cardinality(Cached) < PoolSize
    /\ frames' = [q \in Cached \cup {p} |-> IF q = p THEN PinnedFrame(p) ELSE frames[q]]
    /\ lru' = <<p>> \o lru
    /\ UNCHANGED disk

FetchEvict(p) ==
    /\ p \notin Cached /\ Cardinality(Cached) >= PoolSize
    /\ \E i \in DOMAIN lru :
         /\ IsVictim(i)
         /\ frames' = [q \in (Cached \ {lru[i]}) \cup {p} |->
                         IF q = p THEN PinnedFrame(p) ELSE frames[q]]
         /\ lru' = <<p>> \o RemoveAt(lru, i)
    /\ UNCHANGED disk

FetchPage(p) == FetchHit(p) \/ FetchMiss(p) \/ FetchEvict(p)

\* Mutant: releasePage forgets the pin.
MutUnpinPage(p, isDirty, txnID) ==
    /\ \/ /\ isDirty
          /\ frames' = [frames EXCEPT ![p].pin = @ - 1, ![p].dirty = TRUE, ![p].txn = txnID]
       \/ ~isDirty /\ frames' = frames
    /\ UNCHANGED <<disk, lru>>

\* UnpinPage: a dirty unpin records the last writer only.
UnpinPage(p, isDirty, txnID) ==
    /\ \/ /\ isDirty
          /\ frames' = [frames EXCEPT ![p].pin = @ - 1, ![p].dirty = TRUE, ![p].txn = txnID]
       \/ ~isDirty /\ frames' = [frames EXCEPT ![p].pin = @ - 1]
    /\ UNCHANGED <<disk, lru>>

DirtyOf(txnID) == {p \in Cached : frames[p].dirty /\ frames[p].txn = txnID}

\* The page-writing loop of FlushAll, for the pages it got to.
WriteBack(S) ==
    /\ disk' = [p \in Pages |-> IF p \in S THEN frames[p].img ELSE disk[p]]
    /\ frames' = [p \in Cached |-> IF p \in S THEN [frames[p] EXCEPT !.dirty = FALSE]
                                   ELSE frames[p]]
    /\ UNCHANGED lru

\* Mutant: the frame is marked clean but keeps the discarded contents.
MutReread(S) ==
    /\ frames' = [p \in Cached |-> IF p \in S THEN [frames[p] EXCEPT !.dirty = FALSE] ELSE frames[p]]
    /\ UNCHANGED <<disk, lru>>

\* The loop of DiscardTxn, for the pages it got to: re-read from disk.
Reread(S) ==
    /\ frames' = [p \in Cached |-> IF p \in S THEN [frames[p] EXCEPT !.img = disk[p], !.dirty = FALSE]
                                   ELSE frames[p]]
    /\ UNCHANGED <<disk, lru>>

Unpinned(S) == {p \in S : frames[p].pin = 0}

=============================================================================
