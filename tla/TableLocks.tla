----------------------------- MODULE TableLocks -----------------------------
(***************************************************************************)
(* The table locks of txn.Manager (txn/txn.go) as the executor and the     *)
(* client package use them: one sync.RWMutex per table, taken by a helper  *)
(* goroutine that the transaction waits for in a select together with a    *)
(* timer and its context.  When the timer or the context wins, nobody      *)
(* stops the helper: it stays in the queue of the mutex and takes it later *)
(* although no transaction will ever release it.                           *)
(*                                                                         *)
(* A transaction starts at most MaxRequests helpers (a bound of the model); *)
(* the n-th helper of transaction t is <<t, n>>.                           *)
(***************************************************************************)
EXTENDS Naturals, Sequences, FiniteSets

CONSTANTS
    Txns,       \* transactions; each begins at most once
    AutoTxns,   \* those run by Engine.Execute: one statement, then commit or rollback
    Tables,
    MaxRequests, \* bound on the lock requests of one transaction
    Statements, \* what a statement locks: a sequence of [table, mode]
    Faults,     \* which of FaultKinds may happen
    None

FaultKinds == {"timeout",        \* lockTimeout elapses or ctx is cancelled
               "commitError",    \* Commit returns early (Flush or FlushAll fails)
               "rollbackError",  \* Rollback returns early (DiscardTxn fails)
               "useAfterEnd"}    \* Tx.Exec is called after Commit or Rollback

Modes == {"r", "w"}
Entry == [table: Tables, mode: Modes]

Requests == Txns \X (1..MaxRequests)
Owner(r) == r[1]

ASSUME BoundAssumption     == MaxRequests \in Nat
ASSUME AutoAssumption      == AutoTxns \subseteq Txns
ASSUME StatementAssumption == Statements \subseteq Seq(Entry)
ASSUME FaultAssumption     == Faults \subseteq FaultKinds
ASSUME NoneAssumption      == None \notin Requests \cup Entry

VARIABLES
    state,   \* Txn.State; "unborn" before Begin
    locks,   \* Txn.locks: the entries the transaction believes it holds
    step,    \* where the goroutine that runs the transaction is
    stmt,    \* lock entries the current statement still has to take
    waitFor, \* the request whose done channel the transaction selects on
    entry,   \* request -> the table and mode it asks for
    pc       \* request -> where its helper goroutine is

vars == <<state, locks, step, stmt, waitFor, entry, pc>>

-----------------------------------------------------------------------------
(* The state of one sync.RWMutex, read off the helpers that use it.        *)

\* "announced": the writer holds the writers' mutex and waits for the readers
\* that were active when it came; from then on new readers queue behind it.
PCs == {"unused", "started", "queued", "announced", "holding", "recorded", "released"}

On(tb)        == {r \in Requests : pc[r] # "unused" /\ entry[r].table = tb}
Active(tb)    == {r \in On(tb) : pc[r] \in {"holding", "recorded"}}
Readers(tb)   == {r \in Active(tb) : entry[r].mode = "r"}
Writers(tb)   == {r \in Active(tb) : entry[r].mode = "w"}
Announced(tb) == {r \in On(tb) : pc[r] = "announced"}

Unused(t) == {r \in Requests : Owner(r) = t /\ pc[r] = "unused"}

\* readerCount is negative exactly while a writer has announced itself or holds.
WriterPresent(tb) == Announced(tb) \cup Writers(tb) # {}

Holds(t, tb, m) == [table |-> tb, mode |-> m] \in locks[t]

TypeOK ==
    /\ state \in [Txns -> {"unborn", "Active", "Committed", "Aborted"}]
    /\ locks \in [Txns -> SUBSET Entry]
    /\ step \in [Txns -> {"ready", "locking", "waiting", "failed", "unlocking", "gone"}]
    /\ stmt \in [Txns -> Seq(Entry)]
    /\ waitFor \in [Txns -> Requests \cup {None}]
    /\ entry \in [Requests -> Entry \cup {None}]
    /\ pc \in [Requests -> PCs]
    /\ \A r \in Requests : pc[r] # "unused" => entry[r] \in Entry
    /\ \A t \in Txns : step[t] = "waiting" <=> waitFor[t] # None
    /\ \A t \in Txns : step[t] = "waiting" => stmt[t] # <<>>
    /\ \A t \in Txns : state[t] = "unborn" => step[t] = "ready"

Init ==
    /\ state = [t \in Txns |-> "unborn"]
    /\ locks = [t \in Txns |-> {}]
    /\ step = [t \in Txns |-> "ready"]
    /\ stmt = [t \in Txns |-> <<>>]
    /\ waitFor = [t \in Txns |-> None]
    /\ entry = [r \in Requests |-> None]
    /\ pc = [r \in Requests |-> "unused"]

-----------------------------------------------------------------------------
(* The transaction's own goroutine.                                        *)

\* Manager.Begin.  An auto-commit statement goes on to lock its tables.
Begin(t) ==
    /\ state[t] = "unborn"
    /\ state' = [state EXCEPT ![t] = "Active"]
    /\ IF t \in AutoTxns
         THEN \E s \in Statements : /\ Len(s) <= MaxRequests
                                    /\ stmt' = [stmt EXCEPT ![t] = s]
                                    /\ step' = [step EXCEPT ![t] = "locking"]
         ELSE UNCHANGED <<stmt, step>>
    /\ UNCHANGED <<locks, waitFor, entry, pc>>

\* Tx.Exec -> Engine.ExecuteInTxn -> lockFor.  Nothing checks Txn.State here.
Exec(t) ==
    /\ t \notin AutoTxns
    /\ step[t] \in {"ready", "failed"}
    /\ \/ state[t] = "Active"
       \/ state[t] \in {"Committed", "Aborted"} /\ "useAfterEnd" \in Faults
    /\ \E s \in Statements : /\ Len(s) <= Cardinality(Unused(t))
                             /\ stmt' = [stmt EXCEPT ![t] = s]
    /\ step' = [step EXCEPT ![t] = "locking"]
    /\ UNCHANGED <<state, locks, waitFor, entry, pc>>

\* RLock and Lock return nil at once for an entry already held, and RLock also
\* when the write lock is held.
LockHeld(t) ==
    /\ step[t] = "locking" /\ stmt[t] # <<>>
    /\ LET e == Head(stmt[t]) IN
         \/ e \in locks[t]
         \/ Holds(t, e.table, "w")
    /\ stmt' = [stmt EXCEPT ![t] = Tail(@)]
    /\ UNCHANGED <<state, locks, step, waitFor, entry, pc>>

\* Lock refuses to upgrade a read lock: the statement fails.
UpgradeRefused(t) ==
    /\ step[t] = "locking" /\ stmt[t] # <<>>
    /\ LET e == Head(stmt[t]) IN
         /\ e.mode = "w" /\ e \notin locks[t]
         /\ Holds(t, e.table, "r")
    /\ step' = [step EXCEPT ![t] = "failed"]
    /\ UNCHANGED <<state, locks, stmt, waitFor, entry, pc>>

\* Mutant: RLock no longer looks for the write lock the transaction holds.
MutStartHelper(t, r) ==
    /\ step[t] = "locking" /\ stmt[t] # <<>>
    /\ r \in Unused(t) /\ \A q \in Unused(t) : r[2] <= q[2]
    /\ LET e == Head(stmt[t]) IN
         /\ ~Holds(t, e.table, "r")
         /\ entry' = [entry EXCEPT ![r] = e]
         /\ pc' = [pc EXCEPT ![r] = "started"]
    /\ waitFor' = [waitFor EXCEPT ![t] = r]
    /\ step' = [step EXCEPT ![t] = "waiting"]
    /\ UNCHANGED <<state, locks, stmt>>

\* The helper goroutine is started and the transaction enters its select.
StartHelper(t, r) ==
    /\ step[t] = "locking" /\ stmt[t] # <<>>
    /\ r \in Unused(t) /\ \A q \in Unused(t) : r[2] <= q[2]
    /\ LET e == Head(stmt[t]) IN
         /\ ~Holds(t, e.table, "r") /\ ~Holds(t, e.table, "w")
         /\ entry' = [entry EXCEPT ![r] = e]
         /\ pc' = [pc EXCEPT ![r] = "started"]
    /\ waitFor' = [waitFor EXCEPT ![t] = r]
    /\ step' = [step EXCEPT ![t] = "waiting"]
    /\ UNCHANGED <<state, locks, stmt>>

\* Mutant: the acquired lock is not appended to Txn.locks.
MutDone(t) ==
    /\ step[t] = "waiting" /\ pc[waitFor[t]] = "holding"
    /\ stmt' = [stmt EXCEPT ![t] = Tail(@)]
    /\ waitFor' = [waitFor EXCEPT ![t] = None]
    /\ step' = [step EXCEPT ![t] = "locking"]
    /\ UNCHANGED <<state, locks, entry, pc>>

\* The select receives from done: the entry is appended to Txn.locks.
Done(t) ==
    /\ step[t] = "waiting" /\ pc[waitFor[t]] = "holding"
    /\ locks' = [locks EXCEPT ![t] = @ \cup {entry[waitFor[t]]}]
    /\ pc' = [pc EXCEPT ![waitFor[t]] = "recorded"]
    /\ stmt' = [stmt EXCEPT ![t] = Tail(@)]
    /\ waitFor' = [waitFor EXCEPT ![t] = None]
    /\ step' = [step EXCEPT ![t] = "locking"]
    /\ UNCHANGED <<state, entry>>

\* Mutant: the statement fails without leaving the select.
MutTimeoutKeepsWaiting(t) ==
    /\ "timeout" \in Faults
    /\ step[t] = "waiting"
    /\ step' = [step EXCEPT ![t] = "failed"]
    /\ UNCHANGED <<state, locks, stmt, waitFor, entry, pc>>

\* Mutant: the entry is appended to Txn.locks although the timer won.
MutTimeoutRecords(t) ==
    /\ "timeout" \in Faults
    /\ step[t] = "waiting"
    /\ locks' = [locks EXCEPT ![t] = @ \cup {entry[waitFor[t]]}]
    /\ waitFor' = [waitFor EXCEPT ![t] = None]
    /\ step' = [step EXCEPT ![t] = "failed"]
    /\ UNCHANGED <<state, stmt, entry, pc>>

\* Mutant: only RLock has a timer.
MutTimeoutReadsOnly(t) ==
    /\ "timeout" \in Faults
    /\ step[t] = "waiting" /\ entry[waitFor[t]].mode = "r"
    /\ waitFor' = [waitFor EXCEPT ![t] = None]
    /\ step' = [step EXCEPT ![t] = "failed"]
    /\ UNCHANGED <<state, locks, stmt, entry, pc>>

\* The timer or the context wins the select (it may even when done is ready);
\* the helper is left alone.
Timeout(t) ==
    /\ "timeout" \in Faults
    /\ step[t] = "waiting"
    /\ waitFor' = [waitFor EXCEPT ![t] = None]
    /\ step' = [step EXCEPT ![t] = "failed"]
    /\ UNCHANGED <<state, locks, stmt, entry, pc>>

\* All locks of the statement are held: it runs and succeeds or fails
\* (executeLocked is not modelled here: it touches no lock).
Executed(t) ==
    /\ step[t] = "locking" /\ stmt[t] = <<>>
    /\ \E s \in {"ready", "failed"} : step' = [step EXCEPT ![t] = s]
    /\ UNCHANGED <<state, locks, stmt, waitFor, entry, pc>>

\* Manager.Commit up to unlock.  Execute commits only after success; a Tx is
\* committed whenever the application says so.
Commit(t) ==
    /\ state[t] = "Active"
    /\ step[t] = "ready" \/ (t \notin AutoTxns /\ step[t] = "failed")
    /\ state' = [state EXCEPT ![t] = "Committed"]
    /\ step' = [step EXCEPT ![t] = "unlocking"]
    /\ UNCHANGED <<locks, stmt, waitFor, entry, pc>>

\* Commit returns before State and unlock; Execute hands the error to its caller.
CommitError(t) ==
    /\ "commitError" \in Faults
    /\ state[t] = "Active"
    /\ step[t] = "ready" \/ (t \notin AutoTxns /\ step[t] = "failed")
    /\ step' = [step EXCEPT ![t] = IF t \in AutoTxns THEN "gone" ELSE "failed"]
    /\ UNCHANGED <<state, locks, stmt, waitFor, entry, pc>>

\* Manager.Rollback up to unlock.  Execute rolls back only after a failure.
Rollback(t) ==
    /\ state[t] = "Active"
    /\ step[t] = "failed" \/ (t \notin AutoTxns /\ step[t] = "ready")
    /\ state' = [state EXCEPT ![t] = "Aborted"]
    /\ step' = [step EXCEPT ![t] = "unlocking"]
    /\ UNCHANGED <<locks, stmt, waitFor, entry, pc>>

\* DiscardTxn fails on a pinned page; Execute ignores the error of Rollback.
RollbackError(t) ==
    /\ "rollbackError" \in Faults
    /\ state[t] = "Active"
    /\ step[t] = "failed" \/ (t \notin AutoTxns /\ step[t] = "ready")
    /\ step' = [step EXCEPT ![t] = IF t \in AutoTxns THEN "gone" ELSE "failed"]
    /\ UNCHANGED <<state, locks, stmt, waitFor, entry, pc>>

\* Mutant: locks are given back as soon as a statement is done.
MutUnlockEarly(t, r) ==
    /\ step[t] \in {"ready", "unlocking"}
    /\ Owner(r) = t /\ pc[r] = "recorded" /\ entry[r] \in locks[t]
    /\ locks' = [locks EXCEPT ![t] = @ \ {entry[r]}]
    /\ pc' = [pc EXCEPT ![r] = "released"]
    /\ UNCHANGED <<state, step, stmt, waitFor, entry>>

\* Mutant: the readers behind a writer are not woken.
MutUnlockNoWake(t, r) ==
    /\ step[t] = "unlocking"
    /\ Owner(r) = t /\ pc[r] = "recorded" /\ entry[r] \in locks[t]
    /\ locks' = [locks EXCEPT ![t] = @ \ {entry[r]}]
    /\ pc' = [pc EXCEPT ![r] = "released"]
    /\ UNCHANGED <<state, step, stmt, waitFor, entry>>

\* One turn of the loop of Manager.unlock; the order of the entries is
\* abstracted.  RUnlock may let an announced writer in, Unlock lets in every
\* reader that waits behind the writer.
UnlockOne(t, r) ==
    /\ step[t] = "unlocking"
    /\ Owner(r) = t /\ pc[r] = "recorded" /\ entry[r] \in locks[t]
    /\ locks' = [locks EXCEPT ![t] = @ \ {entry[r]}]
    /\ pc' = [q \in Requests |->
                IF q = r THEN "released"
                ELSE IF /\ entry[r].mode = "w" /\ q \in On(entry[r].table)
                        /\ entry[q].mode = "r" /\ pc[q] = "queued"
                     THEN "holding"
                     ELSE pc[q]]
    /\ UNCHANGED <<state, step, stmt, waitFor, entry>>

\* unlock returns with Txn.locks = nil.
Unlocked(t) ==
    /\ step[t] = "unlocking" /\ locks[t] = {}
    /\ step' = [step EXCEPT ![t] = IF t \in AutoTxns THEN "gone" ELSE "ready"]
    /\ UNCHANGED <<state, locks, stmt, waitFor, entry, pc>>

-----------------------------------------------------------------------------
(* The helper goroutine inside sync.RWMutex.                               *)

\* RLock: in at once unless a writer has announced itself; otherwise it waits.
HelperRLock(r) ==
    /\ pc[r] = "started" /\ entry[r].mode = "r"
    /\ pc' = [pc EXCEPT ![r] = IF WriterPresent(entry[r].table) THEN "queued" ELSE "holding"]
    /\ UNCHANGED <<state, locks, step, stmt, waitFor, entry>>

\* Lock, first half: get the writers' mutex, then hold off new readers.
HelperAnnounce(r) ==
    /\ pc[r] = "started" /\ entry[r].mode = "w"
    /\ ~WriterPresent(entry[r].table)
    /\ pc' = [pc EXCEPT ![r] = "announced"]
    /\ UNCHANGED <<state, locks, step, stmt, waitFor, entry>>

\* Mutant: a writer does not wait for the readers that came before it.
MutHelperLock(r) ==
    /\ pc[r] = "announced"
    /\ pc' = [pc EXCEPT ![r] = "holding"]
    /\ UNCHANGED <<state, locks, step, stmt, waitFor, entry>>

\* Lock, second half: the last reader that was active has left.
HelperLock(r) ==
    /\ pc[r] = "announced"
    /\ Readers(entry[r].table) = {}
    /\ pc' = [pc EXCEPT ![r] = "holding"]
    /\ UNCHANGED <<state, locks, step, stmt, waitFor, entry>>

-----------------------------------------------------------------------------
Next ==
    \/ \E t \in Txns :
         \/ Begin(t) \/ Exec(t) \/ LockHeld(t) \/ UpgradeRefused(t)
         \/ Done(t) \/ Timeout(t) \/ Executed(t)
         \/ Commit(t) \/ CommitError(t) \/ Rollback(t) \/ RollbackError(t)
         \/ Unlocked(t)
         \/ \E r \in Requests : StartHelper(t, r) \/ UnlockOne(t, r)
    \/ \E r \in Requests : HelperRLock(r) \/ HelperAnnounce(r) \/ HelperLock(r)

Spec == Init /\ [][Next]_vars

\* Goroutines are scheduled, so an operation that stays possible is executed;
\* that a Tx is ever used or ended is up to the application, so nothing is
\* assumed of it beyond finishing the call it is in.
AutoStep(t) == t \in AutoTxns /\ (Begin(t) \/ Commit(t) \/ Rollback(t))
InsideCall(t) ==
    \/ LockHeld(t) \/ UpgradeRefused(t) \/ Done(t) \/ Timeout(t)
    \/ Executed(t) \/ Unlocked(t)
    \/ \E r \in Requests : StartHelper(t, r) \/ UnlockOne(t, r)

Fairness ==
    /\ \A t \in Txns : WF_vars(AutoStep(t)) /\ WF_vars(InsideCall(t))
    /\ \A r \in Requests :
         WF_vars(HelperRLock(r) \/ HelperAnnounce(r) \/ HelperLock(r))

FairSpec == Spec /\ Fairness

-----------------------------------------------------------------------------
(* Properties.                                                             *)

\* A helper that holds a table for writing is alone on it: no other helper,
\* orphaned or not, reads or writes (txn.go:59-107).
MutualExclusion ==
    \A tb \in Tables : \A w \in Writers(tb) : Active(tb) = {w}

\* Two transactions whose Txn.locks name the same table both only read it;
\* this is what executeLocked relies on to run without page latches.
NoConflictingLocks ==
    \A t1, t2 \in Txns : \A e1 \in locks[t1], e2 \in locks[t2] :
        t1 # t2 /\ e1.table = e2.table => e1.mode = "r" /\ e2.mode = "r"

\* Every entry of Txn.locks is backed by exactly one acquisition of the mutex
\* that was handed to this transaction, so unlock (txn.go:165) never unlocks a
\* mutex that is not locked, which would be a fatal error of the Go runtime.
EntriesBacked ==
    \A t \in Txns, e \in Entry :
        e \in locks[t] <=>
          \E r \in Requests : /\ Owner(r) = t /\ entry[r] = e /\ pc[r] = "recorded"
                              /\ \A q \in Requests \ {r} :
                                   ~(Owner(q) = t /\ entry[q] = e /\ pc[q] = "recorded")

\* A transaction never takes the same table twice: RWMutex is not reentrant, so
\* a second acquisition by the same goroutine would block on itself.
NoSelfWait ==
    \A t \in Txns : step[t] = "waiting" =>
        ~Holds(t, entry[waitFor[t]].table, "r") /\ ~Holds(t, entry[waitFor[t]].table, "w")

\* Strict two-phase locking: locks are only added before the transaction ended
\* and only dropped after (Commit and Rollback set State before unlock).
StrictTwoPhase ==
    [][\A t \in Txns :
         /\ ~(locks[t] \subseteq locks'[t]) => state[t] \in {"Committed", "Aborted"}
         /\ ~(locks'[t] \subseteq locks[t]) => state[t] = "Active"]_vars

\* Once Commit or Rollback has returned, no helper of the transaction is on any
\* table ("COMMIT / ROLLBACK releases all locks", txn/docs/spec.md).
EndReleasesTables ==
    \A t \in Txns : state[t] \in {"Committed", "Aborted"} /\ step[t] \in {"ready", "gone"} =>
        \A r \in Requests : Owner(r) = t => pc[r] \notin {"announced", "holding", "recorded"}

\* Without timeouts every helper that got the mutex is one its transaction
\* still waits for: the mutex is never held on behalf of nobody.
NoOrphanHolder ==
    \A r \in Requests : pc[r] = "holding" => waitFor[Owner(r)] = r

\* Every auto-commit statement ends: the readers that queue behind a writer and
\* the writers behind readers are all let in eventually.
StatementsEnd ==
    \A t \in AutoTxns : state[t] = "Active" ~> state[t] \in {"Committed", "Aborted"}

\* A wait for a lock always ends, with the lock or with an error.
WaitsEnd == \A t \in Txns : step[t] = "waiting" ~> step[t] # "waiting"

=============================================================================
