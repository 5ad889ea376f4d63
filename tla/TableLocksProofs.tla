-------------------------- MODULE TableLocksProofs --------------------------
(***************************************************************************)
(* Proofs about TableLocks, for every set of transactions, tables and      *)
(* statements, every bound and every combination of faults.                *)
(***************************************************************************)
EXTENDS TableLocks, TLAPS

InUse == {"holding", "recorded"}

\* Two used requests for the same table.
Rivals(r, q) == /\ r # q
                /\ pc[r] # "unused" /\ pc[q] # "unused"
                /\ entry[r].table = entry[q].table

\* What the mutex guarantees: a writer that is in shares the table with nobody
\* and there is at most one announced writer, none while a writer is in.
MutexInv ==
    \A r, q \in Requests : Rivals(r, q) =>
        /\ pc[r] \in InUse /\ entry[r].mode = "w" => pc[q] \notin InUse
        /\ pc[r] = "announced" => pc[q] # "announced"
        /\ pc[r] = "announced" /\ pc[q] \in InUse => entry[q].mode = "r"

\* Only writers announce themselves and only readers queue behind one.
ModeInv ==
    \A r \in Requests : /\ pc[r] = "announced" => entry[r].mode = "w"
                        /\ pc[r] = "queued" => entry[r].mode = "r"

\* A transaction waits for a helper of its own, and every entry it recorded is
\* backed by a helper of its own that has the mutex.
BackedInv ==
    /\ \A t \in Txns : waitFor[t] # None =>
         /\ Owner(waitFor[t]) = t
         /\ pc[waitFor[t]] \notin {"unused", "recorded", "released"}
    /\ \A t \in Txns : \A e \in locks[t] :
         \E r \in Requests : Owner(r) = t /\ pc[r] = "recorded" /\ entry[r] = e

IInv == TypeOK /\ ModeInv /\ MutexInv /\ BackedInv

-----------------------------------------------------------------------------
\* Requests are pairs and None is none of them.
LEMMA RequestFacts ==
    /\ None \notin Requests /\ None \notin Entry
    /\ \A r \in Requests : Owner(r) \in Txns
  BY NoneAssumption DEF Requests, Owner

\* The starting state satisfies the invariant.
LEMMA InitIInv == Init => IInv
  BY RequestFacts, NoneAssumption
     DEF Init, IInv, TypeOK, ModeInv, MutexInv, BackedInv, Rivals, PCs, InUse

\* Every step keeps the type invariant.
LEMMA TypeStep == TypeOK /\ [Next]_vars => TypeOK'
  <1> SUFFICES ASSUME TypeOK, [Next]_vars PROVE TypeOK'
    OBVIOUS
  <1> USE RequestFacts DEF TypeOK, PCs
  <1>1. ASSUME NEW t \in Txns, Begin(t) PROVE TypeOK'
    BY <1>1, StatementAssumption DEF Begin
  <1>2. ASSUME NEW t \in Txns, Exec(t) PROVE TypeOK'
    BY <1>2, StatementAssumption DEF Exec
  <1>3. ASSUME NEW t \in Txns, LockHeld(t) PROVE TypeOK'
    BY <1>3 DEF LockHeld
  <1>4. ASSUME NEW t \in Txns, UpgradeRefused(t) PROVE TypeOK'
    BY <1>4 DEF UpgradeRefused
  <1>5. ASSUME NEW t \in Txns, Done(t) PROVE TypeOK'
    BY <1>5 DEF Done
  <1>6. ASSUME NEW t \in Txns, Timeout(t) PROVE TypeOK'
    BY <1>6 DEF Timeout
  <1>7. ASSUME NEW t \in Txns, Executed(t) PROVE TypeOK'
    BY <1>7 DEF Executed
  <1>8. ASSUME NEW t \in Txns, Commit(t) \/ CommitError(t) \/ Rollback(t) \/ RollbackError(t)
        PROVE TypeOK'
    <2>1. CASE Commit(t)
      BY <2>1 DEF Commit
    <2>2. CASE CommitError(t)
      BY <2>2 DEF CommitError
    <2>3. CASE Rollback(t)
      BY <2>3 DEF Rollback
    <2>4. CASE RollbackError(t)
      BY <2>4 DEF RollbackError
    <2>5. QED
      BY <1>8, <2>1, <2>2, <2>3, <2>4
  <1>9. ASSUME NEW t \in Txns, Unlocked(t) PROVE TypeOK'
    BY <1>9 DEF Unlocked
  <1>10. ASSUME NEW t \in Txns, NEW r \in Requests, StartHelper(t, r) PROVE TypeOK'
    BY <1>10 DEF StartHelper, Unused
  <1>11. ASSUME NEW t \in Txns, NEW r \in Requests, UnlockOne(t, r) PROVE TypeOK'
    BY <1>11 DEF UnlockOne, On
  <1>12. ASSUME NEW r \in Requests, HelperRLock(r) \/ HelperAnnounce(r) \/ HelperLock(r)
         PROVE TypeOK'
    BY <1>12 DEF HelperRLock, HelperAnnounce, HelperLock
  <1>13. CASE UNCHANGED vars
    BY <1>13 DEF vars
  <1>14. QED
    BY <1>1, <1>2, <1>3, <1>4, <1>5, <1>6, <1>7, <1>8, <1>9, <1>10, <1>11, <1>12, <1>13
       DEF Next

\* Every step keeps the modes of queued and announced helpers.
LEMMA ModeStep == TypeOK /\ ModeInv /\ [Next]_vars => ModeInv'
  <1> SUFFICES ASSUME TypeOK, ModeInv, [Next]_vars PROVE ModeInv'
    OBVIOUS
  <1> USE RequestFacts DEF TypeOK, ModeInv
  <1>1. ASSUME NEW t \in Txns,
               \/ Begin(t) \/ Exec(t) \/ LockHeld(t) \/ UpgradeRefused(t) \/ Timeout(t)
               \/ Executed(t) \/ Commit(t) \/ CommitError(t) \/ Rollback(t)
               \/ RollbackError(t) \/ Unlocked(t)
        PROVE ModeInv'
    BY <1>1 DEF Begin, Exec, LockHeld, UpgradeRefused, Timeout, Executed, Commit,
                CommitError, Rollback, RollbackError, Unlocked
  <1>2. ASSUME NEW t \in Txns, Done(t) PROVE ModeInv'
    BY <1>2 DEF Done
  <1>3. ASSUME NEW t \in Txns, NEW r \in Requests, StartHelper(t, r) PROVE ModeInv'
    BY <1>3 DEF StartHelper, Unused
  <1>4. ASSUME NEW t \in Txns, NEW r \in Requests, UnlockOne(t, r) PROVE ModeInv'
    BY <1>4 DEF UnlockOne, On
  <1>5. ASSUME NEW r \in Requests, HelperRLock(r) \/ HelperAnnounce(r) \/ HelperLock(r)
        PROVE ModeInv'
    BY <1>5 DEF HelperRLock, HelperAnnounce, HelperLock
  <1>6. CASE UNCHANGED vars
    BY <1>6 DEF vars
  <1>7. QED
    BY <1>1, <1>2, <1>3, <1>4, <1>5, <1>6 DEF Next

\* Every step keeps mutual exclusion inside each mutex: the interesting steps
\* are the three by which a helper enters and the wake-up of queued readers.
LEMMA MutexStep == TypeOK /\ ModeInv /\ MutexInv /\ [Next]_vars => MutexInv'
  <1> SUFFICES ASSUME TypeOK, ModeInv, MutexInv, [Next]_vars PROVE MutexInv'
    OBVIOUS
  <1> USE RequestFacts DEF TypeOK, MutexInv, Rivals, InUse
  <1>1. ASSUME NEW t \in Txns,
               \/ Begin(t) \/ Exec(t) \/ LockHeld(t) \/ UpgradeRefused(t) \/ Timeout(t)
               \/ Executed(t) \/ Commit(t) \/ CommitError(t) \/ Rollback(t)
               \/ RollbackError(t) \/ Unlocked(t)
        PROVE MutexInv'
    BY <1>1 DEF Begin, Exec, LockHeld, UpgradeRefused, Timeout, Executed, Commit,
                CommitError, Rollback, RollbackError, Unlocked
  <1>2. ASSUME NEW t \in Txns, Done(t) PROVE MutexInv'
    BY <1>2 DEF Done
  <1>3. ASSUME NEW t \in Txns, NEW r \in Requests, StartHelper(t, r) PROVE MutexInv'
    BY <1>3 DEF StartHelper, Unused
  <1>4. ASSUME NEW t \in Txns, NEW r \in Requests, UnlockOne(t, r) PROVE MutexInv'
    \* A woken reader was behind the writer that leaves: nobody else was in.
    BY <1>4 DEF UnlockOne, On, ModeInv
  <1>5. ASSUME NEW r \in Requests, HelperRLock(r) PROVE MutexInv'
    BY <1>5 DEF HelperRLock, WriterPresent, Announced, Writers, Active, On, ModeInv
  <1>6. ASSUME NEW r \in Requests, HelperAnnounce(r) PROVE MutexInv'
    BY <1>6 DEF HelperAnnounce, WriterPresent, Announced, Writers, Active, On, Entry, Modes
  <1>7. ASSUME NEW r \in Requests, HelperLock(r) PROVE MutexInv'
    BY <1>7 DEF HelperLock, Readers, Active, On, ModeInv
  <1>8. CASE UNCHANGED vars
    BY <1>8 DEF vars
  <1>9. QED
    BY <1>1, <1>2, <1>3, <1>4, <1>5, <1>6, <1>7, <1>8 DEF Next

\* Every step keeps the entries of Txn.locks backed.
LEMMA BackedStep == TypeOK /\ BackedInv /\ [Next]_vars => BackedInv'
  <1> SUFFICES ASSUME TypeOK, BackedInv, [Next]_vars PROVE BackedInv'
    OBVIOUS
  <1> USE RequestFacts DEF TypeOK, BackedInv
  <1>1. ASSUME NEW t \in Txns,
               \/ Begin(t) \/ Exec(t) \/ LockHeld(t) \/ UpgradeRefused(t) \/ Timeout(t)
               \/ Executed(t) \/ Commit(t) \/ CommitError(t) \/ Rollback(t)
               \/ RollbackError(t) \/ Unlocked(t)
        PROVE BackedInv'
    BY <1>1 DEF Begin, Exec, LockHeld, UpgradeRefused, Timeout, Executed, Commit,
                CommitError, Rollback, RollbackError, Unlocked
  <1>2. ASSUME NEW t \in Txns, Done(t) PROVE BackedInv'
    BY <1>2 DEF Done
  <1>3. ASSUME NEW t \in Txns, NEW r \in Requests, StartHelper(t, r) PROVE BackedInv'
    BY <1>3 DEF StartHelper, Unused
  <1>4. ASSUME NEW t \in Txns, NEW r \in Requests, UnlockOne(t, r) PROVE BackedInv'
    <2>1. \A q \in Requests :
            /\ pc[q] = "recorded" /\ q # r => pc'[q] = "recorded"
            /\ pc'[q] # pc[q] => q = r \/ pc'[q] = "holding"
      BY <1>4 DEF UnlockOne
    <2>2. /\ UNCHANGED <<waitFor, entry>>
          /\ locks' = [locks EXCEPT ![t] = @ \ {entry[r]}]
          /\ Owner(r) = t /\ pc[r] = "recorded"
      BY <1>4 DEF UnlockOne
    <2>3. ASSUME NEW u \in Txns, waitFor'[u] # None
          PROVE  /\ Owner(waitFor'[u]) = u
                 /\ pc'[waitFor'[u]] \notin {"unused", "recorded", "released"}
      <3> DEFINE q == waitFor[u]
      <3>1. waitFor'[u] = q /\ q \in Requests /\ q # None
        BY <2>2, <2>3
      <3>2. Owner(q) = u /\ pc[q] \notin {"unused", "recorded", "released"}
        BY <3>1
      <3>3. pc'[q] = pc[q] \/ pc'[q] = "holding"
        BY <2>1, <2>2, <3>1, <3>2
      <3>4. QED
        BY <3>1, <3>2, <3>3
    <2>4. ASSUME NEW u \in Txns, NEW e \in locks'[u]
          PROVE  \E q \in Requests : Owner(q) = u /\ pc'[q] = "recorded" /\ entry'[q] = e
      <3>1. e \in locks[u] /\ (u = t => e # entry[r])
        BY <2>2, <2>4
      <3>2. PICK q \in Requests : Owner(q) = u /\ pc[q] = "recorded" /\ entry[q] = e
        BY <3>1
      <3>3. q # r
        BY <2>2, <3>1, <3>2
      <3>4. QED
        BY <2>1, <2>2, <3>2, <3>3
    <2>5. QED
      BY <2>3, <2>4
  <1>5. ASSUME NEW r \in Requests, HelperRLock(r) \/ HelperAnnounce(r) \/ HelperLock(r)
        PROVE BackedInv'
    BY <1>5 DEF HelperRLock, HelperAnnounce, HelperLock
  <1>6. CASE UNCHANGED vars
    BY <1>6 DEF vars
  <1>7. QED
    BY <1>1, <1>2, <1>3, <1>4, <1>5, <1>6 DEF Next

-----------------------------------------------------------------------------
\* The invariant is inductive, hence holds in every state of every run.
THEOREM Invariance == Spec => []IInv
  <1>1. IInv /\ [Next]_vars => IInv'
    BY TypeStep, ModeStep, MutexStep, BackedStep DEF IInv
  <1>2. QED
    BY InitIInv, <1>1, PTL DEF Spec

\* Txn.State, Txn.locks, the selects and the helpers keep the shapes txn.go
\* relies on, whatever the faults.
THEOREM TypeCorrect == Spec => []TypeOK
  <1>1. IInv => TypeOK
    BY DEF IInv
  <1>2. QED
    BY Invariance, <1>1, PTL

\* A helper that writes a table is alone on it, even after timeouts left other
\* helpers of dead transactions in the queue of the mutex (txn.go:94-97).
THEOREM MutualExclusionTheorem == Spec => []MutualExclusion
  <1>1. IInv => MutualExclusion
    BY DEF IInv, TypeOK, MutexInv, Rivals, InUse, MutualExclusion, Writers, Active, On
  <1>2. QED
    BY Invariance, <1>1, PTL

\* Two live entries for one table are both reads: statements of different
\* transactions never run on the same table while one of them writes it.
THEOREM NoConflictingLocksTheorem == Spec => []NoConflictingLocks
  <1>1. IInv => NoConflictingLocks
    <2> SUFFICES ASSUME IInv, NEW t1 \in Txns, NEW t2 \in Txns,
                        NEW e1 \in locks[t1], NEW e2 \in locks[t2],
                        t1 # t2, e1.table = e2.table
                 PROVE  e1.mode = "r" /\ e2.mode = "r"
      BY DEF NoConflictingLocks
    <2>1. PICK r \in Requests : Owner(r) = t1 /\ pc[r] = "recorded" /\ entry[r] = e1
      BY DEF IInv, BackedInv
    <2>2. PICK q \in Requests : Owner(q) = t2 /\ pc[q] = "recorded" /\ entry[q] = e2
      BY DEF IInv, BackedInv
    <2>3. Rivals(r, q) /\ Rivals(q, r)
      BY <2>1, <2>2 DEF Rivals
    <2>4. e1.mode # "w" /\ e2.mode # "w"
      BY <2>1, <2>2, <2>3 DEF IInv, MutexInv, InUse
    <2>5. e1 \in Entry /\ e2 \in Entry
      BY DEF IInv, TypeOK
    <2>6. QED
      BY <2>4, <2>5 DEF Entry, Modes
  <1>2. QED
    BY Invariance, <1>1, PTL

-----------------------------------------------------------------------------
\* Locks are asked for while the transaction is active and dropped when it ended.
PhaseInv ==
    \A t \in Txns : /\ step[t] \in {"locking", "waiting"} => state[t] = "Active"
                    /\ step[t] = "unlocking" => state[t] \in {"Committed", "Aborted"}

\* Every step keeps the two phases, unless a manager's transaction is used after its end.
LEMMA PhaseStep ==
    ASSUME "useAfterEnd" \notin Faults
    PROVE  TypeOK /\ PhaseInv /\ [Next]_vars => PhaseInv'
  <1> SUFFICES ASSUME TypeOK, PhaseInv, [Next]_vars PROVE PhaseInv'
    OBVIOUS
  <1> USE DEF TypeOK, PhaseInv
  <1>1. ASSUME NEW t \in Txns, Begin(t) \/ Exec(t) PROVE PhaseInv'
    BY <1>1 DEF Begin, Exec
  <1>2. ASSUME NEW t \in Txns,
               \/ LockHeld(t) \/ UpgradeRefused(t) \/ Done(t) \/ Timeout(t)
               \/ Executed(t) \/ Unlocked(t)
        PROVE PhaseInv'
    BY <1>2 DEF LockHeld, UpgradeRefused, Done, Timeout, Executed, Unlocked
  <1>3. ASSUME NEW t \in Txns,
               Commit(t) \/ CommitError(t) \/ Rollback(t) \/ RollbackError(t)
        PROVE PhaseInv'
    BY <1>3 DEF Commit, CommitError, Rollback, RollbackError
  <1>4. ASSUME NEW t \in Txns, NEW r \in Requests, StartHelper(t, r) \/ UnlockOne(t, r)
        PROVE PhaseInv'
    BY <1>4 DEF StartHelper, UnlockOne
  <1>5. ASSUME NEW r \in Requests, HelperRLock(r) \/ HelperAnnounce(r) \/ HelperLock(r)
        PROVE PhaseInv'
    BY <1>5 DEF HelperRLock, HelperAnnounce, HelperLock
  <1>6. CASE UNCHANGED vars
    BY <1>6 DEF vars
  <1>7. QED
    BY <1>1, <1>2, <1>3, <1>4, <1>5, <1>6 DEF Next

\* If the application does not use a Tx after ending it, every transaction is
\* strictly two-phase, also when Commit or Rollback fails and is retried.
THEOREM StrictTwoPhaseTheorem ==
    ASSUME "useAfterEnd" \notin Faults
    PROVE  Spec => StrictTwoPhase
  <1>1. Init => PhaseInv
    BY DEF Init, PhaseInv
  <1>2. TypeOK /\ PhaseInv /\ [Next]_vars => PhaseInv'
    BY PhaseStep
  <1>3. TypeOK /\ PhaseInv /\ [Next]_vars =>
          [\A t \in Txns :
             /\ ~(locks[t] \subseteq locks'[t]) => state[t] \in {"Committed", "Aborted"}
             /\ ~(locks'[t] \subseteq locks[t]) => state[t] = "Active"]_vars
    <2> DEFINE Shrinks(t) == ~(locks[t] \subseteq locks'[t]) => state[t] \in {"Committed", "Aborted"}
               Grows(t)   == ~(locks'[t] \subseteq locks[t]) => state[t] = "Active"
    <2> SUFFICES ASSUME TypeOK, PhaseInv, Next, NEW t \in Txns
                 PROVE  Shrinks(t) /\ Grows(t)
      OBVIOUS
    <2>1. ASSUME NEW u \in Txns, Done(u) PROVE Shrinks(t) /\ Grows(t)
      <3>1. locks'[t] = IF t = u THEN locks[u] \cup {entry[waitFor[u]]} ELSE locks[t]
        BY <2>1 DEF Done, TypeOK
      <3>2. state[u] = "Active"
        BY <2>1 DEF Done, PhaseInv
      <3>3. QED
        BY <3>1, <3>2
    <2>2. ASSUME NEW u \in Txns, NEW r \in Requests, UnlockOne(u, r)
          PROVE  Shrinks(t) /\ Grows(t)
      <3>1. locks'[t] = IF t = u THEN locks[u] \ {entry[r]} ELSE locks[t]
        BY <2>2 DEF UnlockOne, TypeOK
      <3>2. state[u] \in {"Committed", "Aborted"}
        BY <2>2 DEF UnlockOne, PhaseInv
      <3>3. QED
        BY <3>1, <3>2
    <2>3. CASE UNCHANGED locks
      BY <2>3
    <2>4. QED
      BY <2>1, <2>2, <2>3
         DEF Next, Begin, Exec, LockHeld, UpgradeRefused, Timeout, Executed, Commit,
             CommitError, Rollback, RollbackError, Unlocked, StartHelper,
             HelperRLock, HelperAnnounce, HelperLock
  <1>4. QED
    BY <1>1, <1>2, <1>3, TypeCorrect, PTL DEF Spec, StrictTwoPhase

-----------------------------------------------------------------------------
(* The entries of Txn.locks and the acquisitions they stand for.           *)

\* An acquisition handed to a transaction is in its Txn.locks, no two of them
\* are for the same entry, and what a transaction waits for is on a table it
\* has no entry for.
HandedInv ==
    /\ \A r \in Requests : pc[r] = "recorded" => entry[r] \in locks[Owner(r)]
    /\ \A r, q \in Requests :
         r # q /\ Owner(r) = Owner(q) /\ pc[r] = "recorded" /\ pc[q] = "recorded"
           => entry[r] # entry[q]
    /\ \A t \in Txns : waitFor[t] # None =>
         ~Holds(t, entry[waitFor[t]].table, "r") /\ ~Holds(t, entry[waitFor[t]].table, "w")

\* Every step keeps entries and acquisitions one to one.
LEMMA HandedStep == TypeOK /\ BackedInv /\ HandedInv /\ [Next]_vars => HandedInv'
  <1> SUFFICES ASSUME TypeOK, BackedInv, HandedInv, [Next]_vars PROVE HandedInv'
    OBVIOUS
  <1> USE RequestFacts DEF TypeOK, HandedInv, Holds
  <1>1. ASSUME NEW t \in Txns,
               \/ Begin(t) \/ Exec(t) \/ LockHeld(t) \/ UpgradeRefused(t) \/ Timeout(t)
               \/ Executed(t) \/ Commit(t) \/ CommitError(t) \/ Rollback(t)
               \/ RollbackError(t) \/ Unlocked(t)
        PROVE HandedInv'
    <2>1. /\ UNCHANGED <<locks, entry, pc>>
          /\ waitFor' = waitFor \/ waitFor' = [waitFor EXCEPT ![t] = None]
      BY <1>1 DEF Begin, Exec, LockHeld, UpgradeRefused, Timeout, Executed, Commit,
                  CommitError, Rollback, RollbackError, Unlocked
    <2>2. \A u \in Txns : waitFor'[u] # None => waitFor'[u] = waitFor[u]
      BY <2>1
    <2>3. QED
      BY <2>1, <2>2
  <1>2. ASSUME NEW t \in Txns, Done(t) PROVE HandedInv'
    <2> DEFINE w == waitFor[t]
    <2>1. w \in Requests /\ Owner(w) = t /\ pc[w] = "holding" /\ entry[w] \in Entry
      BY <1>2 DEF Done, BackedInv
    <2>2. entry[w] \notin locks[t]
      <3>1. entry[w] = [table |-> entry[w].table, mode |-> entry[w].mode]
            /\ entry[w].mode \in {"r", "w"}
        BY <2>1 DEF Entry, Modes
      <3>2. w # None
        BY <2>1
      <3>3. \/ [table |-> entry[w].table, mode |-> "r"] = entry[w]
            \/ [table |-> entry[w].table, mode |-> "w"] = entry[w]
        BY <3>1
      <3>4. ~Holds(t, entry[w].table, "r") /\ ~Holds(t, entry[w].table, "w")
        BY <3>2
      <3>5. QED
        BY <3>3, <3>4
    <2>3. \A q \in Requests : Owner(q) = t /\ pc[q] = "recorded" => entry[q] # entry[w]
      BY <2>2
    <2>4. /\ locks' = [locks EXCEPT ![t] = @ \cup {entry[w]}]
          /\ pc' = [pc EXCEPT ![w] = "recorded"]
          /\ waitFor' = [waitFor EXCEPT ![t] = None] /\ entry' = entry
      BY <1>2 DEF Done
    <2>5. /\ \A u \in Txns : u # t => locks'[u] = locks[u] /\ waitFor'[u] = waitFor[u]
          /\ locks'[t] = locks[t] \cup {entry[w]} /\ waitFor'[t] = None
          /\ \A q \in Requests : pc'[q] = "recorded" => q = w \/ pc[q] = "recorded"
      BY <2>1, <2>4
    <2>6. \A r \in Requests : pc'[r] = "recorded" => entry'[r] \in locks'[Owner(r)]
      BY <2>1, <2>4, <2>5
    <2>7. \A r, q \in Requests :
            r # q /\ Owner(r) = Owner(q) /\ pc'[r] = "recorded" /\ pc'[q] = "recorded"
              => entry'[r] # entry'[q]
      BY <2>1, <2>3, <2>4, <2>5
    <2>8. \A u \in Txns : waitFor'[u] # None => u # t
      BY <2>5
    <2>9. QED
      BY <2>4, <2>5, <2>6, <2>7, <2>8
  <1>3. ASSUME NEW t \in Txns, NEW r \in Requests, StartHelper(t, r) PROVE HandedInv'
    <2>1. /\ pc[r] = "unused" /\ Owner(r) = t
          /\ entry' = [entry EXCEPT ![r] = Head(stmt[t])]
          /\ pc' = [pc EXCEPT ![r] = "started"]
          /\ waitFor' = [waitFor EXCEPT ![t] = r] /\ locks' = locks
          /\ ~Holds(t, Head(stmt[t]).table, "r") /\ ~Holds(t, Head(stmt[t]).table, "w")
      BY <1>3 DEF StartHelper, Unused
    <2>2. \A u \in Txns : waitFor[u] # None => waitFor[u] # r
      BY <2>1 DEF BackedInv
    <2>3. \A q \in Requests : pc'[q] = "recorded" => pc[q] = "recorded" /\ entry'[q] = entry[q]
      BY <2>1
    <2>4. ASSUME NEW u \in Txns, waitFor'[u] # None
          PROVE  /\ ~Holds(u, entry[waitFor[u]].table, "r")'
                 /\ ~Holds(u, entry[waitFor[u]].table, "w")'
      <3>1. CASE u = t
        <4>1. waitFor'[u] = r /\ entry'[r] = Head(stmt[t])
          BY <2>1, <3>1
        <4>2. QED
          BY <2>1, <3>1, <4>1
      <3>2. CASE u # t
        <4>1. waitFor'[u] = waitFor[u] /\ waitFor[u] # r
          BY <2>1, <2>2, <2>4, <3>2
        <4>2. entry'[waitFor[u]] = entry[waitFor[u]]
          BY <2>1, <2>4, <4>1
        <4>3. QED
          BY <2>1, <2>4, <4>1, <4>2
      <3>3. QED
        BY <3>1, <3>2
    <2>5. /\ \A q \in Requests : pc'[q] = "recorded" => entry'[q] \in locks'[Owner(q)]
          /\ \A q, s \in Requests :
               q # s /\ Owner(q) = Owner(s) /\ pc'[q] = "recorded" /\ pc'[s] = "recorded"
                 => entry'[q] # entry'[s]
      BY <2>1, <2>3
    <2>6. QED
      BY <2>4, <2>5
  <1>4. ASSUME NEW t \in Txns, NEW r \in Requests, UnlockOne(t, r) PROVE HandedInv'
    <2>1. \A q \in Requests : pc'[q] = "recorded" => pc[q] = "recorded" /\ q # r
      BY <1>4 DEF UnlockOne
    <2>2. /\ UNCHANGED <<waitFor, entry>>
          /\ locks' = [locks EXCEPT ![t] = @ \ {entry[r]}]
          /\ Owner(r) = t /\ pc[r] = "recorded"
      BY <1>4 DEF UnlockOne
    <2>3. \A q \in Requests : pc'[q] = "recorded" => entry'[q] \in locks'[Owner(q)]
      BY <2>1, <2>2
    <2>4. \A q, s \in Requests :
            q # s /\ Owner(q) = Owner(s) /\ pc'[q] = "recorded" /\ pc'[s] = "recorded"
              => entry'[q] # entry'[s]
      BY <2>1, <2>2
    <2>5. \A u \in Txns : locks'[u] \subseteq locks[u]
      BY <2>2
    <2>6. QED
      BY <2>2, <2>3, <2>4, <2>5
  <1>5. ASSUME NEW r \in Requests, HelperRLock(r) \/ HelperAnnounce(r) \/ HelperLock(r)
        PROVE HandedInv'
    <2>1. /\ UNCHANGED <<locks, waitFor, entry>>
          /\ \A q \in Requests : pc'[q] = "recorded" => pc[q] = "recorded"
      BY <1>5 DEF HelperRLock, HelperAnnounce, HelperLock
    <2>2. QED
      BY <2>1
  <1>6. CASE UNCHANGED vars
    BY <1>6 DEF vars
  <1>7. QED
    BY <1>1, <1>2, <1>3, <1>4, <1>5, <1>6 DEF Next

\* The one-to-one correspondence holds in every state.
LEMMA HandedInvariance == Spec => []HandedInv
  <1>1. Init => HandedInv
    BY DEF Init, HandedInv
  <1>2. IInv /\ HandedInv /\ [Next]_vars => HandedInv'
    BY HandedStep DEF IInv
  <1>3. QED
    BY <1>1, <1>2, Invariance, PTL DEF Spec

\* unlock (txn.go:165) releases a mutex exactly as often as it was acquired for
\* the transaction: also after timeouts, failed commits and retries, no entry of
\* Txn.locks lacks its acquisition and none has two.
THEOREM EntriesBackedTheorem == Spec => []EntriesBacked
  <1>1. IInv /\ HandedInv => EntriesBacked
    <2> SUFFICES ASSUME IInv, HandedInv, NEW t \in Txns, NEW e \in Entry
                 PROVE  e \in locks[t] <=>
                          \E r \in Requests :
                             /\ Owner(r) = t /\ entry[r] = e /\ pc[r] = "recorded"
                             /\ \A q \in Requests \ {r} :
                                  ~(Owner(q) = t /\ entry[q] = e /\ pc[q] = "recorded")
      BY DEF EntriesBacked
    <2>1. ASSUME e \in locks[t]
          PROVE  \E r \in Requests : Owner(r) = t /\ entry[r] = e /\ pc[r] = "recorded"
      BY <2>1 DEF IInv, BackedInv
    <2>2. QED
      BY <2>1 DEF HandedInv
  <1>2. QED
    BY Invariance, HandedInvariance, <1>1, PTL

\* No transaction ever waits for a table it already has in Txn.locks, so none
\* blocks on itself: RWMutex is not reentrant (txn.go:59-107).
THEOREM NoSelfWaitTheorem == Spec => []NoSelfWait
  <1>1. IInv /\ HandedInv => NoSelfWait
    BY DEF IInv, TypeOK, HandedInv, NoSelfWait
  <1>2. QED
    BY Invariance, HandedInvariance, <1>1, PTL

-----------------------------------------------------------------------------
\* Every helper that is on its way to the mutex or has it is waited for.
WaitedInv ==
    \A r \in Requests :
        pc[r] \in {"started", "queued", "announced", "holding"} => waitFor[Owner(r)] = r

\* If no wait is given up, a transaction leaves its select only by taking over
\* what its helper acquired.
LEMMA WaitedStep ==
    ASSUME "timeout" \notin Faults
    PROVE  IInv /\ WaitedInv /\ [Next]_vars => WaitedInv'
  <1> SUFFICES ASSUME IInv, WaitedInv, [Next]_vars PROVE WaitedInv'
    OBVIOUS
  <1> USE RequestFacts DEF IInv, TypeOK, WaitedInv
  <1>1. ASSUME NEW t \in Txns,
               \/ Begin(t) \/ Exec(t) \/ LockHeld(t) \/ UpgradeRefused(t) \/ Timeout(t)
               \/ Executed(t) \/ Commit(t) \/ CommitError(t) \/ Rollback(t)
               \/ RollbackError(t) \/ Unlocked(t)
        PROVE WaitedInv'
    BY <1>1 DEF Begin, Exec, LockHeld, UpgradeRefused, Timeout, Executed, Commit,
                CommitError, Rollback, RollbackError, Unlocked
  <1>2. ASSUME NEW t \in Txns, Done(t) PROVE WaitedInv'
    BY <1>2 DEF Done
  <1>3. ASSUME NEW t \in Txns, NEW r \in Requests, StartHelper(t, r) PROVE WaitedInv'
    BY <1>3 DEF StartHelper, Unused
  <1>4. ASSUME NEW t \in Txns, NEW r \in Requests, UnlockOne(t, r) PROVE WaitedInv'
    BY <1>4 DEF UnlockOne, On
  <1>5. ASSUME NEW r \in Requests, HelperRLock(r) \/ HelperAnnounce(r) \/ HelperLock(r)
        PROVE WaitedInv'
    BY <1>5 DEF HelperRLock, HelperAnnounce, HelperLock
  <1>6. CASE UNCHANGED vars
    BY <1>6 DEF vars
  <1>7. QED
    BY <1>1, <1>2, <1>3, <1>4, <1>5, <1>6 DEF Next

\* The timer and the context are the only way to leave a helper behind: as long
\* as neither fires, every acquired mutex has a transaction that will take it
\* over, also when Commit or Rollback fails or a Tx is used after its end.
THEOREM NoOrphanHolderTheorem ==
    ASSUME "timeout" \notin Faults
    PROVE  Spec => []NoOrphanHolder
  <1>1. Init => WaitedInv
    BY DEF Init, WaitedInv
  <1>2. IInv /\ WaitedInv /\ [Next]_vars => WaitedInv'
    BY WaitedStep
  <1>3. WaitedInv => NoOrphanHolder
    BY DEF WaitedInv, NoOrphanHolder
  <1>4. QED
    BY <1>1, <1>2, <1>3, Invariance, PTL DEF Spec

=============================================================================
