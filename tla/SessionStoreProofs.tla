------------------------- MODULE SessionStoreProofs -------------------------
(***************************************************************************)
(* Proofs of the safety properties of SessionStore, for any number of      *)
(* cookies, requests and sessions.                                         *)
(***************************************************************************)
EXTENDS SessionStore, FiniteSetTheorems, FunctionTheorems, WellFoundedInduction, TLAPS

States  == {"open", "broken", "closed"}
Session == [sid : Sids, state : States, tables : SUBSET Tables, pages : Nat]
Calls   == [at : {"body", "write"}, object : Handles]

InMap(i) == sessions[objects[i].sid] = i
InUse(i) == \E r \in Requests : req[r].object = i

Shapes ==
    /\ sessions \in [Sids -> {0} \cup Handles]
    /\ lastAccess \in [Sids -> 0..MaxCalls] /\ calls \in 0..MaxCalls /\ idle \subseteq Known
    /\ objects \in [Handles -> {NoObject} \cup Session]
    /\ dirs \in [Sids -> [exists : BOOLEAN, tables : SUBSET Tables, pages : Nat]]
    /\ req \in [Requests -> {NoCall} \cup Calls]
    /\ since \in [Sids -> SUBSET Sids] /\ expected \in [Sids -> SUBSET Tables]
    /\ misfiled \subseteq Sids

\* What the map and the requests refer to exists, and nothing else does.
RefInv ==
    /\ \A s \in Known : sessions[s] \in Live /\ objects[sessions[s]].sid = s
    /\ \A r \in Requests : req[r] # NoCall => req[r].object \in Live
    /\ \A i \in Live : InMap(i) \/ InUse(i)

\* The map is never fuller than MaxSessions.
CountInv == IsFiniteSet(Known) /\ Cardinality(Known) <= MaxSessions

\* No two sessions in the map were used at the same time.
AccessInv ==
    /\ \A s \in Known : lastAccess[s] <= calls
    /\ \A s, o \in Known : lastAccess[s] = lastAccess[o] => s = o

Inv == Shapes /\ RefInv /\ OpenIffKnown /\ CountInv /\ AccessInv

-----------------------------------------------------------------------------
(* Numbers.                                                                *)

\* A nonempty set of natural numbers has a least element.
LEMMA LeastExists ==
    ASSUME NEW T \in SUBSET Nat, T # {}
    PROVE  \E m \in T : \A n \in T : m <= n
  <1> DEFINE R == {ss \in Nat \X Nat : ss[1] < ss[2]}
  <1>1. IsWellFoundedOn(R, Nat)
    BY NatLessThanWellFounded DEF OpToRel
  <1>2. PICK m \in T : \A n \in T : ~ (<<n, m>> \in R)
    <2> HIDE DEF R
    <2>1. QED
      BY <1>1, WFMin
  <1>3. ASSUME NEW n \in T PROVE m <= n
    <2>1. n \in Nat /\ m \in Nat /\ (n < m => <<n, m>> \in R)
      OBVIOUS
    <2>2. QED
      BY <1>2, <2>1
  <1>4. QED
    BY <1>3

\* The constants.
LEMMA Constants ==
    /\ IsFiniteSet(Requests) /\ Cardinality(Requests) \in Nat
    /\ MaxSessions \in Nat /\ MaxSessions >= 1 /\ PageLimit \in Nat /\ PageLimit >= 1
    /\ MaxGrowth \in Nat /\ MaxCalls \in Nat
    /\ Handles \subseteq Nat /\ 0 \notin Handles /\ IsFiniteSet(Handles)
    /\ Cardinality(Handles) = MaxSessions + Cardinality(Requests)
  <1>1. /\ IsFiniteSet(Requests) /\ Cardinality(Requests) \in Nat
        /\ MaxSessions \in Nat /\ MaxSessions >= 1 /\ PageLimit \in Nat /\ PageLimit >= 1
        /\ MaxGrowth \in Nat /\ MaxCalls \in Nat
    BY SessionAssumption, FS_CardinalityType
  <1>2. MaxSessions + Cardinality(Requests) \in Nat /\ MaxSessions + Cardinality(Requests) >= 1
    BY <1>1
  <1>3. IsFiniteSet(Handles) /\ Cardinality(Handles) = MaxSessions + Cardinality(Requests)
    BY <1>2, FS_Interval DEF Handles
  <1>4. QED
    BY <1>1, <1>2, <1>3 DEF Handles

\* A root page is the least a database has.
LEMMA MaxFacts ==
    ASSUME NEW n \in Nat
    PROVE  Max({1, n}) \in Nat /\ (Max({1, n}) = 1 \/ Max({1, n}) = n)
  <1>1. \E x \in {1, n} : \A y \in {1, n} : x >= y
    OBVIOUS
  <1>2. QED
    BY <1>1 DEF Max

\* Sessions and what there is instead.
LEMMA SessionFacts ==
    ASSUME NEW o \in Session
    PROVE  /\ o # NoObject /\ o.sid \in Sids /\ o.state \in States
           /\ o.tables \subseteq Tables /\ o.pages \in Nat
           /\ \A t \in States : /\ [o EXCEPT !.state = t] \in Session
                                /\ [o EXCEPT !.state = t].sid = o.sid
                                /\ [o EXCEPT !.state = t].state = t
                                /\ [o EXCEPT !.state = t].tables = o.tables
                                /\ [o EXCEPT !.state = t].pages = o.pages
  <1>1. o.state # "none" /\ NoObject.state = "none"
    BY DEF Session, States, NoObject
  <1>2. QED
    BY <1>1 DEF Session

\* What the references of the map and of the requests are.
LEMMA RefFacts ==
    ASSUME Inv
    PROVE  /\ Live \subseteq Handles /\ 0 \notin Live
           /\ \A i \in Live : objects[i] \in Session /\ objects[i].sid \in Sids
           /\ \A i \in Handles \ Live : objects[i] = NoObject
           /\ \A s \in Sids : s \in Known <=> sessions[s] # 0
           /\ \A s \in Known : sessions[s] \in Live /\ objects[sessions[s]].sid = s
           /\ \A s, o \in Known : sessions[s] = sessions[o] => s = o
           /\ \A r \in Requests : \/ req[r] = NoCall /\ req[r].object = 0 /\ req[r].at = "idle"
                                  \/ req[r] \in Calls /\ req[r].object \in Live /\ req[r].at \in {"body", "write"}
           /\ \A i \in Live : InMap(i) => objects[i].sid \in Known
           /\ Known \subseteq Sids
  <1>1. Live \subseteq Handles /\ 0 \notin Live /\ \A i \in Live : objects[i] \in Session
    BY Constants DEF Inv, Shapes, Live
  <1>2. \A i \in Live : objects[i].sid \in Sids
    BY <1>1, SessionFacts
  <1>3. \A r \in Requests : \/ req[r] = NoCall
                            \/ req[r] \in Calls /\ req[r].object \in Live /\ req[r].at \in {"body", "write"}
    <2>1. ASSUME NEW r \in Requests, req[r] # NoCall
          PROVE  req[r] \in Calls /\ req[r].object \in Live /\ req[r].at \in {"body", "write"}
      BY <2>1 DEF Inv, Shapes, RefInv, Calls
    <2>2. QED
      BY <2>1
  <1>4. NoCall.object = 0 /\ NoCall.at = "idle"
    BY DEF NoCall
  <1>5. \A s \in Known : sessions[s] \in Live /\ objects[sessions[s]].sid = s
    BY DEF Inv, RefInv
  <1>6. \A i \in Live : InMap(i) => objects[i].sid \in Known
    BY <1>1, <1>2 DEF InMap, Known
  <1>7. QED
    BY <1>1, <1>2, <1>3, <1>4, <1>5, <1>6 DEF Known, Live

-----------------------------------------------------------------------------
(* Places for new sessions.                                                *)

\* evictLRULocked finds exactly one session when the map is full.
LEMMA VictimFacts ==
    ASSUME Inv
    PROVE  /\ Victims \subseteq Known
           /\ Cardinality(Known) < MaxSessions => Victims = {}
           /\ Cardinality(Known) >= MaxSessions => \E v \in Known : Victims = {v}
           /\ \A v \in Victims : /\ Cardinality(Known) >= MaxSessions
                                 /\ \A o \in Known \ {v} : lastAccess[v] < lastAccess[o]
  <1>1. Cardinality(Known) \in Nat /\ MaxSessions \in Nat /\ MaxSessions >= 1
    BY Constants, FS_CardinalityType DEF Inv, CountInv
  <1>2. \A s \in Known : lastAccess[s] \in Nat
    BY DEF Inv, Shapes, Known
  <1>3. \A s, o \in Known : lastAccess[s] = lastAccess[o] => s = o
    BY DEF Inv, AccessInv
  <1>4. CASE Cardinality(Known) < MaxSessions
    BY <1>1, <1>4 DEF Victims
  <1>5. CASE Cardinality(Known) >= MaxSessions
    <2>1. Known # {}
      BY <1>1, <1>5, FS_EmptySet
    <2> DEFINE T == {lastAccess[s] : s \in Known}
    <2>2. PICK m \in T : \A n \in T : m <= n
      <3>1. T \in SUBSET Nat /\ T # {}
        BY <1>2, <2>1
      <3> HIDE DEF T
      <3>2. QED
        BY <3>1, LeastExists
    <2>3. PICK v \in Known : lastAccess[v] = m
      OBVIOUS
    <2>4. \A o \in Known : lastAccess[v] <= lastAccess[o]
      BY <2>2, <2>3
    <2>5. Victims = Oldest(Known)
      BY <1>5 DEF Victims
    <2>6. \A o \in Oldest(Known) : o = v
      BY <1>2, <1>3, <2>4 DEF Oldest
    <2>7. v \in Oldest(Known)
      BY <2>4 DEF Oldest
    <2>8. Victims = {v}
      BY <2>5, <2>6, <2>7
    <2>9. \A o \in Known \ {v} : lastAccess[v] < lastAccess[o]
      BY <1>2, <1>3, <2>4
    <2>10. QED
      BY <1>1, <1>5, <2>8, <2>9
  <1>6. QED
    BY <1>1, <1>4, <1>5

\* As many session objects exist as the map and the requests refer to, so that a
\* request that waits for one finds a free number.
LEMMA FreeHandle ==
    ASSUME Inv, NEW r \in Requests, req[r].at = "idle"
    PROVE  Min(Handles \ Live) \in Handles \ Live
  <1> DEFINE f == [s \in Known |-> sessions[s]]
             g == [q \in Requests \ {r} |-> req[q].object]
             A == {sessions[s] : s \in Known}
             B == {req[q].object : q \in Requests \ {r}}
  <1>1. /\ IsFiniteSet(Known) /\ Cardinality(Known) \in Nat /\ Cardinality(Known) <= MaxSessions
        /\ MaxSessions \in Nat /\ Cardinality(Requests) \in Nat
    BY Constants, FS_CardinalityType DEF Inv, CountInv
  <1>2. IsFiniteSet(A) /\ Cardinality(A) <= Cardinality(Known) /\ Cardinality(A) \in Nat
    <2>1. f \in Surjection(Known, A)
      BY DEF Surjection
    <2>2. QED
      BY <1>1, <2>1, FS_Surjection, FS_CardinalityType
  <1>3. /\ IsFiniteSet(Requests \ {r})
        /\ Cardinality(Requests \ {r}) = Cardinality(Requests) - 1
    BY Constants, FS_RemoveElement
  <1>4. /\ IsFiniteSet(B) /\ Cardinality(B) <= Cardinality(Requests) - 1 /\ Cardinality(B) \in Nat
    <2>1. g \in Surjection(Requests \ {r}, B)
      BY DEF Surjection
    <2>2. QED
      BY <1>3, <2>1, FS_Surjection, FS_CardinalityType
  <1>5. Live \subseteq A \cup B
    <2>1. ASSUME NEW i \in Live PROVE i \in A \cup B
      <3>1. CASE InMap(i)
        <4>1. objects[i].sid \in Known /\ sessions[objects[i].sid] = i
          BY <3>1, RefFacts DEF InMap
        <4>2. QED
          BY <4>1
      <3>2. CASE InUse(i)
        <4>1. PICK q \in Requests : req[q].object = i
          BY <3>2 DEF InUse
        <4>2. q # r
          BY <4>1, RefFacts
        <4>3. QED
          BY <4>1, <4>2
      <3>3. QED
        BY <3>1, <3>2 DEF Inv, RefInv
    <2>2. QED
      BY <2>1
  <1> HIDE DEF A, B
  <1>6. IsFiniteSet(A \cup B) /\ Cardinality(A \cup B) <= Cardinality(A) + Cardinality(B)
        /\ Cardinality(A \cup B) \in Nat
    <2>1. /\ IsFiniteSet(A \cup B)
          /\ Cardinality(A \cup B) = Cardinality(A) + Cardinality(B) - Cardinality(A \cap B)
      BY <1>2, <1>4, FS_Union
    <2>2. Cardinality(A \cap B) \in Nat
      <3>1. A \cap B \in SUBSET A
        OBVIOUS
      <3>2. QED
        BY <1>2, <3>1, FS_Subset, FS_CardinalityType
    <2>3. QED
      BY <1>2, <1>4, <2>1, <2>2, FS_CardinalityType
  <1>7. IsFiniteSet(Live) /\ Cardinality(Live) <= Cardinality(A \cup B) /\ Cardinality(Live) \in Nat
    BY <1>5, <1>6, FS_Subset, FS_CardinalityType
  <1>8. Handles \ Live # {}
    <2>1. ASSUME Handles \ Live = {} PROVE FALSE
      <3>1. Live = Handles
        BY <2>1, RefFacts
      <3>2. Cardinality(Live) = MaxSessions + Cardinality(Requests)
        BY <3>1, Constants
      <3>3. QED
        BY <1>1, <1>2, <1>4, <1>6, <1>7, <3>2
    <2>2. QED
      BY <2>1
  <1>9. \E m \in Handles \ Live : \A n \in Handles \ Live : m <= n
    <2>1. Handles \ Live \in SUBSET Nat
      BY Constants
    <2>2. QED
      BY <1>8, <2>1, LeastExists
  <1>10. QED
    BY <1>9 DEF Min

-----------------------------------------------------------------------------
(* Sessions are removed.                                                   *)

\* The cookies of W lose their sessions and directories; Close fails for those
\* of T.  A directory can be made, empty or as it was.
Removal(W, T) ==
    /\ W \subseteq Sids /\ T \subseteq Known \ W
    /\ \A s \in W \cap Known : CanClose(s)
    /\ sessions' = [s \in Sids |-> IF s \in W THEN 0 ELSE sessions[s]]
    /\ lastAccess' = Without(W) /\ idle' = idle \ W
    /\ objects' = Marked(W, T)
    /\ expected' = Forgotten(W) /\ misfiled' = misfiled \ W
    /\ calls' \in {calls, calls + 1} /\ calls' <= MaxCalls
    /\ req' = req /\ since' = since
    /\ \E made \in SUBSET Sids :
         dirs' = [s \in Sids |-> [Deleted(W)[s] EXCEPT !.exists = @ \/ s \in made]]

\* evictLRULocked, reset and evictIdle are of that kind, and some failures.
LEMMA Removals ==
    ASSUME Inv
    PROVE  /\ \A s \in Sids : OpenFails(s) => Removal(Victims, {})
           /\ \A s \in Sids : EvictFails(s) => Removal({}, Victims)
           /\ \A s \in Sids : Reset(s) => Removal({s}, {})
           /\ \A s \in Sids : ResetFails(s) => Removal({}, {s})
           /\ EvictIdle => \E W, T : W \subseteq idle /\ Removal(W, T)
  <1>1. /\ Victims \subseteq Known /\ Known \subseteq Sids
        /\ sessions = [s \in Sids |-> sessions[s]] /\ lastAccess = [s \in Sids |-> lastAccess[s]]
        /\ dirs = [s \in Sids |-> dirs[s]] /\ expected = [s \in Sids |-> expected[s]]
        /\ calls \in Nat /\ MaxCalls \in Nat /\ idle \subseteq Known
        /\ \A s \in Sids : dirs[s] \in [exists : BOOLEAN, tables : SUBSET Tables, pages : Nat]
    BY VictimFacts, RefFacts, Constants DEF Inv, Shapes
  <1>2. /\ Without({}) = lastAccess /\ Forgotten({}) = expected /\ Deleted({}) = dirs
    BY <1>1 DEF Without, Forgotten, Deleted
  <1>3. \A W : \A s \in Sids : Deleted(W)[s] \in [exists : BOOLEAN, tables : SUBSET Tables, pages : Nat]
    BY <1>1 DEF Deleted, NoDir
  <1>4. \A W : Deleted(W) = [s \in Sids |-> [Deleted(W)[s] EXCEPT !.exists = @ \/ s \in {}]]
    <2>1. \A W : Deleted(W) = [s \in Sids |-> Deleted(W)[s]]
      BY DEF Deleted
    <2>2. ASSUME NEW d \in [exists : BOOLEAN, tables : SUBSET Tables, pages : Nat]
          PROVE  d = [d EXCEPT !.exists = @ \/ FALSE]
      OBVIOUS
    <2>3. QED
      BY <1>3, <2>1, <2>2
  <1> DEFINE Made(W) == \E made \in SUBSET Sids :
               dirs' = [s \in Sids |-> [Deleted(W)[s] EXCEPT !.exists = @ \/ s \in made]]
  <1>11. \A W : dirs' = Deleted(W) => Made(W)
    <2>1. {} \in SUBSET Sids
      OBVIOUS
    <2>2. QED
      BY <1>4, <2>1
  <1>5. ASSUME NEW s \in Sids, OpenFails(s) PROVE Removal(Victims, {})
    <2>1. dirs' = [o \in Sids |-> [Deleted(Victims)[o] EXCEPT !.exists = @ \/ o \in {s}]]
      <3>1. dirs' = [Deleted(Victims) EXCEPT ![s].exists = TRUE]
        BY <1>5 DEF OpenFails
      <3>2. DOMAIN Deleted(Victims) = Sids /\ Deleted(Victims) = [o \in Sids |-> Deleted(Victims)[o]]
        BY DEF Deleted
      <3>3. \A o \in Sids : dirs'[o] = IF o = s THEN [Deleted(Victims)[o] EXCEPT !.exists = TRUE]
                                       ELSE Deleted(Victims)[o]
        BY <3>1, <3>2
      <3>4. \A o \in Sids : dirs'[o] = [Deleted(Victims)[o] EXCEPT !.exists = @ \/ o \in {s}]
        <4>1. ASSUME NEW d \in [exists : BOOLEAN, tables : SUBSET Tables, pages : Nat]
              PROVE  d = [d EXCEPT !.exists = @ \/ FALSE]
                     /\ [d EXCEPT !.exists = TRUE] = [d EXCEPT !.exists = @ \/ TRUE]
          OBVIOUS
        <4>2. QED
          BY <1>3, <3>3, <4>1
      <3>5. dirs' = [o \in Sids |-> dirs'[o]]
        BY <3>1, <3>2
      <3>6. QED
        BY <3>4, <3>5
    <2>2. Made(Victims)
      <3>1. {s} \in SUBSET Sids
        OBVIOUS
      <3>2. QED
        BY <2>1, <3>1
    <2> HIDE DEF Made
    <2>3. \A v \in Victims \cap Known : CanClose(v)
      BY <1>5 DEF OpenFails
    <2>4. calls' \in {calls, calls + 1} /\ calls' <= MaxCalls /\ req' = req /\ since' = since
      BY <1>1, <1>5 DEF OpenFails
    <2>5. /\ sessions' = [o \in Sids |-> IF o \in Victims THEN 0 ELSE sessions[o]]
          /\ lastAccess' = Without(Victims) /\ idle' = idle \ Victims
          /\ objects' = Marked(Victims, {})
          /\ expected' = Forgotten(Victims) /\ misfiled' = misfiled \ Victims
      BY <1>5 DEF OpenFails
    <2>6. QED
      BY <1>1, <2>2, <2>3, <2>4, <2>5 DEF Removal, Made
  <1>6. ASSUME NEW s \in Sids, EvictFails(s) PROVE Removal({}, Victims)
    <2>1. Made({})
      BY <1>2, <1>6, <1>11 DEF EvictFails
    <2> HIDE DEF Made
    <2>2. calls' \in {calls, calls + 1} /\ calls' <= MaxCalls /\ req' = req /\ since' = since
      BY <1>1, <1>6 DEF EvictFails
    <2>3. /\ sessions' = [o \in Sids |-> IF o \in {} THEN 0 ELSE sessions[o]]
          /\ lastAccess' = Without({}) /\ idle' = idle \ {}
          /\ objects' = Marked({}, Victims)
          /\ expected' = Forgotten({}) /\ misfiled' = misfiled \ {}
      BY <1>1, <1>2, <1>6 DEF EvictFails
    <2>4. QED
      BY <1>1, <2>1, <2>2, <2>3 DEF Removal, Made
  <1>7. ASSUME NEW s \in Sids, Reset(s) PROVE Removal({s}, {})
    <2>1. Marked({s} \cap Known, {}) = Marked({s}, {})
      BY RefFacts, Constants DEF Marked, Known
    <2>2. Made({s})
      BY <1>7, <1>11 DEF Reset
    <2> HIDE DEF Made
    <2>3. calls' \in {calls, calls + 1} /\ calls' <= MaxCalls /\ req' = req /\ since' = since
      BY <1>1, <1>7 DEF Reset
    <2>4. sessions' = [o \in Sids |-> IF o \in {s} THEN 0 ELSE sessions[o]]
      BY <1>1, <1>7 DEF Reset
    <2>5. /\ lastAccess' = Without({s}) /\ idle' = idle \ {s}
          /\ objects' = Marked({s}, {})
          /\ expected' = Forgotten({s}) /\ misfiled' = misfiled \ {s}
          /\ \A v \in {s} \cap Known : CanClose(v)
      BY <1>7, <2>1 DEF Reset
    <2>6. QED
      BY <1>1, <2>2, <2>3, <2>4, <2>5 DEF Removal, Made
  <1>8. ASSUME NEW s \in Sids, ResetFails(s) PROVE Removal({}, {s})
    <2>1. Made({})
      BY <1>2, <1>8, <1>11 DEF ResetFails
    <2> HIDE DEF Made
    <2>2. calls' \in {calls, calls + 1} /\ calls' <= MaxCalls /\ req' = req /\ since' = since
      BY <1>1, <1>8 DEF ResetFails
    <2>3. /\ sessions' = [o \in Sids |-> IF o \in {} THEN 0 ELSE sessions[o]]
          /\ lastAccess' = Without({}) /\ idle' = idle \ {}
          /\ objects' = Marked({}, {s})
          /\ expected' = Forgotten({}) /\ misfiled' = misfiled \ {}
          /\ {s} \subseteq Known \ {}
      BY <1>1, <1>2, <1>8 DEF ResetFails
    <2>4. QED
      BY <1>1, <2>1, <2>2, <2>3 DEF Removal, Made
  <1>9. ASSUME EvictIdle PROVE \E W, T : W \subseteq idle /\ Removal(W, T)
    <2>1. PICK failing \in SUBSET Evictable :
            LET gone == Evictable \ failing
            IN /\ failing # {} => "closeError" \in Faults
               /\ sessions' = [s \in Sids |-> IF s \in gone THEN 0 ELSE sessions[s]]
               /\ lastAccess' = Without(gone)
               /\ idle' = idle \ gone
               /\ objects' = Marked(gone, failing)
               /\ dirs' = Deleted(gone)
               /\ expected' = Forgotten(gone) /\ misfiled' = misfiled \ gone
      BY <1>9 DEF EvictIdle
    <2>2. UNCHANGED <<req, calls, since>> /\ calls <= MaxCalls
      BY <1>9 DEF EvictIdle, Inv, Shapes
    <2>3. PICK W : W = Evictable \ failing
      OBVIOUS
    <2>4. Made(W)
      <3>1. dirs' = Deleted(W)
        BY <2>1, <2>3
      <3> HIDE DEF Made
      <3>2. QED
        BY <1>11, <3>1
    <2> HIDE DEF Made
    <2>5. /\ sessions' = [s \in Sids |-> IF s \in W THEN 0 ELSE sessions[s]]
          /\ lastAccess' = Without(W) /\ idle' = idle \ W
          /\ objects' = Marked(W, failing)
          /\ expected' = Forgotten(W) /\ misfiled' = misfiled \ W
      BY <2>1, <2>3
    <2>6. W \subseteq idle /\ W \subseteq Sids /\ failing \subseteq Known \ W /\ \A s \in W \cap Known : CanClose(s)
      BY <1>1, <2>3 DEF Evictable
    <2>7. Removal(W, failing)
      BY <1>1, <2>2, <2>4, <2>5, <2>6 DEF Removal, Made
    <2>8. QED
      BY <2>6, <2>7
  <1>10. QED
    BY <1>5, <1>6, <1>7, <1>8, <1>9

\* Only the sessions of W that no request uses cease to exist; those that are
\* used are closed, those of T broken.
MarkedAs(M, W, T) ==
    /\ M \in [Handles -> {NoObject} \cup Session]
    /\ \A i \in Handles \ Live : M[i] = NoObject
    /\ \A i \in Live : M[i] = NoObject <=> InMap(i) /\ objects[i].sid \in W /\ ~InUse(i)
    /\ \A i \in Live : M[i] # NoObject =>
         /\ M[i].sid = objects[i].sid /\ M[i].tables = objects[i].tables
         /\ M[i].pages = objects[i].pages
         /\ M[i].state = IF InMap(i) /\ objects[i].sid \in W THEN "closed"
                         ELSE IF InMap(i) /\ objects[i].sid \in T THEN "broken"
                         ELSE objects[i].state

\* evictLocked does what MarkedAs says to the session objects.
LEMMA MarkedFacts ==
    ASSUME Inv, NEW W \in SUBSET Sids, NEW T \in SUBSET (Known \ W), NEW M, M = Marked(W, T)
    PROVE  MarkedAs(M, W, T)
  <1>1. \A i \in Handles : M[i] =
          IF \E s \in W : sessions[s] = i
          THEN IF InUse(i) THEN [objects[i] EXCEPT !.state = "closed"] ELSE NoObject
          ELSE IF \E s \in T : sessions[s] = i THEN [objects[i] EXCEPT !.state = "broken"] ELSE objects[i]
    BY DEF Marked, InUse
  <1>2. M = [i \in Handles |-> M[i]]
    BY DEF Marked
  <1>3. ASSUME NEW S \in SUBSET Sids, NEW i \in Handles
        PROVE  (\E s \in S : sessions[s] = i) <=> i \in Live /\ InMap(i) /\ objects[i].sid \in S
    <2>1. ASSUME NEW s \in S, sessions[s] = i
          PROVE  i \in Live /\ InMap(i) /\ objects[i].sid \in S
      <3>1. s \in Known
        BY <2>1, Constants DEF Known
      <3>2. QED
        BY <2>1, <3>1, RefFacts DEF InMap
    <2>2. QED
      BY <2>1 DEF InMap
  <1>4. T \in SUBSET Sids /\ W \in SUBSET Sids
    BY DEF Known
  <1>5. ASSUME NEW i \in Live
        PROVE  M[i] = IF InMap(i) /\ objects[i].sid \in W
                      THEN IF InUse(i) THEN [objects[i] EXCEPT !.state = "closed"] ELSE NoObject
                      ELSE IF InMap(i) /\ objects[i].sid \in T THEN [objects[i] EXCEPT !.state = "broken"]
                      ELSE objects[i]
    <2>1. i \in Handles
      BY DEF Live
    <2>2. QED
      BY <1>1, <1>3, <1>4, <2>1
  <1>6. ASSUME NEW i \in Handles \ Live PROVE M[i] = NoObject
    <2>1. objects[i] = NoObject
      BY RefFacts
    <2>2. QED
      BY <1>1, <1>3, <1>4, <2>1
  <1>7. ASSUME NEW i \in Live
        PROVE  /\ objects[i] \in Session /\ objects[i] # NoObject
               /\ \A t \in {"closed", "broken"} :
                    /\ [objects[i] EXCEPT !.state = t] \in Session
                    /\ [objects[i] EXCEPT !.state = t] # NoObject
                    /\ [objects[i] EXCEPT !.state = t].sid = objects[i].sid
                    /\ [objects[i] EXCEPT !.state = t].state = t
                    /\ [objects[i] EXCEPT !.state = t].tables = objects[i].tables
                    /\ [objects[i] EXCEPT !.state = t].pages = objects[i].pages
    <2>1. objects[i] \in Session
      BY RefFacts
    <2>2. objects[i] # NoObject
      BY <2>1, SessionFacts
    <2>3. ASSUME NEW t \in {"closed", "broken"}
          PROVE  /\ [objects[i] EXCEPT !.state = t] \in Session
                 /\ [objects[i] EXCEPT !.state = t] # NoObject
                 /\ [objects[i] EXCEPT !.state = t].sid = objects[i].sid
                 /\ [objects[i] EXCEPT !.state = t].state = t
                 /\ [objects[i] EXCEPT !.state = t].tables = objects[i].tables
                 /\ [objects[i] EXCEPT !.state = t].pages = objects[i].pages
      <3>1. t \in States
        BY DEF States
      <3>2. PICK o : o = [objects[i] EXCEPT !.state = t]
        OBVIOUS
      <3>3. /\ o \in Session /\ o.sid = objects[i].sid /\ o.state = t
            /\ o.tables = objects[i].tables /\ o.pages = objects[i].pages
        BY <2>1, <3>1, <3>2, SessionFacts
      <3>4. o # NoObject
        BY <3>3, SessionFacts
      <3>5. QED
        BY <3>2, <3>3, <3>4
    <2>4. QED
      BY <2>1, <2>2, <2>3
  <1>8. ASSUME NEW i \in Live
        PROVE  /\ M[i] \in {NoObject} \cup Session
               /\ M[i] = NoObject <=> InMap(i) /\ objects[i].sid \in W /\ ~InUse(i)
               /\ M[i] # NoObject =>
                    /\ M[i].sid = objects[i].sid /\ M[i].tables = objects[i].tables
                    /\ M[i].pages = objects[i].pages
                    /\ M[i].state = IF InMap(i) /\ objects[i].sid \in W THEN "closed"
                                    ELSE IF InMap(i) /\ objects[i].sid \in T THEN "broken"
                                    ELSE objects[i].state
    <2>1. CASE InMap(i) /\ objects[i].sid \in W /\ InUse(i)
      <3>1. PICK o : o = [objects[i] EXCEPT !.state = "closed"]
        OBVIOUS
      <3>2. M[i] = o
        BY <1>5, <2>1, <3>1
      <3>3. /\ o \in Session /\ o # NoObject /\ o.sid = objects[i].sid /\ o.state = "closed"
            /\ o.tables = objects[i].tables /\ o.pages = objects[i].pages
        BY <1>7, <3>1
      <3>4. QED
        BY <2>1, <3>2, <3>3
    <2>2. CASE InMap(i) /\ objects[i].sid \in W /\ ~InUse(i)
      BY <1>5, <2>2
    <2>3. CASE ~(InMap(i) /\ objects[i].sid \in W) /\ InMap(i) /\ objects[i].sid \in T
      <3>1. PICK o : o = [objects[i] EXCEPT !.state = "broken"]
        OBVIOUS
      <3>2. M[i] = o
        BY <1>5, <2>3, <3>1
      <3>3. /\ o \in Session /\ o # NoObject /\ o.sid = objects[i].sid /\ o.state = "broken"
            /\ o.tables = objects[i].tables /\ o.pages = objects[i].pages
        BY <1>7, <3>1
      <3>4. QED
        BY <2>3, <3>2, <3>3
    <2>4. CASE ~(InMap(i) /\ objects[i].sid \in W) /\ ~(InMap(i) /\ objects[i].sid \in T)
      BY <1>5, <1>7, <2>4
    <2>5. QED
      BY <2>1, <2>2, <2>3, <2>4
  <1>9. QED
    BY <1>2, <1>6, <1>8 DEF MarkedAs

\* The map, the objects and the directories agree after a removal.
LEMMA RemovalStep ==
    ASSUME Inv, NEW W, NEW T, Removal(W, T) PROVE Inv'
  <1>1. /\ W \in SUBSET Sids /\ T \in SUBSET (Known \ W) /\ Known \subseteq Sids /\ req' = req
        /\ \A s \in Sids : sessions'[s] = IF s \in W THEN 0 ELSE sessions[s]
        /\ objects' = Marked(W, T)
    BY RefFacts DEF Removal
  <1>2. /\ objects' \in [Handles -> {NoObject} \cup Session]
        /\ \A i \in Handles \ Live : objects'[i] = NoObject
        /\ \A i \in Live : objects'[i] = NoObject <=> InMap(i) /\ objects[i].sid \in W /\ ~InUse(i)
        /\ \A i \in Live : objects'[i] # NoObject =>
             /\ objects'[i].sid = objects[i].sid /\ objects'[i].tables = objects[i].tables
             /\ objects'[i].pages = objects[i].pages
             /\ objects'[i].state = IF InMap(i) /\ objects[i].sid \in W THEN "closed"
                                    ELSE IF InMap(i) /\ objects[i].sid \in T THEN "broken"
                                    ELSE objects[i].state
    <2>1. PICK M : M = Marked(W, T)
      OBVIOUS
    <2>2. objects' = M
      BY <1>1, <2>1
    <2>3. QED
      <3>1. MarkedAs(M, W, T)
        BY <1>1, <2>1, MarkedFacts
      <3>2. QED
        BY <2>2, <3>1 DEF MarkedAs
  <1>3. Known' = Known \ W /\ \A s \in Known' : sessions'[s] = sessions[s]
    BY <1>1 DEF Known
  <1>4. /\ Live' \subseteq Live /\ \A i \in Live : i \in Live' <=> objects'[i] # NoObject
        /\ \A i \in Live : i \in Handles /\ (i \in Live' => objects'[i] # NoObject)
    BY <1>2 DEF Live
  <1>5. \A i \in Live' : objects'[i].sid = objects[i].sid /\ objects[i].sid \in Sids
    BY <1>2, <1>4, RefFacts
  <1>6. Shapes'
    <2>1. sessions' \in [Sids -> {0} \cup Handles]
      BY <1>1 DEF Inv, Shapes, Removal
    <2>2. lastAccess' \in [Sids -> 0..MaxCalls] /\ calls' \in 0..MaxCalls /\ idle' \subseteq Known'
      BY <1>3, Constants DEF Inv, Shapes, Removal, Without
    <2>3. dirs' \in [Sids -> [exists : BOOLEAN, tables : SUBSET Tables, pages : Nat]]
      <3>1. PICK made \in SUBSET Sids :
              dirs' = [s \in Sids |-> [Deleted(W)[s] EXCEPT !.exists = @ \/ s \in made]]
        BY DEF Removal
      <3>2. \A s \in Sids : Deleted(W)[s] \in [exists : BOOLEAN, tables : SUBSET Tables, pages : Nat]
        BY DEF Inv, Shapes, Deleted, NoDir
      <3>3. ASSUME NEW d \in [exists : BOOLEAN, tables : SUBSET Tables, pages : Nat], NEW e \in BOOLEAN
            PROVE  [d EXCEPT !.exists = @ \/ e] \in [exists : BOOLEAN, tables : SUBSET Tables, pages : Nat]
        OBVIOUS
      <3>4. QED
        BY <3>1, <3>2, <3>3
    <2>4. /\ req' \in [Requests -> {NoCall} \cup Calls]
          /\ since' \in [Sids -> SUBSET Sids] /\ expected' \in [Sids -> SUBSET Tables]
          /\ misfiled' \subseteq Sids
      BY <1>1 DEF Inv, Shapes, Removal, Forgotten
    <2>5. QED
      BY <1>2, <2>1, <2>2, <2>3, <2>4 DEF Shapes
  <1>7. RefInv'
    <2>1. ASSUME NEW s \in Known' PROVE (sessions[s] \in Live /\ objects[sessions[s]].sid = s)'
      <3>1. s \in Known /\ s \notin W /\ sessions'[s] = sessions[s] /\ sessions[s] \in Live /\ objects[sessions[s]].sid = s
        BY <1>3, RefFacts
      <3>2. QED
        BY <1>2, <1>4, <1>5, <3>1
    <2>2. ASSUME NEW r \in Requests, req'[r] # NoCall PROVE req'[r].object \in Live'
      <3>1. req[r] # NoCall /\ req[r].object \in Live /\ InUse(req[r].object)
        BY <1>1, <2>2 DEF Inv, RefInv, InUse
      <3>2. QED
        BY <1>1, <1>2, <1>4, <3>1
    <2>3. ASSUME NEW i \in Live' PROVE (InMap(i) \/ InUse(i))'
      <3>1. i \in Live /\ objects'[i] # NoObject
        BY <1>4
      <3>2. CASE InUse(i)
        BY <1>1, <3>2 DEF InUse
      <3>3. CASE ~InUse(i)
        <4>1. InMap(i)
          BY <3>1, <3>3 DEF Inv, RefInv
        <4>2. objects[i].sid \notin W
          BY <1>2, <3>1, <3>3, <4>1
        <4>3. sessions'[objects'[i].sid] = i
          BY <1>1, <1>5, <4>1, <4>2 DEF InMap
        <4>4. QED
          BY <4>3 DEF InMap
      <3>4. QED
        BY <3>2, <3>3
    <2>4. QED
      BY <2>1, <2>2, <2>3 DEF RefInv
  <1>8. OpenIffKnown'
    <2>1. ASSUME NEW i \in Live'
          PROVE  /\ objects'[i].state = "closed" <=> sessions'[objects'[i].sid] # i
                 /\ sessions'[objects'[i].sid] = i => dirs'[objects'[i].sid].exists
      <3>1. /\ i \in Live /\ objects'[i] # NoObject /\ objects'[i].sid = objects[i].sid
            /\ objects[i].sid \in Sids /\ i # 0
        BY <1>4, <1>5, RefFacts
      <3>2. /\ objects[i].state = "closed" <=> ~InMap(i)
            /\ InMap(i) => dirs[objects[i].sid].exists
        BY <3>1 DEF Inv, OpenIffKnown, InMap
      <3>3. objects'[i].state = "closed" <=> sessions'[objects'[i].sid] # i
        BY <1>1, <1>2, <3>1, <3>2 DEF InMap
      <3>4. ASSUME sessions'[objects'[i].sid] = i PROVE dirs'[objects'[i].sid].exists
        <4>1. objects[i].sid \notin W /\ dirs[objects[i].sid].exists
          BY <1>1, <3>1, <3>2, <3>4 DEF InMap
        <4>2. PICK d : d = dirs[objects[i].sid]
          OBVIOUS
        <4>3. d \in [exists : BOOLEAN, tables : SUBSET Tables, pages : Nat] /\ d.exists
          BY <3>1, <4>1, <4>2 DEF Inv, Shapes
        <4>4. \E e \in BOOLEAN : dirs'[objects[i].sid] = [d EXCEPT !.exists = @ \/ e]
          BY <3>1, <4>1, <4>2 DEF Removal, Deleted
        <4>5. QED
          BY <3>1, <4>3, <4>4
      <3>5. QED
        BY <3>3, <3>4
    <2>2. QED
      BY <2>1 DEF OpenIffKnown
  <1>9. CountInv'
    <2>1. Known' \in SUBSET Known /\ IsFiniteSet(Known) /\ Cardinality(Known) <= MaxSessions
      BY <1>3 DEF Inv, CountInv
    <2>2. IsFiniteSet(Known') /\ Cardinality(Known') <= Cardinality(Known)
      BY <2>1, FS_Subset
    <2>3. Cardinality(Known) \in Nat /\ Cardinality(Known') \in Nat
      BY <2>1, <2>2, FS_CardinalityType
    <2>4. QED
      BY <2>1, <2>2, <2>3, Constants DEF CountInv
  <1>10. AccessInv'
    <2>1. \A s \in Known' : s \in Known /\ lastAccess'[s] = lastAccess[s] /\ lastAccess[s] \in Nat
      BY <1>1, <1>3 DEF Removal, Without, Inv, Shapes
    <2>2. calls \in Nat /\ calls' >= calls /\ calls' \in Nat
      BY DEF Removal, Inv, Shapes
    <2>3. QED
      BY <2>1, <2>2 DEF Inv, AccessInv
  <1>11. QED
    BY <1>6, <1>7, <1>8, <1>9, <1>10 DEF Inv

-----------------------------------------------------------------------------
(* Sessions are opened and used.                                           *)

\* What getOrCreate does to the map and the objects: a new object n, opened for
\* cookie s, and perhaps a victim less.
LEMMA CreateFacts ==
    ASSUME Inv, NEW r \in Requests, NEW s \in Sids, Create(r, s)
    PROVE  \E n \in Handles \ Live :
             /\ n # 0 /\ s \notin Known /\ s \notin Victims /\ req[r] = NoCall
             /\ sessions' = [o \in Sids |-> IF o \in Victims THEN 0 ELSE IF o = s THEN n ELSE sessions[o]]
             /\ req' = [req EXCEPT ![r] = [at |-> "body", object |-> n]]
             /\ \E M : /\ MarkedAs(M, Victims, {})
                       /\ objects' = [i \in Handles |-> IF i = n THEN Opened(s) ELSE M[i]]
             /\ Opened(s) \in Session /\ Opened(s).sid = s /\ Opened(s).state = "open"
             /\ Opened(s).tables = dirs[s].tables
             /\ Opened(s).pages \in {1, dirs[s].pages}
             /\ \A o \in Sids :
                  /\ dirs'[o].exists = (o = s \/ (o \notin Victims /\ dirs[o].exists))
                  /\ dirs'[o].tables = IF o \in Victims THEN {} ELSE dirs[o].tables
                  /\ dirs'[o].pages = IF o = s THEN Opened(s).pages
                                      ELSE IF o \in Victims THEN 0 ELSE dirs[o].pages
                  /\ dirs'[o] \in [exists : BOOLEAN, tables : SUBSET Tables, pages : Nat]
             /\ DOMAIN dirs' = Sids /\ dirs' = [o \in Sids |-> dirs'[o]]
  <1>1. /\ s \notin Known /\ Victims \subseteq Known /\ Known \subseteq Sids
        /\ req[r] = NoCall /\ req[r].at = "idle"
    BY VictimFacts, RefFacts DEF Create, Serve
  <1>2. PICK n : n = Min(Handles \ Live)
    OBVIOUS
  <1>3. n \in Handles \ Live /\ n # 0
    BY <1>1, <1>2, FreeHandle, Constants
  <1>4. PICK M : M = Marked(Victims, {})
    OBVIOUS
  <1>5. MarkedAs(M, Victims, {})
    BY <1>1, <1>4, MarkedFacts
  <1>6. objects' = [i \in Handles |-> IF i = n THEN Opened(s) ELSE M[i]]
    <2>1. objects' = [M EXCEPT ![n] = Opened(s)]
      BY <1>2, <1>4 DEF Create
    <2>2. M \in [Handles -> {NoObject} \cup Session]
      BY <1>5 DEF MarkedAs
    <2>3. QED
      BY <2>1, <2>2
  <1>7. dirs[s] \in [exists : BOOLEAN, tables : SUBSET Tables, pages : Nat]
    BY DEF Inv, Shapes
  <1>8. /\ Opened(s) \in Session /\ Opened(s).sid = s /\ Opened(s).state = "open"
        /\ Opened(s).tables = dirs[s].tables
        /\ Opened(s).pages \in {1, dirs[s].pages} /\ Opened(s).pages \in Nat
    BY <1>7, MaxFacts DEF Opened, Session, States
  <1>9. /\ req' = [req EXCEPT ![r] = [at |-> "body", object |-> n]]
        /\ sessions' = [o \in Sids |-> IF o \in Victims THEN 0 ELSE IF o = s THEN n ELSE sessions[o]]
    BY <1>2 DEF Create, Serve
  <1>10. PICK D : D = Deleted(Victims)
    OBVIOUS
  <1>11. /\ \A o \in Sids : D[o] \in [exists : BOOLEAN, tables : SUBSET Tables, pages : Nat]
         /\ \A o \in Sids : D[o] = IF o \in Victims THEN NoDir ELSE dirs[o]
         /\ D = [o \in Sids |-> D[o]] /\ s \notin Victims
    BY <1>1, <1>10 DEF Deleted, Inv, Shapes, NoDir
  <1>12. dirs' = [D EXCEPT ![s].exists = TRUE, ![s].pages = Opened(s).pages]
    BY <1>10 DEF Create
  <1>13. dirs' = [o \in Sids |-> IF o = s THEN [D[s] EXCEPT !.exists = TRUE, !.pages = Opened(s).pages] ELSE D[o]]
    BY <1>11, <1>12
  <1>14. PICK e : e = [D[s] EXCEPT !.exists = TRUE, !.pages = Opened(s).pages]
    OBVIOUS
  <1>15. /\ e \in [exists : BOOLEAN, tables : SUBSET Tables, pages : Nat]
         /\ e.exists = TRUE /\ e.tables = dirs[s].tables /\ e.pages = Opened(s).pages
    BY <1>8, <1>11, <1>14
  <1>16. NoDir.exists = FALSE /\ NoDir.tables = {} /\ NoDir.pages = 0
    BY DEF NoDir
  <1>17. ASSUME NEW o \in Sids
         PROVE  /\ dirs'[o].exists = (o = s \/ (o \notin Victims /\ dirs[o].exists))
                /\ dirs'[o].tables = IF o \in Victims THEN {} ELSE dirs[o].tables
                /\ dirs'[o].pages = IF o = s THEN Opened(s).pages
                                    ELSE IF o \in Victims THEN 0 ELSE dirs[o].pages
                /\ dirs'[o] \in [exists : BOOLEAN, tables : SUBSET Tables, pages : Nat]
    <2>1. CASE o = s
      BY <1>11, <1>13, <1>14, <1>15, <2>1
    <2>2. CASE o # s /\ o \in Victims
      BY <1>11, <1>13, <1>16, <2>2
    <2>3. CASE o # s /\ o \notin Victims
      <3>1. dirs'[o] = dirs[o] /\ dirs[o].exists \in BOOLEAN
        BY <1>11, <1>13, <2>3 DEF Inv, Shapes
      <3>2. QED
        BY <1>11, <1>13, <2>3, <3>1
    <2>4. QED
      BY <2>1, <2>2, <2>3
  <1>18. DOMAIN dirs' = Sids /\ dirs' = [o \in Sids |-> dirs'[o]]
    BY <1>13
  <1>19. \E N : /\ MarkedAs(N, Victims, {})
               /\ objects' = [i \in Handles |-> IF i = n THEN Opened(s) ELSE N[i]]
    BY <1>5, <1>6
  <1>20. /\ n # 0 /\ s \notin Known /\ s \notin Victims /\ req[r] = NoCall
    BY <1>1, <1>3, <1>11
  <1>21. QED
    BY <1>3, <1>8, <1>9, <1>17, <1>18, <1>19, <1>20

\* The map, the objects and the directories agree after a session was opened.
LEMMA CreateStep ==
    ASSUME Inv, NEW r \in Requests, NEW s \in Sids, Create(r, s) PROVE Inv'
  <1>1. PICK n, M :
          /\ n \in Handles \ Live
          /\ n # 0 /\ s \notin Known /\ s \notin Victims /\ req[r] = NoCall
          /\ sessions' = [o \in Sids |-> IF o \in Victims THEN 0 ELSE IF o = s THEN n ELSE sessions[o]]
          /\ req' = [req EXCEPT ![r] = [at |-> "body", object |-> n]]
          /\ MarkedAs(M, Victims, {})
          /\ objects' = [i \in Handles |-> IF i = n THEN Opened(s) ELSE M[i]]
          /\ Opened(s) \in Session /\ Opened(s).sid = s /\ Opened(s).state = "open"
          /\ \A o \in Sids :
               /\ dirs'[o].exists = (o = s \/ (o \notin Victims /\ dirs[o].exists))
               /\ dirs'[o] \in [exists : BOOLEAN, tables : SUBSET Tables, pages : Nat]
          /\ DOMAIN dirs' = Sids /\ dirs' = [o \in Sids |-> dirs'[o]]
    BY CreateFacts
  <1>2. /\ Victims \subseteq Known /\ Known \subseteq Sids /\ n \notin Live /\ n \in Handles
        /\ NoObject \notin Session
    BY <1>1, VictimFacts, RefFacts, SessionFacts
  <1>3. /\ M \in [Handles -> {NoObject} \cup Session]
        /\ \A i \in Handles \ Live : M[i] = NoObject
        /\ \A i \in Live : M[i] = NoObject <=> InMap(i) /\ objects[i].sid \in Victims /\ ~InUse(i)
        /\ \A i \in Live : M[i] # NoObject =>
             /\ M[i].sid = objects[i].sid
             /\ M[i].state = IF InMap(i) /\ objects[i].sid \in Victims THEN "closed"
                             ELSE objects[i].state
    BY <1>1 DEF MarkedAs
  <1>4. /\ \A i \in Handles : objects'[i] = IF i = n THEN Opened(s) ELSE M[i]
        /\ objects'[n] = Opened(s) /\ \A i \in Live : i # n /\ objects'[i] = M[i]
    BY <1>1, <1>2 DEF Live
  <1>5. Known' = (Known \ Victims) \cup {s}
    BY <1>1, <1>2 DEF Known
  <1>6. /\ \A i \in Handles : i \in Live' <=> i = n \/ (i \in Live /\ M[i] # NoObject)
        /\ Live' \subseteq Handles
    BY <1>1, <1>2, <1>3, <1>4 DEF Live
  <1>7. /\ sessions'[s] = n
        /\ \A o \in Sids : o # s => sessions'[o] = IF o \in Victims THEN 0 ELSE sessions[o]
    BY <1>1
  <1>8. Shapes'
    <2>1. sessions' \in [Sids -> {0} \cup Handles]
      BY <1>1 DEF Inv, Shapes
    <2>2. calls' = calls + 1 /\ calls' \in 0..MaxCalls /\ calls + 1 \in 0..MaxCalls
      BY Constants DEF Create, Serve, Inv, Shapes
    <2>3. lastAccess' \in [Sids -> 0..MaxCalls] /\ idle' \subseteq Known'
      BY <1>5, <2>2, Constants DEF Create, Inv, Shapes, Without
    <2>4. objects' \in [Handles -> {NoObject} \cup Session]
      BY <1>1, <1>3
    <2>5. dirs' \in [Sids -> [exists : BOOLEAN, tables : SUBSET Tables, pages : Nat]]
      <3>1. PICK d : d = dirs'
        OBVIOUS
      <3>2. d = [o \in Sids |-> d[o]] /\ \A o \in Sids : d[o] \in [exists : BOOLEAN, tables : SUBSET Tables, pages : Nat]
        BY <1>1, <3>1
      <3>3. QED
        BY <3>1, <3>2
    <2>6. req' \in [Requests -> {NoCall} \cup Calls]
      BY <1>1, <1>2 DEF Inv, Shapes, Calls
    <2>7. /\ since' \in [Sids -> SUBSET Sids] /\ expected' \in [Sids -> SUBSET Tables]
          /\ misfiled' \subseteq Sids
      BY DEF Create, Inv, Shapes, Used, Forgotten
    <2>8. QED
      BY <2>1, <2>2, <2>3, <2>4, <2>5, <2>6, <2>7 DEF Shapes
  <1>9. /\ req'[r] = [at |-> "body", object |-> n] /\ req'[r].object = n
        /\ \A q \in Requests \ {r} : req'[q] = req[q]
    BY <1>1 DEF Inv, Shapes
  <1>10. RefInv'
    <2>1. ASSUME NEW o \in Known' PROVE (sessions[o] \in Live /\ objects[sessions[o]].sid = o)'
      <3>1. CASE o = s
        BY <1>1, <1>2, <1>4, <1>6, <1>7, <3>1
      <3>2. CASE o # s
        <4>1. o \in Known /\ o \notin Victims /\ sessions'[o] = sessions[o]
              /\ sessions[o] \in Live /\ objects[sessions[o]].sid = o
          BY <1>2, <1>5, <1>7, <3>2, RefFacts
        <4>2. QED
          BY <1>3, <1>4, <1>6, <4>1, RefFacts
      <3>3. QED
        BY <3>1, <3>2
    <2>2. ASSUME NEW q \in Requests, req'[q] # NoCall PROVE req'[q].object \in Live'
      <3>1. CASE q = r
        BY <1>2, <1>6, <1>9, <3>1
      <3>2. CASE q # r
        <4>1. req[q] # NoCall /\ req[q].object \in Live /\ InUse(req[q].object) /\ req'[q] = req[q]
          BY <1>9, <2>2, <3>2 DEF Inv, RefInv, InUse
        <4>2. QED
          BY <1>3, <1>6, <4>1, RefFacts
      <3>3. QED
        BY <3>1, <3>2
    <2>3. ASSUME NEW i \in Live' PROVE (InMap(i) \/ InUse(i))'
      <3>1. CASE i = n
        BY <1>1, <1>4, <1>7, <3>1 DEF InMap
      <3>2. CASE i # n
        <4>1. i \in Live /\ M[i] # NoObject /\ objects'[i] = M[i] /\ M[i].sid = objects[i].sid
          BY <1>3, <1>4, <1>6, <3>2
        <4>2. CASE InUse(i)
          <5>1. PICK q \in Requests : req[q].object = i
            BY <4>2 DEF InUse
          <5>2. q # r
            BY <1>1, <4>1, <5>1, RefFacts DEF NoCall
          <5>3. QED
            BY <1>9, <5>1, <5>2 DEF InUse
        <4>3. CASE ~InUse(i)
          <5>1. InMap(i) /\ objects[i].sid \notin Victims /\ objects[i].sid \in Known /\ objects[i].sid \in Sids
            BY <1>3, <4>1, <4>3, RefFacts DEF Inv, RefInv
          <5>2. sessions'[objects[i].sid] = i
            BY <1>1, <1>7, <5>1 DEF InMap
          <5>3. QED
            BY <4>1, <5>2 DEF InMap
        <4>4. QED
          BY <4>2, <4>3
      <3>3. QED
        BY <3>1, <3>2
    <2>4. QED
      BY <2>1, <2>2, <2>3 DEF RefInv
  <1>11. OpenIffKnown'
    <2>1. ASSUME NEW i \in Live'
          PROVE  /\ objects'[i].state = "closed" <=> sessions'[objects'[i].sid] # i
                 /\ sessions'[objects'[i].sid] = i => dirs'[objects'[i].sid].exists
      <3>1. CASE i = n
        BY <1>1, <1>4, <1>7, <3>1
      <3>2. CASE i # n
        <4>1. /\ i \in Live /\ M[i] # NoObject /\ objects'[i] = M[i] /\ M[i].sid = objects[i].sid
              /\ objects[i].sid \in Sids /\ i # 0
          BY <1>3, <1>4, <1>6, <3>2, RefFacts
        <4>2. /\ objects[i].state = "closed" <=> ~InMap(i)
              /\ InMap(i) => dirs[objects[i].sid].exists /\ objects[i].sid \in Known
          BY <4>1, RefFacts DEF Inv, OpenIffKnown, InMap
        <4>3. sessions'[objects[i].sid] = i <=> InMap(i) /\ objects[i].sid \notin Victims
          <5>1. CASE objects[i].sid = s
            BY <1>1, <1>7, <3>2, <4>2, <5>1
          <5>2. CASE objects[i].sid # s
            BY <1>7, <4>1, <5>2 DEF InMap
          <5>3. QED
            BY <5>1, <5>2
        <4>4. M[i].state = "closed" <=> ~(InMap(i) /\ objects[i].sid \notin Victims)
          BY <1>3, <4>1, <4>2
        <4>5. InMap(i) /\ objects[i].sid \notin Victims => dirs'[objects[i].sid].exists
          BY <1>1, <4>1, <4>2
        <4>6. QED
          BY <4>1, <4>3, <4>4, <4>5
      <3>3. QED
        BY <3>1, <3>2
    <2>2. QED
      BY <2>1 DEF OpenIffKnown
  <1>12. CountInv'
    <2>1. IsFiniteSet(Known) /\ Cardinality(Known) \in Nat /\ Cardinality(Known) <= MaxSessions /\ MaxSessions \in Nat
      BY Constants, FS_CardinalityType DEF Inv, CountInv
    <2>2. CASE Victims = {}
      <3>1. Known' = Known \cup {s} /\ Cardinality(Known) < MaxSessions
        BY <1>5, <2>1, <2>2, VictimFacts
      <3>2. IsFiniteSet(Known') /\ Cardinality(Known') = Cardinality(Known) + 1
        BY <1>1, <2>1, <3>1, FS_AddElement
      <3>3. QED
        BY <2>1, <3>1, <3>2 DEF CountInv
    <2>3. ASSUME NEW v \in Known, Victims = {v} PROVE CountInv'
      <3>1. Known' = (Known \ {v}) \cup {s} /\ s \notin Known \ {v}
        BY <1>1, <1>5, <2>3
      <3>2. IsFiniteSet(Known \ {v}) /\ Cardinality(Known \ {v}) = Cardinality(Known) - 1
        BY <2>1, FS_RemoveElement
      <3>3. IsFiniteSet(Known') /\ Cardinality(Known') = Cardinality(Known) - 1 + 1
        BY <3>1, <3>2, FS_AddElement
      <3>4. QED
        BY <2>1, <3>3 DEF CountInv
    <2>4. QED
      BY <2>1, <2>2, <2>3, VictimFacts
  <1>13. AccessInv'
    <2>1. /\ calls \in Nat /\ calls' = calls + 1 /\ lastAccess'[s] = calls + 1
          /\ \A o \in Known \ Victims : /\ lastAccess'[o] = lastAccess[o] /\ lastAccess[o] \in Nat
                                        /\ lastAccess[o] <= calls
      BY <1>1, <1>2 DEF Create, Serve, Without, Inv, Shapes, AccessInv
    <2>2. \A o, p \in Known : lastAccess[o] = lastAccess[p] => o = p
      BY DEF Inv, AccessInv
    <2>3. QED
      BY <1>5, <2>1, <2>2 DEF AccessInv
  <1>14. QED
    BY <1>8, <1>10, <1>11, <1>12, <1>13 DEF Inv

\* They agree after a session was found in the map.
LEMMA HitStep ==
    ASSUME Inv, NEW r \in Requests, NEW s \in Sids, Hit(r, s) PROVE Inv'
  <1>1. /\ s \in Known /\ Known \subseteq Sids /\ sessions[s] \in Live /\ Live \subseteq Handles /\ req[r] = NoCall
        /\ req' = [req EXCEPT ![r] = [at |-> "body", object |-> sessions[s]]]
        /\ UNCHANGED <<sessions, objects, dirs, expected, misfiled>>
    BY RefFacts DEF Hit, Serve
  <1>2. /\ req'[r].object = sessions[s] /\ \A q \in Requests \ {r} : req'[q] = req[q]
        /\ Known' = Known /\ Live' = Live
    BY <1>1 DEF Inv, Shapes, Known, Live
  <1>3. Shapes'
    <2>1. calls' = calls + 1 /\ calls' \in 0..MaxCalls /\ calls + 1 \in 0..MaxCalls
      BY Constants DEF Hit, Serve, Inv, Shapes
    <2>2. lastAccess' \in [Sids -> 0..MaxCalls] /\ idle' \subseteq Known'
      BY <1>2, <2>1 DEF Hit, Inv, Shapes
    <2>3. req' \in [Requests -> {NoCall} \cup Calls] /\ since' \in [Sids -> SUBSET Sids]
      BY <1>1 DEF Hit, Inv, Shapes, Calls, Used
    <2>4. QED
      BY <1>1, <2>1, <2>2, <2>3 DEF Inv, Shapes
  <1>4. RefInv'
    <2>1. \A q \in Requests : req'[q] # NoCall => req'[q].object \in Live'
      BY <1>1, <1>2 DEF Inv, RefInv
    <2>2. ASSUME NEW i \in Live PROVE (InMap(i) \/ InUse(i))'
      <3>1. CASE InMap(i)
        BY <1>1, <3>1 DEF InMap
      <3>2. CASE InUse(i)
        <4>1. PICK q \in Requests : req[q].object = i
          BY <3>2 DEF InUse
        <4>2. q # r
          BY <1>1, <4>1, RefFacts DEF NoCall
        <4>3. QED
          BY <1>2, <4>1, <4>2 DEF InUse
      <3>3. QED
        BY <3>1, <3>2 DEF Inv, RefInv
    <2>3. QED
      BY <1>1, <1>2, <2>1, <2>2 DEF Inv, RefInv
  <1>5. OpenIffKnown' /\ CountInv'
    BY <1>1, <1>2 DEF Inv, OpenIffKnown, CountInv
  <1>6. AccessInv'
    <2>1. /\ calls \in Nat /\ calls' = calls + 1 /\ lastAccess'[s] = calls + 1
          /\ \A o \in Known \ {s} : lastAccess'[o] = lastAccess[o]
          /\ \A o \in Known : lastAccess[o] \in Nat /\ lastAccess[o] <= calls
      BY <1>1 DEF Hit, Serve, Inv, Shapes, AccessInv
    <2>2. QED
      BY <1>2, <2>1 DEF Inv, AccessInv
  <1>7. QED
    BY <1>3, <1>4, <1>5, <1>6 DEF Inv

\* A request ends, and an object that nothing refers to any more is gone.
LEMMA ReplyFacts ==
    ASSUME Inv, NEW r \in Requests, req[r].at # "idle", NEW i, i = req[r].object, NEW o \in Session,
           o.sid = Object(r).sid, o.state = Object(r).state, Reply(r, o), sessions' = sessions
    PROVE  /\ i \in Live /\ req'[r] = NoCall /\ \A q \in Requests \ {r} : req'[q] = req[q]
           /\ \A j \in Live \ {i} : objects'[j] = objects[j]
           /\ objects'[i] = IF InMap(i) \/ InUse(i)' THEN o ELSE NoObject
           /\ objects' \in [Handles -> {NoObject} \cup Session]
           /\ Live' \subseteq Live /\ Known' = Known
           /\ \A j \in Live : j \in Live' <=> InMap(j) \/ InUse(j)'
           /\ req' \in [Requests -> {NoCall} \cup Calls]
           /\ \A j \in Live' : objects'[j].sid = objects[j].sid /\ objects'[j].state = objects[j].state
  <1>2. i \in Live /\ i \in Handles /\ i # 0 /\ o # NoObject /\ objects[i].sid = o.sid /\ objects[i].state = o.state
    BY RefFacts, SessionFacts DEF Object, NoCall
  <1>3. /\ req' = [req EXCEPT ![r] = NoCall]
        /\ objects' = [objects EXCEPT ![i] = IF \/ sessions[o.sid] = i
                                                \/ \E q \in Requests \ {r} : req[q].object = i
                                             THEN o ELSE NoObject]
    BY DEF Reply
  <1>4. req'[r] = NoCall /\ \A q \in Requests \ {r} : req'[q] = req[q]
    BY <1>3 DEF Inv, Shapes
  <1>5. InUse(i)' <=> \E q \in Requests \ {r} : req[q].object = i
    <2>1. NoCall.object = 0
      BY DEF NoCall
    <2>2. QED
      BY <1>2, <1>4, <2>1 DEF InUse
  <1>6. /\ objects'[i] = IF InMap(i) \/ InUse(i)' THEN o ELSE NoObject
        /\ \A j \in Handles \ {i} : objects'[j] = objects[j]
        /\ objects' = [j \in Handles |-> objects'[j]]
    BY <1>2, <1>3, <1>5 DEF Inv, Shapes, InMap
  <1>7. objects' \in [Handles -> {NoObject} \cup Session] /\ req' \in [Requests -> {NoCall} \cup Calls]
    BY <1>3 DEF Inv, Shapes
  <1>8. Live' \subseteq Live /\ Known' = Known /\ (i \in Live' <=> InMap(i) \/ InUse(i)')
    BY <1>2, <1>6 DEF Live, Known
  <1>9. ASSUME NEW j \in Live, j # i PROVE j \in Live' /\ (InMap(j) \/ InUse(j)')
    <2>1. j \in Live'
      BY <1>6, <1>9 DEF Live
    <2>2. InMap(j) \/ InUse(j)
      BY DEF Inv, RefInv
    <2>3. CASE InUse(j)
      <3>1. PICK q \in Requests : req[q].object = j
        BY <2>3 DEF InUse
      <3>2. q # r
        BY <1>9, <3>1
      <3>3. QED
        BY <1>4, <2>1, <3>1, <3>2 DEF InUse
    <2>4. QED
      BY <2>1, <2>2, <2>3
  <1>10. \A j \in Live : j \in Live' <=> InMap(j) \/ InUse(j)'
    <2>1. ASSUME NEW j \in Live PROVE j \in Live' <=> InMap(j) \/ InUse(j)'
      <3>1. CASE j = i
        BY <1>8, <3>1
      <3>2. CASE j # i
        BY <1>9, <3>2
      <3>3. QED
        BY <3>1, <3>2
    <2>2. QED
      BY <2>1
  <1>11. ASSUME NEW j \in Live' PROVE objects'[j].sid = objects[j].sid /\ objects'[j].state = objects[j].state
    <2>1. CASE j = i
      BY <1>2, <1>6, <1>8, <2>1
    <2>2. CASE j # i
      BY <1>6, <2>2 DEF Live
    <2>3. QED
      BY <2>1, <2>2
  <1>12. QED
    BY <1>2, <1>4, <1>6, <1>7, <1>8, <1>10, <1>11 DEF Live

\* They agree after a request has ended.
LEMMA ReplyStep ==
    ASSUME Inv, NEW r \in Requests, req[r].at # "idle", NEW o \in Session,
           o.sid = Object(r).sid, o.state = Object(r).state, Reply(r, o),
           UNCHANGED <<sessions, lastAccess, idle, calls, since>>,
           dirs' \in [Sids -> [exists : BOOLEAN, tables : SUBSET Tables, pages : Nat]],
           \A s \in Sids : dirs'[s].exists = dirs[s].exists,
           expected' \in [Sids -> SUBSET Tables], misfiled' \subseteq Sids
    PROVE  Inv'
  <1>1. /\ req[r].object \in Live /\ req'[r] = NoCall /\ \A q \in Requests \ {r} : req'[q] = req[q]
        /\ objects' \in [Handles -> {NoObject} \cup Session]
        /\ Live' \subseteq Live /\ Known' = Known
        /\ \A i \in Live : i \in Live' <=> InMap(i) \/ InUse(i)'
        /\ req' \in [Requests -> {NoCall} \cup Calls]
        /\ \A i \in Live' : objects'[i].sid = objects[i].sid /\ objects'[i].state = objects[i].state
    BY ReplyFacts
  <1>2. Shapes'
    BY <1>1 DEF Inv, Shapes
  <1>3. \A i \in Live' : InMap(i)' <=> InMap(i)
    BY <1>1 DEF InMap
  <1>4. RefInv'
    <2>1. ASSUME NEW s \in Known PROVE (sessions[s] \in Live /\ objects[sessions[s]].sid = s)'
      <3>1. sessions[s] \in Live /\ objects[sessions[s]].sid = s /\ sessions' = sessions
        BY DEF Inv, RefInv
      <3>2. InMap(sessions[s])
        BY <3>1 DEF InMap
      <3>3. QED
        BY <1>1, <3>1, <3>2
    <2>2. ASSUME NEW q \in Requests, req'[q] # NoCall PROVE req'[q].object \in Live'
      <3>1. q # r /\ req'[q] = req[q] /\ req[q].object \in Live
        BY <1>1, <2>2 DEF Inv, RefInv
      <3>2. InUse(req[q].object)'
        BY <3>1 DEF InUse
      <3>3. QED
        BY <1>1, <3>1, <3>2
    <2>3. \A i \in Live' : (InMap(i) \/ InUse(i))'
      BY <1>1, <1>3
    <2>4. QED
      BY <1>1, <2>1, <2>2, <2>3 DEF RefInv
  <1>5. OpenIffKnown'
    <2>1. ASSUME NEW i \in Live'
          PROVE  /\ objects'[i].state = "closed" <=> sessions'[objects'[i].sid] # i
                 /\ sessions'[objects'[i].sid] = i => dirs'[objects'[i].sid].exists
      <3>1. i \in Live /\ objects[i].sid \in Sids
        BY <1>1, RefFacts
      <3>2. QED
        BY <1>1, <3>1 DEF Inv, OpenIffKnown
    <2>2. QED
      BY <2>1 DEF OpenIffKnown
  <1>6. CountInv' /\ AccessInv'
    BY <1>1 DEF Inv, CountInv, AccessInv
  <1>7. QED
    BY <1>2, <1>4, <1>5, <1>6 DEF Inv

\* A statement takes pages, or has the catalog written.
LEMMA StatementSteps ==
    ASSUME Inv, NEW r \in Requests
    PROVE  /\ Answer(r) => Inv'
           /\ Write(r) => Inv'
           /\ \A tb \in Tables : CreateTable(r, tb) \/ DropTable(r, tb) => Inv'
  <1>1. ASSUME req[r].at # "idle" PROVE Object(r) \in Session /\ Object(r).sid \in Sids
    <2>1. req[r].object \in Live
      BY <1>1, RefFacts
    <2>2. QED
      BY <2>1, RefFacts DEF Object
  <1>2. ASSUME Answer(r) PROVE Inv'
    <2>1. /\ req[r].at # "idle" /\ Reply(r, Object(r))
          /\ UNCHANGED <<sessions, lastAccess, idle, dirs, calls, since, expected, misfiled>>
      BY <1>2 DEF Answer, history
    <2>2. QED
      BY <1>1, <2>1, ReplyStep DEF Inv, Shapes
  <1>3. ASSUME Write(r) PROVE Inv'
    <2>1. PICK n \in 0..MaxGrowth, onDisk \in BOOLEAN :
            /\ Reply(r, [Object(r) EXCEPT !.pages = @ + n])
            /\ dirs' = IF onDisk THEN [dirs EXCEPT ![Object(r).sid].pages = Object(r).pages + n] ELSE dirs
      BY <1>3 DEF Write
    <2>2. /\ req[r].at # "idle"
          /\ UNCHANGED <<sessions, lastAccess, idle, calls, since, expected, misfiled>>
      BY <1>3 DEF Write, history
    <2>3. PICK o : o = [Object(r) EXCEPT !.pages = @ + n]
      OBVIOUS
    <2>4. /\ o \in Session /\ o.sid = Object(r).sid /\ o.state = Object(r).state
          /\ Object(r).pages + n \in Nat /\ Object(r).sid \in Sids
      BY <1>1, <2>2, <2>3, Constants DEF Session
    <2>5. /\ dirs' \in [Sids -> [exists : BOOLEAN, tables : SUBSET Tables, pages : Nat]]
          /\ \A s \in Sids : dirs'[s].exists = dirs[s].exists
      <3>1. CASE onDisk
        <4>1. PICK d, s, k : d = dirs[s] /\ s = Object(r).sid /\ k = Object(r).pages + n
          OBVIOUS
        <4>2. dirs' = [dirs EXCEPT ![s] = [d EXCEPT !.pages = k]]
          BY <2>1, <3>1, <4>1
        <4>3. /\ [d EXCEPT !.pages = k] \in [exists : BOOLEAN, tables : SUBSET Tables, pages : Nat]
              /\ [d EXCEPT !.pages = k].exists = d.exists
          BY <2>4, <4>1 DEF Inv, Shapes
        <4>4. QED
          BY <2>4, <4>1, <4>2, <4>3 DEF Inv, Shapes
      <3>2. CASE ~onDisk
        BY <2>1, <3>2 DEF Inv, Shapes
      <3>3. QED
        BY <3>1, <3>2
    <2>6. QED
      BY <2>1, <2>2, <2>3, <2>4, <2>5, ReplyStep DEF Inv, Shapes
  <1>4. ASSUME NEW T \in SUBSET Tables, req[r].at # "idle", Ddl(r, T) PROVE Inv'
    <2>1. PICK o : o = [Object(r) EXCEPT !.tables = T]
      OBVIOUS
    <2>2. PICK s : s = Object(r).sid
      OBVIOUS
    <2>3. o \in Session /\ o.sid = Object(r).sid /\ o.state = Object(r).state /\ s \in Sids
      BY <1>1, <1>4, <2>1, <2>2 DEF Session
    <2>4. /\ Reply(r, o) /\ UNCHANGED <<sessions, lastAccess, idle, calls, since>>
          /\ dirs' = Saved(s, T)
          /\ expected' \in {[expected EXCEPT ![s] = T], expected}
          /\ misfiled' \subseteq misfiled \cup {s}
      BY <1>4, <2>1, <2>2 DEF Ddl
    <2>5. /\ dirs' \in [Sids -> [exists : BOOLEAN, tables : SUBSET Tables, pages : Nat]]
          /\ \A p \in Sids : dirs'[p].exists = dirs[p].exists
      <3>1. CASE dirs[s].exists
        <4>1. PICK d : d = dirs[s]
          OBVIOUS
        <4>2. dirs' = [dirs EXCEPT ![s] = [d EXCEPT !.tables = T]]
          BY <2>4, <3>1, <4>1 DEF Saved
        <4>3. /\ [d EXCEPT !.tables = T] \in [exists : BOOLEAN, tables : SUBSET Tables, pages : Nat]
              /\ [d EXCEPT !.tables = T].exists = d.exists
          BY <2>3, <4>1 DEF Inv, Shapes
        <4>4. QED
          BY <2>3, <4>1, <4>2, <4>3 DEF Inv, Shapes
      <3>2. CASE ~dirs[s].exists
        BY <2>4, <3>2 DEF Inv, Shapes, Saved
      <3>3. QED
        BY <3>1, <3>2
    <2>6. expected' \in [Sids -> SUBSET Tables] /\ misfiled' \subseteq Sids
      BY <2>3, <2>4 DEF Inv, Shapes
    <2>7. QED
      BY <1>4, <2>3, <2>4, <2>5, <2>6, ReplyStep
  <1>5. ASSUME NEW tb \in Tables, CreateTable(r, tb) \/ DropTable(r, tb) PROVE Inv'
    <2>1. req[r].at # "idle"
      BY <1>5 DEF CreateTable, DropTable
    <2>2. Object(r).tables \cup {tb} \in SUBSET Tables /\ Object(r).tables \ {tb} \in SUBSET Tables
      BY <1>1, <2>1, SessionFacts
    <2>3. QED
      BY <1>4, <1>5, <2>1, <2>2 DEF CreateTable, DropTable
  <1>6. QED
    BY <1>2, <1>3, <1>5

\* A request goes on to its statement, time passes, or the server starts again.
LEMMA QuietSteps ==
    ASSUME Inv
    PROVE  /\ \A r \in Requests, kind \in Writes : Check(r, kind) => Inv'
           /\ Age => Inv'
           /\ Restart => Inv'
           /\ UNCHANGED vars => Inv'
  <1>1. ASSUME NEW r \in Requests, NEW kind \in Writes, Check(r, kind) PROVE Inv'
    <2>1. /\ UNCHANGED <<sessions, lastAccess, idle, objects, dirs, calls, since, expected, misfiled>>
          /\ req' = [req EXCEPT ![r].at = "write"] /\ req[r].at = "body"
      BY <1>1 DEF Check, history
    <2>2. PICK k : k = req[r]
      OBVIOUS
    <2>3. k \in Calls /\ req' = [req EXCEPT ![r] = [k EXCEPT !.at = "write"]]
      BY <2>1, <2>2, RefFacts
    <2>4. /\ [k EXCEPT !.at = "write"] \in Calls /\ [k EXCEPT !.at = "write"].object = k.object
          /\ k # NoCall
      BY <2>1, <2>2, <2>3 DEF Calls, NoCall
    <2>5. /\ \A q \in Requests : req'[q].object = req[q].object
          /\ \A q \in Requests : req'[q] # NoCall => req[q] # NoCall
          /\ req' \in [Requests -> {NoCall} \cup Calls]
      BY <2>2, <2>3, <2>4 DEF Inv, Shapes
    <2>6. Known' = Known /\ Live' = Live /\ \A i : (InMap(i)' <=> InMap(i)) /\ (InUse(i)' <=> InUse(i))
      BY <2>1, <2>5 DEF Known, Live, InMap, InUse
    <2>7. Shapes'
      BY <2>1, <2>5, <2>6 DEF Inv, Shapes
    <2>8. RefInv'
      BY <2>1, <2>5, <2>6 DEF Inv, RefInv
    <2>9. OpenIffKnown' /\ CountInv' /\ AccessInv'
      BY <2>1, <2>6 DEF Inv, OpenIffKnown, CountInv, AccessInv
    <2>10. QED
      BY <2>7, <2>8, <2>9 DEF Inv
  <1>2. ASSUME UNCHANGED <<sessions, lastAccess, objects, dirs, req, calls, since, expected, misfiled>>,
               idle' \subseteq Known
        PROVE  Inv'
    <2>1. Known' = Known /\ Live' = Live /\ \A i : (InMap(i)' <=> InMap(i)) /\ (InUse(i)' <=> InUse(i))
      BY <1>2 DEF Known, Live, InMap, InUse
    <2>2. Shapes' /\ RefInv'
      BY <1>2, <2>1 DEF Inv, Shapes, RefInv
    <2>3. OpenIffKnown' /\ CountInv' /\ AccessInv'
      BY <1>2, <2>1 DEF Inv, OpenIffKnown, CountInv, AccessInv
    <2>4. QED
      BY <2>2, <2>3 DEF Inv
  <1>3. ASSUME Age PROVE Inv'
    BY <1>2, <1>3 DEF Age, history, Oldest, Inv, Shapes
  <1>4. ASSUME Restart PROVE Inv'
    <2>1. Known' = {} /\ Live' = {}
      BY <1>4 DEF Restart, Known, Live
    <2>2. \A r \in Requests : req'[r] = NoCall
      BY <1>4 DEF Restart
    <2>3. Shapes'
      <3>1. sessions' \in [Sids -> {0} \cup Handles] /\ lastAccess' \in [Sids -> 0..MaxCalls]
        BY <1>4, Constants DEF Restart
      <3>2. calls' \in 0..MaxCalls /\ idle' \subseteq Known' /\ objects' \in [Handles -> {NoObject} \cup Session]
        BY <1>4, Constants DEF Restart, Inv, Shapes
      <3>3. /\ dirs' \in [Sids -> [exists : BOOLEAN, tables : SUBSET Tables, pages : Nat]]
            /\ req' \in [Requests -> {NoCall} \cup Calls]
            /\ since' \in [Sids -> SUBSET Sids] /\ expected' \in [Sids -> SUBSET Tables]
            /\ misfiled' \subseteq Sids
        BY <1>4 DEF Restart, Inv, Shapes
      <3>4. QED
        BY <3>1, <3>2, <3>3 DEF Shapes
    <2>4. RefInv' /\ OpenIffKnown' /\ AccessInv'
      BY <2>1, <2>2 DEF RefInv, OpenIffKnown, AccessInv
    <2>5. CountInv'
      BY <2>1, FS_EmptySet, Constants DEF CountInv
    <2>6. QED
      BY <2>3, <2>4, <2>5 DEF Inv
  <1>5. ASSUME UNCHANGED vars PROVE Inv'
    BY <1>2, <1>5 DEF vars, Inv, Shapes
  <1>6. QED
    BY <1>1, <1>3, <1>4, <1>5

-----------------------------------------------------------------------------
(* The invariant.                                                          *)

\* An empty map and no directories agree.
LEMMA InitInv == Init => Inv
  <1> SUFFICES ASSUME Init PROVE Inv
    OBVIOUS
  <1>1. Known = {} /\ Live = {} /\ \A r \in Requests : req[r] = NoCall
    BY DEF Init, Known, Live
  <1>2. Shapes
    <2>1. sessions \in [Sids -> {0} \cup Handles] /\ lastAccess \in [Sids -> 0..MaxCalls]
          /\ calls \in 0..MaxCalls
      BY Constants DEF Init
    <2>2. idle \subseteq Known /\ objects \in [Handles -> {NoObject} \cup Session]
          /\ req \in [Requests -> {NoCall} \cup Calls]
      BY DEF Init
    <2>3. /\ dirs \in [Sids -> [exists : BOOLEAN, tables : SUBSET Tables, pages : Nat]]
          /\ since \in [Sids -> SUBSET Sids] /\ expected \in [Sids -> SUBSET Tables]
          /\ misfiled \subseteq Sids
      BY DEF Init, NoDir
    <2>4. QED
      BY <2>1, <2>2, <2>3 DEF Shapes
  <1>3. RefInv /\ OpenIffKnown /\ AccessInv
    BY <1>1 DEF RefInv, OpenIffKnown, AccessInv
  <1>4. CountInv
    BY <1>1, FS_EmptySet, Constants DEF CountInv
  <1>5. QED
    BY <1>2, <1>3, <1>4 DEF Inv

\* Every step is a removal, the use or the opening of a session, the end of a
\* request, or one of the quiet steps.
LEMMA StepKinds ==
    ASSUME Inv, [Next]_vars
    PROVE  \/ \E W, T : Removal(W, T) /\ (W \subseteq Victims \/ W \subseteq idle \/ \E s \in Sids : Reset(s) /\ W = {s})
           \/ \E r \in Requests, s \in Sids : Hit(r, s) \/ Create(r, s)
           \/ \E r \in Requests : Answer(r) \/ Write(r) \/ \E tb \in Tables : CreateTable(r, tb) \/ DropTable(r, tb)
           \/ \E r \in Requests, kind \in Writes : Check(r, kind)
           \/ Age \/ Restart \/ UNCHANGED vars
  <1>1. ASSUME NEW s \in Sids, OpenFails(s) \/ EvictFails(s) \/ Reset(s) \/ ResetFails(s)
        PROVE  \E W, T : Removal(W, T) /\ (W \subseteq Victims \/ \E o \in Sids : Reset(o) /\ W = {o})
    <2>1. CASE OpenFails(s)
      BY <2>1, Removals
    <2>2. CASE EvictFails(s)
      <3>1. Removal({}, Victims) /\ {} \subseteq Victims
        BY <2>2, Removals
      <3>2. QED
        BY <3>1
    <2>3. CASE Reset(s)
      BY <2>3, Removals
    <2>4. CASE ResetFails(s)
      <3>1. Removal({}, {s}) /\ {} \subseteq Victims
        BY <2>4, Removals
      <3>2. QED
        BY <3>1
    <2>5. QED
      BY <1>1, <2>1, <2>2, <2>3, <2>4
  <1>2. ASSUME EvictIdle PROVE \E W, T : Removal(W, T) /\ W \subseteq idle
    BY <1>2, Removals
  <1>3. QED
    BY <1>1, <1>2 DEF Next

\* Every step keeps map, objects, requests and directories in agreement.
LEMMA InvStep ==
    ASSUME Inv, [Next]_vars PROVE Inv'
  BY StepKinds, RemovalStep, HitStep, CreateStep, StatementSteps, QuietSteps

\* The map, the session objects, the requests and the directories agree in every
\* state of every run.
THEOREM Invariance == Spec => []Inv
  BY InitInv, InvStep, PTL DEF Spec

\* Sessions, LRU times, objects, directories and requests keep their shapes, for
\* any number of cookies and requests: the map and the requests refer to objects
\* that exist (sessions.go:31, server.go:89).
THEOREM TypeCorrect == Spec => []TypeOK
  <1>1. Inv => TypeOK
    <2> SUFFICES ASSUME Inv PROVE TypeOK
      OBVIOUS
    <2>1. sessions \in [Sids -> {0} \cup Live]
      BY RefFacts DEF Inv, Shapes
    <2>2. \A i \in Live : /\ objects[i].sid \in Sids /\ objects[i].state \in {"open", "broken", "closed"}
                          /\ objects[i].tables \subseteq Tables /\ objects[i].pages \in Nat
      BY RefFacts, SessionFacts DEF States
    <2>3. \A r \in Requests : req[r].at \in {"idle", "body", "write"} /\ req[r].object \in {0} \cup Live
      BY RefFacts
    <2>4. QED
      BY <2>1, <2>2, <2>3 DEF TypeOK, Inv, Shapes
  <1>2. QED
    BY <1>1, Invariance, PTL

\* However sessions are evicted, reset, cleaned up and opened again under requests
\* that hold on to them, the files of a session are open exactly as long as it is
\* in the map, and its directory is there (sessions.go:71-112).
THEOREM OpenIffKnownTheorem == Spec => []OpenIffKnown
  <1>1. Inv => OpenIffKnown
    BY DEF Inv
  <1>2. QED
    BY <1>1, Invariance, PTL

-----------------------------------------------------------------------------
(* What users find.                                                        *)

\* What is left after a removal is as it was.
LEMMA RemovalFacts ==
    ASSUME Inv, NEW W, NEW T, Removal(W, T)
    PROVE  /\ Known' = Known \ W /\ W \subseteq Sids
           /\ \A s \in Known' : sessions'[s] = sessions[s] /\ sessions[s] \in Live'
           /\ Live' \subseteq Live
           /\ \A i \in Live' : objects'[i].tables = objects[i].tables /\ objects'[i].pages = objects[i].pages
           /\ \A s \in Sids : /\ dirs'[s].tables = IF s \in W THEN {} ELSE dirs[s].tables
                              /\ dirs'[s].pages = IF s \in W THEN 0 ELSE dirs[s].pages
           /\ \A s \in Sids : expected'[s] = IF s \in W THEN {} ELSE expected[s]
           /\ misfiled' = misfiled \ W /\ req' = req
  <1>1. /\ W \in SUBSET Sids /\ T \in SUBSET (Known \ W) /\ req' = req /\ misfiled' = misfiled \ W
        /\ \A s \in Sids : sessions'[s] = IF s \in W THEN 0 ELSE sessions[s]
        /\ \A s \in Sids : expected'[s] = IF s \in W THEN {} ELSE expected[s]
        /\ objects' = Marked(W, T)
    BY RefFacts DEF Removal, Forgotten
  <1>2. PICK M : M = Marked(W, T)
    OBVIOUS
  <1>3. objects' = M /\ MarkedAs(M, W, T)
    BY <1>1, <1>2, MarkedFacts
  <1>4. Known' = Known \ W /\ \A s \in Known' : sessions'[s] = sessions[s]
    BY <1>1 DEF Known
  <1>5. /\ Live' \subseteq Live
        /\ \A i \in Live' : objects'[i].tables = objects[i].tables /\ objects'[i].pages = objects[i].pages
        /\ \A i \in Live : M[i] # NoObject => i \in Live'
    BY <1>3 DEF MarkedAs, Live
  <1>6. ASSUME NEW s \in Known' PROVE sessions[s] \in Live'
    <2>1. s \in Known /\ s \notin W /\ sessions[s] \in Live /\ objects[sessions[s]].sid = s
      BY <1>4, RefFacts
    <2>2. QED
      BY <1>3, <1>5, <2>1 DEF MarkedAs
  <1>7. ASSUME NEW s \in Sids
        PROVE  /\ dirs'[s].tables = IF s \in W THEN {} ELSE dirs[s].tables
               /\ dirs'[s].pages = IF s \in W THEN 0 ELSE dirs[s].pages
    <2>1. PICK made \in SUBSET Sids :
            dirs' = [p \in Sids |-> [Deleted(W)[p] EXCEPT !.exists = @ \/ p \in made]]
      BY DEF Removal
    <2>2. PICK d : d = Deleted(W)[s]
      OBVIOUS
    <2>3. /\ d \in [exists : BOOLEAN, tables : SUBSET Tables, pages : Nat]
          /\ d.tables = IF s \in W THEN {} ELSE dirs[s].tables
          /\ d.pages = IF s \in W THEN 0 ELSE dirs[s].pages
      BY <2>2 DEF Inv, Shapes, Deleted, NoDir
    <2>4. PICK e \in BOOLEAN : dirs'[s] = [d EXCEPT !.exists = @ \/ e]
      BY <2>1, <2>2
    <2>5. QED
      BY <2>3, <2>4
  <1>8. QED
    BY <1>1, <1>4, <1>5, <1>6, <1>7

\* The catalog of a session's directory and that in memory are what its user was
\* told, in the next state as well.
LEMMA ExactStep ==
    ASSUME Inv, SessionExact, [Next]_vars PROVE SessionExact'
  <1>1. ASSUME NEW W, NEW T, Removal(W, T) PROVE SessionExact'
    <2>1. ASSUME NEW s \in Sids \ misfiled'
          PROVE  /\ dirs'[s].tables = expected'[s]
                 /\ s \in Known' => objects'[sessions'[s]].tables = expected'[s]
      <3>1. CASE s \in W
        BY <1>1, <3>1, RemovalFacts
      <3>2. CASE s \notin W
        <4>1. /\ s \notin misfiled /\ dirs'[s].tables = dirs[s].tables /\ expected'[s] = expected[s]
              /\ s \in Known' => /\ s \in Known /\ sessions'[s] = sessions[s]
                                 /\ objects'[sessions[s]].tables = objects[sessions[s]].tables
          BY <1>1, <3>2, RemovalFacts
        <4>2. QED
          BY <4>1 DEF SessionExact
      <3>3. QED
        BY <3>1, <3>2
    <2>2. QED
      BY <2>1 DEF SessionExact
  <1>2. ASSUME NEW r \in Requests, NEW s \in Sids, Create(r, s) PROVE SessionExact'
    <2>1. PICK n, M :
            /\ n \in Handles \ Live
            /\ s \notin Known /\ s \notin Victims
            /\ sessions' = [o \in Sids |-> IF o \in Victims THEN 0 ELSE IF o = s THEN n ELSE sessions[o]]
            /\ MarkedAs(M, Victims, {})
            /\ objects' = [i \in Handles |-> IF i = n THEN Opened(s) ELSE M[i]]
            /\ Opened(s).tables = dirs[s].tables
            /\ \A o \in Sids : dirs'[o].tables = IF o \in Victims THEN {} ELSE dirs[o].tables
      BY <1>2, CreateFacts
    <2>2. /\ \A o \in Sids : expected'[o] = IF o \in Victims THEN {} ELSE expected[o]
          /\ misfiled' = misfiled \ Victims
      BY <1>2 DEF Create, Forgotten
    <2>3. Victims \subseteq Sids
      BY VictimFacts DEF Known
    <2>4. ASSUME NEW o \in Sids \ misfiled'
          PROVE  /\ dirs'[o].tables = expected'[o]
                 /\ o \in Known' => objects'[sessions'[o]].tables = expected'[o]
      <3>1. CASE o \in Victims
        BY <2>1, <2>2, <3>1 DEF Known
      <3>2. CASE o = s
        <4>1. sessions'[o] = n /\ objects'[n] = Opened(s) /\ o \notin misfiled
          BY <2>1, <2>2, <3>2
        <4>2. QED
          BY <2>1, <2>2, <3>2, <4>1 DEF SessionExact
      <3>3. CASE o \notin Victims /\ o # s
        <4>1. sessions'[o] = sessions[o] /\ o \notin misfiled
          BY <2>1, <2>2, <3>3
        <4>2. ASSUME o \in Known' PROVE objects'[sessions[o]].tables = objects[sessions[o]].tables /\ o \in Known
          <5>1. o \in Known /\ sessions[o] \in Live /\ objects[sessions[o]].sid = o /\ sessions[o] \in Handles
            BY <4>1, <4>2, RefFacts DEF Known
          <5>2. M[sessions[o]].tables = objects[sessions[o]].tables
            BY <2>1, <3>3, <5>1 DEF MarkedAs
          <5>3. QED
            BY <2>1, <5>1, <5>2
        <4>3. QED
          BY <2>1, <2>2, <3>3, <4>1, <4>2 DEF SessionExact
      <3>4. QED
        BY <3>1, <3>2, <3>3
    <2>5. QED
      BY <2>4 DEF SessionExact
  <1>3. ASSUME UNCHANGED <<sessions, dirs, expected, misfiled>>,
               \A i \in Live : InMap(i) => objects'[i].tables = objects[i].tables
        PROVE  SessionExact'
    <2>1. ASSUME NEW s \in Known PROVE objects'[sessions[s]].tables = objects[sessions[s]].tables
      BY <1>3, RefFacts DEF InMap
    <2>2. QED
      BY <1>3, <2>1 DEF SessionExact, Known
  <1>4. ASSUME NEW r \in Requests, req[r].at # "idle", NEW o \in Session, o.sid = Object(r).sid,
               o.state = Object(r).state, Reply(r, o), sessions' = sessions
        PROVE  /\ \A i \in Live : InMap(i) /\ i # req[r].object => objects'[i] = objects[i]
               /\ InMap(req[r].object) => objects'[req[r].object] = o
               /\ req[r].object \in Live
    <2>1. PICK i : i = req[r].object
      OBVIOUS
    <2>2. /\ i \in Live /\ \A j \in Live \ {i} : objects'[j] = objects[j]
          /\ InMap(i) => objects'[i] = o
      BY <1>4, <2>1, ReplyFacts
    <2>3. QED
      BY <2>1, <2>2
  <1>5. ASSUME NEW r \in Requests, req[r].at # "idle"
        PROVE  Object(r) \in Session /\ Object(r).sid \in Sids /\ Object(r).tables \subseteq Tables
    <2>1. req[r].object \in Live
      BY <1>5, RefFacts
    <2>2. QED
      BY <2>1, RefFacts, SessionFacts DEF Object
  <1>6. ASSUME NEW r \in Requests, Answer(r) PROVE SessionExact'
    <2>1. /\ req[r].at # "idle" /\ Reply(r, Object(r))
          /\ UNCHANGED <<sessions, dirs, expected, misfiled>>
      BY <1>6 DEF Answer, history
    <2>2. QED
      BY <1>3, <1>4, <1>5, <2>1 DEF Object
  <1>7. ASSUME NEW r \in Requests, Write(r) PROVE SessionExact'
    <2>1. PICK n \in 0..MaxGrowth, onDisk \in BOOLEAN :
            /\ Reply(r, [Object(r) EXCEPT !.pages = @ + n])
            /\ dirs' = IF onDisk THEN [dirs EXCEPT ![Object(r).sid].pages = Object(r).pages + n] ELSE dirs
      BY <1>7 DEF Write
    <2>2. req[r].at # "idle" /\ UNCHANGED <<sessions, expected, misfiled>>
      BY <1>7 DEF Write, history
    <2>3. PICK o : o = [Object(r) EXCEPT !.pages = @ + n]
      OBVIOUS
    <2>4. /\ o \in Session /\ o.sid = Object(r).sid /\ o.state = Object(r).state
          /\ o.tables = Object(r).tables
      BY <1>5, <2>2, <2>3, Constants DEF Session
    <2>5. \A s \in Sids : dirs'[s].tables = dirs[s].tables
      <3>1. CASE onDisk
        <4>1. PICK d, s, k : d = dirs[s] /\ s = Object(r).sid /\ k = Object(r).pages + n
          OBVIOUS
        <4>2. dirs' = [dirs EXCEPT ![s] = [d EXCEPT !.pages = k]]
          BY <2>1, <3>1, <4>1
        <4>3. [d EXCEPT !.pages = k].tables = d.tables
          BY <1>5, <2>2, <4>1 DEF Inv, Shapes
        <4>4. QED
          BY <4>1, <4>2, <4>3 DEF Inv, Shapes
      <3>2. CASE ~onDisk
        BY <2>1, <3>2
      <3>3. QED
        BY <3>1, <3>2
    <2>6. \A s \in Known : objects'[sessions[s]].tables = objects[sessions[s]].tables
      <3>1. ASSUME NEW i \in Live, InMap(i) PROVE objects'[i].tables = objects[i].tables
        <4>1. Reply(r, o)
          BY <2>1, <2>3
        <4>2. /\ i # req[r].object => objects'[i] = objects[i]
              /\ i = req[r].object => objects'[i] = o
          BY <1>4, <2>2, <2>4, <3>1, <4>1
        <4>3. i = req[r].object => objects[i].tables = o.tables
          BY <2>4 DEF Object
        <4>4. QED
          BY <4>2, <4>3
      <3>2. QED
        BY <3>1, RefFacts DEF InMap
    <2>7. QED
      BY <2>2, <2>5, <2>6 DEF SessionExact, Known
  <1>8. ASSUME NEW r \in Requests, req[r].at # "idle", NEW T \in SUBSET Tables, Ddl(r, T)
        PROVE  SessionExact'
    <2>1. PICK o, s, i : o = [Object(r) EXCEPT !.tables = T] /\ s = Object(r).sid /\ i = req[r].object
      OBVIOUS
    <2>2. /\ o \in Session /\ o.sid = Object(r).sid /\ o.state = Object(r).state /\ s \in Sids
          /\ o.tables = T /\ o.sid = s /\ s = objects[i].sid
      BY <1>5, <1>8, <2>1 DEF Session, Object
    <2>3. /\ Reply(r, o) /\ sessions' = sessions
          /\ dirs' = Saved(s, T)
          /\ expected' = IF InMap(i) THEN [expected EXCEPT ![s] = T] ELSE expected
          /\ misfiled' = misfiled \cup {p \in {s} : dirs[s].exists /\ ~InMap(i)}
      BY <1>8, <2>1, <2>2 DEF Ddl, InMap
    <2>4. /\ i \in Live /\ \A j \in Live : InMap(j) /\ j # i => objects'[j] = objects[j]
          /\ InMap(i) => objects'[i] = o
      BY <1>4, <1>8, <2>1, <2>2, <2>3
    <2>5. /\ \A p \in Sids : p # s => dirs'[p].tables = dirs[p].tables /\ expected'[p] = expected[p]
          /\ dirs'[s].tables = IF dirs[s].exists THEN T ELSE dirs[s].tables
          /\ expected'[s] = IF InMap(i) THEN T ELSE expected[s]
      BY <2>2, <2>3 DEF Saved, Inv, Shapes
    <2>6. ASSUME NEW p \in Sids \ misfiled'
          PROVE  /\ dirs'[p].tables = expected'[p]
                 /\ p \in Known' => objects'[sessions'[p]].tables = expected'[p]
      <3>1. Known' = Known /\ p \notin misfiled
        BY <2>3 DEF Known
      <3>2. CASE p # s
        <4>1. p \in Known => objects'[sessions[p]] = objects[sessions[p]]
          BY <2>2, <2>4, <3>2, RefFacts DEF InMap
        <4>2. QED
          BY <2>3, <2>5, <3>1, <3>2, <4>1 DEF SessionExact
      <3>3. CASE p = s /\ InMap(i)
        <4>1. dirs[s].exists /\ sessions'[s] = i
          BY <2>2, <2>3, <2>4, <3>3 DEF Inv, OpenIffKnown, InMap
        <4>2. QED
          BY <2>2, <2>4, <2>5, <3>3, <4>1
      <3>4. CASE p = s /\ ~InMap(i)
        <4>1. ~dirs[s].exists
          BY <2>3, <3>4
        <4>2. s \notin Known
          BY <4>1, RefFacts DEF Inv, OpenIffKnown
        <4>3. QED
          BY <2>5, <3>1, <3>4, <4>1, <4>2 DEF SessionExact
      <3>5. QED
        BY <3>2, <3>3, <3>4
    <2>7. QED
      BY <2>6 DEF SessionExact
  <1>9. ASSUME NEW r \in Requests, NEW tb \in Tables, CreateTable(r, tb) \/ DropTable(r, tb)
        PROVE  SessionExact'
    <2>1. req[r].at # "idle"
      BY <1>9 DEF CreateTable, DropTable
    <2>2. Object(r).tables \cup {tb} \in SUBSET Tables /\ Object(r).tables \ {tb} \in SUBSET Tables
      BY <1>5, <2>1
    <2>3. QED
      BY <1>8, <1>9, <2>1, <2>2 DEF CreateTable, DropTable
  <1>10. ASSUME NEW r \in Requests, NEW s \in Sids, Hit(r, s) PROVE SessionExact'
    BY <1>3, <1>10 DEF Hit
  <1>11. ASSUME NEW r \in Requests, NEW kind \in Writes, Check(r, kind) PROVE SessionExact'
    BY <1>3, <1>11 DEF Check, history
  <1>12. ASSUME Age PROVE SessionExact'
    BY <1>3, <1>12 DEF Age, history
  <1>13. ASSUME UNCHANGED vars PROVE SessionExact'
    BY <1>3, <1>13 DEF vars
  <1>14. ASSUME Restart PROVE SessionExact'
    BY <1>14 DEF Restart, SessionExact, Known
  <1>15. QED
    BY <1>1, <1>2, <1>6, <1>7, <1>9, <1>10, <1>11, <1>12, <1>13, <1>14, StepKinds

\* A user finds the tables he was told he has and no others, in memory and in
\* catalog.json, through evictions, resets, restarts and requests that outlive
\* their session, unless one of these changed the directory of his new session.
THEOREM SessionExactTheorem == Spec => []SessionExact
  <1>1. Init => SessionExact
    BY DEF Init, SessionExact, Known, NoDir
  <1>2. Inv /\ SessionExact /\ [Next]_vars => SessionExact'
    BY ExactStep
  <1>3. QED
    BY <1>1, <1>2, Invariance, PTL DEF Spec

-----------------------------------------------------------------------------
(* Who has to make room.                                                   *)

\* A session that was used later than another was used since.
SinceInv ==
    /\ \A s \in Sids : IsFiniteSet(since[s])
    /\ \A s, o \in Known : lastAccess[s] < lastAccess[o] => o \in since[s]

\* A use of s, whether it finds the session or opens it, makes it the last one.
LEMMA UsedSince ==
    ASSUME Inv, SinceInv, NEW s \in Sids, NEW t \in Nat, t = calls + 1,
           Known' \subseteq Known \cup {s}, since' = Used(s),
           lastAccess'[s] = t, \A o \in Known' \ {s} : lastAccess'[o] = lastAccess[o]
    PROVE  SinceInv'
  <1>1. \A o \in Sids : since'[o] = IF o \in Known \ {s} THEN since[o] \cup {s} ELSE {}
    BY DEF Used
  <1>2. \A o \in Known : lastAccess[o] \in Nat /\ lastAccess[o] <= calls /\ calls \in Nat
    BY DEF Inv, Shapes, AccessInv, Known
  <1>3. ASSUME NEW o \in Sids PROVE IsFiniteSet(since'[o])
    <2>1. IsFiniteSet(since[o] \cup {s})
      BY FS_AddElement DEF SinceInv
    <2>2. QED
      BY <1>1, <2>1, FS_EmptySet
  <1>4. ASSUME NEW p \in Known', NEW q \in Known', lastAccess'[p] < lastAccess'[q]
        PROVE  q \in since'[p]
    <2>1. p \in Known \cup {s} /\ q \in Known \cup {s} /\ Known \subseteq Sids
      BY RefFacts
    <2>2. CASE p = s
      <3>1. q # s
        BY <1>4, <2>2
      <3>2. q \in Known /\ lastAccess'[q] = lastAccess[q]
        BY <2>1, <3>1
      <3>3. QED
        BY <1>2, <1>4, <2>2, <3>2
    <2>3. CASE p # s /\ q = s
      BY <1>1, <2>1, <2>3
    <2>4. CASE p # s /\ q # s
      <3>1. p \in Known /\ q \in Known /\ lastAccess'[p] = lastAccess[p] /\ lastAccess'[q] = lastAccess[q]
        BY <2>1, <2>4
      <3>2. QED
        BY <1>1, <1>4, <2>1, <2>4, <3>1 DEF SinceInv
    <2>5. QED
      BY <2>2, <2>3, <2>4
  <1>5. QED
    BY <1>3, <1>4 DEF SinceInv

\* Nothing else changes who was used when.
LEMMA SinceStep ==
    ASSUME Inv, SinceInv, [Next]_vars PROVE SinceInv'
  <1>1. ASSUME Known' \subseteq Known, since' = since, \A s \in Known' : lastAccess'[s] = lastAccess[s]
        PROVE  SinceInv'
    BY <1>1 DEF SinceInv
  <1>2. ASSUME NEW W, NEW T, Removal(W, T) PROVE SinceInv'
    <2>1. Known' = Known \ W /\ Known' \subseteq Sids
      BY <1>2, RemovalFacts, RefFacts
    <2>2. since' = since /\ \A s \in Known' : lastAccess'[s] = lastAccess[s]
      BY <1>2, <2>1 DEF Removal, Without
    <2>3. QED
      BY <1>1, <2>1, <2>2
  <1>3. calls + 1 \in Nat
    BY DEF Inv, Shapes
  <1>4. ASSUME NEW r \in Requests, NEW s \in Sids, Hit(r, s) PROVE SinceInv'
    <2>1. Known' \subseteq Known \cup {s} /\ since' = Used(s)
      BY <1>4 DEF Hit, Known
    <2>2. lastAccess'[s] = calls + 1 /\ \A o \in Known' \ {s} : lastAccess'[o] = lastAccess[o]
      BY <1>4 DEF Hit, Known, Inv, Shapes
    <2>3. QED
      BY <1>3, <2>1, <2>2, UsedSince
  <1>5. ASSUME NEW r \in Requests, NEW s \in Sids, Create(r, s) PROVE SinceInv'
    <2>1. sessions' = [o \in Sids |-> IF o \in Victims THEN 0 ELSE IF o = s THEN Min(Handles \ Live) ELSE sessions[o]]
          /\ since' = Used(s) /\ lastAccess' = [Without(Victims) EXCEPT ![s] = calls + 1]
      BY <1>5 DEF Create
    <2>2. Known' \subseteq Known \cup {s} /\ \A o \in Known' : o \in Sids /\ o \notin Victims
      BY <2>1 DEF Known
    <2>3. lastAccess'[s] = calls + 1 /\ \A o \in Known' \ {s} : lastAccess'[o] = lastAccess[o]
      BY <2>1, <2>2 DEF Without
    <2>4. QED
      BY <1>3, <2>1, <2>2, <2>3, UsedSince
  <1>6. ASSUME NEW r \in Requests, Answer(r) \/ Write(r) \/ \E tb \in Tables : CreateTable(r, tb) \/ DropTable(r, tb)
        PROVE  SinceInv'
    <2>1. UNCHANGED <<sessions, lastAccess, since>>
      BY <1>6 DEF Answer, Write, CreateTable, DropTable, Ddl, history
    <2>2. QED
      BY <1>1, <2>1 DEF Known
  <1>7. ASSUME NEW r \in Requests, NEW kind \in Writes, Check(r, kind) PROVE SinceInv'
    BY <1>1, <1>7 DEF Check, history, Known
  <1>8. ASSUME Age \/ UNCHANGED vars PROVE SinceInv'
    BY <1>1, <1>8 DEF Age, vars, history, Known
  <1>9. ASSUME Restart PROVE SinceInv'
    BY <1>1, <1>9 DEF Restart, Known
  <1>10. QED
    BY <1>2, <1>4, <1>5, <1>6, <1>7, <1>8, <1>9, StepKinds

\* The session that evictLRULocked closes is one that MaxSessions - 1 others were
\* used since.
LEMMA VictimsOld ==
    ASSUME Inv, SinceInv, NEW v \in Victims
    PROVE  Cardinality(since[v]) >= MaxSessions - 1
  <1>1. /\ v \in Known /\ v \in Sids /\ Cardinality(Known) >= MaxSessions
        /\ \A o \in Known \ {v} : lastAccess[v] < lastAccess[o]
    BY VictimFacts, RefFacts
  <1>2. Known \ {v} \in SUBSET since[v] /\ IsFiniteSet(since[v])
    BY <1>1 DEF SinceInv
  <1>3. Cardinality(Known \ {v}) = Cardinality(Known) - 1 /\ Cardinality(Known) \in Nat
    BY <1>1, FS_RemoveElement, FS_CardinalityType DEF Inv, CountInv
  <1>4. Cardinality(Known \ {v}) <= Cardinality(since[v]) /\ Cardinality(since[v]) \in Nat
    BY <1>2, FS_Subset, FS_CardinalityType
  <1>5. QED
    BY <1>1, <1>3, <1>4, Constants

\* Who loses his session in a step has asked for it, was idle for too long, or is
\* the one that was not used for longest.
LEMMA EvictionStep ==
    ASSUME Inv, SinceInv, [Next]_vars
    PROVE  \A s \in Known : sessions'[s] # 0 \/ Reset(s) \/ Restart \/ s \in idle
                            \/ Cardinality(since[s]) >= MaxSessions - 1
  <1> SUFFICES ASSUME NEW s \in Known
               PROVE  sessions'[s] # 0 \/ Reset(s) \/ Restart \/ s \in idle
                      \/ Cardinality(since[s]) >= MaxSessions - 1
    OBVIOUS
  <1>1. s \in Sids /\ sessions[s] # 0
    BY DEF Known
  <1>2. ASSUME NEW W, NEW T, Removal(W, T),
               W \subseteq Victims \/ W \subseteq idle \/ \E o \in Sids : Reset(o) /\ W = {o}
        PROVE  sessions'[s] # 0 \/ Reset(s) \/ s \in idle \/ Cardinality(since[s]) >= MaxSessions - 1
    <2>1. CASE s \notin W
      BY <1>1, <1>2, <2>1 DEF Removal
    <2>2. CASE s \in W
      BY <1>2, <2>2, VictimsOld
    <2>3. QED
      BY <2>1, <2>2
  <1>3. ASSUME NEW r \in Requests, NEW o \in Sids, Hit(r, o) \/ Create(r, o)
        PROVE  sessions'[s] # 0 \/ Cardinality(since[s]) >= MaxSessions - 1
    <2>1. CASE Hit(r, o)
      BY <1>1, <2>1 DEF Hit
    <2>2. CASE Create(r, o) /\ s \notin Victims
      <3>1. s # o /\ sessions'[s] = sessions[s]
        BY <1>1, <2>2 DEF Create
      <3>2. QED
        BY <1>1, <3>1
    <2>3. CASE s \in Victims
      BY <2>3, VictimsOld
    <2>4. QED
      BY <1>3, <2>1, <2>2, <2>3
  <1>4. ASSUME NEW r \in Requests, Answer(r) \/ Write(r) \/ \E tb \in Tables : CreateTable(r, tb) \/ DropTable(r, tb)
        PROVE  sessions'[s] # 0
    BY <1>1, <1>4 DEF Answer, Write, CreateTable, DropTable, Ddl
  <1>5. ASSUME (\E r \in Requests, kind \in Writes : Check(r, kind)) \/ Age \/ UNCHANGED vars
        PROVE  sessions'[s] # 0
    BY <1>1, <1>5 DEF Check, Age, vars
  <1>6. QED
    BY <1>2, <1>3, <1>4, <1>5, StepKinds

\* A session is taken from its user only by his reset, after idleTimeout, or when
\* MaxSessions - 1 others have been used since, for any maxSessions and whatever
\* fails in between (sessions.go:80).
THEOREM OnlyOldestEvictedTheorem == Spec => OnlyOldestEvicted
  <1>1. Init => SinceInv
    BY FS_EmptySet DEF Init, SinceInv, Known
  <1>2. Inv /\ SinceInv /\ [Next]_vars => SinceInv'
    BY SinceStep
  <1>3. Inv /\ SinceInv /\ [Next]_vars
        => [\A s \in Known : sessions'[s] # 0 \/ Reset(s) \/ Restart \/ s \in idle
                             \/ Cardinality(since[s]) >= MaxSessions - 1]_vars
    BY EvictionStep
  <1>4. QED
    BY <1>1, <1>2, <1>3, Invariance, PTL DEF Spec, OnlyOldestEvicted

-----------------------------------------------------------------------------
(* The limits.                                                             *)

\* What the requests of S can still take, and which ones are about to write to i.
Share(S) == Cardinality(S) * MaxGrowth
Bound == PageLimit + Share(Requests)
Writers(i) == {r \in Requests : req[r].at = "write" /\ req[r].object = i}

\* Directories are below the bound, and session objects are after what the
\* statements that run on them can still take.
PagesInv ==
    /\ \A s \in Sids : dirs[s].pages < Bound
    /\ \A i \in Live : objects[i].pages + Share(Writers(i)) < Bound

\* Each request has one share.
LEMMA Shares ==
    ASSUME NEW S \in SUBSET Requests
    PROVE  /\ Share(S) \in Nat /\ Share(S) <= Share(Requests) /\ Bound \in Nat
           /\ Share({}) = 0
           /\ \A r \in S : Share(S \ {r}) + MaxGrowth = Share(S)
  <1>1. /\ IsFiniteSet(S) /\ Cardinality(S) \in Nat /\ Cardinality(S) <= Cardinality(Requests)
        /\ Cardinality(Requests) \in Nat /\ MaxGrowth \in Nat /\ PageLimit \in Nat
    BY Constants, FS_Subset, FS_CardinalityType
  <1>2. \A k, n, g \in Nat : k * g \in Nat /\ (k <= n => k * g <= n * g)
    <2>1. ASSUME NEW k \in Nat, NEW n \in Nat, NEW g \in Nat, k <= n
          PROVE  k * g <= n * g
      <3>1. PICK d \in Nat : n = k + d
        <4>1. n - k \in Nat /\ n = k + (n - k)
          BY <2>1
        <4>2. QED
          BY <4>1
      <3>2. n * g = k * g + d * g /\ d * g \in Nat /\ k * g \in Nat
        BY <3>1
      <3>3. QED
        BY <3>2
    <2>2. \A k, g \in Nat : k * g \in Nat
      OBVIOUS
    <2>3. QED
      BY <2>1, <2>2
  <1>3. Share(S) \in Nat /\ Share(S) <= Share(Requests) /\ Share(Requests) \in Nat
    BY <1>1, <1>2 DEF Share
  <1>4. Share({}) = 0
    BY <1>1, FS_EmptySet DEF Share
  <1>5. ASSUME NEW r \in S PROVE Share(S \ {r}) + MaxGrowth = Share(S)
    <2>1. Cardinality(S \ {r}) = Cardinality(S) - 1
      BY <1>1, FS_RemoveElement
    <2>2. \A k, g \in Nat : (k - 1) * g + g = k * g
      OBVIOUS
    <2>3. QED
      BY <1>1, <2>1, <2>2 DEF Share
  <1>6. QED
    BY <1>1, <1>3, <1>4, <1>5 DEF Bound

\* The pages of directories and of session objects are numbers.
LEMMA PageFacts ==
    ASSUME Inv
    PROVE  /\ \A s \in Sids : dirs[s].pages \in Nat
           /\ \A i \in Live : objects[i].pages \in Nat
           /\ \A i : Writers(i) \in SUBSET Requests
           /\ \A i \in Handles \ Live : Writers(i) = {}
  <1>1. \A i \in Handles \ Live : Writers(i) = {}
    <2>1. ASSUME NEW i \in Handles \ Live, NEW r \in Writers(i) PROVE FALSE
      BY <2>1, RefFacts DEF Writers
    <2>2. QED
      BY <2>1
  <1>2. QED
    BY <1>1, RefFacts, SessionFacts DEF Writers, Inv, Shapes

\* A step after which no object has more pages or more writers stays below the bound.
LEMMA NoMorePages ==
    ASSUME Inv, PagesInv, Live' \subseteq Live, \A i \in Live' : objects'[i].pages = objects[i].pages,
           \A i \in Live' : Writers(i)' = Writers(i),
           \A s \in Sids : dirs'[s].pages \in {0, dirs[s].pages}
    PROVE  PagesInv'
  <1>1. Bound' = Bound
    BY DEF Bound, Share
  <1>2. \A s \in Sids : dirs'[s].pages < Bound
    <2>1. Bound \in Nat /\ Bound > 0
      <3>1. Requests \in SUBSET Requests
        OBVIOUS
      <3>2. QED
        BY <3>1, Shares, Constants DEF Bound
    <2>2. QED
      BY <2>1 DEF PagesInv
  <1>3. ASSUME NEW i \in Live' PROVE objects'[i].pages + Share(Writers(i)') < Bound
    BY <1>3 DEF PagesInv
  <1>4. \A i \in Live' : objects'[i].pages + Share(Writers(i))' < Bound'
    BY <1>1, <1>3 DEF Share
  <1>5. QED
    BY <1>1, <1>2, <1>4 DEF PagesInv

\* A request that ends leaves its object with the pages it had, or with those of
\* its share in addition.
LEMMA ReplyPages ==
    ASSUME Inv, PagesInv, NEW r \in Requests, req[r].at # "idle", NEW o \in Session,
           o.sid = Object(r).sid, o.state = Object(r).state, Reply(r, o), sessions' = sessions,
           NEW n \in 0..MaxGrowth, o.pages = Object(r).pages + n, req[r].at = "write" \/ n = 0,
           \A s \in Sids : dirs'[s].pages \in {dirs[s].pages, o.pages}
    PROVE  PagesInv'
  <1>1. PICK i : i = req[r].object
    OBVIOUS
  <1>2. /\ i \in Live /\ req'[r] = NoCall /\ \A q \in Requests \ {r} : req'[q] = req[q]
        /\ \A j \in Live \ {i} : objects'[j] = objects[j]
        /\ objects'[i] \in {o, NoObject} /\ Live' \subseteq Live
    BY <1>1, ReplyFacts
  <1>3. o.pages = objects[i].pages + n /\ objects[i].pages \in Nat /\ n \in Nat /\ n <= MaxGrowth /\ MaxGrowth \in Nat
    BY <1>1, <1>2, PageFacts, Constants DEF Object
  <1>4. \A j : Writers(j)' = Writers(j) \ {r}
    BY <1>2 DEF Writers, NoCall
  <1>5. o.pages + Share(Writers(i) \ {r}) < Bound
    <2>1. /\ Writers(i) \in SUBSET Requests
          /\ Share(Writers(i)) \in Nat /\ Share(Writers(i) \ {r}) \in Nat /\ Bound \in Nat
          /\ objects[i].pages + Share(Writers(i)) < Bound
      <3>1. Writers(i) \in SUBSET Requests /\ Writers(i) \ {r} \in SUBSET Requests
        BY DEF Writers
      <3>2. QED
        BY <1>2, <3>1, Shares DEF PagesInv
    <2>2. CASE req[r].at = "write"
      <3>1. r \in Writers(i)
        BY <1>1, <2>2 DEF Writers
      <3>2. Share(Writers(i) \ {r}) + MaxGrowth = Share(Writers(i))
        BY <2>1, <3>1, Shares
      <3>3. QED
        BY <1>3, <2>1, <3>2
    <2>3. CASE req[r].at # "write"
      <3>1. Writers(i) \ {r} = Writers(i) /\ n = 0
        BY <2>3 DEF Writers
      <3>2. QED
        BY <1>3, <2>1, <3>1
    <2>4. QED
      BY <2>2, <2>3
  <1>6. Bound' = Bound
    BY DEF Bound, Share
  <1>7. \A s \in Sids : dirs'[s].pages < Bound
    <2>1. o.pages < Bound
      <3>1. Writers(i) \ {r} \in SUBSET Requests
        BY DEF Writers
      <3>2. Share(Writers(i) \ {r}) \in Nat /\ Bound \in Nat
        BY <3>1, Shares
      <3>3. QED
        BY <1>3, <1>5, <3>2
    <2>2. QED
      BY <2>1 DEF PagesInv
  <1>8. ASSUME NEW j \in Live' PROVE objects'[j].pages + Share(Writers(j)') < Bound
    <2>1. CASE j = i
      <3>1. objects'[i] = o
        BY <1>2, <1>8, <2>1 DEF Live, NoObject
      <3>2. QED
        BY <1>4, <1>5, <2>1, <3>1
    <2>2. CASE j # i
      <3>1. j \in Live /\ objects'[j] = objects[j] /\ Writers(j)' = Writers(j)
        BY <1>1, <1>2, <1>4, <1>8, <2>2 DEF Writers
      <3>2. QED
        BY <3>1 DEF PagesInv
    <2>3. QED
      BY <2>1, <2>2
  <1>9. \A j \in Live' : objects'[j].pages + Share(Writers(j))' < Bound'
    BY <1>6, <1>8 DEF Share
  <1>10. QED
    BY <1>6, <1>7, <1>9 DEF PagesInv

\* A statement passes the check, of an INSERT, with less than PageLimit pages, so
\* that a share for each request is left.
LEMMA CheckPages ==
    ASSUME Inv, PagesInv, NEW r \in Requests, Check(r, "insert")
    PROVE  PagesInv'
  <1>1. PICK i : i = req[r].object
    OBVIOUS
  <1>2. /\ i \in Live /\ objects' = objects /\ dirs' = dirs /\ objects[i].pages < PageLimit
        /\ req[r].at = "body" /\ req' = [req EXCEPT ![r].at = "write"] /\ objects[i].pages \in Nat
        /\ req[r] \in Calls
    <2>1. i \in Live /\ objects[i].pages \in Nat /\ PageLimit \in Nat
      BY <1>1, RefFacts, PageFacts, Constants DEF Check
    <2>2. req[r] \in Calls
      BY RefFacts DEF Check
    <2>3. QED
      BY <1>1, <2>1, <2>2 DEF Check, OverLimit, Object
  <1>3. req'[r].at = "write" /\ req'[r].object = i /\ \A q \in Requests \ {r} : req'[q] = req[q]
    BY <1>1, <1>2 DEF Calls, Inv, Shapes
  <1>4. \A j : j # i => Writers(j)' = Writers(j)
    BY <1>1, <1>3 DEF Writers
  <1>5. Bound' = Bound /\ Live' = Live
    BY <1>2 DEF Bound, Share, Live
  <1>6. objects[i].pages + Share(Writers(i)') < Bound
    <2>1. Writers(i)' \in SUBSET Requests
      BY DEF Writers
    <2>2. Share(Writers(i)') \in Nat /\ Share(Writers(i)') <= Share(Requests) /\ Share(Requests) \in Nat
      <3>1. Requests \in SUBSET Requests
        OBVIOUS
      <3>2. QED
        BY <2>1, <3>1, Shares
    <2>3. QED
      BY <1>2, <2>2, Constants DEF Bound
  <1>7. \A j \in Live' : objects'[j].pages + Share(Writers(j)') < Bound
    BY <1>2, <1>4, <1>5, <1>6 DEF PagesInv
  <1>8. \A j \in Live' : objects'[j].pages + Share(Writers(j))' < Bound'
    BY <1>5, <1>7 DEF Share
  <1>9. QED
    BY <1>2, <1>5, <1>8 DEF PagesInv

\* A session that is opened has the pages of its directory, or its root page.
LEMMA CreatePages ==
    ASSUME Inv, PagesInv, PageLimit > 1, NEW r \in Requests, NEW s \in Sids, Create(r, s)
    PROVE  PagesInv'
  <1>1. PICK n, M :
          /\ n \in Handles \ Live
          /\ req[r] = NoCall /\ req' = [req EXCEPT ![r] = [at |-> "body", object |-> n]]
          /\ MarkedAs(M, Victims, {})
          /\ objects' = [i \in Handles |-> IF i = n THEN Opened(s) ELSE M[i]]
          /\ Opened(s).pages \in {1, dirs[s].pages}
          /\ \A o \in Sids : dirs'[o].pages = IF o = s THEN Opened(s).pages
                                              ELSE IF o \in Victims THEN 0 ELSE dirs[o].pages
    BY CreateFacts
  <1>2. Bound' = Bound /\ Bound \in Nat /\ Bound > 1
    <2>1. Requests \in SUBSET Requests
      OBVIOUS
    <2>2. QED
      BY <2>1, Shares, Constants DEF Bound, Share
  <1>3. Opened(s).pages < Bound
    BY <1>1, <1>2 DEF PagesInv
  <1>4. \A o \in Sids : dirs'[o].pages < Bound
    BY <1>1, <1>2, <1>3 DEF PagesInv
  <1>5. \A j : Writers(j)' = Writers(j)
    <2>1. req'[r].at = "body" /\ \A q \in Requests \ {r} : req'[q] = req[q]
      BY <1>1 DEF Inv, Shapes
    <2>2. QED
      BY <1>1, <2>1 DEF Writers, NoCall
  <1>6. ASSUME NEW j \in Live' PROVE objects'[j].pages + Share(Writers(j)') < Bound
    <2>1. CASE j = n
      <3>1. objects'[j].pages = Opened(s).pages /\ Share(Writers(j)') = 0
        <4>1. {} \in SUBSET Requests /\ Writers(n) = {}
          BY <1>1, PageFacts
        <4>2. QED
          BY <1>1, <1>5, <2>1, <4>1, Shares
      <3>2. Opened(s).pages \in Nat
        BY <1>1, PageFacts
      <3>3. QED
        BY <1>3, <3>1, <3>2
    <2>2. CASE j # n
      <3>1. j \in Handles /\ objects'[j] = M[j] /\ M[j] # NoObject
        BY <1>1, <1>6, <2>2 DEF Live
      <3>2. j \in Live /\ M[j].pages = objects[j].pages
        BY <1>1, <3>1 DEF MarkedAs
      <3>3. QED
        BY <1>5, <3>1, <3>2 DEF PagesInv
    <2>3. QED
      BY <2>1, <2>2
  <1>7. \A j \in Live' : objects'[j].pages + Share(Writers(j))' < Bound'
    BY <1>2, <1>6 DEF Share
  <1>8. QED
    BY <1>2, <1>4, <1>7 DEF PagesInv

\* Every step keeps sessions and directories below the bound.
LEMMA PagesStep ==
    ASSUME Inv, PagesInv, Writes \subseteq {"insert"}, PageLimit > 1, [Next]_vars
    PROVE  PagesInv'
  <1>1. ASSUME NEW W, NEW T, Removal(W, T) PROVE PagesInv'
    <2>1. /\ Live' \subseteq Live /\ \A i \in Live' : objects'[i].pages = objects[i].pages
          /\ \A s \in Sids : dirs'[s].pages \in {0, dirs[s].pages}
          /\ req' = req
      BY <1>1, RemovalFacts
    <2>2. \A i : Writers(i)' = Writers(i)
      BY <2>1 DEF Writers
    <2>3. QED
      BY <2>1, <2>2, NoMorePages
  <1>2. ASSUME NEW r \in Requests, NEW s \in Sids, Hit(r, s) PROVE PagesInv'
    <2>1. req[r].at = "idle" /\ req' = [req EXCEPT ![r] = [at |-> "body", object |-> sessions[s]]]
          /\ UNCHANGED <<objects, dirs>>
      BY <1>2 DEF Hit, Serve
    <2>2. req'[r].at = "body" /\ \A q \in Requests \ {r} : req'[q] = req[q]
      BY <2>1 DEF Inv, Shapes
    <2>3. \A i : Writers(i)' = Writers(i)
      BY <2>1, <2>2 DEF Writers
    <2>4. QED
      BY <2>1, <2>3, NoMorePages DEF Live
  <1>3. ASSUME NEW r \in Requests, req[r].at # "idle"
        PROVE  Object(r) \in Session /\ Object(r).pages \in Nat /\ Object(r).sid \in Sids
    <2>1. req[r].object \in Live
      BY <1>3, RefFacts
    <2>2. QED
      BY <2>1, RefFacts, SessionFacts DEF Object
  <1>4. ASSUME NEW r \in Requests, Answer(r) PROVE PagesInv'
    <2>1. /\ req[r].at # "idle" /\ Reply(r, Object(r)) /\ sessions' = sessions /\ dirs' = dirs
          /\ 0 \in 0..MaxGrowth
      BY <1>4, Constants DEF Answer
    <2>2. Object(r) \in Session /\ Object(r).pages = Object(r).pages + 0
      BY <1>3, <2>1
    <2>3. QED
      BY <2>1, <2>2, ReplyPages
  <1>5. ASSUME NEW r \in Requests, Write(r) PROVE PagesInv'
    <2>1. PICK n \in 0..MaxGrowth, onDisk \in BOOLEAN :
            /\ Reply(r, [Object(r) EXCEPT !.pages = @ + n])
            /\ dirs' = IF onDisk THEN [dirs EXCEPT ![Object(r).sid].pages = Object(r).pages + n] ELSE dirs
      BY <1>5 DEF Write
    <2>2. req[r].at = "write" /\ sessions' = sessions
      BY <1>5 DEF Write
    <2>3. PICK o : o = [Object(r) EXCEPT !.pages = @ + n]
      OBVIOUS
    <2>4. /\ o \in Session /\ o.sid = Object(r).sid /\ o.state = Object(r).state
          /\ o.pages = Object(r).pages + n
      BY <1>3, <2>2, <2>3, Constants DEF Session
    <2>5. \A s \in Sids : dirs'[s].pages \in {dirs[s].pages, o.pages}
      <3>1. PICK p, k : p = Object(r).sid /\ k = o.pages
        OBVIOUS
      <3>2. dirs' = IF onDisk THEN [dirs EXCEPT ![p].pages = k] ELSE dirs
        BY <2>1, <2>4, <3>1
      <3>3. \A s \in Sids : dirs'[s].pages \in {dirs[s].pages, k}
        BY <3>2 DEF Inv, Shapes
      <3>4. QED
        BY <3>1, <3>3
    <2>6. QED
      BY <2>1, <2>2, <2>3, <2>4, <2>5, ReplyPages
  <1>6. ASSUME NEW r \in Requests, req[r].at = "body", NEW T \in SUBSET Tables, Ddl(r, T)
        PROVE  PagesInv'
    <2>1. PICK o : o = [Object(r) EXCEPT !.tables = T]
      OBVIOUS
    <2>2. /\ o \in Session /\ o.sid = Object(r).sid /\ o.state = Object(r).state
          /\ o.pages = Object(r).pages + 0
      BY <1>3, <1>6, <2>1 DEF Session
    <2>3. /\ Reply(r, o) /\ sessions' = sessions /\ dirs' = Saved(Object(r).sid, T)
      BY <1>6, <2>1 DEF Ddl
    <2>4. \A s \in Sids : dirs'[s].pages = dirs[s].pages
      BY <2>3 DEF Saved, Inv, Shapes
    <2>5. 0 \in 0..MaxGrowth
      BY Constants
    <2>6. QED
      BY <1>6, <2>2, <2>3, <2>4, <2>5, ReplyPages
  <1>7. ASSUME NEW r \in Requests, NEW tb \in Tables, CreateTable(r, tb) \/ DropTable(r, tb)
        PROVE  PagesInv'
    <2>1. req[r].at = "body"
      BY <1>7 DEF CreateTable, DropTable
    <2>2. Object(r).tables \cup {tb} \in SUBSET Tables /\ Object(r).tables \ {tb} \in SUBSET Tables
      BY <1>3, <2>1, SessionFacts
    <2>3. QED
      BY <1>6, <1>7, <2>1, <2>2 DEF CreateTable, DropTable
  <1>8. ASSUME NEW r \in Requests, NEW kind \in Writes, Check(r, kind) PROVE PagesInv'
    <2>1. kind = "insert"
      OBVIOUS
    <2>2. QED
      BY <1>8, <2>1, CheckPages
  <1>9. ASSUME Age \/ UNCHANGED vars PROVE PagesInv'
    <2>1. UNCHANGED <<objects, dirs, req>>
      BY <1>9 DEF Age, vars
    <2>2. \A i : Writers(i)' = Writers(i)
      BY <2>1 DEF Writers
    <2>3. QED
      BY <2>1, <2>2, NoMorePages DEF Live
  <1>10. ASSUME Restart PROVE PagesInv'
    <2>1. Live' = {} /\ dirs' = dirs
      BY <1>10 DEF Restart, Live
    <2>2. QED
      BY <2>1, NoMorePages
  <1>11. QED
    BY <1>1, <1>2, <1>4, <1>5, <1>7, <1>8, <1>9, <1>10, CreatePages, StepKinds

\* maxSessions is never exceeded, whatever fails (sessions.go:80).  If only INSERTs
\* split leaves, as session.go:134 says, and a database may have more than its root
\* page, a session overruns the limit by one statement of each request at most.
THEOREM WithinLimitsTheorem ==
    ASSUME Writes \subseteq {"insert"}, PageLimit > 1
    PROVE  Spec => []WithinLimits
  <1>1. Init => PagesInv
    <2>1. SUFFICES ASSUME Init PROVE PagesInv
      OBVIOUS
    <2>2. Bound \in Nat /\ Bound > 0
      <3>1. Requests \in SUBSET Requests
        OBVIOUS
      <3>2. QED
        BY <3>1, Shares, Constants DEF Bound
    <2>3. Live = {} /\ \A s \in Sids : dirs[s].pages = 0
      BY <2>1 DEF Init, Live, NoDir
    <2>4. QED
      BY <2>2, <2>3 DEF PagesInv
  <1>2. Inv /\ PagesInv /\ [Next]_vars => PagesInv'
    BY PagesStep
  <1>3. Inv /\ PagesInv => WithinLimits
    <2>1. SUFFICES ASSUME Inv, PagesInv, NEW i \in Live PROVE objects[i].pages < Bound
      BY DEF WithinLimits, Inv, CountInv, Bound, Share
    <2>2. Writers(i) \in SUBSET Requests
      BY DEF Writers
    <2>3. Share(Writers(i)) \in Nat /\ Bound \in Nat
      BY <2>2, Shares
    <2>4. QED
      BY <2>1, <2>3, PageFacts DEF PagesInv
  <1>4. QED
    BY <1>1, <1>2, <1>3, Invariance, PTL DEF Spec

\* maxSessions holds whatever the statements are.
THEOREM NeverTooMany == Spec => [](Cardinality(Known) <= MaxSessions)
  <1>1. Inv => Cardinality(Known) <= MaxSessions
    BY DEF Inv, CountInv
  <1>2. QED
    BY <1>1, Invariance, PTL

=============================================================================
