---------------------------- MODULE SessionStore ----------------------------
(***************************************************************************)
(* The sessions of db-internal-app: the map from session cookies to open   *)
(* databases (internal/api/sessions.go), the handlers that use it          *)
(* (server.go) and what they do to a database (internal/dbsession).  Each  *)
(* session has a directory of its own.  The store's mutex covers a look-up *)
(* or a removal, not the statement that runs on the session it returned:   *)
(* a session can be removed under a request, and its directory created     *)
(* again for the same cookie.                                              *)
(*                                                                         *)
(* A database is abstracted to its catalog, in memory and in the file      *)
(* catalog.json, and to the number of its pages.  What transactions do to  *)
(* rows is the subject of TxnStore.                                        *)
(***************************************************************************)
EXTENDS Naturals, FiniteSets, FiniteSetsExt

CONSTANTS
    Sids,         \* session cookies
    Requests,     \* requests served at a time (goroutines of the HTTP server)
    Tables,       \* names of tables
    Writes,       \* statements that split leaves: INSERT is limited, UPDATE is not
    Faults,       \* which of FaultKinds may happen
    MaxSessions,  \* maxSessions
    PageLimit,    \* maxPagesPerSession
    MaxGrowth,    \* most pages a statement takes for its splits
    MaxCalls      \* bound on the requests and restarts of a run

FaultKinds == {"openError",  \* dbsession.Open fails
               "closeError"} \* closing the log or the page file fails

ASSUME SessionAssumption ==
    /\ Writes \subseteq {"insert", "update"}
    /\ Faults \subseteq FaultKinds
    /\ IsFiniteSet(Requests)
    /\ {MaxSessions, PageLimit} \subseteq Nat \ {0}
    /\ {MaxGrowth, MaxCalls} \subseteq Nat

VARIABLES
    sessions, \* cookie -> number of its session object, 0 if not in the map
    lastAccess, \* cookie -> the call that used its session last, 0 if not in the map
    idle,     \* the cookies in the map that are past idleTimeout
    objects,  \* the session objects that the map or a request refers to
    dirs,     \* cookie -> its directory
    req,      \* request -> what it is doing
    calls,    \* history: requests and restarts so far
    since,    \* history: cookie -> the others that were used since it was
    expected, \* history: cookie -> the tables its user was told it has
    misfiled  \* history: cookies whose directory a request for an earlier session changed

vars == <<sessions, lastAccess, idle, objects, dirs, req, calls, since, expected, misfiled>>
history == <<calls, since, expected, misfiled>>

NoDir  == [exists |-> FALSE, tables |-> {}, pages |-> 0]
NoCall == [at |-> "idle", object |-> 0]
NoObject == [state |-> "none"]

\* One request may hold on to a removed session each.
Handles == 1..(MaxSessions + Cardinality(Requests))
Live == {i \in Handles : objects[i] # NoObject}

Known == {s \in Sids : sessions[s] # 0}
Object(r) == objects[req[r].object]

-----------------------------------------------------------------------------
Init ==
    /\ sessions = [s \in Sids |-> 0] /\ lastAccess = [s \in Sids |-> 0] /\ idle = {}
    /\ objects = [i \in Handles |-> NoObject]
    /\ dirs = [s \in Sids |-> NoDir]
    /\ req = [r \in Requests |-> NoCall]
    /\ calls = 0
    /\ since = [s \in Sids |-> {}]
    /\ expected = [s \in Sids |-> {}]
    /\ misfiled = {}

\* evictLocked: Close, leave the map, delete the directory.
CanClose(s) == objects[sessions[s]].state = "open"
Without(S) == [s \in Sids |-> IF s \in S THEN 0 ELSE lastAccess[s]]

\* Mutant: a removed session is not closed.
MutMarked(S, T) == objects
\* Mutant: a session that is removed takes the requests that use it with it.
MutMarkedGone(S, T) ==
    [i \in Handles |->
       IF \E s \in S : sessions[s] = i THEN NoObject
       ELSE IF \E s \in T : sessions[s] = i THEN [objects[i] EXCEPT !.state = "broken"] ELSE objects[i]]
\* The sessions of S are closed, and no longer exist if no request uses them.  For
\* those of T Close failed, and will fail from now on: the log, which it closes
\* first, is closed.
Marked(S, T) ==
    [i \in Handles |->
       IF \E s \in S : sessions[s] = i
       THEN IF \E r \in Requests : req[r].object = i THEN [objects[i] EXCEPT !.state = "closed"] ELSE NoObject
       ELSE IF \E s \in T : sessions[s] = i THEN [objects[i] EXCEPT !.state = "broken"] ELSE objects[i]]
\* Mutant: the directory stays.
MutDeleted(S) == dirs
Deleted(S) == [s \in Sids |-> IF s \in S THEN NoDir ELSE dirs[s]]

\* What the users of S were told is void.
Forgotten(S) == [s \in Sids |-> IF s \in S THEN {} ELSE expected[s]]
Used(s) == [o \in Sids |-> IF o \in Known \ {s} THEN since[o] \cup {s} ELSE {}]

\* handleExec looks the session up before it reads the body of the request.
Serve(r, object) ==
    /\ req[r].at = "idle"
    /\ calls < MaxCalls /\ calls' = calls + 1
    /\ req' = [req EXCEPT ![r] = [at |-> "body", object |-> object]]

\* Mutant: a hit does not renew lastAccess.
MutHit(r, s) ==
    /\ s \in Known
    /\ Serve(r, sessions[s])
    /\ since' = Used(s)
    /\ UNCHANGED <<sessions, lastAccess, idle, objects, dirs, expected, misfiled>>

\* handleExec or handleTables: getOrCreate of a session in the map.
Hit(r, s) ==
    /\ s \in Known
    /\ Serve(r, sessions[s])
    /\ lastAccess' = [lastAccess EXCEPT ![s] = calls + 1]
    /\ idle' = idle \ {s}
    /\ since' = Used(s)
    /\ UNCHANGED <<sessions, objects, dirs, expected, misfiled>>

\* The session that has to go for a new one: evictLRULocked.
Oldest(S) == {s \in S : \A o \in S : lastAccess[s] <= lastAccess[o]}
Victims == IF Cardinality(Known) >= MaxSessions THEN Oldest(Known) ELSE {}

\* What Open reads from the directory; an empty tree gets a root page.
Opened(s) == [sid |-> s, state |-> "open", tables |-> dirs[s].tables, pages |-> Max({1, dirs[s].pages})]

\* getOrCreate of a new session, or of one that an earlier server has left on disk.
Create(r, s) ==
    LET new == Min(Handles \ Live)
    IN /\ s \notin Known
       /\ \A v \in Victims : CanClose(v)
       /\ Serve(r, new)
       /\ sessions' = [o \in Sids |-> IF o \in Victims THEN 0 ELSE IF o = s THEN new ELSE sessions[o]]
       /\ lastAccess' = [Without(Victims) EXCEPT ![s] = calls + 1]
       /\ idle' = idle \ Victims
       /\ objects' = [Marked(Victims, {}) EXCEPT ![new] = Opened(s)]
       /\ dirs' = [Deleted(Victims) EXCEPT ![s].exists = TRUE, ![s].pages = Opened(s).pages]
       /\ since' = Used(s)
       /\ expected' = Forgotten(Victims)
       /\ misfiled' = misfiled \ Victims

\* The old session is gone, the directory is there, and Open fails.
OpenFails(s) ==
    /\ "openError" \in Faults
    /\ s \notin Known /\ calls < MaxCalls
    /\ \A v \in Victims : CanClose(v)
    /\ calls' = calls + 1
    /\ sessions' = [o \in Sids |-> IF o \in Victims THEN 0 ELSE sessions[o]]
    /\ lastAccess' = Without(Victims)
    /\ idle' = idle \ Victims
    /\ objects' = Marked(Victims, {})
    /\ dirs' = [Deleted(Victims) EXCEPT ![s].exists = TRUE]
    /\ expected' = Forgotten(Victims) /\ misfiled' = misfiled \ Victims
    /\ UNCHANGED <<req, since>>

\* The session that should go cannot be closed: getOrCreate fails, now and, as
\* the session stays where it is, until its own user comes back.
EvictFails(s) ==
    /\ s \notin Known /\ calls < MaxCalls
    /\ Victims # {}
    /\ "closeError" \in Faults \/ \E v \in Victims : ~CanClose(v)
    /\ calls' = calls + 1
    /\ objects' = Marked({}, Victims)
    /\ UNCHANGED <<sessions, lastAccess, idle, dirs, req, since, expected, misfiled>>

\* handleReset.  A session that is not in the map loses its directory, too.
Reset(s) ==
    /\ dirs[s].exists
    /\ calls < MaxCalls /\ calls' = calls + 1
    /\ s \in Known => CanClose(s)
    /\ sessions' = [sessions EXCEPT ![s] = 0]
    /\ lastAccess' = Without({s})
    /\ idle' = idle \ {s}
    /\ objects' = Marked({s} \cap Known, {})
    /\ dirs' = Deleted({s})
    /\ expected' = Forgotten({s}) /\ misfiled' = misfiled \ {s}
    /\ UNCHANGED <<req, since>>

ResetFails(s) ==
    /\ calls < MaxCalls /\ calls' = calls + 1
    /\ s \in Known /\ ("closeError" \in Faults \/ ~CanClose(s))
    /\ objects' = Marked({}, {s})
    /\ UNCHANGED <<sessions, lastAccess, idle, dirs, req, since, expected, misfiled>>

\* Mutant: the first session that cannot be closed ends the round.
MutEvictable == IF \E s \in idle : ~CanClose(s) THEN {} ELSE idle
\* The sessions that a round of evictIdle removes; it ignores errors.
Evictable == {s \in idle : CanClose(s)}

EvictIdle ==
    /\ Evictable # {}
    /\ \E failing \in SUBSET Evictable :
         LET gone == Evictable \ failing
         IN /\ failing # {} => "closeError" \in Faults
            /\ sessions' = [s \in Sids |-> IF s \in gone THEN 0 ELSE sessions[s]]
            /\ lastAccess' = Without(gone)
            /\ idle' = idle \ gone
            /\ objects' = Marked(gone, failing)
            /\ dirs' = Deleted(gone)
            /\ expected' = Forgotten(gone) /\ misfiled' = misfiled \ gone
    /\ UNCHANGED <<req, calls, since>>

\* idleTimeout passes for the oldest session that is not idle yet.  A statement
\* takes seconds at most; reading the body of a request has no limit.
Age ==
    /\ \E s \in Oldest(Known \ idle) :
         /\ \A r \in Requests : req[r].at = "write" => req[r].object # sessions[s]
         /\ idle' = idle \cup {s}
    /\ UNCHANGED <<sessions, lastAccess, objects, dirs, req, history>>

-----------------------------------------------------------------------------
(* Session.Exec on the object the request got.                             *)

\* The request ends, leaving its session object as o.
Reply(r, o) ==
    LET i == req[r].object
    IN /\ req' = [req EXCEPT ![r] = NoCall]
       /\ objects' = [objects EXCEPT ![i] = IF \/ sessions[o.sid] = i
                                               \/ \E q \in Requests \ {r} : req[q].object = i
                                            THEN o ELSE NoObject]

\* Mutant: every request goes ahead.
MutOverLimit(r, kind) == FALSE
\* The page limit is for INSERT only, and checked before it waits for its lock.
OverLimit(r, kind) == kind = "insert" /\ Object(r).pages >= PageLimit

Check(r, kind) ==
    /\ req[r].at = "body" /\ kind \in Writes
    /\ ~OverLimit(r, kind)
    /\ req' = [req EXCEPT ![r].at = "write"]
    /\ UNCHANGED <<sessions, lastAccess, idle, objects, dirs, history>>

\* A reply that leaves the session as it is: to handleTables, to a SELECT or
\* DELETE, or because the body is no JSON, the statement no SQL, the limit is
\* reached, the table of a CREATE exists or that of a DROP does not.
Answer(r) ==
    /\ req[r].at = "body"
    /\ Reply(r, Object(r))
    /\ UNCHANGED <<sessions, lastAccess, idle, dirs, history>>

\* INSERT or UPDATE; both split leaves.  Pages are not given back when the
\* statement fails.  AllocatePage counts a page before it writes it, so closed
\* files count, too; if Close failed, the page file may be open or not.
Write(r) ==
    /\ req[r].at = "write"
    /\ \E n \in 0..MaxGrowth, onDisk \in BOOLEAN :
         /\ Object(r).state = "open" => onDisk
         /\ Object(r).state = "closed" => ~onDisk
         /\ Reply(r, [Object(r) EXCEPT !.pages = @ + n])
         /\ dirs' = IF onDisk THEN [dirs EXCEPT ![Object(r).sid].pages = Object(r).pages + n] ELSE dirs
    /\ UNCHANGED <<sessions, lastAccess, idle, history>>

\* Catalog.save: WriteFile by path name, which succeeds if the directory exists
\* whoever has created it.
Saved(s, tables) == IF dirs[s].exists THEN [dirs EXCEPT ![s].tables = tables] ELSE dirs

\* Catalog.CreateTable or DropTable: first the memory, then the file.
Ddl(r, tables) ==
    LET s    == Object(r).sid
        mine == sessions[s] = req[r].object
    IN /\ Reply(r, [Object(r) EXCEPT !.tables = tables])
       /\ dirs' = Saved(s, tables)
       /\ expected' = IF mine THEN [expected EXCEPT ![s] = tables] ELSE expected
       /\ misfiled' = misfiled \cup {o \in {s} : dirs[s].exists /\ ~mine}
       /\ UNCHANGED <<sessions, lastAccess, idle, calls, since>>

CreateTable(r, tb) == /\ req[r].at = "body" /\ tb \notin Object(r).tables
                      /\ Ddl(r, Object(r).tables \cup {tb})
DropTable(r, tb)   == /\ req[r].at = "body" /\ tb \in Object(r).tables
                      /\ Ddl(r, Object(r).tables \ {tb})

\* The server ends and starts: the map is empty, the directories are there.
Restart ==
    /\ calls < MaxCalls /\ calls' = calls + 1
    /\ sessions' = [s \in Sids |-> 0] /\ lastAccess' = [s \in Sids |-> 0] /\ idle' = {}
    /\ objects' = [i \in Handles |-> NoObject]
    /\ req' = [r \in Requests |-> NoCall]
    /\ UNCHANGED <<dirs, since, expected, misfiled>>

Next ==
    \/ \E s \in Sids : \/ OpenFails(s) \/ EvictFails(s) \/ Reset(s) \/ ResetFails(s)
                       \/ \E r \in Requests : Hit(r, s) \/ Create(r, s)
    \/ \E r \in Requests :
         \/ Answer(r) \/ Write(r)
         \/ \E kind \in Writes : Check(r, kind)
         \/ \E tb \in Tables : CreateTable(r, tb) \/ DropTable(r, tb)
    \/ EvictIdle \/ Age \/ Restart

Spec == Init /\ [][Next]_vars

\* Time passes, the goroutine of cleanupLoop ticks, and a statement ends by its
\* timeout at the latest.
FairSpec == /\ Spec
            /\ WF_vars(Age) /\ WF_vars(EvictIdle)
            /\ \A r \in Requests : WF_vars(Write(r))

-----------------------------------------------------------------------------
(* Properties.                                                             *)

TypeOK ==
    /\ sessions \in [Sids -> {0} \cup Live]
    /\ lastAccess \in [Sids -> 0..MaxCalls] /\ idle \subseteq Known
    /\ \A i \in Live :
         /\ objects[i].sid \in Sids /\ objects[i].state \in {"open", "broken", "closed"}
         /\ objects[i].tables \subseteq Tables
         /\ objects[i].pages \in Nat
    /\ dirs \in [Sids -> [exists : BOOLEAN, tables : SUBSET Tables, pages : Nat]]
    /\ \A r \in Requests : req[r].at \in {"idle", "body", "write"}
                           /\ req[r].object \in {0} \cup Live
    /\ since \in [Sids -> SUBSET Sids] /\ expected \in [Sids -> SUBSET Tables]
    /\ misfiled \subseteq Sids

\* The files of a session are open exactly as long as it is in the map: no
\* object is forgotten with open files, no two objects have the files of one
\* directory open, and none in the map is closed, whatever is evicted, reset or
\* opened again in between (sessions.go:71-112).
OpenIffKnown ==
    \A i \in Live :
        /\ objects[i].state = "closed" <=> sessions[objects[i].sid] # i
        /\ sessions[objects[i].sid] = i => dirs[objects[i].sid].exists

\* A session is taken from its user only by his reset, after idleTimeout, or when
\* MaxSessions - 1 others have been used since (spec.md: the one with the oldest
\* lastAccess makes room).
OnlyOldestEvicted ==
    [][\A s \in Known : sessions'[s] # 0
                        \/ Reset(s) \/ Restart
                        \/ s \in idle
                        \/ Cardinality(since[s]) >= MaxSessions - 1]_vars

\* A user finds the tables he was told he has, and no others: after restarts,
\* and from scratch after his session was removed (sessions.go:111, catalog.go:63).
\* The exception is a cookie whose present session was changed by a request that
\* survived the session before it.
SessionExact ==
    \A s \in Sids \ misfiled :
        /\ dirs[s].tables = expected[s]
        /\ s \in Known => objects[sessions[s]].tables = expected[s]

\* maxSessions is never exceeded, whatever fails (sessions.go:80), and the pages of
\* a session overrun their limit by what the requests under way can take, no more
\* (session.go:134: only INSERT takes pages, and it is checked).  The latter holds
\* as long as the statements that split leaves are INSERTs.
WithinLimits ==
    /\ Cardinality(Known) <= MaxSessions
    /\ \A i \in Live : objects[i].pages < PageLimit + Cardinality(Requests) * MaxGrowth

\* A session that nobody uses any more is removed (spec.md: cleanupLoop), unless
\* it cannot be closed.  The requests of a run are bounded: there is a last one.
IdleSessionsGo ==
    \A s \in Sids : <>[](s \in Known => objects[sessions[s]].state = "broken")

=============================================================================
