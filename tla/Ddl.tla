-------------------------------- MODULE Ddl --------------------------------
(***************************************************************************)
(* CREATE TABLE and DROP TABLE beside running statements, crashes and      *)
(* restarts: the catalog in memory and in catalog.json (catalog.go), the   *)
(* schemas that the repository keeps for row operations                    *)
(* (btree_repository.go), and the calls that the executor makes to both.   *)
(* DDL takes no table locks, so a statement may be planned with one schema *)
(* and run with another.                                                   *)
(*                                                                         *)
(* A schema is [id, width, born]: its TableID, the number of its columns   *)
(* and, as a history, the operation that created it.  Rows lie in the tree *)
(* under the TableID; those of a dropped table stay there.  A row survives *)
(* every crash once its statement has succeeded (TxnStore).                *)
(***************************************************************************)
EXTENDS Naturals, FiniteSets

CONSTANTS
    Clients,  \* requests served at a time
    Tables,   \* names of tables
    Widths,   \* numbers of columns of the tables that are created
    Faults,   \* which of FaultKinds may happen
    MaxOps,   \* bound on the operations of a run
    MaxCrashes \* bound on its crashes

FaultKinds == {"saveError", \* os.WriteFile fails, before or after it has emptied the file
               "powerLoss"} \* the machine stops, and not only the process

ASSUME DdlAssumption ==
    /\ Widths \subseteq Nat \ {0}
    /\ Faults \subseteq FaultKinds
    /\ MaxOps \in Nat /\ MaxCrashes \in Nat

VARIABLES
    up,       \* the database is open
    schemas,  \* Catalog.schemas: table -> schema, or None
    nextID,   \* Catalog.nextTableID
    file,     \* catalog.json: [torn, schemas, next]
    synced,   \* what a power loss leaves of it
    repo,     \* BTreeRepository.schemas: table -> schema, or None
    rows,     \* the tree: [id, width, op]
    client,   \* client -> what it is doing
    ops,      \* history: number of operations so far
    crashes,  \* history: number of crashes so far
    acked,    \* history: [born, op], the INSERTs that succeeded, and for which table
    told,     \* history: table -> "yes", "no", or "unknown": whether the catalog said it exists
    crossed,  \* history: tables whose schema in the repository is not the catalog's
    mixed,    \* history: TableIDs with rows of an INSERT that ran with another schema than
              \*          it was planned with, or with one that no save had written
    reverted  \* history: a power loss has taken an older catalog.json

catalog == <<schemas, nextID>>
disk    == <<file, synced>>
history == <<acked, told, crossed, mixed, reverted>>
vars == <<up, catalog, disk, repo, rows, client, ops, crashes, history>>

None   == [born |-> 0]
Nobody == [at |-> "idle"]
NoTables == [t \in Tables |-> None]
Existing == {t \in Tables : schemas[t] # None}

Init ==
    /\ up = TRUE
    /\ schemas = NoTables /\ nextID = 0
    /\ file = [torn |-> FALSE, schemas |-> NoTables, next |-> 0]
    /\ synced = file
    /\ repo = NoTables /\ rows = {}
    /\ client = [c \in Clients |-> Nobody]
    /\ ops = 0 /\ crashes = 0
    /\ acked = {} /\ told = [t \in Tables |-> "no"]
    /\ crossed = {} /\ mixed = {} /\ reverted = FALSE

\* Catalog.mu is free: a save keeps it.
Free == \A c \in Clients : client[c].at \notin {"saving", "writing"}

Begins(c, call) ==
    /\ up /\ client[c] = Nobody /\ Free
    /\ ops < MaxOps /\ ops' = ops + 1
    /\ client' = [client EXCEPT ![c] = call]

-----------------------------------------------------------------------------
(* Catalog.CreateTable and DropTable: first the memory, then the file.     *)

\* Mutant: the number of tables is taken for the next TableID.
MutCreateTable(c, t, n) ==
    /\ t \notin Existing
    /\ Begins(c, [at |-> "saving", op |-> "create", table |-> t])
    /\ schemas' = [schemas EXCEPT ![t] = [id |-> Cardinality(Existing), width |-> n, born |-> ops + 1]]
    /\ nextID' = nextID + 1
    /\ told' = [told EXCEPT ![t] = "unknown"]
    /\ UNCHANGED <<up, disk, repo, rows, crashes, acked, crossed, mixed, reverted>>
CreateTable(c, t, n) ==
    /\ t \notin Existing
    /\ Begins(c, [at |-> "saving", op |-> "create", table |-> t])
    /\ schemas' = [schemas EXCEPT ![t] = [id |-> nextID, width |-> n, born |-> ops + 1]]
    /\ nextID' = nextID + 1
    /\ told' = [told EXCEPT ![t] = "unknown"]
    /\ UNCHANGED <<up, disk, repo, rows, crashes, acked, crossed, mixed, reverted>>

\* Mutant: the file is not written.
MutDropTable(c, t) ==
    /\ t \in Existing
    /\ Begins(c, Nobody)
    /\ schemas' = [schemas EXCEPT ![t] = None]
    /\ told' = [told EXCEPT ![t] = "no"]
    /\ UNCHANGED <<up, nextID, disk, repo, rows, crashes, acked, crossed, mixed, reverted>>
DropTable(c, t) ==
    /\ t \in Existing
    /\ Begins(c, [at |-> "saving", op |-> "drop", table |-> t])
    /\ schemas' = [schemas EXCEPT ![t] = None]
    /\ told' = [told EXCEPT ![t] = "unknown"]
    /\ UNCHANGED <<up, nextID, disk, repo, rows, crashes, acked, crossed, mixed, reverted>>

\* os.WriteFile empties the file before it writes.
Truncate(c) ==
    /\ client[c].at = "saving"
    /\ file' = [file EXCEPT !.torn = TRUE]
    /\ client' = [client EXCEPT ![c].at = "writing"]
    /\ UNCHANGED <<up, catalog, synced, repo, rows, ops, crashes, history>>

\* save returns, and the call with it.
Saved(c) ==
    /\ client[c].at = "writing"
    /\ file' = [torn |-> FALSE, schemas |-> schemas, next |-> nextID]
    /\ LET t == client[c].table
       IN \/ /\ client[c].op = "create"
             /\ client' = [client EXCEPT ![c] = [at |-> "created", table |-> t]]
             /\ told' = [told EXCEPT ![t] = "yes"]
          \/ /\ client[c].op = "drop"
             /\ client' = [client EXCEPT ![c] = Nobody]
             /\ told' = [told EXCEPT ![t] = "no"]
    /\ UNCHANGED <<up, catalog, synced, repo, rows, ops, crashes, acked, crossed, mixed, reverted>>

\* The statement fails, but the memory is changed; a new table is not registered.
SaveFails(c) ==
    /\ "saveError" \in Faults
    /\ client[c].at \in {"saving", "writing"}
    /\ client' = [client EXCEPT ![c] = Nobody]
    /\ crossed' = crossed \cup {client[c].table}
    /\ UNCHANGED <<up, catalog, disk, repo, rows, ops, crashes, acked, told, mixed, reverted>>

\* executeDDLOrTxnMarker asks the catalog for the schema with its TableID ...
GetSchema(c) ==
    /\ client[c].at = "created" /\ Free
    /\ LET t == client[c].table
       IN client' = [client EXCEPT ![c] = IF t \in Existing THEN [at |-> "opening", table |-> t, schema |-> schemas[t]]
                                          ELSE Nobody]
    /\ UNCHANGED <<up, catalog, disk, repo, rows, ops, crashes, history>>

\* Mutant: the schema of the statement, without its TableID, is registered.
MutOpenTable(c) ==
    /\ client[c].at = "opening"
    /\ LET t == client[c].table
       IN /\ repo' = [repo EXCEPT ![t] = [client[c].schema EXCEPT !.id = 0]]
          /\ crossed' = IF client[c].schema = schemas[t] THEN crossed \ {t} ELSE crossed \cup {t}
    /\ client' = [client EXCEPT ![c] = Nobody]
    /\ UNCHANGED <<up, catalog, disk, rows, ops, crashes, acked, told, mixed, reverted>>
\* ... and registers it with the repository: another DROP and CREATE may have
\* come in between.
OpenTable(c) ==
    /\ client[c].at = "opening"
    /\ LET t == client[c].table
       IN /\ repo' = [repo EXCEPT ![t] = client[c].schema]
          /\ crossed' = IF client[c].schema = schemas[t] THEN crossed \ {t} ELSE crossed \cup {t}
    /\ client' = [client EXCEPT ![c] = Nobody]
    /\ UNCHANGED <<up, catalog, disk, rows, ops, crashes, acked, told, mixed, reverted>>

-----------------------------------------------------------------------------
(* INSERT.  The other row operations find the schema in the same way.      *)

\* planInsert, with as many values as the catalog says.
Plan(c, t) ==
    /\ t \in Existing
    /\ Begins(c, [at |-> "planned", table |-> t, schema |-> schemas[t], op |-> ops + 1])
    /\ UNCHANGED <<up, catalog, disk, repo, rows, crashes, history>>

\* BTreeRepository.Insert with the repository's schema.  The table may not be
\* registered, and encodeLeafCell panics if the row has too few values; values
\* that are too many are left out.
Insert(c) ==
    /\ client[c].at = "planned"
    /\ LET planned == client[c].schema
           used    == repo[client[c].table]
       IN \/ /\ used = None \/ (used # None /\ planned.width < used.width)
             /\ UNCHANGED <<rows, acked, mixed>>
          \/ /\ used # None /\ planned.width >= used.width
             /\ rows'  = rows \cup {[id |-> used.id, width |-> used.width, op |-> client[c].op]}
             /\ acked' = acked \cup {[born |-> planned.born, op |-> client[c].op]}
             /\ mixed' = IF used = planned /\ used.id < file.next THEN mixed ELSE mixed \cup {used.id, planned.id}
    /\ client' = [client EXCEPT ![c] = Nobody]
    /\ UNCHANGED <<up, catalog, disk, repo, ops, crashes, told, crossed, reverted>>

-----------------------------------------------------------------------------
(* Crashes and restarts.                                                   *)

\* The system writes catalog.json to the disk some time: save does not sync it.
WriteBack ==
    /\ "powerLoss" \in Faults /\ synced # file
    /\ synced' = file
    /\ UNCHANGED <<up, catalog, file, repo, rows, client, ops, crashes, history>>

Crash(left) ==
    /\ up /\ crashes < MaxCrashes /\ crashes' = crashes + 1
    /\ up' = FALSE
    /\ file' = left
    /\ reverted' = (reverted \/ left # file)
    /\ told' = [t \in Tables |-> IF left = file THEN told[t] ELSE "unknown"]
    /\ schemas' = NoTables /\ nextID' = 0 /\ repo' = NoTables
    /\ client' = [c \in Clients |-> Nobody]
    /\ crossed' = {}
    /\ UNCHANGED <<synced, rows, ops, acked, mixed>>

\* Mutant: the next TableID is the first one above those of the tables.
MutOpen ==
    /\ ~up /\ ~file.torn
    /\ up' = TRUE
    /\ schemas' = file.schemas
    /\ nextID' = CHOOSE n \in 0..file.next :
                   /\ \A t \in Tables : file.schemas[t] = None \/ file.schemas[t].id < n
                   /\ n = 0 \/ \E t \in Tables : file.schemas[t] # None /\ file.schemas[t].id = n - 1
    /\ repo' = file.schemas
    /\ UNCHANGED <<disk, rows, client, ops, crashes, history>>
\* client.Open: NewCatalog, which fails if the file is torn, and OpenTable for
\* every table in it.
Open ==
    /\ ~up /\ ~file.torn
    /\ up' = TRUE
    /\ schemas' = file.schemas /\ nextID' = file.next
    /\ repo' = file.schemas
    /\ UNCHANGED <<disk, rows, client, ops, crashes, history>>

Next ==
    \/ \E c \in Clients, t \in Tables : (\E n \in Widths : CreateTable(c, t, n)) \/ DropTable(c, t) \/ Plan(c, t)
    \/ \E c \in Clients : Truncate(c) \/ Saved(c) \/ SaveFails(c) \/ GetSchema(c) \/ OpenTable(c) \/ Insert(c)
    \/ WriteBack \/ Crash(file) \/ ("powerLoss" \in Faults /\ Crash(synced)) \/ Open

Spec == Init /\ [][Next]_vars

-----------------------------------------------------------------------------
(* Properties.                                                             *)

Schema == {None} \cup [id : Nat, width : Widths, born : 1..MaxOps]
Calls  == {"idle", "saving", "writing", "created", "opening", "planned"}

\* Types; and tables have different TableIDs, below the next one.
TypeOK ==
    /\ up \in BOOLEAN /\ reverted \in BOOLEAN /\ nextID \in Nat
    /\ \A t \in Tables : {schemas[t], repo[t], file.schemas[t], synced.schemas[t]} \subseteq Schema
    /\ \A t \in Existing : schemas[t].id < nextID
    /\ \A t, u \in Existing : schemas[t].id = schemas[u].id => t = u
    /\ \A c \in Clients : client[c].at \in Calls
    /\ rows \subseteq [id : Nat, width : Widths, op : 1..MaxOps]
    /\ ops \in 0..MaxOps /\ crashes \in 0..MaxCrashes

\* A table has the rows that INSERTs into it have added since it was created, with
\* as many columns as it has, and none of an earlier table, whatever was dropped,
\* failed or crashed in between (catalog.go:70): unless an INSERT ran with another
\* schema than it was planned with, or with one whose save had failed (which another
\* CREATE of that name had then registered), or a power loss brought an older
\* catalog back.
RowsOfItsTable ==
    up => \A t \in Existing :
        LET mine == {r \in rows : r.id = schemas[t].id}
        IN \/ schemas[t].id \in mixed \/ reverted
           \/ /\ {r.op : r \in mine} = {a.op : a \in {a \in acked : a.born = schemas[t].born}}
              /\ \A r \in mine : r.width = schemas[t].width

\* Statements run with the schema they are planned with: the repository has the
\* catalog's schema of every table that is not just being created
\* (executor.go:98).  Exceptions are a CREATE whose save failed, and one that
\* was overtaken by DROP and CREATE of the same name before it registered its schema.
RepoAgrees ==
    up => \A t \in Existing :
        \/ repo[t] = schemas[t] \/ t \in crossed
        \/ \E c \in Clients : client[c].at \in {"saving", "writing", "created", "opening"} /\ client[c].table = t

\* What the catalog said of a table when a call last succeeded is so, after a
\* restart too (catalog.go:63-85), unless a power loss took it back.
CatalogKept ==
    up /\ Free => \A t \in Tables : (told[t] = "yes" => t \in Existing) /\ (told[t] = "no" => t \notin Existing)

=============================================================================
