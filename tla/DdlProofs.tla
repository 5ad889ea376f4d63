------------------------------ MODULE DdlProofs ------------------------------
(***************************************************************************)
(* Proofs about Ddl, for every set of clients, tables and widths, every    *)
(* bound and every combination of faults.                                  *)
(***************************************************************************)
EXTENDS Ddl, TLAPS

RealSchema == [id : Nat, width : Widths, born : 1..MaxOps]
CatalogFile == [torn : BOOLEAN, schemas : [Tables -> Schema], next : Nat]

\* What a client may be doing.
SavingCall  == [at : {"saving", "writing"}, op : {"create", "drop"}, table : Tables]
CreatedCall == [at : {"created"}, table : Tables]
OpeningCall == [at : {"opening"}, table : Tables, schema : RealSchema]
PlannedCall == [at : {"planned"}, table : Tables, schema : RealSchema, op : 1..MaxOps]
CallOK(k) ==
    k = Nobody \/ k \in SavingCall \/ k \in CreatedCall \/ k \in OpeningCall \/ k \in PlannedCall

\* The tables of a catalog have different TableIDs, below the next one.
Numbered(s, next) ==
    /\ \A t \in Tables : s[t] # None => s[t].id < next
    /\ \A t, u \in Tables : s[t] # None /\ s[u] # None /\ s[t].id = s[u].id => t = u

ShapeInv ==
    /\ up \in BOOLEAN /\ reverted \in BOOLEAN /\ nextID \in Nat
    /\ schemas \in [Tables -> Schema] /\ repo \in [Tables -> Schema]
    /\ file \in CatalogFile /\ synced \in CatalogFile
    /\ client = [c \in Clients |-> client[c]] /\ \A c \in Clients : CallOK(client[c])
    /\ rows \subseteq [id : Nat, width : Widths, op : 1..MaxOps]
    /\ acked \subseteq [born : 1..MaxOps, op : 1..MaxOps]
    /\ told \in [Tables -> {"yes", "no", "unknown"}]
    /\ crossed \subseteq Tables /\ mixed \subseteq Nat
    /\ ops \in 0..MaxOps /\ crashes \in 0..MaxCrashes

NumberInv ==
    /\ Numbered(schemas, nextID)
    /\ Numbered(file.schemas, file.next)
    /\ Numbered(synced.schemas, synced.next)

\* A database that is not open serves nobody.
ClosedInv == ~up => \A c \in Clients : client[c] = Nobody

-----------------------------------------------------------------------------
\* A schema is not the absence of one.
LEMMA SchemaFacts ==
    /\ None \in Schema /\ NoTables \in [Tables -> Schema]
    /\ \A x \in RealSchema : x \in Schema /\ x # None
    /\ \A x \in Schema : x # None => x \in RealSchema
  BY DEF Schema, RealSchema, None, NoTables

\* A call is told by where it is.
LEMMA CallFacts ==
    ASSUME NEW k, CallOK(k)
    PROVE  /\ k.at \in Calls
           /\ k.at = "idle" <=> k = Nobody
           /\ k.at \in {"saving", "writing"} <=> k \in SavingCall
           /\ k.at = "created" <=> k \in CreatedCall
           /\ k.at = "opening" <=> k \in OpeningCall
           /\ k.at = "planned" <=> k \in PlannedCall
  BY DEF CallOK, Calls, Nobody, SavingCall, CreatedCall, OpeningCall, PlannedCall

\* The client moves on, the others stay where they are.
LEMMA ClientStep ==
    ASSUME ShapeInv, NEW c \in Clients, NEW k, CallOK(k),
           client' = [client EXCEPT ![c] = k]
    PROVE  /\ client' = [d \in Clients |-> client'[d]]
           /\ \A d \in Clients : CallOK(client'[d])
           /\ client'[c] = k
           /\ \A d \in Clients : d # c => client'[d] = client[d]
  BY DEF ShapeInv

\* The calls that the actions start are calls.
LEMMA NewCalls ==
    /\ CallOK(Nobody)
    /\ \A t \in Tables :
         /\ CallOK([at |-> "saving", op |-> "create", table |-> t])
         /\ CallOK([at |-> "saving", op |-> "drop", table |-> t])
         /\ CallOK([at |-> "created", table |-> t])
         /\ \A x \in RealSchema : CallOK([at |-> "opening", table |-> t, schema |-> x])
         /\ \A x \in RealSchema, n \in 1..MaxOps :
              CallOK([at |-> "planned", table |-> t, schema |-> x, op |-> n])
  BY DEF CallOK, SavingCall, CreatedCall, OpeningCall, PlannedCall

\* A save that has emptied the file is the same save.
LEMMA TruncateCall ==
    ASSUME NEW k \in SavingCall
    PROVE  LET w == [k EXCEPT !.at = "writing"]
           IN CallOK(w) /\ w.at = "writing" /\ w.op = k.op /\ w.table = k.table
  BY DEF CallOK, SavingCall

-----------------------------------------------------------------------------
\* What the actions of the clients do to the client, and the tables they touch.
LEMMA BeginsFacts ==
    ASSUME ShapeInv, NEW c \in Clients, NEW k, CallOK(k), Begins(c, k)
    PROVE  /\ up /\ Free /\ client[c] = Nobody
           /\ ops + 1 \in 1..MaxOps /\ ops' = ops + 1 /\ ops' \in 0..MaxOps
           /\ client' = [d \in Clients |-> client'[d]]
           /\ \A d \in Clients : CallOK(client'[d])
           /\ client'[c] = k
           /\ \A d \in Clients : d # c => client'[d] = client[d]
  <1>1. client' = [client EXCEPT ![c] = k] /\ ops' = ops + 1 /\ ops < MaxOps
    BY DEF Begins
  <1>2. ops + 1 \in 1..MaxOps /\ ops + 1 \in 0..MaxOps
    BY <1>1, DdlAssumption DEF ShapeInv
  <1>3. QED
    BY <1>1, <1>2, ClientStep DEF Begins

\* The starting state.
LEMMA InitShape == Init => ShapeInv /\ NumberInv /\ ClosedInv
  <1> SUFFICES ASSUME Init PROVE ShapeInv /\ NumberInv /\ ClosedInv
    OBVIOUS
  <1>1. file \in CatalogFile /\ synced \in CatalogFile
    BY SchemaFacts DEF Init, CatalogFile
  <1>2. ShapeInv
    <2>1. client = [c \in Clients |-> client[c]] /\ \A c \in Clients : CallOK(client[c])
      BY NewCalls DEF Init
    <2>2. 0 \in 0..MaxOps /\ 0 \in 0..MaxCrashes
      BY DdlAssumption
    <2>3. QED
      BY <1>1, <2>1, <2>2, SchemaFacts DEF Init, ShapeInv
  <1>3. NumberInv
    BY DEF Init, NumberInv, Numbered, NoTables
  <1>4. QED
    BY <1>2, <1>3 DEF Init, ClosedInv

\* Every step keeps the shapes.
LEMMA ShapeStep == ShapeInv /\ [Next]_vars => ShapeInv'
  <1> SUFFICES ASSUME ShapeInv, [Next]_vars PROVE ShapeInv'
    OBVIOUS
  <1> USE SchemaFacts, NewCalls DEF catalog, disk, history
  <1>1. ASSUME NEW c \in Clients, NEW t \in Tables, NEW n \in Widths, CreateTable(c, t, n)
        PROVE ShapeInv'
    <2>1. Begins(c, [at |-> "saving", op |-> "create", table |-> t])
      BY <1>1 DEF CreateTable
    <2>2. /\ ops + 1 \in 1..MaxOps /\ ops' \in 0..MaxOps
          /\ client' = [d \in Clients |-> client'[d]]
          /\ \A d \in Clients : CallOK(client'[d])
      BY <2>1, BeginsFacts
    <2>3. [id |-> nextID, width |-> n, born |-> ops + 1] \in RealSchema
      BY <2>2 DEF ShapeInv, RealSchema
    <2>4. QED
      BY <1>1, <2>2, <2>3 DEF CreateTable, ShapeInv
  <1>2. ASSUME NEW c \in Clients, NEW t \in Tables, DropTable(c, t) PROVE ShapeInv'
    <2>1. /\ ops' \in 0..MaxOps
          /\ client' = [d \in Clients |-> client'[d]]
          /\ \A d \in Clients : CallOK(client'[d])
      BY <1>2, BeginsFacts DEF DropTable
    <2>2. QED
      BY <1>2, <2>1 DEF DropTable, ShapeInv
  <1>3. ASSUME NEW c \in Clients, NEW t \in Tables, Plan(c, t) PROVE ShapeInv'
    <2>1. schemas[t] \in RealSchema
      BY <1>3 DEF Plan, Existing, ShapeInv
    <2>2. ops + 1 \in 1..MaxOps
      BY <1>3, DdlAssumption DEF Plan, Begins, ShapeInv
    <2>3. /\ ops' \in 0..MaxOps
          /\ client' = [d \in Clients |-> client'[d]]
          /\ \A d \in Clients : CallOK(client'[d])
      BY <1>3, <2>1, <2>2, BeginsFacts DEF Plan
    <2>4. QED
      BY <1>3, <2>3 DEF Plan, ShapeInv
  <1>4. ASSUME NEW c \in Clients, Truncate(c) PROVE ShapeInv'
    <2>1. client[c] \in SavingCall
      BY <1>4, CallFacts DEF Truncate, ShapeInv
    <2>2. client' = [client EXCEPT ![c] = [client[c] EXCEPT !.at = "writing"]]
      BY <1>4 DEF Truncate
    <2>3. /\ client' = [d \in Clients |-> client'[d]]
          /\ \A d \in Clients : CallOK(client'[d])
      BY <2>1, <2>2, TruncateCall, ClientStep
    <2>4. file' \in CatalogFile
      BY <1>4 DEF Truncate, ShapeInv, CatalogFile
    <2>5. QED
      BY <1>4, <2>3, <2>4 DEF Truncate, ShapeInv
  <1>5. ASSUME NEW c \in Clients, Saved(c) PROVE ShapeInv'
    <2>1. client[c].table \in Tables
      BY <1>5, CallFacts DEF Saved, ShapeInv, SavingCall
    <2>2. /\ client' = [d \in Clients |-> client'[d]]
          /\ \A d \in Clients : CallOK(client'[d])
      BY <1>5, <2>1, ClientStep DEF Saved
    <2>3. file' \in CatalogFile
      BY <1>5 DEF Saved, ShapeInv, CatalogFile
    <2>4. told' \in [Tables -> {"yes", "no", "unknown"}]
      BY <1>5, <2>1 DEF Saved, ShapeInv
    <2>5. QED
      BY <1>5, <2>2, <2>3, <2>4 DEF Saved, ShapeInv
  <1>6. ASSUME NEW c \in Clients, SaveFails(c) PROVE ShapeInv'
    <2>1. client[c].table \in Tables
      BY <1>6, CallFacts DEF SaveFails, ShapeInv, SavingCall
    <2>2. /\ client' = [d \in Clients |-> client'[d]]
          /\ \A d \in Clients : CallOK(client'[d])
      BY <1>6, ClientStep DEF SaveFails
    <2>3. QED
      BY <1>6, <2>1, <2>2 DEF SaveFails, ShapeInv
  <1>7. ASSUME NEW c \in Clients, GetSchema(c) PROVE ShapeInv'
    <2> DEFINE t == client[c].table
    <2>1. t \in Tables
      BY <1>7, CallFacts DEF GetSchema, ShapeInv, CreatedCall
    <2>2. t \in Existing => schemas[t] \in RealSchema
      BY <2>1 DEF Existing, ShapeInv
    <2>3. PICK k : CallOK(k) /\ client' = [client EXCEPT ![c] = k]
      BY <1>7, <2>1, <2>2 DEF GetSchema
    <2>4. /\ client' = [d \in Clients |-> client'[d]]
          /\ \A d \in Clients : CallOK(client'[d])
      BY <2>3, ClientStep
    <2>5. QED
      BY <1>7, <2>4 DEF GetSchema, ShapeInv
  <1>8. ASSUME NEW c \in Clients, OpenTable(c) PROVE ShapeInv'
    <2>1. client[c].table \in Tables /\ client[c].schema \in RealSchema
      BY <1>8, CallFacts DEF OpenTable, ShapeInv, OpeningCall
    <2>2. /\ client' = [d \in Clients |-> client'[d]]
          /\ \A d \in Clients : CallOK(client'[d])
      BY <1>8, ClientStep DEF OpenTable
    <2>3. QED
      BY <1>8, <2>1, <2>2 DEF OpenTable, ShapeInv
  <1>9. ASSUME NEW c \in Clients, Insert(c) PROVE ShapeInv'
    <2> DEFINE planned == client[c].schema
               used    == repo[client[c].table]
               n       == client[c].op
    <2>1. client[c].table \in Tables /\ planned \in RealSchema /\ n \in 1..MaxOps
      BY <1>9, CallFacts DEF Insert, ShapeInv, PlannedCall
    <2>2. /\ client' = [d \in Clients |-> client'[d]]
          /\ \A d \in Clients : CallOK(client'[d])
      BY <1>9, ClientStep DEF Insert
    <2>3. used # None => used \in RealSchema
      BY <2>1 DEF ShapeInv
    <2>4. used # None => /\ used.id \in Nat /\ planned.id \in Nat
                         /\ [id |-> used.id, width |-> used.width, op |-> n]
                              \in [id : Nat, width : Widths, op : 1..MaxOps]
                         /\ [born |-> planned.born, op |-> n]
                              \in [born : 1..MaxOps, op : 1..MaxOps]
      BY <2>1, <2>3 DEF RealSchema
    <2>5. /\ rows' \subseteq [id : Nat, width : Widths, op : 1..MaxOps]
          /\ acked' \subseteq [born : 1..MaxOps, op : 1..MaxOps]
          /\ mixed' \subseteq Nat
      BY <1>9, <2>4 DEF Insert, ShapeInv
    <2>6. QED
      BY <1>9, <2>2, <2>5 DEF Insert, ShapeInv
  <1>10. ASSUME WriteBack PROVE ShapeInv'
    BY <1>10 DEF WriteBack, ShapeInv
  <1>11. ASSUME NEW left \in {file, synced}, Crash(left) PROVE ShapeInv'
    <2>1. crashes' \in 0..MaxCrashes
      BY <1>11, DdlAssumption DEF Crash, ShapeInv
    <2>2. /\ client' = [d \in Clients |-> client'[d]]
          /\ \A d \in Clients : CallOK(client'[d])
      BY <1>11 DEF Crash
    <2>3. /\ told' \in [Tables -> {"yes", "no", "unknown"}]
          /\ reverted' \in BOOLEAN
      BY <1>11 DEF Crash, ShapeInv
    <2>4. QED
      BY <1>11, <2>1, <2>2, <2>3 DEF Crash, ShapeInv
  <1>12. ASSUME Open PROVE ShapeInv'
    BY <1>12 DEF Open, ShapeInv, CatalogFile
  <1>13. CASE UNCHANGED vars
    BY <1>13 DEF vars, ShapeInv
  <1>14. QED
    BY <1>1, <1>2, <1>3, <1>4, <1>5, <1>6, <1>7, <1>8, <1>9, <1>10, <1>11, <1>12, <1>13
       DEF Next

\* Every step keeps the TableIDs of the tables different: CreateTable takes the
\* next one, and the file never has a smaller next one than its tables need.
LEMMA NumberStep == ShapeInv /\ NumberInv /\ [Next]_vars => NumberInv'
  <1> SUFFICES ASSUME ShapeInv, NumberInv, [Next]_vars PROVE NumberInv'
    OBVIOUS
  <1> USE DEF catalog, disk, history
  <1>1. ASSUME NEW c \in Clients, NEW t \in Tables, NEW n \in Widths, CreateTable(c, t, n)
        PROVE NumberInv'
    <2> DEFINE x == [id |-> nextID, width |-> n, born |-> ops + 1]
    <2>1. /\ schemas' = [schemas EXCEPT ![t] = x] /\ nextID' = nextID + 1
          /\ UNCHANGED <<file, synced>>
      BY <1>1 DEF CreateTable
    <2>2. x.id = nextID /\ nextID \in Nat /\ schemas \in [Tables -> Schema]
      BY DEF ShapeInv
    <2>3. \A u \in Tables : schemas[u] # None => schemas[u].id \in Nat /\ schemas[u].id < nextID
      BY SchemaFacts DEF ShapeInv, NumberInv, Numbered, RealSchema
    <2>4. Numbered(schemas', nextID')
      <3> HIDE DEF x
      <3>1. \A u \in Tables : schemas'[u] = IF u = t THEN x ELSE schemas[u]
        BY <2>1, <2>2
      <3>2. \A u, v \in Tables : schemas[u] # None /\ schemas[v] # None /\ schemas[u].id = schemas[v].id => u = v
        BY DEF NumberInv, Numbered
      <3>3. QED
        BY <2>1, <2>2, <2>3, <3>1, <3>2 DEF Numbered
    <2>5. QED
      BY <2>1, <2>4 DEF NumberInv
  <1>2. ASSUME NEW c \in Clients, NEW t \in Tables, DropTable(c, t) PROVE NumberInv'
    BY <1>2 DEF DropTable, ShapeInv, NumberInv, Numbered
  <1>3. ASSUME NEW c \in Clients, Saved(c) PROVE NumberInv'
    BY <1>3 DEF Saved, NumberInv
  <1>4. ASSUME NEW c \in Clients, Truncate(c) PROVE NumberInv'
    <2>1. file'.schemas = file.schemas /\ file'.next = file.next
      BY <1>4 DEF Truncate, ShapeInv, CatalogFile
    <2>2. QED
      BY <1>4, <2>1 DEF Truncate, NumberInv
  <1>5. ASSUME NEW left \in {file, synced}, Crash(left) PROVE NumberInv'
    <2>1. Numbered(NoTables, 0)
      BY DEF Numbered, NoTables
    <2>2. QED
      BY <1>5, <2>1 DEF Crash, NumberInv
  <1>6. ASSUME Open \/ WriteBack PROVE NumberInv'
    BY <1>6 DEF Open, WriteBack, NumberInv
  <1>7. CASE UNCHANGED <<catalog, disk>>
    BY <1>7 DEF NumberInv
  <1>8. QED
    BY <1>1, <1>2, <1>3, <1>4, <1>5, <1>6, <1>7
       DEF Next, Plan, SaveFails, GetSchema, OpenTable, Insert, vars

\* Calls are served by an open database only.
LEMMA ClosedStep == ShapeInv /\ ClosedInv /\ [Next]_vars => ClosedInv'
  <1> SUFFICES ASSUME ShapeInv, ClosedInv, [Next]_vars PROVE ClosedInv'
    OBVIOUS
  <1> USE DEF ClosedInv
  <1>1. ASSUME NEW c \in Clients, client[c] # Nobody, up' = up PROVE ClosedInv'
    BY <1>1
  <1>2. ASSUME NEW left \in {file, synced}, Crash(left) PROVE ClosedInv'
    BY <1>2 DEF Crash
  <1>3. CASE Open \/ WriteBack
    BY <1>3 DEF Open, WriteBack
  <1>4. ASSUME NEW c \in Clients, NEW t \in Tables,
               (\E n \in Widths : CreateTable(c, t, n)) \/ DropTable(c, t) \/ Plan(c, t)
        PROVE ClosedInv'
    BY <1>4 DEF CreateTable, DropTable, Plan, Begins
  <1>5. ASSUME NEW c \in Clients,
               \/ Truncate(c) \/ Saved(c) \/ SaveFails(c)
               \/ GetSchema(c) \/ OpenTable(c) \/ Insert(c)
        PROVE ClosedInv'
    <2>1. client[c].at # "idle" /\ up' = up
      BY <1>5 DEF Truncate, Saved, SaveFails, GetSchema, OpenTable, Insert
    <2>2. client[c] # Nobody
      BY <2>1 DEF Nobody
    <2>3. QED
      BY <1>1, <2>1, <2>2
  <1>6. CASE UNCHANGED vars
    BY <1>6 DEF vars
  <1>7. QED
    BY <1>2, <1>3, <1>4, <1>5, <1>6 DEF Next

-----------------------------------------------------------------------------
(* What the catalog said is so, in memory and in the file.                 *)

Says(s) ==
    \A t \in Tables : (told[t] = "yes" => s[t] # None) /\ (told[t] = "no" => s[t] = None)

\* While a save runs, the memory already has what it is about; the answers given
\* so far agree with the memory and, also while it is torn, with the file.
ToldInv ==
    /\ Says(file.schemas)
    /\ up => Says(schemas)
    /\ \A c \in Clients : client[c].at \in {"saving", "writing"} =>
         (client[c].op = "create" <=> schemas[client[c].table] # None)

\* Every step keeps the answers true.
LEMMA ToldStep == ShapeInv /\ ClosedInv /\ ToldInv /\ [Next]_vars => ToldInv'
  <1> SUFFICES ASSUME ShapeInv, ClosedInv, ToldInv, [Next]_vars PROVE ToldInv'
    OBVIOUS
  <1> USE NewCalls DEF catalog, disk, history
  <1>1. ASSUME NEW c \in Clients, NEW t \in Tables, NEW n \in Widths, CreateTable(c, t, n)
        PROVE ToldInv'
    <2> DEFINE x == [id |-> nextID, width |-> n, born |-> ops + 1]
               k == [at |-> "saving", op |-> "create", table |-> t]
    <2>1. /\ schemas' = [schemas EXCEPT ![t] = x]
          /\ told' = [told EXCEPT ![t] = "unknown"]
          /\ UNCHANGED <<file, up>>
          /\ Begins(c, k)
      BY <1>1 DEF CreateTable
    <2>0. CallOK(k)
      BY <1>1, NewCalls
    <2>2. /\ up /\ Free /\ ops + 1 \in 1..MaxOps
          /\ client'[c] = k /\ \A d \in Clients : d # c => client'[d] = client[d]
      <3> HIDE DEF k
      <3>1. QED
        BY <2>0, <2>1, BeginsFacts
    <2>3. x # None
      BY <2>2, SchemaFacts DEF RealSchema, ShapeInv
    <2>4. schemas'[t] = x /\ \A u \in Tables : u # t => schemas'[u] = schemas[u]
      BY <2>1 DEF ShapeInv
    <2>5. Says(file.schemas)' /\ Says(schemas)'
      BY <2>1, <2>2, <2>4 DEF Says, ToldInv, ShapeInv
    <2>6. k.at = "saving" /\ k.op = "create" /\ k.table = t
      OBVIOUS
    <2>7. QED
      BY <2>2, <2>3, <2>4, <2>5, <2>6 DEF ToldInv, Free
  <1>2. ASSUME NEW c \in Clients, NEW t \in Tables, DropTable(c, t) PROVE ToldInv'
    <2> DEFINE k == [at |-> "saving", op |-> "drop", table |-> t]
    <2>1. /\ schemas' = [schemas EXCEPT ![t] = None]
          /\ told' = [told EXCEPT ![t] = "unknown"]
          /\ UNCHANGED <<file, up>>
          /\ Begins(c, k)
      BY <1>2 DEF DropTable
    <2>2. /\ up /\ Free
          /\ client'[c] = k /\ \A d \in Clients : d # c => client'[d] = client[d]
      BY <2>1, BeginsFacts
    <2>3. schemas'[t] = None /\ \A u \in Tables : u # t => schemas'[u] = schemas[u]
      BY <2>1 DEF ShapeInv
    <2>4. Says(file.schemas)' /\ Says(schemas)'
      BY <2>1, <2>2, <2>3 DEF Says, ToldInv, ShapeInv
    <2>5. k.at = "saving" /\ k.op = "drop" /\ k.table = t
      OBVIOUS
    <2>6. QED
      BY <2>2, <2>3, <2>4, <2>5 DEF ToldInv, Free
  <1>3. ASSUME NEW c \in Clients, Truncate(c) PROVE ToldInv'
    <2>1. client[c] \in SavingCall
      BY <1>3, CallFacts DEF Truncate, ShapeInv
    <2>2. client' = [client EXCEPT ![c] = [client[c] EXCEPT !.at = "writing"]]
      BY <1>3 DEF Truncate
    <2>3. /\ client'[c].op = client[c].op /\ client'[c].table = client[c].table
          /\ \A d \in Clients : d # c => client'[d] = client[d]
      BY <2>1, <2>2, TruncateCall, ClientStep
    <2>4. file'.schemas = file.schemas
      BY <1>3 DEF Truncate, ShapeInv, CatalogFile
    <2>5. client[c].at = "saving" /\ UNCHANGED <<up, schemas, told>>
      BY <1>3 DEF Truncate
    <2>6. QED
      BY <2>3, <2>4, <2>5 DEF ToldInv, Says
  <1>4. ASSUME NEW c \in Clients, Saved(c) PROVE ToldInv'
    <2> DEFINE t == client[c].table
    <2>1. client[c] \in SavingCall
      BY <1>4, CallFacts DEF Saved, ShapeInv
    <2>2. t \in Tables /\ client[c].op \in {"create", "drop"}
      BY <2>1 DEF SavingCall
    <2>3. up /\ UNCHANGED <<up, schemas>> /\ file'.schemas = schemas
      BY <1>4 DEF Saved, ClosedInv, Nobody
    <2>4. client[c].op = "create" <=> schemas[t] # None
      BY <1>4 DEF Saved, ToldInv
    <2>5. told' = [told EXCEPT ![t] = IF client[c].op = "create" THEN "yes" ELSE "no"]
      BY <1>4, <2>2 DEF Saved
    <2>6. Says(schemas)'
      BY <2>2, <2>3, <2>4, <2>5 DEF Says, ToldInv, ShapeInv
    <2>7. \A d \in Clients : client'[d].at \in {"saving", "writing"} => client'[d] = client[d]
      <3>1. client' = [client EXCEPT ![c] = [at |-> "created", table |-> t]]
            \/ client' = [client EXCEPT ![c] = Nobody]
        BY <1>4 DEF Saved
      <3>2. client'[c].at \in {"created", "idle"}
            /\ \A d \in Clients : d # c => client'[d] = client[d]
        BY <3>1 DEF ShapeInv, Nobody
      <3>3. QED
        BY <3>2
    <2>8. Says(file.schemas)'
      BY <2>3, <2>6 DEF Says
    <2>9. QED
      BY <2>3, <2>6, <2>7, <2>8 DEF ToldInv
  <1>5. ASSUME NEW c \in Clients, SaveFails(c) \/ GetSchema(c) \/ OpenTable(c) \/ Insert(c)
        PROVE ToldInv'
    <2>1. UNCHANGED <<up, schemas, file, told>>
      BY <1>5 DEF SaveFails, GetSchema, OpenTable, Insert
    <2>2. \A d \in Clients : client'[d].at \in {"saving", "writing"} => client'[d] = client[d]
      <3> DEFINE k == [at |-> "opening", table |-> client[c].table, schema |-> schemas[client[c].table]]
      <3>1. \/ client' = [client EXCEPT ![c] = Nobody]
            \/ client' = [client EXCEPT ![c] = k]
        BY <1>5 DEF SaveFails, GetSchema, OpenTable, Insert
      <3>2. Nobody.at = "idle" /\ k.at = "opening"
        BY DEF Nobody
      <3>3. QED
        BY <3>1, <3>2 DEF ShapeInv
    <2>3. QED
      BY <2>1, <2>2 DEF ToldInv, Says
  <1>6. ASSUME NEW c \in Clients, NEW t \in Tables, Plan(c, t) PROVE ToldInv'
    <2>1. client' = [client EXCEPT ![c] = [at |-> "planned", table |-> t, schema |-> schemas[t], op |-> ops + 1]]
          /\ UNCHANGED <<up, schemas, file, told>>
      BY <1>6 DEF Plan, Begins
    <2>2. \A d \in Clients : client'[d].at \in {"saving", "writing"} => client'[d] = client[d]
      BY <2>1 DEF ShapeInv
    <2>3. QED
      BY <2>1, <2>2 DEF ToldInv, Says
  <1>7. ASSUME NEW left \in {file, synced}, Crash(left) PROVE ToldInv'
    <2>1. /\ ~up' /\ file' = left
          /\ told' = [t \in Tables |-> IF left = file THEN told[t] ELSE "unknown"]
          /\ \A c \in Clients : client'[c].at = "idle"
      BY <1>7 DEF Crash, Nobody
    <2>2. QED
      BY <2>1 DEF ToldInv, Says
  <1>8. ASSUME Open PROVE ToldInv'
    <2>1. \A c \in Clients : client[c].at = "idle"
      BY <1>8 DEF Open, ClosedInv, Nobody
    <2>2. QED
      BY <1>8, <2>1 DEF Open, ToldInv, Says
  <1>9. ASSUME WriteBack PROVE ToldInv'
    BY <1>9 DEF WriteBack, ToldInv, Says
  <1>10. CASE UNCHANGED vars
    BY <1>10 DEF vars, ToldInv, Says
  <1>11. QED
    BY <1>1, <1>2, <1>3, <1>4, <1>5, <1>6, <1>7, <1>8, <1>9, <1>10 DEF Next

-----------------------------------------------------------------------------
(* The repository has the catalog's schemas.                               *)

\* The calls that are about to register a table.
Registering(k, t) == k.at \in {"saving", "writing", "created", "opening"} /\ k.table = t

\* Every step keeps repository and catalog together.
LEMMA RepoStep == ShapeInv /\ ClosedInv /\ ToldInv /\ RepoAgrees /\ [Next]_vars => RepoAgrees'
  <1> SUFFICES ASSUME ShapeInv, ClosedInv, ToldInv, RepoAgrees, [Next]_vars,
                      up', NEW u \in Tables, schemas'[u] # None
               PROVE  \/ repo'[u] = schemas'[u] \/ u \in crossed'
                      \/ \E d \in Clients : Registering(client'[d], u)
    BY DEF RepoAgrees, Existing, Registering
  <1> USE NewCalls DEF catalog, disk, history
  <1> DEFINE Good == \/ repo'[u] = schemas'[u] \/ u \in crossed'
                     \/ \E d \in Clients : Registering(client'[d], u)
  <1>0. up /\ schemas[u] # None => \/ repo[u] = schemas[u] \/ u \in crossed
                                   \/ \E d \in Clients : Registering(client[d], u)
    BY DEF RepoAgrees, Existing, Registering
  <1>1. ASSUME NEW c \in Clients, NEW t \in Tables, NEW n \in Widths, CreateTable(c, t, n)
        PROVE Good
    <2> DEFINE k == [at |-> "saving", op |-> "create", table |-> t]
    <2>1. /\ u # t => schemas'[u] = schemas[u]
          /\ UNCHANGED <<up, repo, crossed>> /\ Begins(c, k)
      BY <1>1 DEF CreateTable, ShapeInv
    <2>2. client[c] = Nobody /\ client'[c] = k /\ \A d \in Clients : d # c => client'[d] = client[d]
      BY <2>1 DEF Begins, ShapeInv
    <2>3. Registering(k, t) /\ ~Registering(Nobody, u)
      BY DEF Registering, Nobody
    <2>4. QED
      BY <1>0, <2>1, <2>2, <2>3
  <1>2. ASSUME NEW c \in Clients, NEW t \in Tables, DropTable(c, t) PROVE Good
    <2> DEFINE k == [at |-> "saving", op |-> "drop", table |-> t]
    <2>1. /\ u # t /\ schemas'[u] = schemas[u]
          /\ UNCHANGED <<up, repo, crossed>> /\ Begins(c, k)
      BY <1>2 DEF DropTable, ShapeInv
    <2>2. client[c] = Nobody /\ client'[c] = k /\ \A d \in Clients : d # c => client'[d] = client[d]
      BY <2>1 DEF Begins, ShapeInv
    <2>3. ~Registering(Nobody, u)
      BY DEF Registering, Nobody
    <2>4. QED
      BY <1>0, <2>1, <2>2, <2>3
  <1>3. ASSUME NEW c \in Clients, NEW t \in Tables, Plan(c, t) PROVE Good
    <2>1. /\ client[c] = Nobody
          /\ \A d \in Clients : d # c => client'[d] = client[d]
          /\ UNCHANGED <<up, schemas, repo, crossed>>
      BY <1>3 DEF Plan, Begins, ShapeInv
    <2>2. ~Registering(Nobody, u)
      BY DEF Registering, Nobody
    <2>3. QED
      BY <1>0, <2>1, <2>2
  <1>4. ASSUME NEW c \in Clients, Truncate(c) PROVE Good
    <2>1. client[c] \in SavingCall
      BY <1>4, CallFacts DEF Truncate, ShapeInv
    <2>2. client' = [client EXCEPT ![c] = [client[c] EXCEPT !.at = "writing"]]
          /\ UNCHANGED <<up, schemas, repo, crossed>>
      BY <1>4 DEF Truncate
    <2>3. /\ client'[c].at = "writing" /\ client'[c].table = client[c].table
          /\ \A d \in Clients : d # c => client'[d] = client[d]
      BY <2>1, <2>2, TruncateCall, ClientStep
    <2>4. QED
      BY <1>0, <2>2, <2>3 DEF Registering
  <1>5. ASSUME NEW c \in Clients, Saved(c) PROVE Good
    <2> DEFINE t == client[c].table
               k == [at |-> "created", table |-> t]
    <2>1. client[c] \in SavingCall
      BY <1>5, CallFacts DEF Saved, ShapeInv
    <2>2. t \in Tables /\ client[c].op \in {"create", "drop"}
      BY <2>1 DEF SavingCall
    <2>3. UNCHANGED <<up, schemas, repo, crossed>>
      BY <1>5 DEF Saved
    <2>4. client[c].op = "create" <=> schemas[t] # None
      BY <1>5 DEF Saved, ToldInv
    <2>5. CASE client[c].op = "create"
      <3>1. client' = [client EXCEPT ![c] = k]
        BY <1>5, <2>5 DEF Saved
      <3>2. client'[c] = k /\ \A d \in Clients : d # c => client'[d] = client[d]
        BY <2>2, <3>1, ClientStep
      <3>3. u = t => Registering(k, u)
        BY DEF Registering
      <3>4. QED
        BY <1>0, <2>3, <3>2, <3>3 DEF Registering
    <2>6. CASE client[c].op = "drop"
      <3>1. u # t
        BY <2>3, <2>4, <2>6
      <3>2. client' = [client EXCEPT ![c] = Nobody]
        BY <1>5, <2>6 DEF Saved
      <3>3. \A d \in Clients : d # c => client'[d] = client[d]
        BY <3>2, ClientStep
      <3>4. QED
        BY <1>0, <2>3, <3>1, <3>3 DEF Registering
    <2>7. QED
      BY <2>2, <2>5, <2>6
  <1>6. ASSUME NEW c \in Clients, SaveFails(c) PROVE Good
    <2>1. /\ UNCHANGED <<up, schemas, repo>> /\ crossed' = crossed \cup {client[c].table}
          /\ client' = [client EXCEPT ![c] = Nobody]
      BY <1>6 DEF SaveFails
    <2>2. \A d \in Clients : d # c => client'[d] = client[d]
      BY <2>1, ClientStep
    <2>3. QED
      BY <1>0, <2>1, <2>2 DEF Registering
  <1>7. ASSUME NEW c \in Clients, GetSchema(c) PROVE Good
    <2> DEFINE t == client[c].table
               k == [at |-> "opening", table |-> t, schema |-> schemas[t]]
    <2>1. UNCHANGED <<up, schemas, repo, crossed>>
      BY <1>7 DEF GetSchema
    <2>2. \A d \in Clients : d # c => client'[d] = client[d]
      BY <1>7 DEF GetSchema, ShapeInv
    <2>3. CASE u = t
      <3>1. client' = [client EXCEPT ![c] = k]
        BY <1>7, <2>1, <2>3 DEF GetSchema, Existing
      <3>2. client'[c] = k
        BY <3>1 DEF ShapeInv
      <3>3. Registering(k, u)
        BY <2>3 DEF Registering
      <3>4. QED
        BY <3>2, <3>3
    <2>4. CASE u # t
      BY <1>0, <2>1, <2>2, <2>4 DEF Registering
    <2>5. QED
      BY <2>3, <2>4
  <1>8. ASSUME NEW c \in Clients, OpenTable(c) PROVE Good
    <2> DEFINE t == client[c].table
    <2>1. /\ UNCHANGED <<up, schemas>>
          /\ repo' = [repo EXCEPT ![t] = client[c].schema]
          /\ crossed' = IF client[c].schema = schemas[t] THEN crossed \ {t} ELSE crossed \cup {t}
          /\ client' = [client EXCEPT ![c] = Nobody]
      BY <1>8 DEF OpenTable
    <2>2. \A d \in Clients : d # c => client'[d] = client[d]
      BY <2>1, ClientStep
    <2>3. CASE u = t
      BY <2>1, <2>3 DEF ShapeInv
    <2>4. CASE u # t
      BY <1>0, <2>1, <2>2, <2>4 DEF ShapeInv, Registering
    <2>5. QED
      BY <2>3, <2>4
  <1>9. ASSUME NEW c \in Clients, Insert(c) PROVE Good
    <2>1. UNCHANGED <<up, schemas, repo, crossed>> /\ client[c].at = "planned"
          /\ client' = [client EXCEPT ![c] = Nobody]
      BY <1>9 DEF Insert
    <2>2. \A d \in Clients : d # c => client'[d] = client[d]
      BY <2>1, ClientStep
    <2>3. QED
      BY <1>0, <2>1, <2>2 DEF Registering
  <1>10. CASE Open
    BY <1>10 DEF Open
  <1>11. ASSUME NEW left \in {file, synced}, Crash(left) PROVE Good
    BY <1>11 DEF Crash
  <1>12. CASE WriteBack \/ UNCHANGED vars
    BY <1>0, <1>12 DEF WriteBack, vars
  <1>13. QED
    BY <1>1, <1>2, <1>3, <1>4, <1>5, <1>6, <1>7, <1>8, <1>9, <1>10, <1>11, <1>12 DEF Next

-----------------------------------------------------------------------------
(* Rows and the tables they belong to.                                     *)

\* The schemas that somebody still has: the catalog, the repository, the file
\* and the statements under way.
Held  == {c \in Clients : client[c].at \in {"opening", "planned"}}
Known == ({schemas[t] : t \in Tables} \cup {repo[t] : t \in Tables}
          \cup {file.schemas[t] : t \in Tables} \cup {client[c].schema : c \in Held}) \ {None}

\* The rows with the schema's TableID are those that INSERTs into its table added.
Faithful(x) ==
    \/ x.id \in mixed
    \/ /\ \A r \in rows : r.id = x.id =>
            r.width = x.width /\ \E a \in acked : a.born = x.born /\ a.op = r.op
       /\ \A a \in acked : a.born = x.born => \E r \in rows : r.id = x.id /\ r.op = a.op

\* No TableID is given twice while anybody has a schema with it or rows with it
\* that count: what is in use is below the next TableID of the memory, and what
\* has rows is below the one in the file, which is where a restart goes on.
Lineage ==
    /\ up => file.next <= nextID
    /\ \A x \in Known : x.id < (IF up THEN nextID ELSE file.next) /\ x.born <= ops
    /\ \A x, y \in Known : x.id = y.id \/ x.born = y.born => x = y
    /\ \A r \in rows : r.id \in mixed \/ r.id < file.next
    /\ \A a \in acked : a.born <= ops
    /\ \A x \in Known : Faithful(x)
LineageInv == reverted \/ Lineage

\* Everything known is a schema.
LEMMA KnownFacts == ShapeInv => Known \subseteq RealSchema
  <1> SUFFICES ASSUME ShapeInv, NEW x \in Known PROVE x \in RealSchema
    OBVIOUS
  <1>1. x # None
    BY DEF Known
  <1>2. \A c \in Held : client[c].schema \in RealSchema
    BY CallFacts DEF Held, ShapeInv, OpeningCall, PlannedCall
  <1>3. \A t \in Tables : schemas[t] \in Schema /\ repo[t] \in Schema /\ file.schemas[t] \in Schema
    BY DEF ShapeInv, CatalogFile
  <1>4. QED
    BY <1>1, <1>2, <1>3, SchemaFacts DEF Known

\* A step that adds no schema and no row keeps them apart.
LEMMA LineageKeep ==
    ASSUME ShapeInv, ShapeInv', Lineage, Known' \subseteq Known,
           UNCHANGED <<up, rows, acked, mixed, nextID>>, up,
           file.next <= file'.next, file'.next <= nextID, ops <= ops'
    PROVE  Lineage'
  <1>1. Known \subseteq RealSchema
    BY KnownFacts
  <1>2. \A x \in Known : x.id \in Nat /\ x.born \in Nat
    BY <1>1 DEF RealSchema
  <1>3. \A r \in rows : r.id \in Nat
    BY DEF ShapeInv
  <1>4. \A a \in acked : a.born \in Nat
    BY DEF ShapeInv
  <1>5. file.next \in Nat /\ file'.next \in Nat /\ nextID \in Nat /\ ops \in Nat /\ ops' \in Nat
    BY DEF ShapeInv, CatalogFile
  <1>6. \A x \in Known' : Faithful(x)'
    BY DEF Lineage, Faithful
  <1>7. \A x \in Known' : x.id < nextID' /\ x.born <= ops'
    BY <1>2, <1>5 DEF Lineage
  <1>8. \A r \in rows' : r.id \in mixed' \/ r.id < file'.next
    BY <1>3, <1>5 DEF Lineage
  <1>9. \A a \in acked' : a.born <= ops'
    BY <1>4, <1>5 DEF Lineage
  <1>10. QED
    BY <1>6, <1>7, <1>8, <1>9 DEF Lineage

\* Every step keeps them apart, until a power loss brings an older file back.
LEMMA LineageStep ==
    ShapeInv /\ NumberInv /\ ClosedInv /\ LineageInv /\ [Next]_vars => LineageInv'
  <1> SUFFICES ASSUME ShapeInv, NumberInv, ClosedInv, LineageInv, [Next]_vars, ~reverted'
               PROVE  Lineage'
    BY DEF LineageInv
  <1> USE NewCalls DEF catalog, disk, history
  <1>0. ShapeInv' /\ Known \subseteq RealSchema /\ Known' \subseteq RealSchema
    <2>1. ShapeInv'
      BY ShapeStep
    <2>2. (ShapeInv => Known \subseteq RealSchema)'
      BY KnownFacts, PTL
    <2>3. QED
      BY <2>1, <2>2, KnownFacts
  <1>00. /\ \A x \in RealSchema : x.id \in Nat /\ x.born \in Nat
         /\ file.next \in Nat /\ nextID \in Nat /\ ops \in Nat
         /\ \A r \in rows : r.id \in Nat
         /\ \A a \in acked : a.born \in Nat
    BY DEF ShapeInv, CatalogFile, RealSchema
  <1>1. ASSUME NEW c \in Clients, NEW t \in Tables, NEW n \in Widths, CreateTable(c, t, n)
        PROVE Lineage'
    <2> DEFINE x == [id |-> nextID, width |-> n, born |-> ops + 1]
               k == [at |-> "saving", op |-> "create", table |-> t]
    <2>1. /\ schemas' = [schemas EXCEPT ![t] = x] /\ nextID' = nextID + 1
          /\ UNCHANGED <<up, file, repo, rows, acked, mixed, reverted>>
          /\ Begins(c, k)
      BY <1>1 DEF CreateTable
    <2>2. /\ up /\ ops' = ops + 1 /\ client'[c] = k /\ k.at = "saving"
          /\ \A d \in Clients : d # c => client'[d] = client[d]
      BY <2>1 DEF Begins, ShapeInv
    <2>3. x.id = nextID /\ x.born = ops + 1
      OBVIOUS
    <2>4. Lineage
      BY <2>1 DEF LineageInv
    <2> HIDE DEF x, k
    <2>5. Known' \subseteq Known \cup {x}
      <3>1. \A u \in Tables : schemas'[u] = schemas[u] \/ schemas'[u] = x
        BY <2>1 DEF ShapeInv
      <3>2. \A d \in Held' : d \in Held /\ client'[d] = client[d]
        BY <2>2 DEF Held
      <3>3. QED
        BY <2>1, <3>1, <3>2 DEF Known
    <2>6. \A y \in Known : y.id < nextID /\ y.born <= ops
      BY <2>2, <2>4 DEF Lineage
    <2>7. Faithful(x)
      BY <1>00, <2>2, <2>3, <2>4 DEF Lineage, Faithful
    <2>8. \A y \in Known' : Faithful(y)'
      BY <2>1, <2>4, <2>5, <2>7 DEF Lineage, Faithful
    <2>9. \A y \in Known' : y.id < nextID' /\ y.born <= ops'
      BY <1>0, <1>00, <2>1, <2>2, <2>3, <2>5, <2>6
    <2>10. \A y, z \in Known' : y.id = z.id \/ y.born = z.born => y = z
      BY <1>0, <1>00, <2>3, <2>4, <2>5, <2>6 DEF Lineage
    <2>11. \A a \in acked' : a.born <= ops'
      BY <1>00, <2>1, <2>2, <2>4 DEF Lineage
    <2>12. QED
      BY <1>00, <2>1, <2>2, <2>4, <2>8, <2>9, <2>10, <2>11 DEF Lineage
  <1>2. ASSUME NEW c \in Clients, NEW t \in Tables, DropTable(c, t) PROVE Lineage'
    <2> DEFINE k == [at |-> "saving", op |-> "drop", table |-> t]
    <2>1. /\ schemas' = [schemas EXCEPT ![t] = None]
          /\ UNCHANGED <<up, nextID, file, repo, rows, acked, mixed, reverted>>
          /\ Begins(c, k)
      BY <1>2 DEF DropTable
    <2>2. /\ up /\ ops' = ops + 1 /\ client'[c] = k /\ k.at = "saving"
          /\ \A d \in Clients : d # c => client'[d] = client[d]
      BY <2>1 DEF Begins, ShapeInv
    <2>3. Known' \subseteq Known
      <3>1. /\ Held' \subseteq Held
            /\ \A d \in Held' : client'[d] = client[d]
        BY <2>2 DEF Held
      <3>2. /\ \A s \in Tables : schemas'[s] \in {schemas[s], None}
            /\ repo' = repo /\ file' = file
        BY <2>1 DEF ShapeInv
      <3>3. QED
        BY <3>1, <3>2 DEF Known
    <2>4. Lineage
      BY <2>1 DEF LineageInv
    <2>5. file'.next = file.next /\ file.next <= nextID /\ ops <= ops'
      BY <1>00, <2>1, <2>2, <2>4 DEF Lineage
    <2>6. QED
      BY <1>0, <1>00, <2>1, <2>2, <2>3, <2>4, <2>5, LineageKeep
  <1>3. ASSUME NEW c \in Clients, NEW t \in Tables, Plan(c, t) PROVE Lineage'
    <2> DEFINE k == [at |-> "planned", table |-> t, schema |-> schemas[t], op |-> ops + 1]
    <2>1. /\ UNCHANGED <<up, schemas, nextID, file, repo, rows, acked, mixed, reverted>>
          /\ Begins(c, k) /\ schemas[t] # None
      BY <1>3 DEF Plan, Existing
    <2>2. /\ up /\ ops' = ops + 1 /\ client'[c] = k /\ k.schema = schemas[t]
          /\ \A d \in Clients : d # c => client'[d] = client[d]
      BY <2>1 DEF Begins, ShapeInv
    <2>3. Known' \subseteq Known
      BY <2>1, <2>2 DEF Known, Held
    <2>4. Lineage
      BY <2>1 DEF LineageInv
    <2>5. file'.next = file.next /\ file.next <= nextID /\ ops <= ops'
      BY <1>00, <2>1, <2>2, <2>4 DEF Lineage
    <2>6. QED
      BY <1>0, <1>00, <2>1, <2>2, <2>3, <2>4, <2>5, LineageKeep
  <1>4. ASSUME NEW c \in Clients, Truncate(c) PROVE Lineage'
    <2>1. client' = [client EXCEPT ![c] = [client[c] EXCEPT !.at = "writing"]]
          /\ UNCHANGED <<up, schemas, nextID, ops, repo, rows, acked, mixed, reverted>>
      BY <1>4 DEF Truncate
    <2>2. file'.schemas = file.schemas /\ file'.next = file.next
      BY <1>4 DEF Truncate, ShapeInv, CatalogFile
    <2>3. client[c] \in SavingCall /\ up
      BY <1>4, CallFacts DEF Truncate, ShapeInv, ClosedInv, Nobody
    <2>4. client'[c].at = "writing" /\ \A d \in Clients : d # c => client'[d] = client[d]
      BY <2>1, <2>3, TruncateCall, ClientStep
    <2>5. Known' \subseteq Known
      BY <2>1, <2>2, <2>4 DEF Known, Held
    <2>6. Lineage
      BY <2>1 DEF LineageInv
    <2>7. file.next <= nextID /\ ops <= ops'
      BY <1>00, <2>1, <2>3, <2>6 DEF Lineage
    <2>8. QED
      BY <1>0, <1>00, <2>1, <2>2, <2>3, <2>5, <2>6, <2>7, LineageKeep
  <1>5. ASSUME NEW c \in Clients, Saved(c) PROVE Lineage'
    <2>1. /\ client' = [client EXCEPT ![c] = [at |-> "created", table |-> client[c].table]]
             \/ client' = [client EXCEPT ![c] = Nobody]
          /\ file'.schemas = schemas /\ file'.next = nextID
          /\ UNCHANGED <<up, schemas, nextID, ops, repo, rows, acked, mixed, reverted>>
      BY <1>5 DEF Saved
    <2>2. up
      BY <1>5 DEF Saved, ClosedInv, Nobody
    <2>3. client'[c].at \in {"created", "idle"} /\ \A d \in Clients : d # c => client'[d] = client[d]
      BY <2>1 DEF ShapeInv, Nobody
    <2>4. Known' \subseteq Known
      BY <2>1, <2>3 DEF Known, Held
    <2>5. Lineage
      BY <2>1 DEF LineageInv
    <2>6. file.next <= nextID /\ ops <= ops' /\ nextID <= nextID
      BY <1>00, <2>1, <2>2, <2>5 DEF Lineage
    <2>7. QED
      BY <1>0, <1>00, <2>1, <2>2, <2>4, <2>5, <2>6, LineageKeep
  <1>6. ASSUME NEW c \in Clients, SaveFails(c) \/ GetSchema(c) \/ OpenTable(c) PROVE Lineage'
    <2> DEFINE t == client[c].table
               k == [at |-> "opening", table |-> t, schema |-> schemas[t]]
    <2>1. /\ client[c].at # "idle"
          /\ UNCHANGED <<up, schemas, nextID, file, ops, rows, acked, mixed, reverted>>
      BY <1>6 DEF SaveFails, GetSchema, OpenTable
    <2>2. up
      BY <2>1 DEF ClosedInv, Nobody
    <2>3. Nobody.at = "idle" /\ k.at = "opening" /\ k.schema = schemas[t]
      BY DEF Nobody
    <2>4. /\ client'[c] = Nobody \/ (client'[c] = k /\ t \in Tables)
          /\ \A d \in Clients : d # c => client'[d] = client[d]
      BY <1>6 DEF SaveFails, GetSchema, OpenTable, ShapeInv, Existing
    <2>5. \A u \in Tables : repo'[u] = repo[u] \/ (c \in Held /\ repo'[u] = client[c].schema)
      BY <1>6 DEF SaveFails, GetSchema, OpenTable, ShapeInv, Held
    <2> HIDE DEF k
    <2>6. \A d \in Held' : client'[d].schema \in {schemas[u] : u \in Tables} \cup {client[e].schema : e \in Held}
      BY <2>3, <2>4 DEF Held
    <2>7. Known' \subseteq Known
      BY <2>1, <2>5, <2>6 DEF Known
    <2>8. Lineage
      BY <2>1 DEF LineageInv
    <2>9. file'.next = file.next /\ file.next <= nextID /\ ops <= ops'
      BY <1>00, <2>1, <2>2, <2>8 DEF Lineage
    <2>10. QED
      BY <1>0, <1>00, <2>1, <2>2, <2>7, <2>8, <2>9, LineageKeep
  <1>7. ASSUME NEW c \in Clients, Insert(c) PROVE Lineage'
    <2> DEFINE t == client[c].table
               planned == client[c].schema
               used    == repo[t]
               n       == client[c].op
               row     == [id |-> used.id, width |-> used.width, op |-> n]
               ack     == [born |-> planned.born, op |-> n]
    <2>1. /\ client' = [client EXCEPT ![c] = Nobody]
          /\ UNCHANGED <<up, schemas, nextID, file, repo, ops, reverted>>
          /\ client[c].at = "planned"
      BY <1>7 DEF Insert
    <2>2. up /\ t \in Tables /\ planned \in RealSchema
      BY <2>1, CallFacts DEF ClosedInv, Nobody, ShapeInv, PlannedCall
    <2>3. client'[c] = Nobody /\ Nobody.at = "idle" /\ \A d \in Clients : d # c => client'[d] = client[d]
      BY <2>1 DEF ShapeInv, Nobody
    <2>4. Known' \subseteq Known
      BY <2>1, <2>3 DEF Known, Held
    <2>5. Lineage
      BY <2>1 DEF LineageInv
    <2>6. CASE UNCHANGED <<rows, acked, mixed>>
      <3>1. file'.next = file.next /\ file.next <= nextID /\ ops <= ops'
        BY <1>00, <2>1, <2>2, <2>5 DEF Lineage
      <3>2. QED
        BY <1>0, <1>00, <2>1, <2>2, <2>4, <2>5, <2>6, <3>1, LineageKeep
    <2>7. CASE used # None /\ ~UNCHANGED <<rows, acked, mixed>>
      <3>1. used \in Known /\ planned \in Known
        BY <2>1, <2>2, <2>7, SchemaFacts DEF Known, Held
      <3>2. /\ rows' = rows \cup {row} /\ acked' = acked \cup {ack}
            /\ mixed' = IF used = planned /\ used.id < file.next
                          THEN mixed ELSE mixed \cup {used.id, planned.id}
        BY <1>7, <2>7 DEF Insert
      <3>3. row.id = used.id /\ row.width = used.width /\ row.op = n /\ ack.born = planned.born /\ ack.op = n
        OBVIOUS
      <3> HIDE DEF row, ack, used, planned, n
      <3>4. ASSUME NEW x \in Known' PROVE Faithful(x)'
        <4>1. x \in Known /\ Faithful(x)
          BY <2>4, <2>5 DEF Lineage
        <4>2. /\ x.id = used.id => x = used
              /\ x.born = planned.born => x = planned
          BY <2>5, <3>1, <4>1 DEF Lineage
        <4>3. CASE used = planned /\ used.id < file.next
          BY <3>2, <3>3, <4>1, <4>2, <4>3 DEF Faithful
        <4>4. CASE ~(used = planned /\ used.id < file.next)
          <5>1. mixed' = mixed \cup {used.id, planned.id}
            BY <3>2, <4>4
          <5>2. CASE x.id \in mixed'
            BY <5>2 DEF Faithful
          <5>3. CASE x.id \notin mixed'
            <6>1. x.id \notin mixed /\ x.id # used.id /\ x.born # planned.born
              BY <4>2, <5>1, <5>3
            <6>2. QED
              BY <3>2, <3>3, <4>1, <6>1 DEF Faithful
          <5>4. QED
            BY <5>2, <5>3
        <4>5. QED
          BY <4>3, <4>4
      <3>5. \A r \in rows' : r.id \in mixed' \/ r.id < file'.next
        BY <2>1, <2>5, <3>2, <3>3 DEF Lineage
      <3>6. \A a \in acked' : a.born <= ops'
        BY <2>1, <2>5, <3>1, <3>2, <3>3 DEF Lineage
      <3>7. QED
        BY <2>1, <2>2, <2>4, <2>5, <3>4, <3>5, <3>6 DEF Lineage
    <2>8. used # None \/ UNCHANGED <<rows, acked, mixed>>
      BY <1>7 DEF Insert
    <2>9. QED
      BY <2>6, <2>7, <2>8
  <1>8. ASSUME NEW left \in {file, synced}, Crash(left) PROVE Lineage'
    <2>1. /\ left = file /\ ~reverted
          /\ file' = file /\ ~up' /\ UNCHANGED <<ops, rows, acked, mixed>>
          /\ schemas' = NoTables /\ repo' = NoTables /\ Held' = {}
      BY <1>8 DEF Crash, Held, Nobody
    <2>2. Lineage
      BY <2>1 DEF LineageInv
    <2>3. Known' = {file.schemas[t] : t \in Tables} \ {None}
      BY <2>1 DEF Known, NoTables
    <2>4. Known' \subseteq Known
      BY <2>3 DEF Known
    <2>5. \A x \in Known' : x.id < file.next
      BY <2>3 DEF NumberInv, Numbered
    <2>6. \A x \in Known' : Faithful(x)'
      BY <2>1, <2>2, <2>4 DEF Lineage, Faithful
    <2>7. QED
      BY <2>1, <2>2, <2>4, <2>5, <2>6 DEF Lineage
  <1>9. ASSUME Open PROVE Lineage'
    <2>1. /\ ~up /\ up' /\ UNCHANGED <<file, ops, rows, acked, mixed, reverted, client>>
          /\ schemas' = file.schemas /\ repo' = file.schemas /\ nextID' = file.next
      BY <1>9 DEF Open
    <2>2. Lineage
      BY <2>1 DEF LineageInv
    <2>3. Known' \subseteq Known
      BY <2>1 DEF Known, Held
    <2>4. \A x \in Known' : Faithful(x)'
      BY <2>1, <2>2, <2>3 DEF Lineage, Faithful
    <2>5. QED
      BY <1>00, <2>1, <2>2, <2>3, <2>4 DEF Lineage
  <1>10. CASE WriteBack \/ UNCHANGED vars
    BY <1>10 DEF WriteBack, vars, LineageInv, Lineage, Faithful, Known, Held
  <1>11. QED
    BY <1>1, <1>2, <1>3, <1>4, <1>5, <1>6, <1>7, <1>8, <1>9, <1>10 DEF Next

-----------------------------------------------------------------------------
\* The inductive invariant.
IInv == ShapeInv /\ NumberInv /\ ClosedInv /\ ToldInv /\ RepoAgrees /\ LineageInv

\* The starting state satisfies it.
LEMMA InitIInv == Init => IInv
  <1> SUFFICES ASSUME Init PROVE IInv
    OBVIOUS
  <1>1. ShapeInv /\ NumberInv /\ ClosedInv
    BY InitShape
  <1>2. ToldInv
    BY DEF Init, ToldInv, Says, NoTables, Nobody
  <1>3. RepoAgrees
    BY DEF Init, RepoAgrees
  <1>4. Known = {}
    BY DEF Init, Known, Held, NoTables, Nobody
  <1>5. LineageInv
    BY <1>4 DEF Init, LineageInv, Lineage
  <1>6. QED
    BY <1>1, <1>2, <1>3, <1>5 DEF IInv

\* The invariant is inductive, hence holds in every state of every run.
THEOREM Invariance == Spec => []IInv
  <1>1. IInv /\ [Next]_vars => IInv'
    BY ShapeStep, NumberStep, ClosedStep, ToldStep, RepoStep, LineageStep DEF IInv
  <1>2. QED
    BY InitIInv, <1>1, PTL DEF Spec

\* Catalog, repository, file, rows and calls keep their shapes, and no two tables
\* ever share a TableID, whatever failed, crashed or was brought back.
THEOREM TypeCorrect == Spec => []TypeOK
  <1>1. IInv => TypeOK
    <2> SUFFICES ASSUME IInv PROVE TypeOK
      OBVIOUS
    <2>1. \A t \in Tables : {schemas[t], repo[t], file.schemas[t], synced.schemas[t]} \subseteq Schema
      BY DEF IInv, ShapeInv, CatalogFile
    <2>2. \A c \in Clients : client[c].at \in Calls
      BY CallFacts DEF IInv, ShapeInv
    <2>3. /\ \A t \in Existing : schemas[t].id < nextID
          /\ \A t, u \in Existing : schemas[t].id = schemas[u].id => t = u
      BY DEF IInv, NumberInv, Numbered, Existing
    <2>4. QED
      BY <2>1, <2>2, <2>3 DEF IInv, ShapeInv, TypeOK
  <1>2. QED
    BY Invariance, <1>1, PTL

\* What CREATE TABLE and DROP TABLE answered holds from then on, through any
\* number of failed saves of other tables, crashes and restarts, until the table
\* is changed again or a power loss takes an older file (catalog.go:63-85).
THEOREM CatalogKeptTheorem == Spec => []CatalogKept
  <1>1. IInv => CatalogKept
    BY DEF IInv, ToldInv, Says, CatalogKept, Existing
  <1>2. QED
    BY Invariance, <1>1, PTL

\* The repository runs statements with the catalog's schema of every table,
\* except while the table is being created, after a failed save, or where DROP
\* and CREATE overtook the registration (executor.go:98).
THEOREM RepoAgreesTheorem == Spec => []RepoAgrees
  <1>1. IInv => RepoAgrees
    BY DEF IInv
  <1>2. QED
    BY Invariance, <1>1, PTL

\* A table has exactly the rows of the INSERTs into it and never those of an
\* earlier table, although dropped rows stay in the tree and a crash takes back
\* TableIDs that no save had written (catalog.go:70).
THEOREM RowsOfItsTableTheorem == Spec => []RowsOfItsTable
  <1>1. IInv => RowsOfItsTable
    <2> SUFFICES ASSUME IInv, NEW t \in Tables, schemas[t] # None,
                        schemas[t].id \notin mixed, ~reverted
                 PROVE  LET mine == {r \in rows : r.id = schemas[t].id}
                        IN /\ {r.op : r \in mine} = {a.op : a \in {a \in acked : a.born = schemas[t].born}}
                           /\ \A r \in mine : r.width = schemas[t].width
      BY DEF RowsOfItsTable, Existing
    <2> DEFINE x == schemas[t]
               mine == {r \in rows : r.id = x.id}
               theirs == {a \in acked : a.born = x.born}
    <2>1. x \in Known /\ Lineage
      BY DEF IInv, LineageInv, Known
    <2> HIDE DEF x
    <2>2. Faithful(x) /\ x.id \notin mixed
      BY <2>1 DEF Lineage, x
    <2>3. \A r \in mine : r.width = x.width /\ \E a \in theirs : a.op = r.op
      BY <2>2 DEF Faithful
    <2>4. \A a \in theirs : \E r \in mine : r.op = a.op
      BY <2>2 DEF Faithful
    <2>5. {r.op : r \in mine} = {a.op : a \in theirs}
      <3>1. \A o : o \in {r.op : r \in mine} => o \in {a.op : a \in theirs}
        BY <2>3
      <3>2. \A o : o \in {a.op : a \in theirs} => o \in {r.op : r \in mine}
        BY <2>4
      <3>3. QED
        BY <3>1, <3>2
    <2>6. QED
      BY <2>3, <2>5 DEF x
  <1>2. QED
    BY Invariance, <1>1, PTL

=============================================================================
