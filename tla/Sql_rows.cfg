\* The statements of a run are bounded.
CHECK_DEADLOCK FALSE
SPECIFICATION Spec
CONSTANTS
    Schema <- MCSchema
    Databases <- MCDatabases
    Statements <- MCStatements
    Openings <- MCOpenings
    Phrases <- MCPhrases
    TypedDatabase <- MCTypedDatabase
    MaxPhrases = 5
    Null = Null
    MaxStatements = 2
INVARIANTS
    TypeOK
    
    
    
    ReadAsDocumented
    
