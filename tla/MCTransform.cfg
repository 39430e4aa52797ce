\* Two workers and two client threads; the requests of one mix; one schema operation.
CONSTANTS
    Workers = {w1, w2}
    Clients = {c1, c2}
    Numbers <- MCNumbers
    Documents <- MCDocuments
    Word = 64
    Binary <- MCBinary
    Provisions <- MCProvisions
    Mixes <- MCMixes
    SelfContained <- MCSelfContained
    InitialVault <- MCInitialVault
    InitialEvents <- MCInitialEvents
    InitialClientEvents <- MCInitialClientEvents
    SchemaIds <- MCSchemaIds
    Times <- MCTimes
    MaxAdminOps = 1
    Match <- MCMatch
    Replace <- MCReplace
    Eval <- MCEval
    Run <- MCRun
    Dates <- MCDates
    Valid <- MCValid
SPECIFICATION AgentSpec
INVARIANTS
    NoStaleValue
    
    OwnVariablesDecide

    
