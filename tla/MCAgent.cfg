SPECIFICATION Spec
CONSTANTS
    IntRange = 1073741824
    Paths = {"/p"}
    Ints = {"1", "2"}
    Patterns = {"@{v}"}
    BadRegexes = {"("}
    Hashed = {"#"}
    Threads <- MCThreads
    Scenarios <- MCScenarios
    LogLevels = {"Debug", "Warning"}
    BadSchemas = {"bad"}
INVARIANTS
    ItemsReadAsDocumented
    SilentLossIsWarned
    ConnectionFollowsEndpoint
    
    ServesOnlyWired
    
