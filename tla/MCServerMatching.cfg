\* One traffic worker against two admin workers.
SPECIFICATION Spec
CONSTANTS
    Workers = {"w1"}
    Admins = {"a1", "a2"}
    Requests <- MCRequests
    Keys <- MCKeys
    RegexMatch <- MCRegexMatch
    Replaced <- MCReplaced
    MatchingDocs <- MCMatchingDocs
    ProvisionDocs <- MCProvisionDocs
    MaxRequests = 1
    MaxOps = 3
CHECK_DEADLOCK FALSE
INVARIANTS
    OrderConsistent
    SearchNeverNull
    ClassificationIsAtomic
