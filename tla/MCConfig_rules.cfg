SPECIFICATION Spec
CONSTANTS
    None = None
    Dumps = {"ff1", "wk1", "wk2"}
    Facts <- MCFacts
    Timestamp <- MCTimestamp
    Passwd <- MCPasswd
    Contexts <- MCContexts
    RuleNames = {"one", "two"}
    RawRules <- MCRawRules
    Uids <- MCUids
    TooLong <- MCTooLong
    Malformed <- MCMalformed
    MaxRules = 2
INVARIANTS ConfigTypeOK DefaultCatchesAll ErrorsAreLocal
PROPERTIES ExtensionKeepsMatches
