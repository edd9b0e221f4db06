SPECIFICATION FairSpec
CONSTANTS
    None = None
    Directory = "coredump_directory"
    Facts <- MCFacts
    Timestamp <- MCTimestamp
    Passwd <- MCPasswd
    Entries <- MCEntries
    Dumps = {"ff1", "wk1"}
    Configs <- MCFirefox
    Foreign = {}
    Uncompressed = {}
    Logged = {"wk1"}
    MaxClock = 1
    ReadErrors = FALSE
    MetadataErrors = TRUE
    LookupErrors = TRUE
    UnlinkErrors = TRUE
    PartialListings = FALSE
    CreateErrors = FALSE
PROPERTIES PassReturns GarbageCollected
