SPECIFICATION Spec
CONSTANTS
    None = None
    Directory = "coredump_directory"
    Facts <- MCFacts
    Timestamp <- MCTimestamp
    Passwd <- MCPasswd
    Entries <- MCEntries
    Dumps = {"wk1"}
    Configs <- MCWorkers
    Foreign = {}
    Uncompressed = {}
    Logged = {"wk1"}
    MaxClock = 1
    ReadErrors = FALSE
    MetadataErrors = FALSE
    LookupErrors = TRUE
    UnlinkErrors = FALSE
    PartialListings = FALSE
    CreateErrors = FALSE
PROPERTIES UnmatchedOnlyRemoved
