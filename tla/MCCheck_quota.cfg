SPECIFICATION PreloadedSpec
CONSTANTS
    None = None
    Directory = "coredump_directory"
    Facts <- MCFacts
    Timestamp <- MCTimestamp
    Passwd <- MCPasswd
    Entries <- MCEntries
    Dumps = {"ff1", "ff2", "ff3", "wk1", "notes"}
    Configs <- MCMixed
    Foreign = {"notes"}
    Uncompressed = {}
    Logged = {"ff1", "ff2", "ff3", "wk1"}
    MaxClock = 1
    ReadErrors = TRUE
    MetadataErrors = TRUE
    LookupErrors = FALSE
    UnlinkErrors = FALSE
    PartialListings = FALSE
    CreateErrors = FALSE
INVARIANTS NewestOfBucketSurvive ClassifiedByFirstMatch LinesAreVerdict CheckIsCautious CheckForetells
