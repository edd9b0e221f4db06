SPECIFICATION Spec
CONSTANTS
    None = None
    Directory = "coredump_directory"
    Facts <- MCFacts
    Timestamp <- MCTimestamp
    Passwd <- MCPasswd
    Entries <- MCEntries
    Dumps = {"ff1"}
    Configs <- MCFirefox
    Foreign = {}
    Uncompressed = {"ff1"}
    Logged = {}
    MaxClock = 1
    ReadErrors = FALSE
    MetadataErrors = FALSE
    LookupErrors = FALSE
    UnlinkErrors = FALSE
    PartialListings = FALSE
    CreateErrors = FALSE
INVARIANTS PinsADump
