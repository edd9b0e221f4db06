SPECIFICATION Spec
CONSTANTS
    None = None
    Directory = "coredump_directory"
    Facts <- MCFacts
    Timestamp <- MCTimestamp
    Passwd <- MCPasswd
    Entries <- MCEntries
    Dumps = {"ff1", "ff2"}
    Configs <- MCFirefox
    Foreign = {}
    Uncompressed = {}
    Logged = {}
    MaxClock = 1
    ReadErrors = FALSE
    MetadataErrors = FALSE
    LookupErrors = FALSE
    UnlinkErrors = FALSE
    PartialListings = FALSE
    CreateErrors = FALSE
PROPERTIES PinnedNeverRemoved
