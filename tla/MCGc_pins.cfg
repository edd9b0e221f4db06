SPECIFICATION Spec
CONSTANTS
    None = None
    Directory = "coredump_directory"
    Facts <- MCFacts
    Timestamp <- MCTimestamp
    Passwd <- MCPasswd
    Entries <- MCEntries
    Dumps = {"ff1", "ff2"}
    Configs <- MCFirefox
    Foreign = {}
    Uncompressed = {}
    Logged = {"ff2"}
    MaxClock = 1
    ReadErrors = TRUE
    MetadataErrors = TRUE
    LookupErrors = FALSE
    UnlinkErrors = TRUE
    PartialListings = TRUE
    CreateErrors = TRUE
INVARIANTS AccountsInv PassInv ReportAccountsForListing
PROPERTIES PinnedBeforePassSurvives RemovedAgedOrWrittenDuringPass ImplementsCollector
