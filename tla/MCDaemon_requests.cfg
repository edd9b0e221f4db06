SPECIFICATION FairSpec
CONSTANTS
    None = None
    Directories = {"coredump", "other"}
    ConfigFiles <- MCReloads
    InotifyErrors = TRUE
    StartupErrors = TRUE
    MaxSignals = 2
    MaxEdits = 1
    MaxKills = 1
    MaxQueue = 1
INVARIANTS DaemonInv ThreadsEndLast NoRequestLost PolicyOfConfig
PROPERTIES RequestsAnswered FilesLookedFor
