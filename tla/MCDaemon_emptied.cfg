SPECIFICATION FairSpec
CONSTANTS
    None = None
    Directories = {"coredump"}
    ConfigFiles <- MCEmptied
    InotifyErrors = FALSE
    StartupErrors = FALSE
    MaxSignals = 1
    MaxEdits = 1
    MaxKills = 0
    MaxQueue = 1
PROPERTIES ReloadLeavesRules
