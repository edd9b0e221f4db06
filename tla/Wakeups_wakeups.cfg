SPECIFICATION Spec
CONSTANTS
    None = None
    Watchdogs = {None, 1, 4, 9}
    Idles = {0, 3, 7}
    Floor = 2
    MaxPass = 10
    MaxQueue = 2
    MaxReloads = 3
INVARIANTS StarvedOnlyByLongPass IdlePassSoon
