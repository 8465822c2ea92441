\* A message on its way to a reader with overlapping and failing loads, whose push socket may
\* drop.
CONSTANTS
    Users = {1, 2}
    NoPeer = NoPeer
    MaxClock = 5
    PageLimit = 2
    Legacy <- NoLegacy
    Trusted <- AllTrusted
    OldRows = {}
    Sigs = {1}
    Quota <- OnlyTwoSignsOnce
    Slots <- ReaderOverlaps
    MaxStamp = 2
    Env = {"getfail", "server", "socket", "drop"}
SPECIFICATION FairSpec
CHECK_DEADLOCK FALSE
INVARIANTS NothingMissed
PROPERTIES MessageShown
