\* One user switches between two peers while loads and replies are late, crashes, and has a
\* settings file that may refuse a write.
CONSTANTS
    Users = {1, 2, 3}
    NoPeer = NoPeer
    MaxClock = 5
    PageLimit = 1
    Legacy <- NoLegacy
    Trusted <- OneStranger
    OldRows <- OneOldRow
    Sigs = {1, 2}
    Quota <- OnlyOneSigns
    Slots <- OnlyOneLoads
    MaxStamp = 3
    Env = {"getfail", "postfail", "logout", "server", "crash", "disk"}
SPECIFICATION Spec
CHECK_DEADLOCK FALSE
INVARIANTS ViewIsConversation UniqueCounters PersistedBeforeSend
PROPERTIES NeverOlder
CONSTRAINT IdleStayOut FaultsAlone
