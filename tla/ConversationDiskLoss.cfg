\* Both users write and read; the settings file may refuse a write, and a client may end.
CONSTANTS
    Users = {1, 2}
    NoPeer = NoPeer
    MaxClock = 5
    PageLimit = 2
    Legacy <- NoLegacy
    Trusted <- AllTrusted
    OldRows = {}
    Sigs = {1, 2}
    Quota <- EachSignsTwo
    Slots <- OneLoadEach
    MaxStamp = 2
    Env = {"crash", "disk"}
SPECIFICATION Spec
CHECK_DEADLOCK FALSE
INVARIANTS CausalOrder
