\* Both users write and read, with crashes, logouts and repeated requests; user 1
\* upgraded; the clocks run out.
CONSTANTS
    Users = {1, 2}
    NoPeer = NoPeer
    MaxClock = 4
    PageLimit = 2
    Legacy <- OneUpgraded
    Trusted <- AllTrusted
    OldRows = {}
    Sigs = {1, 2}
    Quota <- EachSignsTwo
    Slots <- OneLoadEach
    MaxStamp = 2
    Env = {"crash", "logout", "resend"}
SPECIFICATION Spec
CHECK_DEADLOCK FALSE
INVARIANTS TypeOK CausalOrder ViewIsConversation AboveLegacy DisplayCausal
PROPERTIES ImplementsOrder
CONSTRAINT RepeatsAlone
