\* The refreshes of one tab with two conversations; one message is sent, and the page
\* has room for one of the two its conversation comes to.
CONSTANTS
    Peers = {P1, P2}
    NoPeer = NoPeer
    MaxClock = 3
    PageLimit = 1
    LoadSlots = {1, 2}
    SendSlots = {1}
    MaxMine <- OneBusy
    MaxTheirs <- OneBusy
    Patient = TRUE
SPECIFICATION FairSpec
CONSTRAINT FirstCounters
CHECK_DEADLOCK FALSE
PROPERTIES RefreshRepairs
