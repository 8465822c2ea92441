\* A send and a refresh tick the same counter.
CONSTANTS
    Peers = {P1}
    NoPeer = NoPeer
    MaxClock = 4
    PageLimit = 1
    LoadSlots = {1}
    SendSlots = {1}
    MaxMine <- TwoEach
    MaxTheirs <- OneEach
    Patient = FALSE
SPECIFICATION Spec
CHECK_DEADLOCK FALSE
INVARIANTS CausalOrder
