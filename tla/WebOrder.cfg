\* Sends and overlapping loads in one conversation, up to the first overlap of two ticks.
CONSTANTS
    Peers = {P1}
    NoPeer = NoPeer
    MaxClock = 3
    PageLimit = 1
    LoadSlots = {1, 2}
    SendSlots = {1}
    MaxMine <- TwoEach
    MaxTheirs <- OneEach
    Patient = FALSE
SPECIFICATION Spec
CHECK_DEADLOCK FALSE
INVARIANTS TypeOK OrderWithoutOverlap
CONSTRAINT UntilOverlap
