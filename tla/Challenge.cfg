\* Overlapping logins and answers for a user, with time passing under them.
CONSTANTS
    Users = {"ann"}
    Keys = {K1, K2}
    NoKey = NoKey
    Ids = {C1, C2, C3}
    Lifetime = 1
    MaxTime = 2
    AskSlots = {G1, G2}
    AnswerSlots = {V1, V2}
SPECIFICATION Spec
CHECK_DEADLOCK FALSE
INVARIANTS TypeOK OneTokenPerChallenge TokenProven LiveBounded
PROPERTIES ImplementsOneTime
SYMMETRY Symmetry
CONSTRAINT ThreeBusy
