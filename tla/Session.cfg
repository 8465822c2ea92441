CONSTANTS
    ann = ann
    bob = bob
    carl = carl
    A = A
    B = B
    C = C
    D = D
    E = E
    None = None
    Users = {ann, bob, carl}
    Bundles = {A, B, C, D, E}
    Foreign = {B, E}
    Env = {"disk", "restart", "netfail", "others"}
    Talked <- MCTalked
    Offers <- MCOffers
    Before <- MCBefore
    MaxAuths = 2
    MaxLoads = 2
SPECIFICATION Spec
SYMMETRY Unused
INVARIANTS TypeOK SessionMatches TrustKept ListIsMine SharesGenuine SavedLoginProven LogoutForgets RegisteredKeys
PROPERTIES KeysKept
