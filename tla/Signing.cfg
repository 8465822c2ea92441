\* Two identities, sixteen pairs of fields in each direction, two signings.
CONSTANTS
    Iids <- MCIids
    Counters <- MCCounters
    Nonces <- MCNonces
    Texts <- MCTexts
    Tags <- MCTags
    Keys <- MCKeys
    XKeys <- MCXKeys
    Challenges <- MCChallenges
    EnvelopeDomain <- MCEnvelopeDomain
    ShareDomain <- MCShareDomain
    EdType <- MCEdType
    XType <- MCXType
    MaxWebCounter = 256
    MaxSigned = 2
SPECIFICATION Spec
CHECK_DEADLOCK FALSE
INVARIANTS TypeOK AcceptedAsMeant EitherClientVerifies
