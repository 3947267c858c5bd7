\* Two chains, the session keys of one leaked, one key rotation, two kinds of edits.
SPECIFICATION Spec

CONSTANTS
    Chains = {"c1", "c2"}
    Leaked = {"c1"}
    Hosts <- MCHosts
    TrustSets <- MCTrustSets
    MaxRecords = 3
    MaxSeals = 2
    MaxRotations = 1
    MaxEdits = 2

CONSTRAINT Short

CHECK_DEADLOCK FALSE

INVARIANTS
    VerifiedIsWritten
    SealedIsCertified
    AttestedIsMeasured
    HonestPackVerifies
