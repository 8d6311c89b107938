SPECIFICATION Spec
SYMMETRY ActorSymmetry
CHECK_DEADLOCK FALSE
CONSTANTS
    p1 = p1
    p2 = p2
    relayA = relayA
    relayB = relayB
    Relays = {relayA, relayB}
    Patents = {p1, p2}
    Sizes = {FALSE}
    BatchSize = 2
    MaxAttempts = 2
    ReturnsInIdOrder = FALSE
    Faults = {"send", "mark", "fail", "crash", "slow"}
    MaxFaults = 2
    MaxRows = 3
INVARIANT TypeOK
INVARIANT OutboxIsTruthful
INVARIANT ClaimsAreExclusive
INVARIANT DuplicatesAreBounded
INVARIANT IndexAgrees
