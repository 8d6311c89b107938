SPECIFICATION Spec
CHECK_DEADLOCK FALSE
CONSTANTS
    p1 = p1
    p2 = p2
    relayA = relayA
    relayB = relayB
    Relays = {relayA}
    Patents = {p1}
    Sizes = {FALSE, TRUE}
    BatchSize = 2
    MaxAttempts = 3
    ReturnsInIdOrder = TRUE
    Faults = {"send", "mark", "fail", "crash"}
    MaxFaults = 2
    MaxRows = 3
PROPERTY EveryEventSettles
