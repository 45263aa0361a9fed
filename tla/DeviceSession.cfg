SPECIFICATION FairSpec
\* A machine that crashed stops.
CHECK_DEADLOCK FALSE
CONSTANTS
    p1 = p1
    Clients = {c1, c2}
    Workers = {}
    Openers = {o1}
    Processes = {p1}
    ImageName <- OwnImage
    Codes = {"launch", "terminate", "nmi"}
    CoreCount = 2
    Findings <- TwoFindings
    MaxBuffers = 1
    NULL = NULL
INVARIANTS NmiExclusive   ClosedIsQuiet
PROPERTIES HandlersReturn
