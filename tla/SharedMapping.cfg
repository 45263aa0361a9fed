SPECIFICATION FairSpec
\* A machine that crashed stops.
CHECK_DEADLOCK FALSE
CONSTANTS
    p1 = p1
    Clients = {c1, c2}
    Workers = {w1}
    Openers = {}
    Processes = {p1}
    ImageName <- OwnImage
    Codes = {"launch", "mapping"}
    CoreCount = 1
    Findings <- TwoFindings
    MaxBuffers = 2
    NULL = NULL
CONSTRAINT NotExposed
 
PROPERTY CloseReturns
