\* Two messages handled at once, each possibly read before it is complete.
SPECIFICATION ServerFairSpec
CONSTANTS
    ConnCount = 2
    Messages <- MCMessages
    SteamIds = {1, 2}
    Serials = {"x", "y"}
    None = None
INVARIANTS
    ProceedMeansAdmitted AcknowledgedReportsStored
PROPERTY MessagesAnswered
\* The server may have ended, and all messages may have been handled.
CHECK_DEADLOCK FALSE
