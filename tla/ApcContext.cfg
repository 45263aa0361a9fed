\* Initiations one after the other, as the user-mode module makes them.
SPECIFICATION StackwalkFairSpec
CONSTANTS
    Ops = {o1, o2}
    Threads = {t1, t2}
    Queriers = {q1}
    MAXIMUM_APC_CONTEXTS = 2
    SerialInitiation = TRUE
    NULL = NULL
INVARIANT ContextOutlivesApcs
PROPERTY ContextIsFreed
\* A bugcheck or a finished unload stops the system.
CHECK_DEADLOCK FALSE
