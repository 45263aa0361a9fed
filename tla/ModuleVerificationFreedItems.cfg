\* A work item may start after the sweep's arrays were freed.
SPECIFICATION Spec
CONSTANTS
    WorkItems = {w1, w2, w3}
    VERIFICATION_THREAD_COUNT = 2
    VALIDATION_BLOCK_SIZE = 1
    total_count = 4
    NULL = NULL
INVARIANT NoUseOfFreedItems
\* A bugcheck stops the machine, and an unloaded driver does nothing more.
CHECK_DEADLOCK FALSE
