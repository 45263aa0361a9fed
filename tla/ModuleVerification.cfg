\* Three modules to verify in blocks of one, two work items.
SPECIFICATION FairSpec
CONSTANTS
    WorkItems = {w1, w2}
    VERIFICATION_THREAD_COUNT = 2
    VALIDATION_BLOCK_SIZE = 1
    total_count = 5
    NULL = NULL
INVARIANT SweepInOrder
PROPERTIES SweepCoversEveryModule SweepCompletes
\* A bugcheck stops the machine, and an unloaded driver does nothing more.
CHECK_DEADLOCK FALSE
