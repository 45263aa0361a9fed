SPECIFICATION FairSpec
\* The driver is gone in the end.
CHECK_DEADLOCK FALSE
CONSTANTS
    t1 = t1 w1 = w1 x1 = x1
    Objects = {t1, w1}
    ListOf <- ThreadOrProcess
    Images = {x1}
    X86 = {x1}
    Winlogon = {w1}
INVARIANTS StateCoversWorkItem FreedListIsQuiet 
PROPERTIES  CleanupCompletes
