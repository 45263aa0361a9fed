\* One request is too small for some of the reports.
SPECIFICATION Spec
\* A removal from the empty deferred list stops the machine.
CHECK_DEADLOCK FALSE
CONSTANTS
    i1 = i1 i2 = i2 i3 = i3
    r1 = r1 r2 = r2 r3 = r3 r4 = r4
    t1 = t1 t2 = t2
    Irps = {i1, i2}
    Reports = {r1, r2, r3, r4}
    Threads = {t1, t2}
    OutputBufferLength <- MixedLengths
    BufferSize <- TwoSizes
    MAX_DEFERRED_REPORTS_COUNT = 1
    NoReport = NoReport
SYMMETRY MixedSymmetry
INVARIANTS ParkedRequestsAreLinked ReportInOnePlace DeferredReportsBounded
PROPERTY ImplementsReportChannel
