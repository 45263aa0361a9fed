\* Two event objects, two port threads, one reporting thread.
SPECIFICATION DeliverySpec
CONSTANTS
    Irps = {e1, e2}
    Reports = {r1, r2, r3}
    Threads = {t1}
    Workers = {w1, w2}
    Main = Main
    OutputBufferLength <- ClientLengths
    BufferSize <- OneSize
    ReportId <- ReportIdentifiers
    MAX_DEFERRED_REPORTS_COUNT = 1
    NoReport = NoReport
INVARIANT NoBugcheck
PROPERTIES DeliveredIsPrintedOnce DeferredReportsDrain
\* Once every report is sent and every request parked, nothing happens.
CHECK_DEADLOCK FALSE
