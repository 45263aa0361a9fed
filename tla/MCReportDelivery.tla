-------------------------- MODULE MCReportDelivery --------------------------
(* An instance of ReportDelivery for TLC. *)
EXTENDS ReportDelivery

\* MAXIMUM_REPORT_BUFFER_SIZE is larger than every report.
ClientLengths == [i \in Irps |-> 2]
OneSize == [r \in Reports |-> 1]

\* One of the reports is of the type user mode has no case for.
ReportIdentifiers == [r \in Reports |-> IF r = CHOOSE x \in Reports : TRUE
                            THEN "invalid_process_module" ELSE "dpc_stackwalk"]
=============================================================================
