---------------------------- MODULE MCMessageServer ---------------------------
(* Two users, two machines; messages that register and that report. *)
EXTENDS MessageServer

Send(id, code, serial) == [kind |-> "send", id |-> id, code |-> code, hardware |-> serial]
Report(code, empty) == [code |-> code, empty |-> empty]
Reports(id, reports) == [kind |-> "report", id |-> id, reports |-> reports]

MCMessages ==
    {Send(1, "system_information", "x"), Send(1, "system_information", "y"),
     Send(2, "system_information", "x"), Send(2, "unknown", "x"),
     Reports(1, <<Report("nmi", FALSE), Report("handle", FALSE), Report("nmi", TRUE)>>),
     Reports(2, <<Report("handle", FALSE), Report("process_module_verification", FALSE)>>),
     Reports(1, <<Report("process_allocation", FALSE), Report("unknown", FALSE)>>),
     [kind |-> "request", id |-> 1]}
===============================================================================
