--------------------------- MODULE MCDeviceRequests ---------------------------
(* Instances of DeviceRequests for TLC. *)
EXTENDS DeviceRequests, TLC

CONSTANTS p1

\* Every process runs an image of its own.
OwnImage == [p \in Processes |-> p]

\* An idle thread in a module, and a hidden one outside of every module.
TwoFindings == {[thread_id |-> 0, in_table |-> FALSE, where |-> "module"],
                [thread_id |-> CoreCount, in_table |-> FALSE, where |-> "elsewhere"]}

\* What follows is claimed of mappings that were never exposed only.
NotExposed == ~exposed
=============================================================================
