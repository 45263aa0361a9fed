---------------------------- MODULE DeviceThreads ----------------------------
(* The threads that run in the driver at the same time. *)
EXTENDS Integers, FiniteSets

CONSTANTS
    Clients,        \* threads with a handle to the device, which they close
    Workers,        \* system worker threads
    Openers,        \* threads that open handles to processes
    NULL            \* no thread, no process

ASSUME ThreadsAssumption == NULL \notin Clients \cup Workers \cup Openers

\* Threads that may run HandleNmiIOCTL.
Callers == Clients \cup Workers
=============================================================================
