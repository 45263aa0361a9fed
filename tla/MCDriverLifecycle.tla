-------------------------- MODULE MCDriverLifecycle --------------------------
(* Instances of DriverLifecycle for TLC. *)
EXTENDS DriverLifecycle, TLC

CONSTANTS t1, w1, x1

ThreadOrProcess == [o \in Objects |-> IF o = t1 THEN "thread" ELSE "process"]
=============================================================================
