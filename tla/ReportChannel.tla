---------------------------- MODULE ReportChannel ----------------------------
(***************************************************************************)
(* What the driver's report path promises to the routines that use it: a   *)
(* report that was handed over is kept, then reaches user mode once or is  *)
(* dropped; a dropped report never reaches user mode afterwards and one    *)
(* that did is never kept again.  Reports move one at a time.              *)
(***************************************************************************)
CONSTANT Reports
VARIABLE status

Init == status = [r \in Reports |-> "new"]

\* From where a report may go to where.
Moves == {<<"new", "kept">>, <<"new", "delivered">>, <<"new", "dropped">>,
          <<"kept", "delivered">>, <<"kept", "dropped">>}

Move(r) == \E s \in {"kept", "delivered", "dropped"} :
    /\ <<status[r], s>> \in Moves
    /\ status' = [status EXCEPT ![r] = s]

Next == \E r \in Reports : Move(r)

Spec == Init /\ [][Next]_status
=============================================================================
