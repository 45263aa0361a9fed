----------------------------- MODULE MCIrpQueue -----------------------------
(* Instances of IrpQueue for TLC. *)
EXTENDS IrpQueue, TLC

CONSTANTS i1, i2, i3, r1, r2, r3, r4, t1, t2

\* Requests as the user-mode module issues them: every report fits.
ClientLengths == [i \in Irps |-> 2]
\* One request with a buffer too small for the larger reports.
MixedLengths == [i \in Irps |-> IF i = i1 THEN 1 ELSE 2]

OneSize == [r \in Reports |-> 2]
TwoSizes == [r \in Reports |-> IF r = r1 THEN 1 ELSE 2]

MixedSymmetry == Permutations(Reports \ {r1}) \cup Permutations(Threads)
Symmetry == Permutations(Irps) \cup Permutations(Reports) \cup Permutations(Threads)
=============================================================================
