---------------------------- MODULE MCWindowIds ----------------------------
(* Instances of WindowIds for TLC.                                         *)
EXTENDS WindowIds, TLC

Symmetry == Permutations(Windows) \cup Permutations(Others)
=============================================================================
