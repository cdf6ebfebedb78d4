--------------------------- MODULE MCAppLifecycle ---------------------------
(* Instances of AppLifecycle for TLC.                                      *)
EXTENDS AppLifecycle, TLC

Symmetry == Permutations(Windows)
=============================================================================
