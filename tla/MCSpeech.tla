------------------------------ MODULE MCSpeech ------------------------------
(* Pages are alike: no action tells one from another.                      *)
EXTENDS Speech, TLC

CONSTANTS P1, P2

MCPages == {P1, P2}
=============================================================================
