------------------------- MODULE MCProtocolRegistry -------------------------
(* Instances of ProtocolRegistry for TLC.                                  *)
EXTENDS ProtocolRegistry
CONSTANTS custom, file, r1

MCSchemes == {custom, file}
MCBuiltIn == {file}
MCRequests == {r1}
=============================================================================
