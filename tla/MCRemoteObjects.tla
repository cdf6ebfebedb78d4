-------------------------- MODULE MCRemoteObjects --------------------------
(* Instances of RemoteObjects for TLC.                                     *)
EXTENDS RemoteObjects, FiniteSets, TLC

CONSTANTS w1, v1, v2

OneView == (v1 :> w1)

OneWindow == (v1 :> w1) @@ (v2 :> w1)   \* v2 replaces v1
=============================================================================
