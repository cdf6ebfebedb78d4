---------------------------- MODULE MCGuestViews ----------------------------
(* Instances of GuestViews for TLC.                                        *)
EXTENDS GuestViews
CONSTANTS w1, w2

MCElements == {w1, w2}
=============================================================================
