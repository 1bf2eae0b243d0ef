------------------------------ MODULE MCRootReset ------------------------------
(* RootReset with two subvolumes; constants for TLC. *)
EXTENDS RootReset, TLC

CONSTANTS r, w, sr, sw

OwnStores    == r :> sr @@ w :> sw
KeepTwoOne   == r :> 2 @@ w :> 1
=============================================================================
