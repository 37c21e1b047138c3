----------------------------- MODULE MCRateLimits -----------------------------
(***************************************************************************)
(* Two visitors at the end of a UTC day, with a limit whose window is      *)
(* shorter than the day and one that is as long.                           *)
(***************************************************************************)
EXTENDS RateLimits

CONSTANTS v1, v2

MCRoutes == {[own |-> 2, everyone |-> 3, window |-> 3], [own |-> 2, everyone |-> 3, window |-> 4]}
=============================================================================
