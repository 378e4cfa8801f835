---------------------------- MODULE MCPublishing ----------------------------
(* Three applications, one automatic port, so that the range is exhausted,  *)
(* and two explicit ports, so that claims collide and move.  Nothing here   *)
(* tells one application from another, or one team: they are symmetric.     *)
EXTENDS Publishing, TLC

CONSTANTS a, b, c, t1

MCTeamOf == [k \in {a, b, c} |-> t1]

(* The gateway is off or on one of the explicit ports. *)
MCReservation == {{}, {8080}}

Symmetric == Permutations({a, b, c})
=============================================================================
