---------------------------- MODULE MCContainers ----------------------------
(***************************************************************************)
(* Two containers of one team and two configurations.  Docker never needs  *)
(* more ids than those in use and one more.                                *)
(* AnyFault: every call may fail, and a run may stop before any of them.   *)
(***************************************************************************)
EXTENDS Containers

MCId == 1..6
AnyFault == DeployCall \cup TeardownCall \cup DeleteCall
BlindDelete == DeleteCall

=============================================================================
