---------------------------- MODULE MCLaunchPort ----------------------------
(* A gateway row and a launcher row, ticked by the supervisor and an operator. *)
EXTENDS LaunchPort

CONSTANTS supervisor, operator
=============================================================================
