---------------------------- MODULE MCBlueprintWatch ----------------------------
(* The directory changes a few times: enough for it to go and come back     *)
(* while a rebuild of the watches is under way.                             *)
EXTENDS BlueprintWatch
=============================================================================
