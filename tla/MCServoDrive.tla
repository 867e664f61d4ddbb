---------------------------- MODULE MCServoDrive ----------------------------
(* A drive with a narrow and a wide pair of software limits: target 8 is   *)
(* inside the wide pair only.  From full speed the drive needs more than   *)
(* one cycle to stop, and a target can be near enough for it to be run     *)
(* over by an axis that brakes.                                            *)
EXTENDS ServoDrive

MCVelocities == {1}
MCLimitPairs == {[low |-> 0, high |-> 2], [low |-> 0, high |-> 8]}
=============================================================================
