---------------------------- MODULE MCInputRing ----------------------------
(***************************************************************************)
(* TLC instances of InputRing.  A capacity of 6 holds two pairs and an     *)
(* odd float that must stay empty; MaxRead = 4 takes all of them and       *)
(* wraps, and more floats than the capacity drive both indices round.      *)
(***************************************************************************)
EXTENDS InputRing
=============================================================================
