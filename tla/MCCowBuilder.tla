---------------------------- MODULE MCCowBuilder ----------------------------
(***************************************************************************)
(* Instances of CowBuilder for TLC.                                        *)
(***************************************************************************)
EXTENDS CowBuilder

CONSTANTS s1, s2
=============================================================================
