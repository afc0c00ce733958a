---------------------------- MODULE MCCowShell ----------------------------
(* Instances of CowShell for TLC: sessions that make a list, one that reuses it. *)
EXTENDS CowShell
CONSTANTS s1, s2, s3, f1, f2, f3
=============================================================================
