--------------------------- MODULE MCQemubuilder ---------------------------
(***************************************************************************)
(* Instances of Qemubuilder for TLC.                                       *)
(***************************************************************************)
EXTENDS Qemubuilder

CONSTANTS s1, s2
=============================================================================
