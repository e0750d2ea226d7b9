--------------------------- MODULE MCRequestLimits ---------------------------
(***************************************************************************)
(* Instances of RequestLimits for TLC.                                     *)
(***************************************************************************)
EXTENDS RequestLimits, TLC

Symmetry == Permutations(Req)
=============================================================================
