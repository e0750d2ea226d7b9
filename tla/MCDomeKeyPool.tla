--------------------------- MODULE MCDomeKeyPool ---------------------------
(***************************************************************************)
(* Instances of DomeKeyPool for TLC.  Callers are interchangeable.         *)
(***************************************************************************)
EXTENDS DomeKeyPool, TLC

Symmetry == Permutations(Caller)
=============================================================================
