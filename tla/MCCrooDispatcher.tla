-------------------------- MODULE MCCrooDispatcher --------------------------
(***************************************************************************)
(* Instances of CrooDispatcher for TLC.                                    *)
(***************************************************************************)
EXTENDS CrooDispatcher, TLC

Symmetry == Permutations(Negotiation) \cup Permutations(Service)
=============================================================================
