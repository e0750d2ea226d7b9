------------------------------ MODULE MCAccounts ------------------------------
(***************************************************************************)
(* Instances of Accounts for TLC.                                          *)
(***************************************************************************)
EXTENDS Accounts, TLC

CONSTANTS e1, e2, g1

\* A Google account that changed its mail address.
Accounts2 == {<<e1, g1>>, <<e2, g1>>}

Symmetry == Permutations(Req) \cup Permutations(Email)
=============================================================================
