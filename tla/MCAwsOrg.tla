------------------------------ MODULE MCAwsOrg ------------------------------
(* Two accounts, which nothing tells apart.                                *)
EXTENDS AwsOrg, TLC
Symmetry == Permutations(Account)
=============================================================================
