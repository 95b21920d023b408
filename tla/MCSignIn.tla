------------------------------- MODULE MCSignIn ------------------------------
(* Instances of SignIn: one account.                                       *)
EXTENDS SignIn, TLC

CONSTANTS l1, l2, v1, v2, m1, m2, r1, nobody

Symmetry == Permutations(Logins) \union Permutations(Verifies)

=============================================================================
