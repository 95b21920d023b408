--------------------------- MODULE MCRefreshTokens ---------------------------
(* Instance of RefreshTokens: one user.                                     *)
EXTENDS RefreshTokens, TLC

CONSTANTS l1, l2, f1, f2, o1, v1, w1

\* Requests of one kind are alike.
Alike == Permutations({l1, l2}) \union Permutations({f1, f2})

=============================================================================
