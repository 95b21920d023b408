---------------------------- MODULE MCAccessGate -----------------------------
(* Instance of AccessGate: two sessions of one user, seconds of two ticks.  *)
EXTENDS AccessGate, TLC

CONSTANTS s1, s2, r1, r2, o1, d1, q1, q2, none

Symmetry == Permutations(Sessions) \union Permutations(Requests)

=============================================================================
