--------------------------- MODULE MCRefreshToken ---------------------------
(* RefreshToken on small sets of tokens and requests. *)
EXTENDS RefreshToken, TLC

CONSTANTS t1, t2, t3, t4, r1, r2, r3, r4

\* Requests are interchangeable, and so are the tokens not given yet.
SessionSymmetry == Permutations(Requests) \cup Permutations(Tokens \ Early)
=============================================================================
