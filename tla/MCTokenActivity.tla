-------------------------- MODULE MCTokenActivity ---------------------------
(* TokenActivity on small sets of calls. *)
EXTENDS TokenActivity, TLC

CONSTANTS l1, l2, r1, r2, r3, d1, d2, m1, s1, s2

ActivitySymmetry ==
  Permutations(Logins) \cup Permutations(Requests) \cup Permutations(Disconnects)
=============================================================================
