----------------------------- MODULE MCDbLogin ------------------------------
(* DbLogin on small sets of calls. *)
EXTENDS DbLogin, TLC

CONSTANTS l1, l2, h1, h2, o1, o2, f1, s1, c1, c2, dba, public

CallSymmetry ==
  Permutations(Logins) \cup Permutations(HostLogins) \cup Permutations(Logouts)
    \cup Permutations(Checks)
=============================================================================
