------------------------------ MODULE MCCmsJob ------------------------------
(* CmsJob on small sets of requests and databases. *)
EXTENDS CmsJob, FiniteSets, TLC

CONSTANTS j1, j2, j3, d1, d2

\* Two requests for one database.
OneDb    == [j \in Jobs |-> d1]
\* Two requests for one database, a third for another.
TwoDbs   == [j \in Jobs |-> IF j = j3 THEN d2 ELSE d1]

\* Jobs of one database are interchangeable (OneDb, Composite empty).
JobSymmetry == Permutations(Jobs)
=============================================================================
