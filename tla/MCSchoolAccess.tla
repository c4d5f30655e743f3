---------------------------- MODULE MCSchoolAccess ----------------------------
(* Instances of SchoolAccess for TLC.                                       *)
EXTENDS SchoolAccess, TLC

CONSTANTS g1, g2, s1, s2, p1, c1, c2

Symmetric == Permutations({g1, g2}) \cup Permutations({s1, s2}) \cup Permutations({c1, c2})
AllStaff == Internal
=============================================================================
