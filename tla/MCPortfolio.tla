---------------------------- MODULE MCPortfolio ----------------------------
(***************************************************************************)
(* One main project with up to two sub-projects and two requests in flight,*)
(* or three.                                                               *)
(***************************************************************************)
EXTENDS Portfolio, TLC

CONSTANTS s1, s2, s3, u1, u2

TwoSessions == {s1, s2}
ThreeSessions == {s1, s2, s3}
TwoSubs == {u1, u2}

\* Sessions and sub-projects are interchangeable.
Symmetry == Permutations(Sessions) \cup Permutations(Subs)

=============================================================================
