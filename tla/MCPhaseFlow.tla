---------------------------- MODULE MCPhaseFlow ----------------------------
(***************************************************************************)
(* The default six phases with two requests in flight together and one     *)
(* revoke request.                                                         *)
(***************************************************************************)
EXTENDS PhaseFlow, TLC

CONSTANTS s1, s2, q1

TwoSessions == {s1, s2}
OneRequest == {q1}

\* Sessions are interchangeable.
Symmetry == Permutations(Sessions)
=============================================================================
