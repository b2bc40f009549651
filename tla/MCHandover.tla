----------------------------- MODULE MCHandover -----------------------------
(***************************************************************************)
(* Two sub-projects, two leaders and two requests for the same or for      *)
(* different sub-projects, with two HTTP requests in flight.               *)
(***************************************************************************)
EXTENDS Handover, TLC

CONSTANTS s1, s2, u1, u2, q1, q2, ann, bob

TwoSessions == {s1, s2}
TwoSubs == {u1, u2}
TwoRequests == {q1, q2}
TwoUsers == {ann, bob}

\* All of these sets are of interchangeable elements.
Symmetry == Permutations(Sessions) \cup Permutations(Requests) \cup Permutations(Subs)
            \cup Permutations(Users)

=============================================================================
