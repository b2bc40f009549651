----------------------------- MODULE PhaseRules -----------------------------
(***************************************************************************)
(* The rules of the phase workflow that PhaseService applies to the        *)
(* statuses it has read: which phases start open, which phases a promotion *)
(* waits for and which one it opens.                                       *)
(***************************************************************************)
EXTENDS Naturals

\* The phases of the workflow version the sub-project was created from: the
\* six default ones, or those of a template, numbered 1, 2, ... (the table
\* allows no phase_no above 6).
CONSTANT PhaseCount

ASSUME PhaseCountAssumption == PhaseCount \in 1 .. 6

Phases == 1 .. PhaseCount

\* The enumeration also has "revoked", which no code writes to a phase.
PhaseStatuses == {"waiting", "in_progress", "completed"}

\* The statuses an approved sub-project can have.
SubStatuses == {"in_progress", "completed", "closed", "terminated"}

InitialPhases == [n \in Phases |-> IF n \in {1, 5, 6} THEN "in_progress" ELSE "waiting"]

\* The phases that have to be completed before phase n is: payment and post
\* review (5 and 6) depend on nothing.
Earlier(n) == IF n \in {2, 3, 4} THEN 1 .. (n - 1) ELSE {}

\* Mutant of Opens: the last phase of the main line is never opened.
OpensShort(n, k, statuses) == n \in {1, 2} /\ k = n + 1 /\ statuses[k] = "waiting"

\* Completing phase n opens phase n + 1 when that is on the main line and
\* has not been opened before.
Opens(n, k, statuses) == n \in {1, 2, 3} /\ k = n + 1 /\ statuses[k] = "waiting"

AfterPromotion(n, statuses) ==
  [k \in Phases |-> IF k = n THEN "completed"
                    ELSE IF Opens(n, k, statuses) THEN "in_progress" ELSE statuses[k]]

AllCompleted(statuses) == \A n \in Phases : statuses[n] = "completed"

=============================================================================
