--------------------------- MODULE PhaseContract ---------------------------
(***************************************************************************)
(* What the phase workflow of an approved sub-project promises, with every *)
(* request a single step: phases 1..4 are completed in order, completing   *)
(* one opens the next, a revocation reopens one completed phase and leaves *)
(* the later ones alone, and the step that leaves no phase open takes the  *)
(* sub-project out of in_progress.  PhaseFlow implements this contract     *)
(* with requests that interleave in the database.                          *)
(*                                                                         *)
(* The contract is as weak as the service makes it: a phase another        *)
(* request has completed may be promoted again, and the promotion that     *)
(* finds all phases completed may write "completed" over any status the    *)
(* sub-project has meanwhile.                                              *)
(***************************************************************************)
EXTENDS PhaseRules

VARIABLES
  phase,                 \* phases.status, by phase_no
  sub                    \* sub_projects.status

vars == << phase, sub >>

Init == /\ phase = InitialPhases
        /\ sub = "in_progress"

Promote(n) ==
  /\ phase[n] # "waiting"
  /\ \A k \in Earlier(n) : phase[k] = "completed"
  /\ phase' = AfterPromotion(n, phase)
  /\ \/ AllCompleted(phase') /\ sub' = "completed"
     \/ (AllCompleted(phase') => sub # "in_progress") /\ sub' = sub

Reopen(n) ==
  /\ phase[n] = "completed"
  /\ phase' = [phase EXCEPT ![n] = "in_progress"]
  /\ sub' = sub

Finish ==
  /\ sub' \in {"closed", "terminated"}
  /\ phase' = phase

Next == \/ \E n \in Phases : Promote(n) \/ Reopen(n)
        \/ Finish

Spec == Init /\ [][Next]_vars

=============================================================================
