----------------------------- MODULE Portfolio -----------------------------
(***************************************************************************)
(* A main project and its sub-projects, from their creation and review to  *)
(* their closing (services/main_projects.py, services/sub_projects.py).    *)
(*                                                                         *)
(* No operation locks a row: each decides on the status it has read and    *)
(* writes the new one when it commits, if it is another one.  What keeps   *)
(* them apart are the counter of the sub-projects' numbers, whose row is   *)
(* locked by the upsert that increments it, and the unique index of the    *)
(* phases that an approval makes.                                          *)
(*                                                                         *)
(* Budgets, names and dates are left out; the confirmation that an approval*)
(* beyond the budget needs is a check that may fail (Rollback), and so are *)
(* the phases that have to be completed before a sub-project is closed.    *)
(***************************************************************************)
EXTENDS Naturals, FiniteSets

CONSTANTS
  Subs,           \* sub-projects that may ever exist
  Sessions,       \* HTTP requests that may be in flight together
  NoSub           \* what a session on the main project refers to

ASSUME PortfolioAssumption == IsFiniteSet(Subs) /\ NoSub \notin Subs

VARIABLES
  main,           \* status of the main project
  sub,            \* rows of sub_projects
  approvals,      \* project_reviews that approve a sub-project
  counter,        \* next_sequence of sub_project_no_counters
  session         \* what each HTTP request is doing, and what it has read

vars == << main, sub, approvals, counter, session >>

\* The statuses that are ever written.
MainStatuses == {"pending_review", "rejected", "not_started", "in_progress", "closed"}

SubStatuses == {"none", "pending_review", "rejected", "in_progress", "completed",
                "closed", "terminated"}

\* The sub-projects that count_open_sub_projects counts.
OpenSub == {"pending_review", "rejected", "in_progress"}

\* OPEN_MAIN_PROJECT_STATUSES.
OpenMain == {"not_started", "in_progress"}

NoRow == [status |-> "none", number |-> 0]

\* "seen" is the status of the row the session is to write, "main" the one of
\* the main project beside it.
Idle == [at |-> "idle", sub |-> NoSub, seen |-> "none", main |-> "none", number |-> 0]

\* create_project.
Init ==
  /\ main = "pending_review"
  /\ sub = [u \in Subs |-> NoRow]
  /\ approvals = [u \in Subs |-> 0]
  /\ counter = 1
  /\ session = [s \in Sessions |-> Idle]

-----------------------------------------------------------------------------
(* The main project: submit_project, review_project, close_project *)

MainLoad(s, at, statuses) ==
  /\ session[s] = Idle
  /\ main \in statuses
  /\ session' = [session EXCEPT ![s] = [Idle EXCEPT !.at = at, !.seen = main]]
  /\ UNCHANGED << main, sub, approvals, counter >>

\* A status that is already the one read is not written.
MainCommit(s, at, status) ==
  /\ session[s].at = at
  /\ main' = IF session[s].seen = status THEN main ELSE status
  /\ session' = [session EXCEPT ![s] = Idle]
  /\ UNCHANGED << sub, approvals, counter >>

SubmitMain(s) == MainLoad(s, "submitting_main", {"pending_review", "rejected"})
SubmitMainCommit(s) == MainCommit(s, "submitting_main", "pending_review")

ReviewMain(s) == MainLoad(s, "reviewing_main", {"pending_review"})
ApproveMainCommit(s) == MainCommit(s, "reviewing_main", "not_started")
RejectMainCommit(s) == MainCommit(s, "reviewing_main", "rejected")

CloseMain(s) == MainLoad(s, "counting", OpenMain)

CloseMainCount(s) ==
  /\ session[s].at = "counting"
  /\ \A u \in Subs : sub[u].status \notin OpenSub
  /\ session' = [session EXCEPT ![s].at = "closing_main"]
  /\ UNCHANGED << main, sub, approvals, counter >>

CloseMainCommit(s) == MainCommit(s, "closing_main", "closed")

-----------------------------------------------------------------------------
(* create_sub_project *)

CreateSub(s) == MainLoad(s, "creating", OpenMain)

\* Mutant of CounterFree: the next number is read before it is written.
CounterUnlocked(s) == TRUE

\* The upsert locks the counter until the session ends.
CounterFree(s) == \A t \in Sessions \ {s} : session[t].at # "numbered"

\* next_sub_project_sequence.
CreateSubNumber(s) ==
  /\ session[s].at = "creating"
  /\ CounterFree(s)
  /\ session' = [session EXCEPT ![s].at = "numbered", ![s].number = counter]
  /\ UNCHANGED << main, sub, approvals, counter >>

\* project_no is unique.
NumberUnused(n) == \A u \in Subs : sub[u].number # n

CreateSubCommit(s, u) ==
  /\ session[s].at = "numbered"
  /\ sub[u] = NoRow /\ NumberUnused(session[s].number)
  /\ sub' = [sub EXCEPT ![u] = [status |-> "pending_review", number |-> session[s].number]]
  /\ counter' = counter + 1
  /\ session' = [session EXCEPT ![s] = Idle]
  /\ UNCHANGED << main, approvals >>

-----------------------------------------------------------------------------
(* submit_sub_project, review_sub_project, close_sub_project,              *)
(* terminate_sub_project, and the promotion of a last phase                *)

SubLoad(s, u, at, statuses) ==
  /\ session[s] = Idle
  /\ sub[u].status \in statuses
  /\ session' = [session EXCEPT ![s] = [Idle EXCEPT !.at = at, !.sub = u, !.seen = sub[u].status]]
  /\ UNCHANGED << main, sub, approvals, counter >>

WriteSub(s, status) ==
  sub' = [sub EXCEPT ![session[s].sub].status =
            IF session[s].seen = status THEN @ ELSE status]

SubCommit(s, at, status) ==
  /\ session[s].at = at
  /\ WriteSub(s, status)
  /\ session' = [session EXCEPT ![s] = Idle]
  /\ UNCHANGED << main, approvals, counter >>

SubmitSub(s, u) == SubLoad(s, u, "submitting", {"pending_review", "rejected"})
SubmitSubCommit(s) == SubCommit(s, "submitting", "pending_review")

ReviewSub(s, u) == SubLoad(s, u, "loading_main", {"pending_review"})

ReviewSubMain(s) ==
  /\ session[s].at = "loading_main"
  /\ session' = [session EXCEPT ![s].at = "reviewing", ![s].main = main]
  /\ UNCHANGED << main, sub, approvals, counter >>

RejectSubCommit(s) == SubCommit(s, "reviewing", "rejected")

\* Mutant of PhasesAbsent: phases may be made twice.
PhasesAnyway(u) == TRUE

\* uq_phases_sub_project_phase_no: the phases of an approval exist only once.
PhasesAbsent(u) == approvals[u] = 0

\* The main project starts with its first approved sub-project.
ApproveSubCommit(s) ==
  /\ session[s].at = "reviewing"
  /\ PhasesAbsent(session[s].sub)
  /\ WriteSub(s, "in_progress")
  /\ main' = IF session[s].main = "not_started" THEN "in_progress" ELSE main
  /\ approvals' = [approvals EXCEPT ![session[s].sub] = @ + 1]
  /\ session' = [session EXCEPT ![s] = Idle]
  /\ UNCHANGED counter

\* A promotion looks at the phases only, whatever the status beside them.
CompleteSub(s, u) ==
  /\ approvals[u] = 1
  /\ SubLoad(s, u, "completing", SubStatuses \ {"none"})

CompleteSubCommit(s) == SubCommit(s, "completing", "completed")

\* Mutant of CloseSub: its condition is the one of terminate_sub_project.
CloseSubAny(s, u) == SubLoad(s, u, "closing", SubStatuses \ {"none", "closed", "terminated"})

CloseSub(s, u) == SubLoad(s, u, "closing", {"in_progress", "completed"})
CloseSubCommit(s) == SubCommit(s, "closing", "closed")

TerminateSub(s, u) == SubLoad(s, u, "terminating", SubStatuses \ {"none", "closed", "terminated"})
TerminateSubCommit(s) == SubCommit(s, "terminating", "terminated")

\* A check that fails, a unique index, a lost connection.
Rollback(s) ==
  /\ session[s] # Idle
  /\ session' = [session EXCEPT ![s] = Idle]
  /\ UNCHANGED << main, sub, approvals, counter >>

-----------------------------------------------------------------------------

MainStep(s) ==
  \/ SubmitMain(s) \/ SubmitMainCommit(s)
  \/ ReviewMain(s) \/ ApproveMainCommit(s) \/ RejectMainCommit(s)
  \/ CloseMain(s) \/ CloseMainCount(s) \/ CloseMainCommit(s)

SubStep(s) ==
  \/ CreateSub(s) \/ CreateSubNumber(s) \/ \E u \in Subs : CreateSubCommit(s, u)
  \/ \E u \in Subs : SubmitSub(s, u) \/ ReviewSub(s, u)
  \/ SubmitSubCommit(s)
  \/ ReviewSubMain(s) \/ ApproveSubCommit(s) \/ RejectSubCommit(s)
  \/ \E u \in Subs : CompleteSub(s, u) \/ CloseSub(s, u) \/ TerminateSub(s, u)
  \/ CompleteSubCommit(s) \/ CloseSubCommit(s) \/ TerminateSubCommit(s)

Next == \E s \in Sessions : MainStep(s) \/ SubStep(s) \/ Rollback(s)

Spec == Init /\ [][Next]_vars

-----------------------------------------------------------------------------
(* Properties *)

Steps == {"idle", "submitting_main", "reviewing_main", "counting", "closing_main", "creating",
          "numbered", "submitting", "loading_main", "reviewing", "completing", "closing",
          "terminating"}

SubRows == [status : SubStatuses, number : Nat]

SessionRecords == [at : Steps, sub : Subs \cup {NoSub}, seen : MainStatuses \cup SubStatuses,
                   main : MainStatuses \cup {"none"}, number : Nat]

\* Every variable keeps to its type, and a sub-project is not approved twice,
\* although two reviewers may approve it together, or one again after a
\* rejection that overtook the first approval.
TypeOK ==
  /\ main \in MainStatuses
  /\ sub \in [Subs -> SubRows]
  /\ approvals \in [Subs -> {0, 1}]
  /\ counter \in Nat \ {0}
  /\ session \in [Sessions -> SessionRecords]

\* A creation that has been given its number does not fail because another
\* one has used it, and no number is left out.
NumbersConsecutive ==
  /\ { sub[u].number : u \in Subs } \ {0} = 1 .. (counter - 1)
  /\ \A s \in Sessions : session[s].at = "numbered" => session[s].number = counter

\* Work is approved: a sub-project in progress, completed or closed has been
\* approved and has its phases, and a main project in progress has such a
\* sub-project, although reviews overwrite each other.
WorkIsApproved ==
  /\ \A u \in Subs : sub[u].status \in {"in_progress", "completed", "closed"} => approvals[u] = 1
  /\ main = "in_progress" => \E u \in Subs : approvals[u] = 1

\* A closed main project has no open sub-project: close_project counts them
\* first, and refuses with a message that says so.
ClosedMainHasNoOpenSub ==
  main = "closed" => \A u \in Subs : sub[u].status \notin OpenSub

=============================================================================
