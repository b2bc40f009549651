------------------------------ MODULE Budgets ------------------------------
(***************************************************************************)
(* The budget of a main project and the budgets of the sub-projects that   *)
(* are approved under it (services/sub_projects.py,                        *)
(* services/main_projects.py).                                             *)
(*                                                                         *)
(* An approval adds up the budgets approved so far and asks for a          *)
(* confirmation when its own does not fit.  Nothing is locked between the  *)
(* sum and the commit, and budgets are edited by sessions that decided on  *)
(* a status read before.  Portfolio has the same operations without money. *)
(***************************************************************************)
EXTENDS Naturals, FiniteSets, FiniteSetsExt

CONSTANTS
    BudgetSubs,     \* sub-projects that may exist
    BudgetJobs,     \* requests in flight
    SubBudgets,     \* budgets a sub-project may ask for
    MainBudgets     \* budgets the main project may be given

ASSUME BudgetsAssumption == SubBudgets \subseteq Nat /\ MainBudgets \subseteq Nat

VARIABLES
    mainBudget,     \* main project: [status, total_budget]
    subBudget,      \* [created sub-projects -> status, budget]
    withPhases,     \* sub-projects whose phases an approval has made
    budgetJob,
    confirmed,      \* history: approved beyond the budget with a confirmation
    overtaken,      \* history: a commit decided on values no longer current
    revived         \* history: a promotion completed a terminated sub-project

budgetVars == <<mainBudget, subBudget, withPhases, budgetJob, confirmed, overtaken, revived>>

MainBudgetRows == [status : {"pending_review", "rejected", "open"}, total_budget : MainBudgets]

SubBudgetRows == [status : {"pending_review", "rejected", "in_progress", "completed", "closed",
                            "terminated"}, budget : SubBudgets]

NoBudgetJob == [op |-> "idle"]

BudgetWrite(s, j) == budgetJob' = [budgetJob EXCEPT ![s] = j]

BudgetReads == UNCHANGED <<mainBudget, subBudget, withPhases, confirmed, overtaken, revived>>

\* A commit of s that is based on the rows in its record.
BasedOn(current, read) == overtaken' = (overtaken \/ current # read)

-----------------------------------------------------------------------------
(* The main project *)

LoadMain(s, op, statuses) ==
    /\ budgetJob[s] = NoBudgetJob
    /\ mainBudget.status \in statuses
    /\ BudgetWrite(s, [op |-> op, main |-> mainBudget])
    /\ BudgetReads

\* Only columns that differ from what was read are written.
WriteMain(s, op, status, total) ==
    LET j == budgetJob[s]
    IN  /\ j.op = op
        /\ mainBudget' = [status |-> IF status = j.main.status THEN mainBudget.status ELSE status,
                          total_budget |-> IF total = j.main.total_budget
                                           THEN mainBudget.total_budget ELSE total]
        /\ BasedOn(mainBudget, j.main)
        /\ BudgetWrite(s, NoBudgetJob)
        /\ UNCHANGED <<subBudget, withPhases, confirmed, revived>>

UpdateMainLoad(s) == LoadMain(s, "update_project", {"rejected"})
update_project(s) == \E b \in MainBudgets : WriteMain(s, "update_project", "rejected", b)

SubmitMainLoad(s) == LoadMain(s, "submit_project", {"pending_review", "rejected"})
submit_project(s) ==
    /\ budgetJob[s].op = "submit_project"
    /\ WriteMain(s, "submit_project", "pending_review", budgetJob[s].main.total_budget)

\* _apply_review_updates may give the project another budget.
ReviewMainLoad(s) == LoadMain(s, "review_project", {"pending_review"})
review_project(s) ==
    \E b \in MainBudgets, status \in {"open", "rejected"} : WriteMain(s, "review_project", status, b)

-----------------------------------------------------------------------------
(* The sub-projects *)

CreateSubLoad(s) == LoadMain(s, "create_sub_project", {"open"})

create_sub_project(s, u, b) ==
    /\ budgetJob[s].op = "create_sub_project"
    /\ u \notin DOMAIN subBudget
    /\ subBudget' = [v \in DOMAIN subBudget \cup {u} |->
          IF v = u THEN [status |-> "pending_review", budget |-> b] ELSE subBudget[v]]
    /\ BudgetWrite(s, NoBudgetJob)
    /\ UNCHANGED <<mainBudget, withPhases, confirmed, overtaken, revived>>

LoadSub(s, u, op, statuses) ==
    /\ budgetJob[s] = NoBudgetJob
    /\ u \in DOMAIN subBudget /\ subBudget[u].status \in statuses
    /\ BudgetWrite(s, [op |-> op, sub |-> u, row |-> subBudget[u]])
    /\ BudgetReads

WriteSubRow(s, op, status, budget) ==
    LET j == budgetJob[s]
        now == subBudget[j.sub]
    IN  /\ j.op = op
        /\ subBudget' = [subBudget EXCEPT ![j.sub] =
              [status |-> IF status = j.row.status THEN now.status ELSE status,
               budget |-> IF budget = j.row.budget THEN now.budget ELSE budget]]
        /\ BudgetWrite(s, NoBudgetJob)
        /\ UNCHANGED mainBudget

\* The operations that write a status and nothing else.
WriteStatus(s, op, status) ==
    /\ budgetJob[s].op = op
    /\ WriteSubRow(s, op, status, budgetJob[s].row.budget)
    /\ BasedOn(subBudget[budgetJob[s].sub], budgetJob[s].row)
    /\ UNCHANGED <<withPhases, confirmed>>

UpdateSubLoad(s, u) == LoadSub(s, u, "update_sub_project", {"rejected"})
update_sub_project(s, b) ==
    /\ WriteSubRow(s, "update_sub_project", "rejected", b)
    /\ BasedOn(subBudget[budgetJob[s].sub], budgetJob[s].row)
    /\ UNCHANGED <<withPhases, confirmed, revived>>

SubmitSubLoad(s, u) == LoadSub(s, u, "submit_sub_project", {"pending_review", "rejected"})
submit_sub_project(s) ==
    WriteStatus(s, "submit_sub_project", "pending_review") /\ UNCHANGED revived

CloseSubLoad(s, u) == LoadSub(s, u, "close_sub_project", {"in_progress", "completed"})
close_sub_project(s) == WriteStatus(s, "close_sub_project", "closed") /\ UNCHANGED revived

TerminateSubLoad(s, u) ==
    LoadSub(s, u, "terminate_sub_project",
            {"pending_review", "rejected", "in_progress", "completed"})
terminate_sub_project(s) ==
    WriteStatus(s, "terminate_sub_project", "terminated") /\ UNCHANGED revived

\* A promotion of the last phase, whatever the status beside it.
LastPhaseLoad(s, u) ==
    u \in withPhases /\ LoadSub(s, u, "last_phase",
                                {"in_progress", "completed", "closed", "terminated", "rejected"})
LastPhasePromoted(s) ==
    /\ WriteStatus(s, "last_phase", "completed")
    /\ revived' = (revived \/ budgetJob[s].row.status \in {"terminated", "rejected"})

-----------------------------------------------------------------------------
(* review_sub_project *)

\* The statuses whose budgets sum_approved_budget adds up.
ApprovedStatuses == {"not_started", "in_progress", "completed", "closed"}

Approved == {u \in DOMAIN subBudget : subBudget[u].status \in ApprovedStatuses}

Total(subs) == MapThenSumSet(LAMBDA u : subBudget[u].budget, subs)

\* Mutant of sum_approved_budget: only running sub-projects take up budget.
SumOfRunning(u) == Total({v \in Approved \ {u} : subBudget[v].status = "in_progress"})

sum_approved_budget(u) == Total(Approved \ {u})

ReviewSubLoad(s, u) == LoadSub(s, u, "review_main", {"pending_review"})

ReviewSubMain(s) ==
    /\ budgetJob[s].op = "review_main"
    /\ BudgetWrite(s, [op |-> "review_sum", sub |-> budgetJob[s].sub, row |-> budgetJob[s].row,
                       main |-> mainBudget])
    /\ BudgetReads

\* _validate_over_budget: without the confirmation the request ends here.
ReviewSubSum(s, confirm) ==
    LET j == budgetJob[s]
        allocated == sum_approved_budget(j.sub)
        fits == allocated + j.row.budget <= j.main.total_budget
    IN  /\ j.op = "review_sum"
        /\ fits \/ confirm
        /\ BudgetWrite(s, [op |-> "approve", sub |-> j.sub, row |-> j.row, main |-> j.main,
                           allocated |-> allocated, fits |-> fits])
        /\ BudgetReads

\* The phases an approval makes have a unique key.
ApproveSub(s) ==
    LET j == budgetJob[s]
    IN  /\ j.op = "approve"
        /\ j.sub \notin withPhases
        /\ WriteSubRow(s, "approve", "in_progress", j.row.budget)
        /\ withPhases' = withPhases \cup {j.sub}
        /\ confirmed' = IF j.fits THEN confirmed ELSE confirmed \cup {j.sub}
        /\ BasedOn(<<mainBudget, subBudget[j.sub], sum_approved_budget(j.sub)>>,
                   <<j.main, j.row, j.allocated>>)
        /\ UNCHANGED revived

\* A rejection needs no sum.
RejectSub(s) == WriteStatus(s, "review_sum", "rejected") /\ UNCHANGED revived

\* An answer 409, a unique key or a lost connection.
BudgetRollback(s) ==
    /\ budgetJob[s] # NoBudgetJob
    /\ BudgetWrite(s, NoBudgetJob)
    /\ BudgetReads

-----------------------------------------------------------------------------

BudgetInit ==
    /\ mainBudget \in [status : {"pending_review"}, total_budget : MainBudgets]
    /\ subBudget = <<>>
    /\ withPhases = {}
    /\ budgetJob = [s \in BudgetJobs |-> NoBudgetJob]
    /\ confirmed = {} /\ overtaken = FALSE /\ revived = FALSE

BudgetStep(s) ==
    \/ UpdateMainLoad(s) \/ update_project(s)
    \/ SubmitMainLoad(s) \/ submit_project(s)
    \/ ReviewMainLoad(s) \/ review_project(s)
    \/ CreateSubLoad(s) \/ \E u \in BudgetSubs, b \in SubBudgets : create_sub_project(s, u, b)
    \/ \E u \in BudgetSubs :
          \/ UpdateSubLoad(s, u) \/ SubmitSubLoad(s, u) \/ ReviewSubLoad(s, u)
          \/ CloseSubLoad(s, u) \/ TerminateSubLoad(s, u) \/ LastPhaseLoad(s, u)
    \/ \E b \in SubBudgets : update_sub_project(s, b)
    \/ submit_sub_project(s) \/ close_sub_project(s) \/ terminate_sub_project(s)
    \/ LastPhasePromoted(s)
    \/ ReviewSubMain(s) \/ \E confirm \in BOOLEAN : ReviewSubSum(s, confirm)
    \/ ApproveSub(s) \/ RejectSub(s)
    \/ BudgetRollback(s)

BudgetNext == \E s \in BudgetJobs : BudgetStep(s)

BudgetSpec == BudgetInit /\ [][BudgetNext]_budgetVars

-----------------------------------------------------------------------------
(* Properties *)

\* Every variable keeps to its type.
BudgetTypeOK ==
    /\ mainBudget \in MainBudgetRows
    /\ DOMAIN subBudget \subseteq BudgetSubs
    /\ \A u \in DOMAIN subBudget : subBudget[u] \in SubBudgetRows
    /\ withPhases \subseteq DOMAIN subBudget

\* As long as no session overtakes another and no terminated sub-project is
\* revived by a promotion, the approved budgets exceed the main project's
\* only while one of the approved sub-projects was confirmed as exceeding it.
ExcessIsConfirmed ==
    Total(Approved) > mainBudget.total_budget =>
        overtaken \/ revived \/ confirmed \cap Approved # {}
=============================================================================
