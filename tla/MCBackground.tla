---------------------------- MODULE MCBackground ----------------------------
(***************************************************************************)
(* The work beat starts again and again: task deadlines and webhook        *)
(* deliveries.  The two share no table, so their instances are checked     *)
(* side by side: each behaviour is one of either component, the other one  *)
(* rests in its initial state.  Two members, two sessions (one may die)    *)
(* and one task; two overlapping retry tasks and two deliveries, the       *)
(* smallest instance in which a task still works on a row another one has  *)
(* claimed again.                                                          *)
(***************************************************************************)
EXTENDS Tasks, WebhookDeliveries

CONSTANTS Parts, u1, u2, j1, j2, w1, w2, d1, d2

VARIABLE focus    \* the component whose behaviour this is

TwoMembers == {u1, u2}
TwoJobs == {j1, j2}
TwoWorkers == {w1, w2}
TwoDeliveries == {d1, d2}

backgroundVars == <<focus, taskVars, webhookVars>>

BackgroundInit == focus \in Parts /\ TaskInit /\ WebhookInit

BackgroundNext ==
  \/ focus = "tasks" /\ TaskNext /\ UNCHANGED <<focus, webhookVars>>
  \/ focus = "webhooks" /\ WebhookNext /\ UNCHANGED <<focus, taskVars>>

\* TaskFairness and WebhookFairness, each of the behaviours of its component.
BackgroundFairness ==
  /\ \A s \in TaskJobs :
        WF_taskVars(focus = "tasks" /\ (\/ TaskScanStep(s) \/ CompleteTaskCommit(s)
                                        \/ UpdateTaskCommit(s) \/ CreateTaskCommit(s)))
  /\ \A u \in TaskMembers :
        SF_taskVars(/\ focus = "tasks"
                    /\ \E s \in TaskJobs, us \in SUBSET TaskMembers :
                          u \in us /\ ScanDueToday(s, us))
  /\ \A w \in Workers : WF_webhookVars(focus = "webhooks" /\ Work(w))
  /\ \A d \in Deliveries : WF_webhookVars(focus = "webhooks" /\ BecomeDue(d))

BackgroundSpec ==
  BackgroundInit /\ [][BackgroundNext]_backgroundVars /\ BackgroundFairness

\* Every variable of both components keeps to its type.
BackgroundTypeOK == TaskTypeOK /\ WebhookTypeOK

=============================================================================
