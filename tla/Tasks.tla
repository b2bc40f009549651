------------------------------- MODULE Tasks -------------------------------
(***************************************************************************)
(* Tasks of one sub-project and the daily deadline scan                    *)
(* (services/tasks.py, services/task_deadlines.py).                        *)
(*                                                                         *)
(* A task has a number, a status and one executor row per assigned member. *)
(* Every request reads the task with its executors, decides on what it     *)
(* read and writes the columns it changed; no row is locked.  The celery   *)
(* scan does the same for all tasks of the members whose local hour is 9.  *)
(* Days are counted from 0; a member's date is its own local date.         *)
(***************************************************************************)
EXTENDS Integers, FiniteSets, FiniteSetsExt

CONSTANTS
    TaskMembers,     \* members of the sub-project, the possible executors
    EnabledMembers,  \* those whose account is not disabled
    TaskJobs,        \* sessions: requests and celery workers
    MaxTasks,        \* bound: highest task number
    MaxExecutorRows, \* bound: executor rows ever inserted
    LastDay,         \* bound: last day of the calendar
    DueDays,         \* the dates executors are given
    MaxTaskCrashes,  \* bound: sessions that die half-way
    EscalationDays   \* days overdue after which administrators are told (7)

ASSUME TasksAssumption ==
    /\ IsFiniteSet(TaskMembers) /\ EnabledMembers \subseteq TaskMembers
    /\ DueDays \subseteq 0..LastDay
    /\ MaxTasks \in Nat \ {0} /\ MaxExecutorRows \in Nat \ {0}
    /\ LastDay \in Nat /\ MaxTaskCrashes \in Nat /\ EscalationDays \in Nat \ {0}

VARIABLES
    taskStatus,   \* [numbers in use -> TaskStatus]
    executors,    \* [numbers in use -> [assigned members -> ExecutorRow]]
    lastRow,      \* executor rows inserted so far
    today,        \* the current day
    escalated,    \* executor rows the administrators were told of
    taskJob,      \* what each session is doing, with the rows it read
    taskRaced,    \* tasks some session wrote while another held their rows
    taskCrashes

taskVars == <<taskStatus, executors, lastRow, today, escalated,
              taskJob, taskRaced, taskCrashes>>

TaskStatus == {"not_started", "in_progress", "overdue", "completed"}
TaskNumbers == 1..MaxTasks

\* An executor: status, plan_end_date and the identity of its row.
ExecutorRow == [status : TaskStatus, due : DueDays, id : 1..MaxExecutorRows]

\* ACTIVE_DEADLINE_STATUSES: the only rows a scan looks at.
ACTIVE_DEADLINE_STATUSES == {"not_started", "in_progress"}

NoJob == [op |-> "idle"]
IdleTaskJob(s) == taskJob[s] = NoJob

-----------------------------------------------------------------------------
(* aggregate_task_status over the executors a session holds. *)

aggregate_task_status(rows) ==
    LET has(st) == \E u \in DOMAIN rows : rows[u].status = st
    IN  CASE DOMAIN rows # {} /\ \A u \in DOMAIN rows : rows[u].status = "completed"
               -> "completed"
          [] has("overdue") -> "overdue"
          [] has("in_progress") -> "in_progress"
          [] OTHER -> "not_started"

\* max of the numbers read, plus one: next_sequence_from_task_numbers.
next_sequence(numbers) == IF numbers = {} THEN 1 ELSE Max(numbers) + 1

\* The columns a session changed are written; a status it computed equal to
\* the one it read is not.
StatusWritten(n, seen, computed) ==
    IF computed = seen THEN taskStatus[n] ELSE computed

\* Tasks of which another session still holds rows.
HeldByOthers(s) ==
    {n \in TaskNumbers : \E t \in TaskJobs \ {s} :
        taskJob[t].op \in {"update", "complete", "scan"} /\ n \in DOMAIN taskJob[t].seen}

\* An UPDATE of a row another session deleted raises StaleDataError.
RowLives(n, u, id) ==
    n \in DOMAIN executors /\ u \in DOMAIN executors[n] /\ executors[n][u].id = id

Read(n) == [rows |-> executors[n], status |-> taskStatus[n]]

-----------------------------------------------------------------------------
(* create_task *)

\* Validate the assignments and read the numbers in use, without a lock.
CreateTaskRead(s, assigned, day) ==
    /\ IdleTaskJob(s)
    /\ assigned # {}
    /\ next_sequence(DOMAIN taskStatus) \in TaskNumbers
    /\ taskJob' = [taskJob EXCEPT ![s] =
           [op |-> "create", no |-> next_sequence(DOMAIN taskStatus),
            assigned |-> assigned, day |-> day]]
    /\ UNCHANGED <<taskStatus, executors, lastRow, today, escalated,
                   taskRaced, taskCrashes>>

\* Mutant of NewRows: the due date is a day later.
NewRowsDayLate(us, day) ==
    [u \in us |-> [status |-> "in_progress", due |-> day + 1, id |-> lastRow + 1]]

\* Rows for the members in us, numbered from lastRow + 1.
NewRows(us, day) ==
    LET order == CHOOSE f \in [us -> 1..Cardinality(us)] :
                    \A u, v \in us : u # v => f[u] # f[v]
    IN  [u \in us |-> [status |-> "in_progress", due |-> day, id |-> lastRow + order[u]]]

\* Beyond the bound an insert fails, as any commit may.
RowsLeft(us) == lastRow + Cardinality(us) <= MaxExecutorRows

\* Insert the task and its executors; a number taken meanwhile violates the
\* unique key and everything is rolled back.  The executors are notified.
CreateTaskCommit(s) ==
    LET j == taskJob[s]
        rows == NewRows(j.assigned, j.day)
        fits == j.no \notin DOMAIN taskStatus /\ RowsLeft(j.assigned)
    IN  /\ j.op = "create"
        /\ taskJob' = [taskJob EXCEPT ![s] = NoJob]
        /\ \/ /\ fits
              /\ executors' = [n \in DOMAIN executors \cup {j.no} |->
                                  IF n = j.no THEN rows ELSE executors[n]]
              /\ taskStatus' = [n \in DOMAIN taskStatus \cup {j.no} |->
                                  IF n = j.no THEN aggregate_task_status(rows)
                                              ELSE taskStatus[n]]
              /\ lastRow' = lastRow + Cardinality(j.assigned)
           \/ /\ ~fits
              /\ UNCHANGED <<executors, taskStatus, lastRow>>
        /\ UNCHANGED <<today, escalated, taskRaced, taskCrashes>>

-----------------------------------------------------------------------------
(* update_task with a new list of executors.  A call without one changes   *)
(* the name and date of the task only, which nothing here depends on.      *)

UpdateTaskRead(s, n, assigned, day) ==
    /\ IdleTaskJob(s)
    /\ n \in DOMAIN taskStatus
    /\ assigned # {}
    /\ taskJob' = [taskJob EXCEPT ![s] =
           [op |-> "update", no |-> n, assigned |-> assigned, day |-> day,
            seen |-> [m \in {n} |-> Read(m)]]]
    /\ UNCHANGED <<taskStatus, executors, lastRow, today, escalated,
                   taskRaced, taskCrashes>>

\* Members who stay keep their status and get the new date, new ones start
\* in_progress, the others are deleted; the status is aggregated from these.
\* A kept row deleted meanwhile, or a new one inserted meanwhile, rolls back.
UpdateTaskCommit(s) ==
    LET j == taskJob[s]
        n == j.no
        old == j.seen[n].rows
        kept == j.assigned \cap DOMAIN old
        added == j.assigned \ DOMAIN old
        gone == DOMAIN old \ j.assigned
        new == NewRows(added, j.day)
        mine == [u \in j.assigned |-> IF u \in kept THEN old[u] ELSE new[u]]
        fits == /\ \A u \in kept : RowLives(n, u, old[u].id)
                /\ added \cap DOMAIN executors[n] = {}
                /\ RowsLeft(added)
        stays == {u \in DOMAIN executors[n] :
                     ~(u \in gone /\ RowLives(n, u, old[u].id))}
    IN  /\ j.op = "update"
        /\ taskJob' = [taskJob EXCEPT ![s] = NoJob]
        /\ \/ /\ fits
              /\ executors' = [executors EXCEPT ![n] =
                    [u \in stays \cup added |->
                        CASE u \in kept -> [executors[n][u] EXCEPT !.due = j.day]
                          [] u \in added -> new[u]
                          [] OTHER -> executors[n][u]]]
              /\ taskStatus' = [taskStatus EXCEPT ![n] =
                    StatusWritten(n, j.seen[n].status, aggregate_task_status(mine))]
              /\ lastRow' = lastRow + Cardinality(added)
              /\ taskRaced' = taskRaced \cup ({n} \cap HeldByOthers(s))
           \/ /\ ~fits
              /\ UNCHANGED <<executors, taskStatus, lastRow, taskRaced>>
        /\ UNCHANGED <<today, escalated, taskCrashes>>

-----------------------------------------------------------------------------
(* complete_task: only an executor of the task, for its own part. *)

CompleteTaskRead(s, n, u) ==
    /\ IdleTaskJob(s)
    /\ n \in DOMAIN taskStatus
    /\ u \in DOMAIN executors[n] \cap EnabledMembers
    /\ executors[n][u].status # "completed"
    /\ taskJob' = [taskJob EXCEPT ![s] =
           [op |-> "complete", no |-> n, user |-> u, seen |-> [m \in {n} |-> Read(m)]]]
    /\ UNCHANGED <<taskStatus, executors, lastRow, today, escalated,
                   taskRaced, taskCrashes>>

\* Mutant of CompleteTaskCommit: the task keeps its status.
CompleteWithoutAggregate(s) ==
    LET j == taskJob[s]
    IN  /\ j.op = "complete"
        /\ taskJob' = [taskJob EXCEPT ![s] = NoJob]
        /\ RowLives(j.no, j.user, j.seen[j.no].rows[j.user].id)
        /\ executors' = [executors EXCEPT ![j.no][j.user].status = "completed"]
        /\ UNCHANGED <<taskStatus, lastRow, today, escalated, taskRaced, taskCrashes>>

CompleteTaskCommit(s) ==
    LET j == taskJob[s]
        n == j.no
        row == j.seen[n].rows[j.user]
        mine == [j.seen[n].rows EXCEPT ![j.user].status = "completed"]
    IN  /\ j.op = "complete"
        /\ taskJob' = [taskJob EXCEPT ![s] = NoJob]
        /\ \/ /\ RowLives(n, j.user, row.id)
              /\ executors' = [executors EXCEPT ![n][j.user].status = "completed"]
              /\ taskStatus' = [taskStatus EXCEPT ![n] =
                    StatusWritten(n, j.seen[n].status, aggregate_task_status(mine))]
              /\ taskRaced' = taskRaced \cup ({n} \cap HeldByOthers(s))
           \/ /\ ~RowLives(n, j.user, row.id)
              /\ UNCHANGED <<executors, taskStatus, taskRaced>>
        /\ UNCHANGED <<lastRow, today, escalated, taskCrashes>>

-----------------------------------------------------------------------------
(* scan_deadlines for the members us whose local hour is 9.                *)

\* Members with an active executor row and an enabled account, among which
\* the hour selects (list_executor_timezones).
list_executor_timezones ==
    {u \in EnabledMembers : \E n \in DOMAIN executors :
        u \in DOMAIN executors[n] /\ executors[n][u].status \in ACTIVE_DEADLINE_STATUSES}

\* References to the active rows of the members us whose date satisfies Test.
ActiveRows(us, Test(_)) ==
    {[no |-> r[1], user |-> r[2], id |-> executors[r[1]][r[2]].id] :
        r \in {r \in (DOMAIN executors) \X us :
                 /\ r[2] \in DOMAIN executors[r[1]]
                 /\ executors[r[1]][r[2]].status \in ACTIVE_DEADLINE_STATUSES
                 /\ Test(executors[r[1]][r[2]].due)}}

list_due_today_executors(us) == LET Due(d) == d = today IN ActiveRows(us, Due)

\* Mutant of list_overdue_executors: a day of grace.
OverdueAfterGrace(us) == LET Late(d) == d < today - 1 IN ActiveRows(us, Late)
list_overdue_executors(us) == LET Late(d) == d < today IN ActiveRows(us, Late)

\* The tasks of the rows are loaded with all their executors; a task loaded
\* before keeps the rows the session already holds.
Load(seen, refs) ==
    [n \in DOMAIN seen \cup {r.no : r \in refs} |->
        IF n \in DOMAIN seen THEN seen[n] ELSE Read(n)]

\* The date of a selected row: as the session holds it, or as just read.
DueOf(seen, r) ==
    IF r.user \in DOMAIN seen[r.no].rows /\ seen[r.no].rows[r.user].id = r.id
    THEN seen[r.no].rows[r.user].due ELSE executors[r.no][r.user].due

\* First query: the rows due today.
ScanDueToday(s, us) ==
    LET due == list_due_today_executors(us)
    IN  /\ IdleTaskJob(s)
        /\ us # {} /\ us \subseteq list_executor_timezones
        /\ taskJob' = [taskJob EXCEPT ![s] =
               [op |-> "scan", pc |-> "late", users |-> us, due |-> due, late |-> {},
                escalate |-> {}, seen |-> Load(<<>>, due)]]
        /\ UNCHANGED <<taskStatus, executors, lastRow, today, escalated,
                       taskRaced, taskCrashes>>

\* Second query: the overdue rows, of which those _days_overdue >= 7 will be
\* escalated.  Then _notify_due_today.
ScanOverdue(s) ==
    LET j == taskJob[s]
        late == list_overdue_executors(j.users)
        held == Load(j.seen, late)
    IN  /\ j.op = "scan" /\ j.pc = "late"
        /\ taskJob' = [taskJob EXCEPT ![s] =
               [@ EXCEPT !.pc = "mark", !.late = late, !.seen = held,
                         !.escalate = {r \in late : today - DueOf(held, r) >= EscalationDays}]]
        /\ UNCHANGED <<taskStatus, executors, lastRow, today, escalated,
                       taskRaced, taskCrashes>>

\* The executors of a task as the scan sees them once it has marked its rows.
Marked(j, n) ==
    [u \in DOMAIN j.seen[n].rows |->
        IF [no |-> n, user |-> u, id |-> j.seen[n].rows[u].id] \in j.late
        THEN [j.seen[n].rows[u] EXCEPT !.status = "overdue"]
        ELSE j.seen[n].rows[u]]

\* _mark_overdue: the selected rows become overdue whatever they are now, the
\* tasks are aggregated, one commit.  A deleted row rolls everything back.
MarkOverdue(s) ==
    LET j == taskJob[s]
        hit == {r.no : r \in j.late}
        fits == \A r \in j.late : RowLives(r.no, r.user, r.id)
    IN  /\ j.op = "scan" /\ j.pc = "mark"
        /\ \/ /\ fits
              /\ executors' = [n \in DOMAIN executors |-> [u \in DOMAIN executors[n] |->
                    IF \E r \in j.late : r.no = n /\ r.user = u
                    THEN [executors[n][u] EXCEPT !.status = "overdue"]
                    ELSE executors[n][u]]]
              /\ taskStatus' = [n \in DOMAIN taskStatus |->
                    IF n \in hit
                    THEN StatusWritten(n, j.seen[n].status, aggregate_task_status(Marked(j, n)))
                    ELSE taskStatus[n]]
              /\ taskRaced' = taskRaced \cup (hit \cap HeldByOthers(s))
              /\ taskJob' = [taskJob EXCEPT ![s].pc = "notify"]
           \/ /\ ~fits
              /\ taskJob' = [taskJob EXCEPT ![s] = NoJob]
              /\ UNCHANGED <<executors, taskStatus, taskRaced>>
        /\ UNCHANGED <<lastRow, today, escalated, taskCrashes>>

\* _notify_overdue, then _notify_escalations to the administrators.
ScanNotify(s) ==
    LET j == taskJob[s]
    IN  /\ j.op = "scan" /\ j.pc = "notify"
        /\ escalated' = escalated \cup {r.id : r \in j.escalate}
        /\ taskJob' = [taskJob EXCEPT ![s] = NoJob]
        /\ UNCHANGED <<taskStatus, executors, lastRow, today, taskRaced, taskCrashes>>

-----------------------------------------------------------------------------
(* Around the service. *)

NextDay ==
    /\ today < LastDay
    /\ \A s \in TaskJobs : taskJob[s].op # "scan"   \* a scan ends within its hour
    /\ today' = today + 1
    /\ UNCHANGED <<taskStatus, executors, lastRow, escalated, taskJob,
                   taskRaced, taskCrashes>>

\* A worker or a request dies: its transaction is rolled back, what it has
\* committed stays.
TaskJobDies(s) ==
    /\ ~IdleTaskJob(s)
    /\ taskCrashes < MaxTaskCrashes
    /\ taskCrashes' = taskCrashes + 1
    /\ taskJob' = [taskJob EXCEPT ![s] = NoJob]
    /\ UNCHANGED <<taskStatus, executors, lastRow, today, escalated, taskRaced>>

TaskInit ==
    /\ taskStatus = <<>> /\ executors = <<>>
    /\ lastRow = 0 /\ today = 0 /\ escalated = {}
    /\ taskJob = [s \in TaskJobs |-> NoJob]
    /\ taskRaced = {} /\ taskCrashes = 0

TaskScanStep(s) == ScanOverdue(s) \/ MarkOverdue(s) \/ ScanNotify(s)

TaskNext ==
    \/ \E s \in TaskJobs :
          \/ \E assigned \in SUBSET TaskMembers, day \in DueDays :
                \/ CreateTaskRead(s, assigned, day)
                \/ \E n \in TaskNumbers : UpdateTaskRead(s, n, assigned, day)
          \/ CreateTaskCommit(s) \/ UpdateTaskCommit(s) \/ CompleteTaskCommit(s)
          \/ \E n \in TaskNumbers, u \in TaskMembers : CompleteTaskRead(s, n, u)
          \/ \E us \in SUBSET TaskMembers : ScanDueToday(s, us)
          \/ TaskScanStep(s)
          \/ TaskJobDies(s)
    \/ NextDay

\* Requests run to their end; beat starts a scan every hour, so every member
\* with an active row is scanned again and again at its own 9 o'clock.
TaskFairness ==
    /\ \A s \in TaskJobs : WF_taskVars(TaskScanStep(s) \/ CompleteTaskCommit(s)
                                       \/ UpdateTaskCommit(s) \/ CreateTaskCommit(s))
    /\ \A u \in TaskMembers :
          SF_taskVars(\E s \in TaskJobs, us \in SUBSET TaskMembers :
                         u \in us /\ ScanDueToday(s, us))

TaskSpec == TaskInit /\ [][TaskNext]_taskVars /\ TaskFairness

-----------------------------------------------------------------------------
(* Properties *)

\* Every variable keeps to its type.
TaskTypeOK ==
    /\ DOMAIN taskStatus \subseteq TaskNumbers
    /\ DOMAIN executors = DOMAIN taskStatus
    /\ \A n \in DOMAIN taskStatus :
          /\ taskStatus[n] \in TaskStatus
          /\ DOMAIN executors[n] \subseteq TaskMembers
          /\ \A u \in DOMAIN executors[n] : executors[n][u] \in ExecutorRow
    /\ lastRow \in 0..MaxExecutorRows /\ today \in 0..LastDay
    /\ escalated \subseteq 1..lastRow
    /\ \A s \in TaskJobs : taskJob[s].op \in {"idle", "create", "update", "complete", "scan"}
    /\ taskRaced \subseteq TaskNumbers /\ taskCrashes \in 0..MaxTaskCrashes

\* The stored status of a task is the aggregate of its executors, unless two
\* sessions worked on it at once: creating, reassigning, completing and
\* scanning leave no other way for the two to disagree.
AggregateUnlessRaced ==
    \A n \in DOMAIN taskStatus \ taskRaced :
        taskStatus[n] = aggregate_task_status(executors[n])

\* An executor of an enabled member whose date has passed does not stay
\* active: the scans mark it overdue, whatever requests fail or workers die,
\* unless it is completed, reassigned or the member is disabled.
LateIsMarked ==
    LET late(n, u) ==
            /\ n \in DOMAIN executors /\ u \in DOMAIN executors[n]
            /\ u \in EnabledMembers
            /\ executors[n][u].status \in ACTIVE_DEADLINE_STATUSES
            /\ executors[n][u].due < today
    IN  \A n \in TaskNumbers, u \in TaskMembers : late(n, u) ~> ~late(n, u)
=============================================================================
