----------------------------- MODULE Dashboards -----------------------------
(***************************************************************************)
(* The dashboards of the five roles and their cache in Redis               *)
(* (services/dashboard.py).                                                *)
(*                                                                         *)
(* A dashboard that is in the cache is answered as it is, whatever has     *)
(* changed since; nothing ever deletes one, it expires.  Two requests of a *)
(* user may compute it together, and the one with the older snapshot may   *)
(* be stored last.  Tables whose rows are only counted are in one          *)
(* statement here; the phases to promote are left out.                     *)
(***************************************************************************)
EXTENDS Naturals, FiniteSets, FiniteSetsExt

CONSTANTS
    DashUsers,       \* users who ask for dashboards: [id, role]
    Leaders,         \* ids of the users who may manage a sub-project
    TeamIds,         \* ids of the members of the sub-projects
    DashSubs,        \* sub-projects, of one main project each
    SubBudget,       \* budget of a sub-project
    DueDay,          \* plan_end_date of the one task of each sub-project
    DashJobs,        \* requests in flight
    DashboardTTL,    \* CACHE_TTL_SECONDS
    MaxLoad,         \* ticks a request may last
    LastDashTick     \* bound: time

ASSUME DashboardsAssumption ==
    DashboardTTL \in Nat \ {0} /\ MaxLoad \in Nat /\ LastDashTick \in Nat

VARIABLES
    managed,         \* [DashSubs -> id of the manager]
    spent,           \* [DashSubs -> amount paid]
    taskDone,        \* sub-projects whose task is completed
    cache,           \* Redis: [key -> payload, expires]
    dashJob,
    shown,           \* the dashboard answered last, to whom
    dashTick,
    lastManaged      \* history: [DashSubs -> [manager's id -> last tick as manager]]

dashVars == <<managed, spent, taskDone, cache, dashJob, shown, dashTick, lastManaged>>

DataSame == UNCHANGED <<managed, spent, taskDone, lastManaged>>

-----------------------------------------------------------------------------
(* What the dashboards are about *)

HandOver(w, id) ==
    /\ id # managed[w]
    /\ managed' = [managed EXCEPT ![w] = id]
    /\ lastManaged' = [lastManaged EXCEPT ![w][managed[w]] = dashTick]
    /\ UNCHANGED <<spent, taskDone, cache, dashJob, shown, dashTick>>

PaymentMade(w) ==
    /\ spent[w] <= SubBudget
    /\ spent' = [spent EXCEPT ![w] = @ + 1]
    /\ UNCHANGED <<managed, taskDone, cache, dashJob, shown, dashTick, lastManaged>>

TaskCompleted(w) ==
    /\ w \notin taskDone
    /\ taskDone' = taskDone \cup {w}
    /\ UNCHANGED <<managed, spent, cache, dashJob, shown, dashTick, lastManaged>>

-----------------------------------------------------------------------------
(* _build_dashboard over a snapshot *)

_over_budget_sub_projects(sn) == {w \in DashSubs : sn.spent[w] > SubBudget}

\* Tasks that are not completed and due within a week or overdue.
_due_soon_tasks(sn, subs) == {w \in subs \ sn.done : DueDay <= dashTick + 7}

ManagedBy(u, sn) == {w \in DashSubs : sn.managed[w] = u.id}

admin_dashboard(u, sn) ==
    [total_users |-> Cardinality(DashUsers),
     over_budget |-> _over_budget_sub_projects(sn),
     due_soon    |-> Cardinality(_due_soon_tasks(sn, DashSubs))]

dept_manager_dashboard(u, sn) ==
    [main_projects |-> Cardinality(DashSubs),
     over_budget   |-> _over_budget_sub_projects(sn)]

finance_dashboard(u, sn) ==
    [total_paid   |-> MapThenSumSet(LAMBDA w : sn.spent[w], DashSubs),
     total_budget |-> MapThenSumSet(LAMBDA w : SubBudget, DashSubs),
     unpaid       |-> {w \in DashSubs : sn.spent[w] = 0}]

project_leader_dashboard(u, sn) ==
    [managed      |-> ManagedBy(u, sn),
     due_or_overdue |-> Cardinality(_due_soon_tasks(sn, ManagedBy(u, sn)))]

\* The members of the sub-projects are the executors of their tasks.
project_member_dashboard(u, sn) ==
    LET mine == {w \in DashSubs : u.id \in TeamIds}
    IN  [todo |-> mine \ sn.done, participating |-> mine]

_build_dashboard(u, role, sn) ==
    CASE role = "admin"           -> admin_dashboard(u, sn)
      [] role = "dept_manager"    -> dept_manager_dashboard(u, sn)
      [] role = "finance_manager" -> finance_dashboard(u, sn)
      [] role = "proj_leader"     -> project_leader_dashboard(u, sn)
      [] role = "proj_member"     -> project_member_dashboard(u, sn)

-----------------------------------------------------------------------------
(* get_dashboard *)

NoDash == [at |-> "idle"]
DashWrite(s, j) == dashJob' = [dashJob EXCEPT ![s] = j]

cache_key(role, u) == <<role, u.id>>

\* GET of a key that SETEX has stored.
Cached(key) == key \in DOMAIN cache

Permitted(u, role) == u.role = role \/ u.role = "admin"

AnswerFromCache(u, role) ==
    /\ Permitted(u, role)
    /\ Cached(cache_key(role, u))
    /\ shown' = [user |-> u, role |-> role, payload |-> cache[cache_key(role, u)].payload]
    /\ DataSame /\ UNCHANGED <<cache, dashJob, dashTick>>

LoadSnapshot(s, u, role) ==
    /\ dashJob[s] = NoDash
    /\ Permitted(u, role)
    /\ ~Cached(cache_key(role, u))
    /\ DashWrite(s, [at |-> "loaded", user |-> u, role |-> role, began |-> dashTick,
             snapshot |-> [managed |-> managed, spent |-> spent, done |-> taskDone]])
    /\ DataSame /\ UNCHANGED <<cache, shown, dashTick>>

\* The dashboard is built, stored and answered.
StoreAndAnswer(s) ==
    LET j == dashJob[s]
        key == cache_key(j.role, j.user)
        payload == _build_dashboard(j.user, j.role, j.snapshot)
    IN  /\ j.at = "loaded"
        /\ cache' = [k \in DOMAIN cache \cup {key} |->
              IF k = key THEN [payload |-> payload, expires |-> dashTick + DashboardTTL]
              ELSE cache[k]]
        /\ shown' = [user |-> j.user, role |-> j.role, payload |-> payload]
        /\ DashWrite(s, NoDash)
        /\ DataSame /\ UNCHANGED dashTick

\* Mutant of Unexpired: the dashboard is stored without an expiry.
StoredForever == DOMAIN cache

\* The keys that are still there in a tick.
Unexpired == {key \in DOMAIN cache : dashTick + 1 < cache[key].expires}

\* Time passes; what was shown before has been read.
DashTick ==
    /\ dashTick < LastDashTick
    /\ \A s \in DashJobs : dashJob[s] # NoDash => dashTick < dashJob[s].began + MaxLoad
    /\ dashTick' = dashTick + 1
    /\ cache' = [key \in Unexpired |-> cache[key]]
    /\ shown' = [role |-> "none"]
    /\ DataSame /\ UNCHANGED dashJob

-----------------------------------------------------------------------------

DashInit ==
    /\ managed \in [DashSubs -> Leaders]
    /\ spent = [w \in DashSubs |-> 0] /\ taskDone = {}
    /\ cache = <<>>
    /\ dashJob = [s \in DashJobs |-> NoDash]
    /\ shown = [role |-> "none"]
    /\ dashTick = 0
    /\ lastManaged = [w \in DashSubs |-> [id \in Leaders |-> 0]]

Roles == {"admin", "dept_manager", "finance_manager", "proj_leader", "proj_member"}

DashNext ==
    \/ \E w \in DashSubs :
          PaymentMade(w) \/ TaskCompleted(w) \/ \E id \in Leaders : HandOver(w, id)
    \/ \E u \in DashUsers, role \in Roles :
          AnswerFromCache(u, role) \/ \E s \in DashJobs : LoadSnapshot(s, u, role)
    \/ \E s \in DashJobs : StoreAndAnswer(s)
    \/ DashTick

DashSpec == DashInit /\ [][DashNext]_dashVars

-----------------------------------------------------------------------------
(* Properties *)

\* Every variable keeps to its type.
DashTypeOK ==
    /\ managed \in [DashSubs -> Leaders]
    /\ dashTick \in 0 .. LastDashTick
    /\ \A key \in DOMAIN cache : key[1] \in Roles
    /\ shown.role \in Roles \cup {"none"}

\* A leader who hands a sub-project over stops seeing it: a dashboard is
\* never older than the expiry of the cache and one request, even when a slow
\* request stores an old snapshot over a newer one.
HandedOverDisappears ==
    shown.role = "proj_leader" =>
        \A w \in shown.payload.managed :
            \/ managed[w] = shown.user.id
            \/ dashTick < lastManaged[w][shown.user.id] + DashboardTTL + MaxLoad
=============================================================================
