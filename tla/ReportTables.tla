---------------------------- MODULE ReportTables ----------------------------
(***************************************************************************)
(* The four tables a report job may be asked for (services/reports.py).    *)
(*                                                                         *)
(* load_snapshot reads the tables one statement after the other, and every *)
(* statement sees what is committed by then: a payment may be in the last  *)
(* table of a snapshot and not yet in the sums of the first.  Amounts are  *)
(* integers, dates are days; columns that are only printed are left out.   *)
(***************************************************************************)
EXTENDS Integers, FiniteSets, FiniteSetsExt

CONSTANTS
    Mains,          \* main projects: [id, dept, month, total_budget]
    Works,          \* sub-projects that may exist: [id, main]
    NoWork,         \* the sub-project columns of a main project without any
    TableJobs,      \* report tasks in flight
    PayDays,        \* days on which payments may be dated; a month has two
    PayAmounts,     \* amounts of payments
    MaxPayments     \* bound: payments and reversals

VARIABLES
    closedMains,    \* main projects that are closed
    works,          \* sub-projects created so far
    paid,           \* payments: [no, sub, amount, day]
    tableJob

tableVars == <<closedMains, works, paid, tableJob>>

AnyDept == "any"

\* Ids of main projects are primary keys, and sub-projects refer to one; the
\* columns of a missing sub-project are no sub-project's.
ASSUME TablesAssumption ==
    /\ IsFiniteSet(Mains)
    /\ \A m, n \in Mains : m.id = n.id => m = n
    /\ \A m \in Mains : m.dept # AnyDept
    /\ \A w \in Works : \E m \in Mains : m.id = w.main
    /\ NoWork \notin Works
    /\ IsFiniteSet(PayDays) /\ PayDays # {} /\ PayDays \subseteq Nat \ {0}
    /\ PayAmounts \subseteq Int

Month(day) == (day + 1) \div 2
TotalPaid(payments) == MapThenSumSet(LAMBDA p : p.amount, payments)

\* spent_amount of a main project: _recalculate_spending keeps it equal to
\* the payments of its sub-projects.
SpentOn(m) == TotalPaid({p \in paid : p.sub.main = m.id})

-----------------------------------------------------------------------------
(* What is committed meanwhile *)

\* Every commit spoils the snapshots that are being read.
Committed ==
    tableJob' = [s \in TableJobs |-> IF tableJob[s].at \in {"main", "sub"}
                                     THEN [tableJob[s] EXCEPT !.overlapped = TRUE]
                                     ELSE tableJob[s]]

WorkCreated(w) ==
    /\ w \notin works
    /\ works' = works \cup {w}
    /\ Committed /\ UNCHANGED <<closedMains, paid>>

PaymentCreated(w, amount, day) ==
    /\ w \in works
    /\ Cardinality(paid) < MaxPayments
    /\ paid' = paid \cup {[no |-> Cardinality(paid) + 1, sub |-> w, amount |-> amount, day |-> day]}
    /\ Committed /\ UNCHANGED <<closedMains, works>>

MainClosed(m) ==
    /\ m \notin closedMains
    /\ closedMains' = closedMains \cup {m}
    /\ Committed /\ UNCHANGED <<works, paid>>

-----------------------------------------------------------------------------
(* load_snapshot *)

NoTable == [at |-> "idle"]
TableWrite(s, j) == tableJob' = [tableJob EXCEPT ![s] = j] /\ UNCHANGED <<closedMains, works, paid>>

LoadMainProjects(s) ==
    /\ tableJob[s].at = "idle"
    /\ TableWrite(s, [at |-> "main", overlapped |-> FALSE, closed |-> closedMains,
                      spent |-> [m \in Mains |-> SpentOn(m)]])

LoadSubProjects(s) ==
    LET j == tableJob[s]
    IN  /\ j.at = "main"
        /\ TableWrite(s, [at |-> "sub", overlapped |-> j.overlapped, closed |-> j.closed,
                          spent |-> j.spent, subs |-> works])

LoadPayments(s) ==
    LET j == tableJob[s]
    IN  /\ j.at = "sub"
        /\ TableWrite(s, [at |-> "loaded", overlapped |-> j.overlapped, closed |-> j.closed,
                          spent |-> j.spent, subs |-> j.subs, payments |-> paid])

ReportWritten(s) == tableJob[s].at = "loaded" /\ TableWrite(s, NoTable)

-----------------------------------------------------------------------------
(* _build_table *)

\* _matches_project_filters.
MatchesProject(m, dept) == dept = AnyDept \/ m.dept = dept

\* Mutant of MatchesDate: the last day is left out.
MatchesDateBefore(day, from, to) == from <= day /\ day < to

MatchesDate(day, from, to) == from <= day /\ day <= to

project_list(sn, dept) ==
    UNION {LET subs == {w \in sn.subs : w.main = m.id}
           IN  {[main |-> m, spent |-> sn.spent[m], sub |-> w] :
                   w \in IF subs = {} THEN {NoWork} ELSE subs} :
              m \in {m \in Mains : MatchesProject(m, dept)}}

\* A payment whose sub-project is not in the snapshot is passed over.
payment_journal(sn, dept, from, to) ==
    {p \in sn.payments :
        /\ p.sub \in sn.subs
        /\ \E m \in Mains : m.id = p.sub.main /\ MatchesProject(m, dept)
        /\ MatchesDate(p.day, from, to)}

Depts == {m.dept : m \in Mains}

\* _completion_rate is the share of the completed ones.
dept_summary(sn) ==
    [d \in Depts |->
        LET projects == {m \in Mains : m.dept = d}
        IN  [project_count |-> Cardinality(projects),
             total_budget  |-> MapThenSumSet(LAMBDA m : m.total_budget, projects),
             spent_amount  |-> MapThenSumSet(LAMBDA m : sn.spent[m], projects),
             completed     |-> Cardinality(projects \cap sn.closed)]]

month_keys(sn) == {m.month : m \in Mains} \cup {Month(p.day) : p \in sn.payments}

monthly_summary(sn) ==
    [k \in month_keys(sn) |->
        LET payments == {p \in sn.payments : Month(p.day) = k}
        IN  [new_main_projects |-> Cardinality({m \in Mains : m.month = k}),
             payment_count     |-> Cardinality(payments),
             payment_total     |-> TotalPaid(payments)]]

-----------------------------------------------------------------------------

TableInit ==
    /\ closedMains = {} /\ works = {} /\ paid = {}
    /\ tableJob = [s \in TableJobs |-> NoTable]

TableNext ==
    \/ \E w \in Works : WorkCreated(w) \/ \E a \in PayAmounts, d \in PayDays : PaymentCreated(w, a, d)
    \/ \E m \in Mains : MainClosed(m)
    \/ \E s \in TableJobs :
          LoadMainProjects(s) \/ LoadSubProjects(s) \/ LoadPayments(s) \/ ReportWritten(s)

TableSpec == TableInit /\ [][TableNext]_tableVars

-----------------------------------------------------------------------------
(* Properties *)

\* Every variable keeps to its type.
TableTypeOK ==
    /\ closedMains \subseteq Mains /\ works \subseteq Works
    /\ \A p \in paid : p.sub \in works /\ p.amount \in PayAmounts /\ p.day \in PayDays
    /\ \A s \in TableJobs : tableJob[s].at \in {"idle", "main", "sub", "loaded"}

\* The tables of a snapshot that no commit has spoiled agree: the journals
\* up to any day and after it, and those of the departments, add up to what
\* the summaries by month and by department say has been spent, and every
\* sub-project is listed once.  Even a spoiled snapshot counts every payment
\* it has read in exactly one month.
TablesAgree ==
    \A s \in {s \in TableJobs : tableJob[s].at = "loaded"} :
       LET sn == tableJob[s]
           whole == TotalPaid(sn.payments)
           months == monthly_summary(sn)
           summary == dept_summary(sn)
           first == 1
           last == Max(PayDays)
       IN  /\ MapThenSumSet(LAMBDA k : months[k].payment_total, DOMAIN months) = whole
           /\ MapThenSumSet(LAMBDA k : months[k].payment_count, DOMAIN months)
                 = Cardinality(sn.payments)
           /\ \A w \in sn.subs : Cardinality({r \in project_list(sn, AnyDept) : r.sub = w}) = 1
           /\ ~sn.overlapped =>
                 /\ \A d \in PayDays :
                       TotalPaid(payment_journal(sn, AnyDept, first, d))
                         + TotalPaid(payment_journal(sn, AnyDept, d + 1, last)) = whole
                 /\ \A d \in Depts :
                       TotalPaid(payment_journal(sn, d, first, last)) = summary[d].spent_amount
=============================================================================
