---------------------------- MODULE ReportQueries ----------------------------
(***************************************************************************)
(* The queries of custom reports and of analytics questions: the registry  *)
(* of datasets (services/report_datasets.py) and the compiler to SQL       *)
(* (services/report_query_compiler.py), with what the database makes of    *)
(* the statement.                                                          *)
(*                                                                         *)
(* A query has a dataset, any of its dimensions, a metric, filters, an     *)
(* order by the metric or none, a limit and the scope of the user who      *)
(* asks.  Two datasets stand for the five: the projects, scoped by main    *)
(* project, and the payments, which are joined to their sub-project and    *)
(* scoped by it, as tasks, documents and risks are.  A query without any   *)
(* column, or with two columns of one name, is refused and not asked here. *)
(***************************************************************************)
EXTENDS Integers, FiniteSets, FiniteSetsExt

CONSTANTS
    AskedMains,      \* main projects: [id, dept, total_budget]
    AskedSubs,       \* sub-projects: [id, main]
    Askers,          \* users who ask: [id, role]
    ProjectTypes,    \* values of project_type_id
    Null,            \* SQL's NULL
    PaidAmounts,     \* amounts of payments
    Limits,          \* limits of queries, 1 to 1000 in the code
    MaxPaid          \* bound: payments

VARIABLES
    typeOf,          \* [ids of main projects -> project_type_id], from a template or NULL
    ownerOf,         \* [ids of sub-projects -> manager_id]
    crewOf,          \* [ids of sub-projects -> ids of its members]
    payments         \* set of [no, sub, amount]

queryVars == <<typeOf, ownerOf, crewOf, payments>>

\* Every sub-project refers to a main project; amounts are integers, those of
\* reversals negative.
ASSUME QueriesAssumption ==
    /\ IsFiniteSet(AskedMains) /\ \A m \in AskedMains : m.total_budget \in Int
    /\ \A w \in AskedSubs : \E m \in AskedMains : m.id = w.main
    /\ PaidAmounts \subseteq Int
    /\ Limits \subseteq Nat \ {0}
    /\ MaxPaid \in Nat

SubIds == {w.id : w \in AskedSubs}
SubOf(id) == CHOOSE w \in AskedSubs : w.id = id

-----------------------------------------------------------------------------
(* The data, which services outside this module change *)

OwnerChanges(w, u) ==
    /\ ownerOf' = [ownerOf EXCEPT ![w.id] = u.id]
    /\ UNCHANGED <<typeOf, crewOf, payments>>

CrewChanges(w, u) ==
    /\ u.role \in {"proj_leader", "proj_member"}
    /\ crewOf' = [crewOf EXCEPT ![w.id] = IF u.id \in @ THEN @ \ {u.id} ELSE @ \cup {u.id}]
    /\ UNCHANGED <<typeOf, ownerOf, payments>>

Pay(w, amount) ==
    /\ Cardinality(payments) < MaxPaid
    /\ payments' = payments \cup {[no |-> Cardinality(payments), sub |-> w.id, amount |-> amount]}
    /\ UNCHANGED <<typeOf, ownerOf, crewOf>>

-----------------------------------------------------------------------------
(* default_report_dataset_registry *)

\* from_clause: a payment with the columns of its sub-project and, for the
\* scope alone, the id of its main project.
Rows(dataset) ==
    IF dataset = "project_overview"
    THEN {[id |-> m.id, main |-> m.id, dept_id |-> m.dept, amount |-> m.total_budget,
           project_type_id |-> typeOf[m.id]] : m \in AskedMains}
    ELSE {[id |-> p.no, main |-> SubOf(p.sub).main, sub_project_id |-> p.sub,
           manager_id |-> ownerOf[p.sub], amount |-> p.amount] : p \in payments}

Dimensions(dataset) ==
    IF dataset = "project_overview" THEN {"dept_id", "project_type_id"}
                                    ELSE {"sub_project_id", "manager_id"}

-----------------------------------------------------------------------------
(* ReportQueryCompiler *)

GLOBAL_REPORT_ROLES == {"admin", "dept_manager", "finance_manager"}

Owns(u, w) == ownerOf[w] = u.id \/ u.id \in crewOf[w]

\* Mutant of _scope_predicate: for projects the membership rows alone count.
ScopeByCrew(dataset, u, row) ==
    \/ u.role \in GLOBAL_REPORT_ROLES
    \/ dataset = "payment_execution" /\ Owns(u, row.sub_project_id)
    \/ /\ dataset = "project_overview"
       /\ \E w \in AskedSubs : w.main = row.main /\ u.id \in crewOf[w.id]

_scope_predicate(dataset, u, row) ==
    \/ u.role \in GLOBAL_REPORT_ROLES
    \/ dataset = "payment_execution" /\ Owns(u, row.sub_project_id)
    \/ /\ dataset = "project_overview"
       /\ \E w \in AskedSubs : w.main = row.main /\ Owns(u, w.id)

\* A comparison with NULL is not true.
_filter_expression(value, filter) ==
    CASE filter.op = "is_null"     -> value = Null
      [] filter.op = "is_not_null" -> value # Null
      [] filter.op = "eq"          -> value # Null /\ value = filter.value
      [] filter.op = "ne"          -> value # Null /\ value # filter.value

Filter(dim, op, value) == [dim |-> dim, op |-> op, value |-> value]

Selected(dataset, u, filters) ==
    {row \in Rows(dataset) :
        /\ _scope_predicate(dataset, u, row)
        /\ \A f \in filters : _filter_expression(row[f.dim], f)}

\* count, sum and max of a set of rows; the latter are NULL for no rows.
_metric_expression(aggregate, rows) ==
    CASE aggregate = "count" -> Cardinality(rows)
      [] aggregate = "sum"   -> IF rows = {} THEN Null
                                ELSE MapThenSumSet(LAMBDA r : r.amount, rows)
      [] aggregate = "max"   -> IF rows = {} THEN Null
                                ELSE Max({r.amount : r \in rows})

\* group_by: without a dimension one row, else one for each value, NULL included.
Grouped(dataset, u, filters, aggregate, dims) ==
    LET rows == Selected(dataset, u, filters)
    IN  IF dims = {}
        THEN {[key |-> <<>>, value |-> _metric_expression(aggregate, rows)]}
        ELSE {[key |-> [d \in dims |-> row[d]],
               value |-> _metric_expression(aggregate,
                            {r \in rows : \A d \in dims : r[d] = row[d]})] : row \in rows}

\* _sort_expression: the row may stand before the other in the order.
Before(sort, row, other) ==
    CASE sort = "desc" -> row.value >= other.value
      [] sort = "asc"  -> row.value <= other.value
      [] sort = "none" -> TRUE

\* The answers the database may give: as many of the rows as the limit lets
\* through, the first ones of the order.  Which of equal or unordered rows
\* are cut off is the database's choice.
compile(dataset, u, filters, aggregate, dims, sort, limit) ==
    LET groups == Grouped(dataset, u, filters, aggregate, dims)
    IN  {answer \in SUBSET groups :
            /\ Cardinality(answer) =
                 IF Cardinality(groups) <= limit THEN Cardinality(groups) ELSE limit
            /\ \A row \in answer, other \in groups \ answer : Before(sort, row, other)}

-----------------------------------------------------------------------------

QueryInit ==
    /\ typeOf \in [{m.id : m \in AskedMains} -> ProjectTypes \cup {Null}]
    /\ ownerOf \in [SubIds -> {u.id : u \in Askers}]
    /\ crewOf = [w \in SubIds |-> {}]
    /\ payments = {}

QueryNext ==
    \/ \E w \in AskedSubs, u \in Askers : OwnerChanges(w, u) \/ CrewChanges(w, u)
    \/ \E w \in AskedSubs, a \in PaidAmounts : Pay(w, a)

QuerySpec == QueryInit /\ [][QueryNext]_queryVars

-----------------------------------------------------------------------------
(* Properties *)

\* Every variable keeps to its type.
QueryTypeOK ==
    /\ typeOf \in [{m.id : m \in AskedMains} -> ProjectTypes \cup {Null}]
    /\ Cardinality(payments) <= MaxPaid

\* The figure of a report without dimensions, one row that no limit cuts off.
Ungrouped(dataset, u, filters, aggregate) ==
    (CHOOSE r \in Grouped(dataset, u, filters, aggregate, {}) : TRUE).value

Total(answer) == MapThenSumSet(LAMBDA g : g.value, answer)

\* Fewer rows than the limit are all there are: counts and sums add up to the
\* ungrouped figure.  An answer the limit may have cut never counts too much.
AddsUp(dataset, u, aggregate, limit, answer) ==
    /\ Cardinality(answer) < limit =>
         Total(answer) = Ungrouped(dataset, u, {}, aggregate)
    /\ aggregate = "count" => Total(answer) <= Ungrouped(dataset, u, {}, aggregate)

\* The largest maximum of the groups is the maximum of all rows, in a complete
\* answer and, whatever was cut off, in one ordered from the largest.
ShowsMax(dataset, u, sort, limit, answer) ==
    sort = "desc" \/ Cardinality(answer) < limit =>
        Max({g.value : g \in answer}) = Ungrouped(dataset, u, {}, "max")

\* Reports of one user agree within their limits, however they are grouped and
\* ordered: complete answers add up to the ungrouped figure, and an answer
\* from the largest down shows the maximum although the limit cuts it; a
\* filter, its opposite and the rows without a value split the rows, so that
\* ne alone drops the projects without a type; and whoever sees a payment
\* sees its project in the overview.
ReportsOfUserAgree ==
    \A u \in Askers :
      /\ \A dataset \in {"project_overview", "payment_execution"},
            sort \in {"none", "asc", "desc"}, limit \in Limits :
           \A dims \in (SUBSET Dimensions(dataset)) \ {{}} :
             /\ \A aggregate \in {"count", "sum"} :
                  \A answer \in compile(dataset, u, {}, aggregate, dims, sort, limit) \ {{}} :
                    AddsUp(dataset, u, aggregate, limit, answer)
             /\ \A answer \in compile(dataset, u, {}, "max", dims, sort, limit) \ {{}} :
                  ShowsMax(dataset, u, sort, limit, answer)
      /\ \A t \in ProjectTypes :
           LET n(op) == Ungrouped("project_overview", u,
                                  {Filter("project_type_id", op, t)}, "count")
           IN  n("eq") + n("ne") + n("is_null")
                  = Ungrouped("project_overview", u, {}, "count")
      /\ {row.main : row \in Selected("payment_execution", u, {})}
            \subseteq {row.main : row \in Selected("project_overview", u, {})}
=============================================================================
