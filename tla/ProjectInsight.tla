--------------------------- MODULE ProjectInsight ---------------------------
(***************************************************************************)
(* The risk score of a main project (services/project_risk.py) and the     *)
(* benchmark it is compared with (services/project_benchmarks.py).         *)
(*                                                                         *)
(* The state is the project itself as it gets later, dearer and slower;    *)
(* score and benchmark are functions of it.  Percentages are exact here,   *)
(* percentiles a hundred times too large, where the code computes with     *)
(* floats; messages and the AI's wording of the summary are left out.      *)
(* cycle_days and phase_stay_days are the metrics that score; the latter,  *)
(* the mean of the phases' durations, is kept as their number and sum.     *)
(***************************************************************************)
EXTENDS Integers, Sequences, FiniteSets, Functions

CONSTANTS
    Peers,           \* other projects there may be: [dept, kind, visible, cycle, stay]
    NoStay,          \* the stay of a project without a finished phase, None
    TotalBudget,     \* total_budget of the project
    MinSampleSize,   \* min_sample_size
    DayStep,         \* days, money and tasks move in steps, so that the
    MoneyStep,       \*   bounds are within reach
    MaxDelay, MaxSpent, MaxTasks, MaxPhases   \* bounds

VARIABLES
    facts,           \* [delay, spent, tasks, overdue, cycle, finished, stayed, dept, kind]
    peers            \* the other projects there are

insightVars == <<facts, peers>>

\* Amounts and days are natural numbers here, cycle_days is never negative
\* (_cycle_days), and a benchmark needs a sample (min_sample_size is five, and
\* one at least in the tests).
ASSUME InsightAssumption ==
    /\ IsFiniteSet(Peers) /\ NoStay \notin Nat
    /\ \A p \in Peers : p.cycle \in Nat /\ p.stay \in Nat \cup {NoStay}
    /\ TotalBudget \in Nat /\ MinSampleSize \in Nat \ {0}
    /\ DayStep \in Nat /\ MoneyStep \in Nat
    /\ MaxDelay \in Nat /\ MaxSpent \in Nat /\ MaxTasks \in Nat /\ MaxPhases \in Nat

Facts == [delay : 0 .. MaxDelay, spent : 0 .. MaxSpent, tasks : 0 .. MaxTasks,
          overdue : 0 .. MaxTasks, cycle : Nat, finished : 0 .. MaxPhases, stayed : Nat,
          dept : {"d1"}, kind : {"k1", "none"}]

AtMost(a, b) == IF a < b THEN a ELSE b
AtLeast(a, b) == IF a > b THEN a ELSE b

-----------------------------------------------------------------------------
(* project_benchmarks.py *)

\* _can_view and _same_scope: a project without a type is compared with all
\* of its department.
Sample(f, p) == p.visible /\ p.dept = f.dept /\ (f.kind # "none" => p.kind = f.kind)

Sampled(f) == {p \in peers : Sample(f, p)}

Ready(f) == Cardinality(Sampled(f)) >= MinSampleSize

\* The values of "cycle" or "stay" there are in the sample, sorted.
Values(f, metric) ==
    LET found == {p \in Sampled(f) : p[metric] # NoStay}
        q == CHOOSE q \in Injection(1 .. Cardinality(found), found) :
               \A i, k \in DOMAIN q : i < k => q[i][metric] <= q[k][metric]
    IN  [i \in 1 .. Cardinality(found) |-> q[i][metric]]

\* Mutant of _percentile: the position counts from one.
PercentileFromOne(values, percent) ==
    LET position == Len(values) * percent
        lower == AtMost(position \div 100 + 1, Len(values))
        upper == AtMost(lower + 1, Len(values))
    IN  100 * values[lower] + (values[upper] - values[lower]) * (position % 100)

\* Between two values in proportion, times 100.
_percentile(values, percent) ==
    LET position == (Len(values) - 1) * percent
        lower == position \div 100 + 1
        upper == AtMost(lower + 1, Len(values))
    IN  100 * values[lower] + (values[upper] - values[lower]) * (position % 100)

-----------------------------------------------------------------------------
(* project_risk.py *)

DelayScore(f) == AtMost(30, f.delay * 2)

\* Ten per cent above the budget are tolerated.
BudgetScore(f) ==
    LET over == (f.spent - TotalBudget) * 100
    IN  IF TotalBudget = 0 \/ over <= 10 * TotalBudget THEN 0
        ELSE AtMost(25, 10 + (over - 10 * TotalBudget) \div (2 * TotalBudget))

\* Mutant of OverdueScore: the floor of five points is a ceiling.
OverdueScoreCapped(f) ==
    IF f.tasks = 0 \/ f.overdue = 0 THEN 0 ELSE AtMost(5, (f.overdue * 40) \div f.tasks)

OverdueScore(f) ==
    IF f.tasks = 0 \/ f.overdue = 0 THEN 0
    ELSE AtMost(25, AtLeast(5, (f.overdue * 40) \div f.tasks))

\* Sum and number of the project's days, None for no phase, against the 90th
\* percentile, None for no values or a small sample.
AboveP90(f, metric, sum, number) ==
    /\ number > 0 /\ Ready(f) /\ Values(f, metric) # << >>
    /\ sum * 100 > number * _percentile(Values(f, metric), 90)

CycleScore(f) == IF AboveP90(f, "cycle", f.cycle, 1) THEN 10 ELSE 0

StayScore(f) == IF AboveP90(f, "stay", f.stayed, f.finished) THEN 10 ELSE 0

score(f) ==
    AtMost(100, DelayScore(f) + BudgetScore(f) + OverdueScore(f) + CycleScore(f) + StayScore(f))

_level(points) ==
    CASE points >= 80 -> 3
      [] points >= 60 /\ points < 80 -> 2
      [] points >= 30 /\ points < 60 -> 1
      [] points < 30 -> 0

-----------------------------------------------------------------------------
(* The life of the project *)

InsightInit ==
    /\ facts \in [delay : {0}, spent : {0}, tasks : {0}, overdue : {0}, cycle : {0},
                  finished : {0}, stayed : {0}, dept : {"d1"}, kind : {"k1", "none"}]
    /\ peers = {}

PeerJoins ==
    /\ \E p \in Peers \ peers : peers' = peers \cup {p}
    /\ UNCHANGED facts

DaysPass ==
    /\ facts.delay + DayStep <= MaxDelay
    /\ facts' = [facts EXCEPT !.delay = @ + DayStep, !.cycle = @ + DayStep]
    /\ UNCHANGED peers

MoneySpent ==
    /\ facts.spent + MoneyStep <= MaxSpent
    /\ facts' = [facts EXCEPT !.spent = @ + MoneyStep]
    /\ UNCHANGED peers

TaskAdded ==
    /\ facts.tasks < MaxTasks
    /\ facts' = [facts EXCEPT !.tasks = @ + 1]
    /\ UNCHANGED peers

TaskOverdue ==
    /\ facts.overdue < facts.tasks
    /\ facts' = [facts EXCEPT !.overdue = @ + 1]
    /\ UNCHANGED peers

\* An overdue task is completed after all.
TaskRecovered ==
    /\ facts.overdue > 0
    /\ facts' = [facts EXCEPT !.overdue = @ - 1]
    /\ UNCHANGED peers

\* A phase is finished on the day it was entered, or later.
PhaseFinished ==
    /\ facts.finished < MaxPhases
    /\ \E days \in {0, DayStep} :
         facts' = [facts EXCEPT !.finished = @ + 1, !.stayed = @ + days]
    /\ UNCHANGED peers

InsightNext ==
    \/ PeerJoins \/ DaysPass \/ MoneySpent
    \/ TaskAdded \/ TaskOverdue \/ TaskRecovered \/ PhaseFinished

InsightSpec == InsightInit /\ [][InsightNext]_insightVars

-----------------------------------------------------------------------------
(* Properties *)

\* Every variable keeps to its type.
InsightTypeOK == facts \in Facts /\ peers \subseteq Peers /\ score(facts) \in 0 .. 100

\* What the facts may become by a day, a payment, a task that is late or a
\* phase that has stayed longer.
WorseFacts ==
    {[facts EXCEPT !.delay = @ + DayStep, !.cycle = @ + DayStep],
     [facts EXCEPT !.spent = @ + MoneyStep]}
    \cup IF facts.overdue < facts.tasks THEN {[facts EXCEPT !.overdue = @ + 1]} ELSE {}
    \cup IF facts.finished > 0 THEN {[facts EXCEPT !.stayed = @ + DayStep]} ELSE {}

\* Days, payments, overdue tasks and slow phases never lower the score or the level, and
\* when all tasks are overdue they count in full.
RiskIsMonotone ==
    /\ \A worse \in WorseFacts : /\ score(worse) >= score(facts)
                                  /\ _level(score(worse)) >= _level(score(facts))
    /\ facts.overdue = facts.tasks /\ facts.tasks > 0 => OverdueScore(facts) = 25

\* The median and the 90th percentile of the values lie within them and in
\* this order, at least half of the values are not above the median and half
\* not below it.
Splits(values) ==
    LET n == Len(values)
        p50 == _percentile(values, 50)
        p90 == _percentile(values, 90)
    IN  /\ 100 * values[1] <= p50 /\ p50 <= p90 /\ p90 <= 100 * values[n]
        /\ 2 * Cardinality({i \in 1 .. n : 100 * values[i] <= p50}) >= n
        /\ 2 * Cardinality({i \in 1 .. n : 100 * values[i] >= p50}) >= n

\* The benchmark of every metric the sample has values of splits them.
PercentilesSplitTheSample ==
    \A metric \in {"cycle", "stay"} :
        Ready(facts) /\ Values(facts, metric) # << >> => Splits(Values(facts, metric))

\* Both of what a project is told about itself.
InsightIsSound == RiskIsMonotone /\ PercentilesSplitTheSample

=============================================================================
