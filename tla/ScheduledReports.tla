-------------------------- MODULE ScheduledReports --------------------------
(***************************************************************************)
(* Custom reports that are run on a schedule (services/custom_reports.py,  *)
(* tasks/custom_reports.py): definition, deletion, the scan every minute   *)
(* that runs what is due, its retries, and the calendar arithmetic that    *)
(* finds the next due time.                                                *)
(*                                                                         *)
(* Time is local time of the schedule, in ticks; zones have no daylight    *)
(* saving.  A scan does not claim what it lists: the scans of two workers  *)
(* may overlap.  The session keeps a listed report as it was read, so a    *)
(* deletion after the listing is not seen; the owner is read later.        *)
(***************************************************************************)
EXTENDS Integers, Sequences, FiniteSets

CONSTANTS
    Reports,          \* custom reports that may be created
    ScanWorkers,      \* celery workers
    ReportSchedules,  \* schedules a report may be given
    DayLength,        \* ticks of a day
    MonthLengths,     \* days of each month of the calendar
    ReportAttempts,   \* max_attempts: 3
    LastReportTick    \* bound: time

VARIABLES
    report,      \* [Reports -> definition, with its last run]
    ownerActive, \* [Reports -> is the owner's account enabled?]
    scan,        \* [ScanWorkers -> the scan under way]
    reportTick,
    executed,    \* history: [Reports -> due times that were completed]
    repeated,    \* history: reports completed twice for one due time
    excused      \* history: reports two scans had at once, or whose
                 \* notification failed after the run

reportVars == <<report, ownerActive, scan, reportTick, executed, repeated, excused>>

\* schedule_frequency, schedule_time, and the day of the week or month.
Schedule == [frequency : {"daily", "weekly", "monthly"}, time : 0..DayLength-1, day : 1..31]

\* `from' is a history: the time the next run was counted from.
NoReport == [is_active |-> FALSE, schedule |-> [frequency |-> "none"], next_run_at |-> -1,
             from |-> -1, run |-> "none"]
NoScan == [todo |-> <<>>, at |-> "idle", attempt |-> 1, due |-> -1]

-----------------------------------------------------------------------------
(* The calendar *)

Least(S) == CHOOSE x \in S : \A y \in S : x <= y
dayOf(t) == t \div DayLength
weekday(d) == d % 7

MonthStart[m \in 1..Len(MonthLengths)] ==
    IF m = 1 THEN 0 ELSE MonthStart[m - 1] + MonthLengths[m - 1]

\* The week has seven days, and the calendar a month after the last day.
ASSUME SchedulesAssumption ==
    /\ DayLength \in Nat \ {0} /\ ReportAttempts \in Nat \ {0} /\ LastReportTick \in Nat
    /\ IsFiniteSet(Reports) /\ ReportSchedules \subseteq Schedule
    /\ \A s \in ReportSchedules : s.frequency = "weekly" => s.day <= 7
    /\ MonthLengths \in Seq(Nat \ {0}) /\ MonthLengths # <<>>
    /\ dayOf(LastReportTick + 1) < MonthStart[Len(MonthLengths)]

monthOf(d) == CHOOSE m \in 1..Len(MonthLengths) :
                 MonthStart[m] <= d /\ d < MonthStart[m] + MonthLengths[m]

\* Mutant of _monthly_candidate: the day is not clamped to the month.
CandidateUnclamped(m, day) == MonthStart[m] + day - 1

\* Days past the end of a month are its last day.
_monthly_candidate(m, day) == MonthStart[m] + Least({day, MonthLengths[m]}) - 1

\* The candidate of this day, week or month, or of the next one.
_calculate_next_run_at(s, from) ==
    LET today == dayOf(from)
        at(d) == s.time + DayLength * d
        inWeek == today + ((s.day - 1 - weekday(today)) % 7)
        inMonth(m) == _monthly_candidate(m, s.day)
        next(d, e) == IF at(d) <= from THEN at(e) ELSE at(d)
    IN  CASE s.frequency = "daily"   -> next(today, today + 1)
          [] s.frequency = "weekly"  -> next(inWeek, inWeek + 7)
          [] s.frequency = "monthly" -> next(inMonth(monthOf(today)), inMonth(monthOf(today) + 1))

\* What a schedule means, without the arithmetic.
IsScheduled(s, t) ==
    LET d == dayOf(t)
        m == monthOf(d)
        dayOfMonth == d - MonthStart[m] + 1
    IN  /\ t % DayLength = s.time
        /\ s.frequency = "weekly" => weekday(d) = s.day - 1
        /\ s.frequency = "monthly" =>
              \/ dayOfMonth = s.day
              \/ dayOfMonth = MonthLengths[m] /\ s.day > MonthLengths[m]

-----------------------------------------------------------------------------
(* Definitions *)

create_report(r, s) ==
    /\ report[r] = NoReport
    /\ report' = [report EXCEPT ![r] = [is_active |-> TRUE, schedule |-> s, from |-> reportTick,
          next_run_at |-> _calculate_next_run_at(s, reportTick), run |-> "none"]]
    /\ UNCHANGED <<ownerActive, scan, reportTick, executed, repeated, excused>>

delete_report(r) ==
    /\ report[r].is_active
    /\ report' = [report EXCEPT ![r].is_active = FALSE]
    /\ UNCHANGED <<ownerActive, scan, reportTick, executed, repeated, excused>>

\* disable_user, and reset_password which lets the owner back in.
ChangeOwner(r) ==
    /\ ownerActive' = [ownerActive EXCEPT ![r] = ~@]
    /\ UNCHANGED <<report, scan, reportTick, executed, repeated, excused>>

-----------------------------------------------------------------------------
(* The scan *)

ScanRest == UNCHANGED <<ownerActive, reportTick>>
Current(w) == Head(scan[w].todo)
Listed(w) == {scan[w].todo[i] : i \in DOMAIN scan[w].todo}

list_due_scheduled_reports ==
    {r \in Reports : report[r].is_active /\ report[r].next_run_at <= reportTick}

\* run_due_scheduled_reports: what is due, by next_run_at.
ScanList(w) ==
    LET due == list_due_scheduled_reports
    IN  /\ scan[w] = NoScan /\ due # {}
        /\ \E order \in [1..Cardinality(due) -> due] :
              /\ \A i, j \in DOMAIN order : i < j =>
                    /\ order[i] # order[j]
                    /\ report[order[i]].next_run_at <= report[order[j]].next_run_at
              /\ scan' = [scan EXCEPT ![w] = [NoScan EXCEPT !.todo = order, !.at = "next"]]
        /\ excused' = excused \cup {r \in due : \E v \in ScanWorkers \ {w} : r \in Listed(v)}
        /\ ScanRest /\ UNCHANGED <<report, executed, repeated>>

\* run_scheduled_report: without its owner the exception ends the scan;
\* the run is committed as queued.
RunQueued(w) ==
    LET r == Current(w)
    IN  /\ scan[w].at = "next"
        /\ IF ownerActive[r]
           THEN /\ scan' = [scan EXCEPT ![w].at = "start", ![w].attempt = 1,
                                        ![w].due = report[r].next_run_at]
                /\ report' = [report EXCEPT ![r].run = "queued"]
           ELSE scan' = [scan EXCEPT ![w] = NoScan] /\ UNCHANGED report
        /\ ScanRest /\ UNCHANGED <<executed, repeated, excused>>

RunStarted(w) ==
    /\ scan[w].at = "start"
    /\ scan' = [scan EXCEPT ![w].at = "running"]
    /\ report' = [report EXCEPT ![Current(w)].run = "running"]
    /\ ScanRest /\ UNCHANGED <<executed, repeated, excused>>

\* An exception of the attempt: the next one, or the failure of the run.
AttemptFails(w) == scan' = [scan EXCEPT
    ![w].at = IF scan[w].attempt < ReportAttempts THEN "start" ELSE "fail",
    ![w].attempt = IF @ < ReportAttempts THEN @ + 1 ELSE @]

RunRaises(w) ==
    /\ scan[w].at = "running"
    /\ AttemptFails(w)
    /\ ScanRest /\ UNCHANGED <<report, executed, repeated, excused>>

\* _next_run_at_for_report counts from one second after the end.
_next_run_at_for_report(r) == _calculate_next_run_at(report[r].schedule, reportTick + 1)

Ended(r, status) == [report[r] EXCEPT !.run = status, !.from = reportTick + 1,
                                      !.next_run_at = _next_run_at_for_report(r)]

\* Mutant of RunCompleted: next_run_at is not advanced.
CompleteWithoutAdvance(w) ==
    LET r == Current(w)
    IN  /\ scan[w].at = "running"
        /\ scan' = [scan EXCEPT ![w].at = "notify"]
        /\ report' = [report EXCEPT ![r].run = "completed"]
        /\ executed' = [executed EXCEPT ![r] = @ \cup {scan[w].due}]
        /\ repeated' = IF scan[w].due \in executed[r] THEN repeated \cup {r} ELSE repeated
        /\ ScanRest /\ UNCHANGED excused

\* _execute_scheduled_run: the file is saved, run and report are committed.
RunCompleted(w) ==
    LET r == Current(w)
    IN  /\ scan[w].at = "running"
        /\ scan' = [scan EXCEPT ![w].at = "notify"]
        /\ report' = [report EXCEPT ![r] = Ended(r, "completed")]
        /\ executed' = [executed EXCEPT ![r] = @ \cup {scan[w].due}]
        /\ repeated' = IF scan[w].due \in executed[r] THEN repeated \cup {r} ELSE repeated
        /\ ScanRest /\ UNCHANGED excused

\* The receivers are notified inside the attempt: an exception here runs the
\* report again, though its next run has been set.
NotifyRaises(w) ==
    /\ scan[w].at = "notify"
    /\ AttemptFails(w)
    /\ excused' = excused \cup {Current(w)}
    /\ ScanRest /\ UNCHANGED <<report, executed, repeated>>

NextReport(w) == scan' = [scan EXCEPT ![w] =
    IF Len(scan[w].todo) = 1 THEN NoScan
    ELSE [NoScan EXCEPT !.todo = Tail(scan[w].todo), !.at = "next"]]

RunNotified(w) ==
    /\ scan[w].at = "notify"
    /\ NextReport(w)
    /\ ScanRest /\ UNCHANGED <<report, executed, repeated, excused>>

_mark_scheduled_run_failed(w) ==
    /\ scan[w].at = "fail"
    /\ report' = [report EXCEPT ![Current(w)] = Ended(Current(w), "failed")]
    /\ NextReport(w)
    /\ ScanRest /\ UNCHANGED <<executed, repeated, excused>>

\* The worker stops, or the notification of a failure raises.
ScanDies(w) ==
    /\ scan[w] # NoScan
    /\ scan' = [scan EXCEPT ![w] = NoScan]
    /\ ScanRest /\ UNCHANGED <<report, executed, repeated, excused>>

ReportClock ==
    /\ reportTick < LastReportTick
    /\ reportTick' = reportTick + 1
    /\ UNCHANGED <<report, ownerActive, scan, executed, repeated, excused>>

ReportInit ==
    /\ report = [r \in Reports |-> NoReport]
    /\ ownerActive = [r \in Reports |-> TRUE]
    /\ scan = [w \in ScanWorkers |-> NoScan]
    /\ reportTick = 0
    /\ executed = [r \in Reports |-> {}] /\ repeated = {} /\ excused = {}

ReportNext ==
    \/ \E r \in Reports :
          \/ \E s \in ReportSchedules : create_report(r, s)
          \/ delete_report(r) \/ ChangeOwner(r)
    \/ \E w \in ScanWorkers :
          \/ ScanList(w) \/ RunQueued(w) \/ RunStarted(w) \/ RunRaises(w) \/ RunCompleted(w)
          \/ NotifyRaises(w) \/ RunNotified(w) \/ _mark_scheduled_run_failed(w) \/ ScanDies(w)
    \/ ReportClock

ReportSpec == ReportInit /\ [][ReportNext]_reportVars

-----------------------------------------------------------------------------
(* Properties *)

\* Every variable keeps to its type.
ReportTypeOK ==
    /\ \A r \in Reports : report[r] = NoReport \/ report[r].schedule \in Schedule
    /\ \A r \in Reports : report[r].run \in {"none", "queued", "running", "completed", "failed"}
    /\ \A w \in ScanWorkers : scan[w].attempt \in 1..ReportAttempts

\* next_run_at is the first time of the schedule after the moment it was
\* counted from, at any end of a week or month and in months without the day.
NextRunIsFirst ==
    \A r \in Reports : report[r] # NoReport =>
       /\ report[r].next_run_at > report[r].from
       /\ IsScheduled(report[r].schedule, report[r].next_run_at)
       /\ \A t \in report[r].from+1..report[r].next_run_at-1 : ~IsScheduled(report[r].schedule, t)

\* A due time is completed once, by whichever worker, unless two scans had
\* the report at once or a notification failed after the run.
DueTimeRunsOnce == repeated \subseteq excused

\* When reports run, and how often.
ReportRunsAreExact == NextRunIsFirst /\ DueTimeRunsOnce

=============================================================================
