# A formal model of the project lifecycle manager

TLA+ modules, TLC configurations and machine-checked proofs about the backend
of the project lifecycle manager (`src/backend/app`). The backend is a FastAPI
application over PostgreSQL, with Celery tasks started by celery-beat. It keeps
main projects, their sub-projects, the phases a sub-project goes through, and
the documents, payments, revoke requests and notifications that go with them.

What is hard about it is not in any one function. Every request has a database
session and a transaction of its own, the database runs READ COMMITTED, and
the services mix reads without a lock, `SELECT ... FOR UPDATE`, advisory locks
and unique indexes. The unit tests run one call after the other on in-memory
repositories. The modules here are about what happens between the calls.

## 1. How requests meet in the database

These facts about the code hold for every module.

* A request is a sequence of reads followed by one commit (`core/db.py`); the
  webhook tasks, which commit several times, are the exception. In a module a
  request is a *session*: an action for each read another request can
  influence, an action for the commit, and `Rollback`.
* A row that a session has loaded is not refreshed when the same session
  selects it again, not even with `FOR UPDATE` (SQLAlchemy's identity map
  without `populate_existing`), and not by a commit (`expire_on_commit=False`).
  Sessions therefore carry what they have seen, and decide on it. This holds
  for rows a request still refers to: an object kept in a local variable only is
  dropped when its function returns, and selected afresh afterwards
  (`handle_callback` of `oauth.py`; `ResolveUser` reads the binding again).
* A commit writes the columns whose value the session changed from the value it
  had loaded. A column set to the value it already had is not written.
* `SELECT ... FOR UPDATE` looks for rows in the state of the database when the
  statement starts, waits for their locks, and reads again those it found. Rows
  inserted meanwhile are not seen.
* A row lock is kept until the end of the transaction. The modules derive locks
  from the sessions' positions; there is no lock variable to keep in step.
* `Rollback` stands for everything that ends a request early: a refused
  permission, a validation, a missing document, a unique violation, a lost
  connection, a deadlock PostgreSQL breaks, a worker that dies.

## 2. Inventory

Paths are under `src/backend/app/services` unless they say otherwise.

| Component | State | Operations | Hard behaviour | What makes it correct | Modules |
|---|---|---|---|---|---|
| Phase flow (`phases.py`) | phases, their history, the sub-project's status | promotion, procurement type | status checked before the rows are locked; two phases promoted at once | phases open in order; the promotion that completes the last phase completes the sub-project; the history explains the status | `PhaseRules`, `PhaseFlow`, `PhaseContract` |
| Revoke requests (`revoke_requests.py`) | requests, phases, documents, history | submit, approve, reject | phase and sub-project read without a lock; a unique index on pending requests | an approved request rolls back once, a phase that is completed | `PhaseFlow`, `DocumentVersions` |
| Acceptance steps, workflow templates, gates (`acceptance_steps.py`, `workflows.py`, `phases.py`) | steps, definitions of a version, vouchers | create and update steps, edit and publish versions, change the procurement type | written beside a promotion that has read them | a completed phase meets its gate | `PhaseGates` |
| Sub-projects (`sub_projects.py`) | status, budget, manager, members, number | create, update, submit, review, close, terminate, members, handover | no row is ever locked | one review decides; approved budgets fit the main project; manager, members and handovers agree | `Portfolio`, `Budgets`, `Memberships` |
| Main projects (`main_projects.py`) | status, budget, number | create, update, submit, review, close | no row is locked; children counted before the close | closed only when no sub-project is open | `Portfolio`, `Budgets` |
| Project numbers (`project_imports.py`, `project_templates.py`, `main_projects.py`) | numbers, the sequence, templates | form, template, import of a sheet | imported numbers collide with drawn ones; rows validated against an old list | an import creates exactly its good rows | `ProjectNumbers` |
| Payments (`payments.py`) | ledger rows, two totals | payment, reversal | totals recomputed by `SELECT SUM` under two row locks | totals equal the ledger; reversed once; no unconfirmed overrun | `PaymentLedger` |
| Documents (`documents.py`) | versions, `is_latest`, `is_deleted` | upload, delete, reclassify | advisory lock for uploads, none for deletions; rows missed by `FOR UPDATE` | versions unique; one current version | `DocumentVersions` |
| Files (`storage/local.py`, `virus_scan.py`, `file_cleanup.py`, `database_exports.py`, `reports.py`) | stored files, rows that name them, jobs | upload, scan, download, export, report, two cleanups | files and rows listed at different times; lost scans | no needed file removed; no infected one served | `FileStore` |
| Search (`search.py`) | index entries | index, query | queued indexing beside changes | what is settled is found under its present type, by those who may open it | `DocumentSearch` |
| Classification (`document_classification.py`) | – | suggest a type | merging of two rankings | the best are offered, none twice | `DocumentClassification` |
| Archives (`archives.py`) | archive tables, live tables | archive, restore | one large transaction on rows read before | a project is in one place with its sub-projects | `Archives` |
| Handover (`handover_requests.py`) | requests, managers, members | submit, candidate's answer, review, force | several sub-projects in one transaction; a forced transfer after seven days | all of a request's sub-projects change hands or none | `Handover`, `Memberships` |
| Tasks, deadlines (`tasks.py`, `task_deadlines.py`) | executors, tasks | create, update, complete, hourly scan | a status aggregated from rows another request writes; crashes of the scan | the status is the aggregate; what is late is marked | `Tasks` |
| Webhooks (`webhooks.py`, `tasks/webhooks.py`) | delivery rows | enqueue, retry, replay | locks given up after the first delivery of a batch; lost answers; crashes | delivered means accepted; given up only after all attempts; every delivery settled | `WebhookDeliveries` |
| Notification deliveries (`notification_deliveries.py`) | delivery rows, notifications | enqueue and attempt, retry | first attempt outside the claim; a dead letter that cannot be recorded | a dead letter is earned and the administrators know | `NotificationDeliveries` |
| Notifications (`notifications.py`) | inbox, preferences | send, read, daily digest | unique keys decide between sessions | sent outside once; what is digested is listed | `Notifications` |
| Authentication (`auth.py`, `users.py`, `core/`) | account, tokens, Redis marks | login, refresh, logout, revocation | expiry of marks against expiry of tokens; two commands for one counter | revoked stays revoked; a lockout ends | `Accounts` |
| OAuth (`oauth.py`) | bindings | sign in, bind, unbind | binding read before the provider is asked | signed in as the owner of the identity | `OAuthBindings` |
| API keys, role permissions, departments | rows | create, use, revoke; replace; delete | row locks, unique keys, counts | a dead key is refused; the last request decides; nobody loses a department unnoticed | `ApiKeys`, `RolePermissions`, `Departments` |
| Custom reports (`custom_reports.py`, `report_query_compiler.py`, `report_datasets.py`) | definitions, runs | define, scheduled scan; queries | no claim; retries; ends of months; NULL in filters | due reports run once; figures agree | `ScheduledReports`, `ReportQueries` |
| Reports (`reports.py`) | – | four tables | snapshot read by several statements | the tables agree | `ReportTables` |
| Dashboard (`dashboard.py`) | cache | five dashboards | an old snapshot stored over a newer one | staleness is bounded | `Dashboards` |
| Benchmarks, risk (`project_benchmarks.py`, `project_risk.py`) | – | score, percentiles | thresholds and interpolation | worse facts never score lower | `ProjectInsight` |
| AI services, audit, channels, operations, API layer, frontend | – | – | calls, logs, formatting | see section 7 | – |

Components meet in a few rows. Promotions, revocations, closing and payments
meet in the sub-project's row; promotions, revocations and the writers of gates
in the phase rows; revocations, uploads and deletions in the document rows;
reviews, creations and closings in the rows of both kinds of project; payments
of different sub-projects in the main project's row; handovers and membership
in the rows of the members; retry tasks in the delivery rows. Where two
components meet, one module has the actions of both that touch the shared rows
(`PhaseFlow` has closing and terminating, `Handover` the disabling of users,
`FileStore` uploads, exports and both cleanups); a write of a component that
only matters as a change of value is an action that makes it (`ChangeStatus` of
`PaymentLedger`, `StatusMoves` of `Memberships`).

`PROJECT.json` lists every component with its status, and under `hazards` the
lines where these behaviours can go wrong, with the property that covers each
and, where the code does go wrong, what the property excuses.

## 3. The modules

```
PhaseRules ── PhaseContract        contract of the phase flow, single steps
     └─────── PhaseFlow            the interleaved requests
                 ├── MCPhaseFlow
                 └── PhaseFlow_proofs
Handover ──┬──────── MCHandover
           └──────── Handover_proofs
Portfolio ─┬──────── MCPortfolio
           └──────── Portfolio_proofs

MCBackground ──────── Tasks, WebhookDeliveries
MCProjectRecords ──── PaymentLedger, DocumentVersions, PhaseGates, FileStore,
                      DocumentSearch, DocumentClassification, Archives, Budgets,
                      ProjectNumbers, Memberships
MCUsersReports ────── Notifications, NotificationDeliveries, Accounts,
                      OAuthBindings, RolePermissions, ApiKeys, Departments,
                      ScheduledReports, ReportTables, ReportQueries, Dashboards,
                      ProjectInsight

Background_proofs ─── MCBackground
FiniteLemmas          sums, maxima and orders of finite sets, for the next three
Documents_proofs ──── DocumentVersions, FileStore, DocumentSearch, Archives,
                      DocumentClassification
Records_proofs ────── MCProjectRecords, Documents_proofs
Users_proofs ──────── MCUsersReports
```

`MCBackground`, `MCProjectRecords` and `MCUsersReports` check several components
side by side. `focus` says whose behaviour it is, the others rest in an initial
state, and `Parts` in the configuration chooses among them. The state space is
the sum of the components' spaces, and each property is evaluated where its component is in focus. These
runs are not compositions: what components do to each other is inside the
modules, as said above. Names of variables and actions carry their component
for this reason (`gatePhase`, `archJob`, `reportTick`). Every module can be read
alone, except that `PhaseFlow` uses `PhaseRules` and instantiates
`PhaseContract`.

In every module `...Job` (or `session`) is what the requests in flight have
read and have still to write, and an action named after a function of the code
is the commit, or the whole, of that function. An action `...Load` or `...Read`
is a read another request can come after.

### Phases

**PhaseRules** holds the rules as operators on the statuses a session has read:
which phases start open (`InitialPhases`), what a phase waits for (`Earlier`),
what a promotion opens (`Opens`, `AfterPromotion`). Phases 5 and 6 (payment and
post review) depend on nothing and are open from the start.

**PhaseFlow** models one approved sub-project. `phase` and `sub` are the status
columns, `promotions` and `rollbacks` count the rows of `phase_history` with
each note, `request` is the table of revoke requests, and `session[s]` says how
far a request has come and what it has read.

| Code | Actions |
|---|---|
| `promote_phase` | `PromoteLoad` (phase), `PromoteLoadSub`, `PromoteCheck` (locks and reads all phases, checks the dependencies), `PromoteCommit` |
| `submit_request` | `SubmitLoad`, `SubmitLoadSub`, `SubmitCheck`, `SubmitCommit` (the unique index decides again) |
| `review_request` | `ReviewLoad` (locks the request), `ApproveCommit` or `RejectCommit` |
| `close_sub_project` | `CloseLoad`, `CloseCheck` (counts the phases), `CloseCommit` |
| `terminate_sub_project` | `TerminateLoad`, `TerminateCommit` |

`promote_phase` checks the phase's status on the row it loaded first and never
looks again, so a session keeps `"in_progress"` for the phase it promotes
whatever the locked read finds. The documents, vouchers, acceptance steps and
procurement type a promotion asks for are not kept; the check that fails is a
`Rollback`, so a promotion may be refused at any time and the properties hold
for every outcome of those checks. `PhaseGates` has the checks.

**PhaseContract** is the abstract specification: each request is one step on
the two status columns. `PhaseFlow` implements it (`ImplementsContract`; the
refinement mapping is the identity on `phase` and `sub`). It is as weak as the
service makes it: an already completed phase may be promoted again, and
`completed` may be written over `closed` or `terminated`.

**PhaseGates** models what the promotion of one phase demands. `version` has the
required documents: those of the sub-project's workflow version, or, with the
status `"none"`, those of the table of templates, which the code reads by other
rules (`_required_documents_for_phase`). `gatePhase` is the phase, `uploaded`,
`step`, `paid` and `vouchered` what it has to show. A promotion is
`PromoteStart` (the phase), `PromoteGate` (lock and checks) and `GateCommit`.
`update_procurement_type`, `create_step`, `update_step`, `DocumentCommit` (an
upload or a deletion) and `update_phase_definitions` are the commits of requests
that have read the phase or version in a `...Read` before. Inserts and the
procurement type wait for the promotion's lock, because of the foreign key and
because it is a column of the row; deletions and step updates do not. A payment
(`PayWithVoucher`) looks at no status, but always brings a voucher, whose
document waits for the lock; a deletion may take the voucher away again. Which
version of a type takes a deleted one's place is a choice here and worked out
in `DocumentVersions`. A version is published first (`publish_template_version`)
and the phase is entered later (`PhaseEntered`). `CompletedMeetsGate` says that
a completed phase still has what it needed unless a commit that had checked the
phase earlier came after the promotion's checks (`raced`).

### Money, documents and files

**PaymentLedger** models payments and reversals of the sub-projects of one main
project: row locks on the sub-project, then the main project, the insertion,
the two sums, the commit. Other services appear as `ChangeStatus`, the writes
of the status column that wait for the row.

**DocumentVersions** models the versions of the documents of one phase.
`Scan` and `Read` are the two halves of `SELECT ... FOR UPDATE`, and `Updated`
the rule that only changed columns are written, on which the interesting
behaviours depend. Document types all of whose versions are current (vouchers,
quotes, acceptance reports) are left out.

**FileStore** models the storage root and the rows that name its files. An
upload is `_save_content`, `StoreUpload` (the row), `EnqueueScan` or, if that
fails, `MarkScanFailed`; `UploadDies` may end it after each. A download reads
the row (`DownloadRead`) and serves later (`DownloadServe`). Jobs go through
`CreateJob`, `JobRunning`, `JobSaves`, `JobCompletes` or `JobFails`. The weekly
cleanup lists files, then rows, then deleted documents, then deletes one by one
(`CleanupListFiles`, `CleanupListRows`, `CleanupListDeleted`, `CleanupDelete`);
the daily one of reports commits per job. Days are counted; a day is longer
than a request, a job or a cleanup, which is why the age limit protects files
whose rows are not committed yet. Exports have no cleanup of their own: the
weekly one knows document rows only, takes their files when these are old, and
leaves the job with its `storage_key`; `NeededFilesStay` speaks of the time
before.

**DocumentSearch** models the index: `queued[d]` counts the messages for a
document, `IndexRead` and `IndexCommit` (or `IndexFails`, `IndexDies`) are an
indexing, `ScanDocument` ends with one. `search_entries` is the set of answers a
search may give: the matches, or as many of them as `SearchLimit` lets through.
The code cuts off those of the lowest rank (`ORDER BY ts_rank`, `LIMIT`); ranks
come from the text, which is left out, so any match may be cut off here.
`SearchIsExact` speaks of the moment when no message is under way and none was
lost, and of completeness only where the limit was not reached.

**DocumentClassification** has no concurrency: `AddCandidate` adds the rules'
candidates, `build` ranks them, `AiSuggests` merges the provider's answer or
`AiFails`. Confidences may exceed 100 and types repeat in an answer. The code
breaks ties by the names of the types; `Listed` is any order that respects the
rank.

**Archives** models the archive run (`ArchiveList`, `ArchiveListSubs`, then
`archive_eligible_projects`, which snapshots what was listed and deletes what
is there by then) and the restoration (`RestoreRead`, `RestoreReadSubs`,
`restore_main_project`) beside new sub-projects, documents and closings.
`migrations` in a row counts its moves between the tables and so tells one
snapshot of a project from the next; a restoration deletes the snapshot it has
read, by its id, if it is still there. `ArchiveRollback` includes the
violations of the unique `original_id`. The history variable `archOutdated`
collects the projects moved by a session on what it had read two moves before.

**Budgets** adds money to `Portfolio`: each operation that writes a budget or a
status has a `...Load` and a commit that writes the changed columns only.
`review_sub_project` is `ReviewSubLoad`, `ReviewSubMain`, `ReviewSubSum` (the
sum and the confirmation) and `ApproveSub` or `RejectSub`. The history variable
`overtaken` turns true when a commit was decided on values that had changed,
which is the excuse `ExcessIsConfirmed` makes. Approvals that overlap do exceed the
budget together without a confirmation.

**ProjectNumbers** models the three ways to a project number. `DrawnNumber` is
the database sequence, which no rollback takes back; `validated_rows` is the
validation of a sheet as a recursive function over its rows; `ImportLoad` reads
the existing numbers, `ImportCommit` inserts all good rows or `ImportCollides`.

**Memberships** models the rows of `sub_project_members` beside
`sub_projects.manager_id` and the history of handovers. `AddRead`,
`RemoveRead`, `StartDirect` and `BatchNext` read without a lock; `DirectLock`
is the flush that locks the sub-project; `TransferLock` is the approved
request, which locks first.

### Background jobs

**WebhookDeliveries** models the queue. `Claim` is `list_due_deliveries` with
SKIP LOCKED; `Post` sends one delivery, whose answer may be lost; `Record`
commits what the task knows, counted from what it read, and gives up all its
locks, because `process_due` commits after each delivery. `Crash` kills a
worker between any two steps; `ReplayDeadLetter` is the administrator's replay,
which does not look at the status.

**Tasks** models the tasks of one sub-project. `taskStatus` and `executors` are
the rows, `taskJob[s]` a request with the task and executors it has read.
`create_task`, `update_task` and `complete_task` are a read and a commit each
(`CreateTaskRead`, `CreateTaskCommit` and so on). A scan is one session,
`ScanDueToday`, `ScanOverdue`, `MarkOverdue` and `ScanNotify`, for the members
whose local hour is 9. `TaskJobDies` ends a session without its commit.
`taskRaced` collects the tasks two sessions worked on at once.

**NotificationDeliveries** is the same kind of queue, with a first attempt by
the sender outside the claim (`EnqueueDelivery`), batches under SKIP LOCKED
(`ProcessDue`), one attempt after the other (`ChannelSend`) and their records
(`MarkDelivered`, `MarkFailedAttempt`). The last failure makes the dead letter
and the administrators' notification in one commit, which a unique key may
refuse.

**Notifications** models sending under preferences and keys (one commit for the
rows of all receivers, which a key inserted meanwhile fails as a whole, and
after it the outside channels), marking as read, and the digest:
it reads the pending rows, writes a digest under the key of its day, and marks
them sent, in one transaction.

### Users

**Accounts** models one account with its Redis keys. `failures` and
`revokeMark` carry the second they expire in. `LoginCheck` is the read half of
a login; INCR and EXPIRE are two actions. A revocation reads the clock
(`ReadClock`), writes the mark with its expiry (`revoke_user_tokens`, the SETEX)
and then commits the status (`CommitStatus`). `lastRevoked` is the latest second
a mark has been written for: two revocations may write theirs in the other
order, and then the mark is outdated (`MarkIsOutdated`).

**OAuthBindings** models one provider: `start_login`, the state in Redis taken
by `PopGet` and `PopDelete`, `handle_callback` (the provider's answer, which
finds the identity bound or not), `ResolveUser` (reads the binding again, and
the account it names) and `upsert_binding`, beside unbinding and disabled users.
`overtaken` collects the sessions during which another one changed bindings
between the queries of `ResolveUser` and the commit.

**RolePermissions**, **ApiKeys** and **Departments** model three small services
whose correctness is a matter of locks, unique keys and a count that is not
locked: the replacement of a role's rows, the use and revocation of a key under
its row lock, the deletion of a department beside users who join it.

### Reports and figures

**ScheduledReports** models definitions, the minute's scan that runs what is
due, its retries and notifications. `_calculate_next_run_at` is the calendar
arithmetic over `MonthLengths`. **ReportTables** reads a snapshot in three
statements and computes the four tables from it. **ReportQueries** is the
semantics of the compiled SQL: scope, filters with NULL, grouping, aggregates,
order and limit. `Grouped` are all rows of a report; `compile` is the set of
answers the database may give, since `LIMIT` cuts off any of the rows that
`ORDER BY` leaves equal or, without one, any at all.
**Dashboards** models the cache of the five dashboards with requests that
compute them together. **ProjectInsight** computes the risk score, its level
from all five reasons (delay, budget, overdue tasks, cycle and stay in the phases
above the 90th percentile), and the percentiles of both metrics in integers; the
code uses floats for the percentages.

### Projects and handovers

**Handover** models handover requests over several sub-projects
(`handover_requests.py`) beside the administrator's direct handover
(`sub_projects.py`) and the disabling of a leader (`users.py`). `sub` keeps the
manager of each sub-project and whether its status allows a handover, `user`
the status of the leaders, `request` the requests, `session[s].fit` what the
checks on the locked sub-projects will say. The batch handover is a sequence of
direct ones. Statuses other than active and disabled (a password to be reset)
only make a check fail, which is a `Rollback`.

| Code | Actions |
|---|---|
| `submit_request` | `SubmitLoad`, `LockSub` for each sub-project, `SubmitCommit` |
| `review_candidate` | `Accept`, `LockSub` for each, `AcceptCommit`; `Decline`, `DeclineCommit` |
| `review_request` | `Review`, `LockSub` for each, then `RejectCommit`, or `Approve` (the checks of `_apply_transfer`) and `ApproveCommit` |
| `force_request` | `ForceLoad`, `LockSub` for each, `ForceTransfer`, `ForceCommit` |
| `handover_sub_project` | `DirectLoad`, `DirectCommit` |
| `disable_user` | `DisableLoad`, `DisableCommit`; `Reinstate` is a reset and changed password |

**Portfolio** models a main project and its sub-projects from creation to
closing (`main_projects.py`, `sub_projects.py`), where no row is ever locked.
`main` and `sub` keep the statuses and the numbers, `approvals` how often a
sub-project has been approved (each approval makes its phases), `counter` the
next number. `session[s].seen` is the status the session read, which decides
what it does and whether the new status is written at all.

| Code | Actions |
|---|---|
| `submit_project`, `submit_sub_project` | `SubmitMain`, `SubmitMainCommit`; `SubmitSub`, `SubmitSubCommit` |
| `review_project` | `ReviewMain`, then `ApproveMainCommit` or `RejectMainCommit` |
| `close_project` | `CloseMain`, `CloseMainCount`, `CloseMainCommit` |
| `create_sub_project` | `CreateSub` (reads the main project), `CreateSubNumber` (the upsert locks the counter), `CreateSubCommit` |
| `review_sub_project` | `ReviewSub`, `ReviewSubMain`, then `ApproveSubCommit` (starts the main project, makes the phases) or `RejectSubCommit` |
| `close_sub_project`, `terminate_sub_project` | `CloseSub`, `CloseSubCommit`; `TerminateSub`, `TerminateSubCommit` |
| `promote_phase` of a last phase | `CompleteSub`, `CompleteSubCommit`; it does not look at the sub-project's status |

An approval beyond the budget may be refused at any time (`Rollback`); budgets,
`update_project` and `update_sub_project` are in `Budgets`.

## 4. What is checked

| Run | Instance | Result |
|---|---|---|
| `phase_flow` | 6 phases, 2 requests in flight, 1 revoke request | `NoLostCompletion`, `OpenedByPredecessor`, `OneRollbackPerApproval`, `CompletedIsRecorded`, `ReopensOnlyCompleted`, `ImplementsContract` hold |
| `handover` | 2 sub-projects, 2 leaders, 2 handover requests, 2 requests in flight | `TransfersAreWhole`, `DecidedOnce` hold |
| `portfolio` | 1 main project, 2 sub-projects, 3 requests in flight | `TypeOK` (one approval of each sub-project), `NumbersConsecutive`, `WorkIsApproved` hold |
| `background` | 1 task, 2 members, 2 sessions; 2 webhook deliveries, 2 workers | `AggregateUnlessRaced`, `SettledIsEarned`, and under fairness `LateIsMarked`, `EventuallySettled` hold |
| `project_records` | ten components, 2 requests in flight on each | the properties below hold |
| `users_reports` | twelve components, 2 requests in flight on each | the properties below hold |
| `phase_flow_finished`, `handover_disabled`, `portfolio_closed`, `webhook_attempts`, `document_current`, `archive_files` | one component each | one property each is violated |

The passing runs take one to four minutes and between 0.4 and 4 million
distinct states each. Every passing run also checks the type invariants of its
modules.

| Component | Property | In short |
|---|---|---|
| payments | `LedgerIsSound` | both totals equal the ledger whenever no request holds the rows; a payment is reversed once |
| | `PaysAsAllowed` | no payment into a sub-project that is over; beyond the budget only when confirmed |
| documents | `VersionIsFree` | no two documents of a type get one version |
| | `CurrentVersionMoves` | an upload supersedes what was current; a deletion hands over to the version below, excuses by name |
| gates | `CompletedMeetsGate` | a completed phase has what it needed, races excused by name |
| files | `FilesAreSafe` | no cleanup takes a needed file; what was found infected is not served |
| search | `SearchIsExact` | a settled document is found under its present type only, by those who may open it unless the limit is reached; never a hidden one |
| classification | `SuggestionsAreBest` | sorted, none twice, none better left out |
| archives | `InOnePlaceWithItsSubs` | never lost; live or archived, with all its sub-projects, unless `archOutdated` |
| budgets | `ExcessIsConfirmed` | only a confirmation, an overtaking or a revived sub-project exceeds the budget |
| numbers | `NumbersAreSound` | imports create exactly their good rows; drawn numbers collide with imported ones only |
| teams | `RecordsOfLeaderAgree` | manager, members' roles and handovers agree |
| notifications, deliveries | `NotifiedAsPromised` | digested is listed, sent outside once, dead letters are earned and told |
| accounts | `AccessEndsAndReturns` | revoked tokens stay revoked after Redis forgets, while the mark is the latest; lockouts end |
| oauth | `SignedInAsOwner` | a sign-in leaves the identity with the account it signed in to |
| permissions, keys, departments | `AdministrationHolds` | last request decides; dead keys are refused; who is stranded joined during the deletion |
| schedules | `ReportRunsAreExact` | the next time is the first one; a due time runs once |
| tables, queries | `ReportsAgree` | the four tables agree; complete reports of one user add up however grouped, cut ones show the maximum if ordered by it; filters and scopes agree |
| dashboards | `HandedOverDisappears` | staleness is bounded by the expiry and one request |
| insight | `InsightIsSound` | worse facts never score lower; percentiles split the sample |

A name that is a conjunction (`LedgerIsSound == LedgerBalances /\
ReversedAtMostOnce` in `PaymentLedger`) groups what one component promises; its
parts are defined, with a comment, just above it.

Each property of a passing run has a mutant: a definition of the model changed
the way a plausible bug would change the code, under which TLC finds the
property violated. The mutants stand beside the definitions they replace.

### What the violated properties show

* `NoRollbackOfFinished`. The revoke service refuses to roll back a completed or
  closed sub-project ("Completed or closed sub project cannot be rolled back").
  It reads the sub-project's status without a lock. A reviewer's request reads
  `in_progress`; the promotion of the last open phase commits and completes the
  sub-project; the approval commits. The sub-project is completed and one of
  its phases is open.
* `AtMostOneCurrent`. `delete_document` does not take the advisory lock that
  `upload_document` takes. A deletion selects the rows of a type and waits for
  an upload that has locked them; when the upload commits, the new row is not
  among those the deletion found, and it makes the highest version it did find
  current again. Two versions are current. The first schema had a unique index
  against it, dropped when multi-instance types came.
* `AtMostMaxAttempts`. The deployment manual promises six posts. Two overlapping
  retry tasks both post the rest of a batch once its locks are gone, and count
  from the values each of them has read.
* `DisabledLeadsNothing`. Disabling a leader is refused while the leader has
  sub-projects in flight, which `disable_user` counts without a lock; a handover
  reads the receiver's status without one. A handover that has read the account
  active and commits after the count leaves a disabled leader in charge. In this
  run no sub-project is `Revivable`, so that a status only moves from active to
  closed and no promotion can reopen what the count has passed over.
* `ClosedMainHasNoOpenSub`. The manual lets a main project be closed once all
  its sub-projects are completed, closed or terminated, and `close_project`
  counts the others. A creation that has read the main project open commits
  after the count; the main project is closed and a new sub-project pending.
* `FilesOutliveArchiving`. The design says that document files stay in place
  when a project is archived, and that the archive keeps their paths. The
  deletion of a project's rows takes the document rows with it and no snapshot
  names the files, so the weekly cleanup removes them as orphans once they are
  old enough, and a restored project has none.

Other disagreements take no interleaving and have no run.

* The user's manual (`src/业务使用手册.md:147`) says that an approved revocation
  rolls back the following phases too; the code and
  `docs/rule-failure-test-matrix.md` (KR-06) leave later phases alone, and
  `PhaseContract!Reopen` states what the code does.
* `docs/rule-failure-test-matrix.md` (KR-08) and `docs/部署手册.md:219` promise that
  administrators are told of tasks seven days overdue. The scan looks at rows
  that are `not_started` or `in_progress` only, marks them overdue the day after
  their date, and tells administrators of those it marks in the same scan. So a
  row is escalated only if it is seven days late when it is first marked; marked
  in time, or in a scan that dies after its commit, it never is (`ScanNotify` of
  `Tasks`; `LateIsMarked` speaks of the marking only).

### What the properties excuse

Where the code can go wrong in a way no document forbids, the property names
the condition, and everything outside it is checked. `AggregateUnlessRaced`: a
task's status may disagree with its executors after two sessions overlapped on
it. `ExcessIsConfirmed`: after an approval decided on outdated values.
`RecordsOfLeaderAgree`: after two handovers overtook each other.
`CompletedMeetsGate`: after a write that had passed its own check earlier.
`LockoutEnds`: when the process died between INCR and EXPIRE, which leaves a
counter that never expires. `RevokedStaysRevoked`: while the mark is older than
the last revocation, because two revocations read the clock in one order and
wrote in the other. `DueTimeRunsOnce`: when two scans had the report
at once, or a notification failed after the run. `SignedInAsOwner`: when another
session changed bindings between the queries and the commit.
`CurrentVersionMoves`: a deletion whose type
was changed by a reclassification while it waited, or that missed uploads of
which an approved revocation has since deleted the latest (this takes three
requests and four documents, more than the run has; the theorem covers it).
`InOnePlaceWithItsSubs`: when a project was moved to the other table and back
while a request had it in hand. A restoration then leaves the newer snapshot
behind, the project is live and archived, and every later archive run collides
with that snapshot; an archive run may keep no sub-projects. The unique version
of a reclassified document may still be refused when its computed version is
the one it had when loaded (the column is then not written) and two other
reclassifications have changed it since (`MoveCommit`).
The excuse is a variable or a history that is set only by that situation; the
hazards in `PROJECT.json` name the lines. Such a property does not catch the race
it excuses, which happens; it shows that nothing else breaks the promise.

### Bounds

* *Two requests in flight* are enough for the pairs of requests that meet in a
  row. The theorems hold for any number.
* *Revoke requests*: one in `phase_flow`, each lets a phase be promoted once
  more; the theorems hold for any finite set. Without a bound the history grows
  for ever. A session ends in every state, so every operation can run again.
* *Six phases* is the default workflow and the largest `phase_no` the table
  allows. A sub-project can be closed only with six, hence `CloseCheck`.
* *Payments*: three rows hold a payment, its reversal and a competing third
  row; they are numbered in the order of their commits. Amounts 1 and 2 under a
  budget of 2 make both single overruns and overruns by two payments happen.
* *Documents*: three rows give a type its first, second and third version;
  `MaxMoves` bounds reclassifications, which would go on for ever.
* *Excuses*: gates, archives, budgets and memberships are followed up to the
  first commit that their property excuses (`CONSTRAINT UntilOvertaken`). The
  state it leads to is still checked, and the theorems have no such limit.
* *Gates*: phases 2, 4 and 5 are the ones with checks of their own; two sets of
  rules cover required, conditional, optional and per-payment documents, from a
  version or from the templates. Two payments and `MaxUploads` 2 let one voucher
  be missing; `payment_voucher` is the multi-instance type of the instance.
* *Files*: one document, one report, one export, retentions of 1 and 2 days and
  a clock of 2: every file gets old enough for every cleanup.
* *Search*: one document, two types, `MaxQueued` and `MaxRetypes` 2, so that two
  indexings of outdated and current content overlap. With `SearchLimit` 1 an
  answer is empty or at its limit; the theorem has every limit and set of
  documents.
* *Classification*: four rules, three answers and all files over them; answers
  repeat a type and exceed 100.
* *Archives*: two main projects with one sub-project, a retention of a year and
  a clock of 1, `MaxMigrations` 4: a project is archived, restored and archived
  again while a session is about to restore its first snapshot.
* *Budgets*: two sub-projects and budgets of 1 and 2 on both sides.
* *Numbers*: two sheets with repetitions, faulty rows, an unknown department
  and a budget that is not a number; two drawn numbers, which the sheets hit.
* *Handover, teams*: two sub-projects are the least for which "all or none" says
  anything, two leaders let a sub-project move back and forth; `MaxHandovers` 2.
  `Revivable` are the sub-projects a change of status may make active again (a
  promotion does): all of them in `handover`, none in `handover_disabled`.
* *Accounts*: one failed login locks the account (`AUTH_FAILURE_LIMIT` 1), access
  tokens live for a second and refresh tokens for two, so that a mark made to
  last as long as an access token is missed; three tokens. The account is followed
  until a process leaves a counter without an expiry (`CONSTRAINT UntilOrphaned`):
  it is locked then for ever.
* *Portfolio*: sub-projects are created once and never deleted, so two give two
  competing creations and a main project with one approved and one open
  sub-project. Three requests let a review, a submission and a closing overlap.
* *Tasks*: one task with two executors, two days, one crash.
* *Webhooks, notification deliveries*: a maximum of 2 attempts instead of 6 and
  3: a first attempt and a last one. `MaxDisturbances` bounds crashes and
  replays together. Posts are bounded because every post is recorded or lost to
  a crash. `webhook_attempts` uses the code's 6.
* *Clocks* (`LastTick`, `LastSecond`, `LastKeyTick`, `LastReportTick`,
  `LastDashTick`) run a little longer than the longest expiry or, for schedules,
  past the end of a month too short for the chosen day.
* *Queries, tables, insight*: two main projects, two or three sub-projects, two
  payments, limits of 1 and 3 groups, below and above the number there are; five
  peers, of every kind and with and without a finished phase; the facts range
  over each threshold of the score, with two finished phases (`MaxPhases`).

Requests in flight are interchangeable and a symmetry of every run that checks
no liveness. Deadlock is not checked where a bounded instance really ends (all
rows used, the clock at its bound, every delivery settled).

### Fairness

Two modules state liveness properties, both in `background`.

* `WebhookDeliveries`: a running task goes on and a task with something to claim
  is started (`WF(Work(w))`: beat starts one every minute,
  `tasks/celery_app.py`), and a retry time passes (`WF(BecomeDue(d))`). Nothing
  is assumed of the endpoint: it may refuse or lose every answer, and then the
  delivery ends as a dead letter.
* `Tasks`: a session that has begun takes its next step (`WF`), and each member
  is scanned again and again at its own hour (`SF` of `ScanDueToday` for that
  member: beat starts a scan every hour, which takes the members whose local
  hour is 9). Strong fairness is needed because a member's hour comes and goes;
  it is justified because it comes every day. Nothing is assumed of workers:
  each scan may die, as often as `MaxTaskCrashes` lets it.

## 5. What is proved

`PhaseFlow_proofs` proves, for every number of phases from 1 to 6, every set of
sessions and every finite set of revoke requests, from the assumptions
`PhaseCountAssumption` and `RequestsAssumption` only:

| Theorem | Property |
|---|---|
| `TypeCorrect` | `TypeOK` |
| `Inductive` | the strengthened invariant `IInv` |
| `CompletionNotLost` | `NoLostCompletion` |
| `PhasesOpenInOrder` | `OpenedByPredecessor` |
| `CompletionIsRecorded` | `CompletedIsRecorded` |
| `RevocationsReopenCompleted` | `ReopensOnlyCompleted` |
| `ApprovalsRollBackOnce` | `OneRollbackPerApproval` |
| `FlowImplementsContract` | `ImplementsContract` |

The properties are not inductive: each speaks of the rows, and what a commit
does to the rows depends on what its session read. `IInv` adds what a session
may rely on:

* `LocksKeep`: the session that holds the phase rows is alone, and what it read
  of them is still so, except for the phase it promotes, whose status it had
  loaded before the lock.
* `PromotedIsOpen`: that phase has been opened; it may have been completed
  meanwhile, but never set back to waiting.
* `SeenSubKeeps`: a sub-project seen outside `in_progress` has not come back to
  it. This is why the status that is not written (because it was `completed`
  when loaded) does not lose a completion.
* `ReviewKeeps` and `PendingOnce`: a request under review is pending and
  reviewed by one session, and no other request is pending for its phase.
* `ApprovedPhaseKeeps`: so the phase, read without a lock, is still completed
  when the approval is written. A reviewer of the code may doubt this one: the
  guarantee comes from the unique index on pending requests, not from any lock
  on the phase.
* `HistoryCounts`: at least as many promotions as revocations, and more while
  the phase is completed.

TLC has checked the same properties on the instances above. The proof goes
action by action; actions that change only the position of one session are
dealt with together (`HarmlessStep`). `OneRollbackPerApproval` needs the
cardinality of the set of approved requests, which grows by one with each
approval. The implementation proof maps a promotion's commit to `Promote`, an
approval to `Reopen`, closing and terminating to `Finish`, all else to a stutter.

`Handover_proofs` proves, for every set of leaders, sub-projects, handover
requests and sessions, from `HandoverAssumption` only (the placeholders are no
request and no leader):

| Theorem | Property |
|---|---|
| `TypeCorrect` | `TypeOK` |
| `Inductive` | the strengthened invariant `IInv` |
| `TransfersWhole` | `TransfersAreWhole` |
| `RequestsDecidedOnce` | `DecidedOnce` |

A transfer commits on what the session read some steps before, so neither
property is inductive. `IInv` says why that is safe here: a locked sub-project
and a locked request belong to one session (`HeldAlone`, `RequestAlone`), the
request is still in the status the session found (`RequestKeeps`), and a
sub-project that passed the checks still passes them (`SubsKeep`), because every
other writer of its row, the direct handover and the changes of status
included, waits for the lock. A step of one session *spares* the others
(`Spared`, `SparedKeeps`), so each action is proved for its own session only.

`Portfolio_proofs` proves, for every finite set of sub-projects and every set
of sessions, from `PortfolioAssumption` only:

| Theorem | Property |
|---|---|
| `TypeCorrect` | `TypeOK`, with at most one approval of each sub-project |
| `Inductive` | the strengthened invariant `IInv` |
| `NumbersAreConsecutive` | `NumbersConsecutive` |
| `WorkApproved` | `WorkIsApproved` |

Here a session's commit overwrites whatever others wrote, and what it read may
be long out of date. `IInv` singles out what cannot be: an approval is recorded
for ever, so what a session is about to complete or close has been approved
(`WorkKeeps`) whatever its status is by now; and the upsert keeps the counter
for one session until its end (`CounterAlone`), so a creation that fails leaves
no gap.

`Background_proofs` proves, for every set of deliveries, workers, tasks and
finite set of members and every bound (`MaxAttemptsAssumption`,
`TasksAssumption`):

| Theorem | Property |
|---|---|
| `BackgroundTypeCorrect` | `BackgroundTypeOK` |
| `SettlementsEarned` | `SettledIsEarned` |
| `AggregatesHold` | `AggregateUnlessRaced` |
| `BackgroundKeepsItsPromises` | both, of the behaviours of `BackgroundSpec` |

Webhooks need no lock: tasks may overlap as they like, because a row never
counts an attempt that was not made (`CountedWasPosted`), and neither does what
a task has read of it (`ReadWasPosted`). That the number of attempts can exceed
the maximum is no contradiction: `AtMostMaxAttempts` is violated,
`SettledIsEarned` is not. For tasks, `TasksIInv` says that what a session holds
of a task no two sessions have worked on is what is stored (`JobReads`), also
for a scan that dies between two of its commits and for the one that follows it.

`Documents_proofs` proves, for every finite set of documents and every set of
types, requests, jobs, readers, projects, rules and answers (`TypesAssumption`,
`DocsAssumption`, `StoreAssumption`, `SearchAssumption`, `ArchiveAssumption`,
`ClassifyAssumption`):

| Theorem | Property |
|---|---|
| `DocumentsTypeCorrect`, `FilesTypeCorrect`, `SearchTypeCorrect`, `ArchivesTypeCorrect`, `ClassifyTypeCorrect` | the type invariants |
| `ComputedVersionIsFree` | `VersionIsFree` |
| `CurrentVersionIsKept` | `CurrentVersionMoves` |
| `FilesStaySafe` | `FilesAreSafe` |
| `SearchFindsWhatIsThere` | `SearchIsExact` |
| `ProjectsAreInOnePlace` | `InOnePlaceWithItsSubs` |
| `TheBestAreSuggested` | `SuggestionsAreBest` |

*Versions.* Two locks have to work together. The advisory lock keeps others from
bringing a document into the type, so what the `SELECT` found when it began
includes all there is when it has waited (`GroupRead`); the row locks keep the
versions it has read. Neither suffices alone: a reclassification that waited
for its keys may take a document out of a type whose key it does not hold, and
a deletion takes no key at all.

*Deletions.* Without the key a deletion may miss uploads. `DeletionIInv` says what
is known of them as long as nothing has been reclassified: they have higher
versions than all it has found (`GroupIsOlder`), and unless they are all deleted
one of them is marked latest (`LaterHasLatest`). Either the replacement is found
by the deletion or it is not needed; and what a deletion hands over to is later
for every other deletion that takes its target for later. Only a revocation
deletes a row and leaves its mark, which is why the property excuses it.

*Files.* `StoreIInv` relates each file to its row (`DocumentSafe`, `JobSafe`)
and says that what a cleanup has listed stays fit to be deleted (`ListedSafe`):
an old upload without a row will not get one, because it has failed or died
(`OldDocument`), and a deleted document is not restored (`DeadDocument`). The
proof uses that the retention of orphans is positive: an upload is committed on
the day its file was written, which is what the model says of a request, so a
retention of zero days could take a file whose row is about to be written. What
the scanner found infected stays infected or failed, so no reader is late.

*Index.* No lock orders the indexing tasks. `IndexFollows` says instead that a
searchable document is in the index as what it is, or someone is still going to
index it as it is now, or its message was lost or overtaken.

*Archives.* No row is locked. A candidate is closed for so long that only
archiving and restoring can change it (`Frozen`), and each of these makes
`migrations` grow, so what a session has read of a project holds as long as the
project has not been moved (`Keeps`). With a retention of zero a sub-project
could still be added to a candidate, so `ArchiveAssumption` wants it positive.

*Suggestions.* `ClassifyIInv` follows the candidates into the list. The only
type a phase requires is 96 sure before and 99 after the context has been added,
and `SingleIsSure` says that it is in the list or next to be added, whatever the
file matches; nothing else is as sure (`ItemsTyped`, from `ClassifyAssumption`:
the keyword rules go up to 90). What the rules suggest is the best of a complete
list of the types (`OfRules`); an answer of the provider goes before it and
pushes types off its end only (`MergeKeepsThePromise`). `Listed` chooses an
order of a finite set; that there is one is `OrderExists` of `FiniteLemmas`.

`FiniteLemmas` has what the proofs of several components need of finite sets:
what a sum over a set is and when two sums are equal, that there is a greatest
element, and that the elements can be listed in the order of a rank.

`Records_proofs` proves, for every finite set of sub-projects and every set of
payments, amounts, steps, sessions, leaders, sheets and every bound
(`AmountsAssumption`, `PaymentsAssumption`, `GatesAssumption`,
`TeamAssumption`, `BudgetsAssumption`, `NumbersAssumption`):

| Theorem | Property |
|---|---|
| `PaymentsTypeCorrect`, `GatesTypeCorrect`, `TeamsTypeCorrect`, `BudgetsTypeCorrect`, `NumbersTypeCorrect` | the type invariants |
| `TotalsFollowTheLedger` | `LedgerIsSound` |
| `PaymentsAreAllowed` | `PaysAsAllowed` |
| `CompletedPhasesMeetTheirGate` | `CompletedMeetsGate` |
| `LeadersAreRecorded` | `RecordsOfLeaderAgree` |
| `ExcessWasConfirmed` | `ExcessIsConfirmed` |
| `NumbersMeetOnlyImports` | `NumbersAreSound` |
| `RecordsTypeCorrect` | `RecordsTypeOK` |
| `RecordsOfProjectsAreSound`, `RecordsOfDocumentsAreSound`, `RecordsMoveAsAllowed` | the properties of `project_records`, of the behaviours of `RecordsSpec` |

*Payments.* `PaymentIInv` is about the rows: a reversal is of a payment of the
locked sub-project, so what a session has checked of the payment and of the
status is still so (`CheckedHolds`). `LedgerIInv` adds the totals. They are kept
twice, in the row of the sub-project and in that of the main project; a request
knows the first because it holds that row, and the second only from the moment
it holds both (`TotalsHold`, `MainExclusive`), which is why the code locks the
main project's row before it adds anything up.

*Sums.* `MapThenSumSet` is a fold, a recursive function chosen by its equation.
That there is such a function, that it is the only one, and what adding or
taking away an element does to a sum is proved without an induction scheme:
among the parts of a finite set for which it failed there would be a smallest
one (`SmallestPart`, from the well-founded order of the parts of a finite set),
and the equation refutes it. The first of some rows of a sheet (`FirstRow`), of
some months (in `Users_proofs`) and the order of a set come from the same
argument.

*Gates.* What can close a gate again either waits for the row of the phase, or
has passed its own check of the phase before the promotion: then `raced` says
so. A payment brings its voucher and leaves an open gate open
(`PaymentKeepsOpen`). `PromotingMeetsGate` carries the gate from the checks to
the commit.

*Members.* `TeamIInv`: the row of a sub-project has one holder
(`TeamExclusive`), and a handover that holds it replaces the present manager
unless it overtook another (`HandoverHolds`), so the handovers form a chain.

*Budgets.* The sum of the approved budgets is read before the approval is
committed and nothing is locked meanwhile. `UnconfirmedFit` is the invariant
behind `ExcessIsConfirmed`: the approved sub-projects that nobody had to confirm
fit together, because the last of them was compared with the sum of all approved
before it. It also holds when a confirmed one is terminated later, which the
property alone would not survive. The budgets are not negative
(`BudgetsAssumption`), as the request schemas demand.

*Numbers.* `DrawnOnce`: no two requests hold one number of the sequence, and a
row that is not imported has a number that was drawn. An import finds the first
row of a number in its sheet (`FirstRow`), which is what the recursive
validation has kept of it (`RowsValidated`).

*Side by side.* A behaviour of `RecordsSpec` is one of each component
(`RecordsPayment` to `RecordsTeam`), so what is proved of the ten
specifications is proved of it. The theorems do not need the constraint
`UntilOvertaken` of the run: `ExcessIsConfirmed` makes the excuse itself.

`Users_proofs` proves, for every set of users, sessions, keys, roles,
departments, reports and leaders and every bound, from the assumptions of the
modules:

| Theorem | Property |
|---|---|
| `UsersAreNotifiedAsPromised` | `NotifiedAsPromised` |
| `UsersAreAdministered` | `AdministrationHolds` |
| `UsersAccessIsRightlyEnded` | `AccessEndsAndReturns` |
| `UsersSignInAsOwners` | `SignedInAsOwner` |
| `UsersReportsRunExactly` | `ReportRunsAreExact` |
| `UsersDashboardsForget` | `HandedOverDisappears` |
| `UsersReportsAgree` | `ReportsAgree`, from `TablesOfASnapshotAgree` and `ReportsOfOneUserAgree` |
| `UsersInsightIsSound` | `InsightIsSound`, from `InsightSound` |
| `UsersTypeCorrect` | `UsersTypeOK` |
| `KeysTypeCorrect`, `PermissionsTypeCorrect`, `DepartmentsTypeCorrect`, `AccountsTypeCorrect`, `DeliveriesTypeCorrect`, `NotificationsTypeCorrect`, `BindingsStayUnique`, `DashboardsTypeCorrect`, `ReportsTypeCorrect`, `TablesTypeCorrect`, `QueriesTypeCorrect`, `InsightTypeCorrect` | the type invariants |

Each component has its own inductive invariant and theorem (`KeyIInv`,
`PermissionIInv`, `DeptIInv`, `AccountIInv`, `DeliveryIInv`, `NotifyIInv`,
`OAuthIInv`, `DashIInv`, `ReportIInv`, `TableIInv`, `QueryIInv`, `InsightIInv`);
the nine above follow for `UsersSpec`, every behaviour of which is one of each
component. Some of what the invariants
say:

* *Accounts.* A mark of revocation lives at least as long as every token issued
  before it (`MarkIsLast`, `TokensEnd`), although its expiry is counted from a
  later second than its own; this needs the access token not to outlive the
  refresh token, which `AccountsAssumption` states. No clock reading is ahead of
  the clock (`ClockReadsPast`).
* *Notifications.* A key of deduplication is inserted once, so one session
  sends outside; a digest marks what it has listed under its own lock.
* *Dashboards.* A cached payload is no older than a request may last plus the
  expiry (`CacheIsFresh`); the slowest request decides, not the cache.
* *Scheduled reports.* The calendar is a recursive function over months of any
  lengths (`MonthLengths`, so leap years and short months are not special). The
  lemmas show that its equation has a solution, that months and days are in
  order, and that `next_run_at` yields the first scheduled time after a given
  one (`NextRunFirst`), also where a monthly report asks for the 31st. For the
  runs, `ScanHolds` says that what a scan has still to run is due at the time
  it read, unless another scan has it as well or a notification has failed.

* *Report tables.* `TableJobHolds` relates what a report task has read in each
  of its three statements to the tables as they are, unless a commit has spoiled
  it (`CommitSpoils`). The rest is about sums: the payments are those of the
  months (`MonthsAddUp`), of the days before and after (`JournalsSplit`) and of
  the departments of their projects (`DepartmentsAgree`), because each lies in
  one of these. `TablesAssumption` states the primary and foreign keys of the
  code, and that departments have names other than "any".
* *Queries.* What is selected is a finite set of rows (`RowsAreFinite`), each in
  one group (`GroupsAre`), so sums and maxima of the groups are those of the
  whole (`GroupsAddUp`, `GroupsMax`) although they are taken in another order.
  An answer with fewer rows than its limit is all of the groups, and one ordered
  from the largest keeps the largest (`AnswersAre`, `AnswersAddUp`,
  `AnswersShowMax`); an answer the limit has cut adds up to nothing in
  particular, except that counts never come out too large. `FiltersSplit` counts
  the rows without a value apart, which neither `eq` nor `ne` selects.
  `QueriesAssumption` states the foreign key of sub-projects and that limits are
  positive.
* *Risk and benchmark.* Each score is a step function of quotients, and a
  quotient grows with its numerator (`QuotientGrows`); `ScoreGrows` adds them
  up. `Values` chooses an order of the sample, which need not be the only one:
  the percentiles come out alike. `PercentileLies` puts an interpolated
  percentile between two neighbours of the sorted sample, and
  `MedianSplits` counts the values on its two sides. The sample is not empty,
  since the code asks for five (`InsightAssumption`), but may have no value of a
  metric, which then scores nothing. `AboveGrows` compares a sum of days with
  its number times the percentile.

The parts of the strengthened invariants that TLC can evaluate were checked on
the instances of section 4 before they were proved. Every invariant and every
action property of a passing run is now a theorem. What is only model-checked
is out of the prover's reach: liveness under fairness (`EventuallySettled`,
`LateIsMarked`), which needs ENABLED. The six violated properties are, of
course, no theorems. No module uses RECURSIVE operators.

## 6. Plan

Done: everything in section 3, model-checked, and the proofs of section 5.

Compositions worth their state space: `PhaseFlow` with `PhaseGates`, where a
revocation marks the documents of a phase, and `Tasks` with `Notifications`.

## 7. Not modelled

* *AI providers, analytics questions, text extraction*: calls of an external
  model and its wording. What a model may answer is a choice where it matters
  (`DocumentClassification`, `ReportQueries`).
* *Audit logs*: rows appended after the commit of an operation and never read
  back by it; partitions are made by SQL.
* *Channels*: SMTP and HTTP. Accepting or failing is a choice of
  `NotificationDeliveries`.
* *Visibility of projects*: the lists of roles that see everything
  (`VIEW_ALL_*_ROLES`) contain all five roles, so the filters they guard never
  apply. Where the scope does matter, in search and reports, it is modelled.
* *Operations, API layer, schemas, frontend*: routing, parsing, formatting and
  counters for monitoring.
* *Ranks of search results*: they come from the text of the documents; the limit
  is modelled.
* *Formats*: the content of exports and reports, cell formats, names of files,
  wording of notifications.

## 8. Running

In this directory, with TLC, TLAPS and the community modules installed:

```
tlc -config MCPhaseFlow.cfg MCPhaseFlow
tlc -config MCProjectRecords.cfg MCProjectRecords
tlapm PhaseFlow_proofs.tla      # and the other _proofs modules
```

To check one component of a run of several, name it alone in `Parts` of the
configuration.

`PROJECT.json` lists the runs, the mutants, the theorems, and the source lines
each definition stands for.
