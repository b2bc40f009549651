-------------------------- MODULE WebhookDeliveries --------------------------
(***************************************************************************)
(* The webhook delivery queue (services/webhooks.py) and the Celery tasks  *)
(* that work it off (tasks/webhooks.py).                                   *)
(*                                                                         *)
(* celery-beat starts a retry task every minute and nothing stops two of   *)
(* them from running together.  A task claims every due row with SELECT    *)
(* ... FOR UPDATE SKIP LOCKED, posts the deliveries one after the other    *)
(* and commits after EACH of them, which ends the transaction that held    *)
(* the row locks: from then on it works on rows it no longer holds, with   *)
(* the values it read when it claimed them (expire_on_commit=False).       *)
(*                                                                         *)
(* Time only shows as a retry becoming due.  The order of a batch and its  *)
(* limit of 100 rows, oldest first, are left out: a task claims every due  *)
(* row and takes them in any order.                                        *)
(***************************************************************************)
EXTENDS Naturals, FiniteSets

CONSTANTS
  Deliveries,     \* rows of webhook_deliveries that may ever exist
  Workers,        \* retry tasks that may run together
  MaxAttempts,    \* webhook_deliveries.max_attempts (6 in the code)
  MaxDisturbances \* bound on worker crashes and administrators' replays

ASSUME MaxAttemptsAssumption == MaxAttempts \in Nat \ {0}

VARIABLES
  row,            \* webhook_deliveries rows
  task,           \* what each task has claimed, read and done
  posts,          \* HTTP requests sent, by delivery
  accepted,       \* deliveries the endpoint has taken, once or more
  crashes,        \* worker crashes so far
  replays         \* replays so far

webhookVars == << row, task, posts, accepted, crashes, replays >>

Waiting == {"pending", "retry_scheduled"}
Settled == {"delivered", "dead_letter"}
Statuses == {"absent"} \cup Waiting \cup Settled

Absent == [status |-> "absent", attempts |-> 0, due |-> FALSE]

\* A task that has nothing claimed.  "todo" is the rest of the batch, "seen"
\* what it read of it, "locks" the rows it holds, "sent" the delivery whose
\* answer it has and not yet recorded.
Resting == [todo |-> {}, locks |-> {}, seen |-> [d \in Deliveries |-> Absent],
            sent |-> {}, success |-> FALSE]

WebhookInit ==
  /\ row = [d \in Deliveries |-> Absent]
  /\ task = [w \in Workers |-> Resting]
  /\ posts = [d \in Deliveries |-> 0]
  /\ accepted = {}
  /\ crashes = 0
  /\ replays = 0

LockedByOthers(w, d) == \E v \in Workers \ {w} : d \in task[v].locks

-----------------------------------------------------------------------------
\* enqueue_event: one row for each active endpoint, due at once.
EnqueueEvent(d) ==
  /\ row[d] = Absent
  /\ row' = [row EXCEPT ![d] = [status |-> "pending", attempts |-> 0, due |-> TRUE]]
  /\ UNCHANGED << task, posts, accepted, crashes, replays >>

\* next_retry_at passes.
BecomeDue(d) ==
  /\ row[d].status \in Waiting /\ ~ row[d].due
  /\ row' = [row EXCEPT ![d].due = TRUE]
  /\ UNCHANGED << task, posts, accepted, crashes, replays >>

\* Mutant of Claimable: only first attempts are claimed.
ClaimableNew(w) ==
  {d \in Deliveries : row[d].status = "pending" /\ row[d].due /\ ~ LockedByOthers(w, d)}

\* list_due_deliveries, with its SKIP LOCKED.
Claimable(w) ==
  {d \in Deliveries : row[d].status \in Waiting /\ row[d].due /\ ~ LockedByOthers(w, d)}

\* process_due starts.
Claim(w) ==
  /\ task[w] = Resting
  /\ Claimable(w) # {}
  /\ task' = [task EXCEPT ![w] =
                [Resting EXCEPT !.todo = Claimable(w), !.locks = Claimable(w),
                                !.seen = [d \in Deliveries |->
                                            IF d \in Claimable(w) THEN row[d] ELSE Absent]]]
  /\ UNCHANGED << row, posts, accepted, crashes, replays >>

\* Mutant of Answers: a timeout counts as a delivery.
AnswersLenient == {<< TRUE, TRUE >>, << FALSE, TRUE >>, << FALSE, FALSE >>}

\* What a post can come to: the endpoint took it and said so, took it and the
\* answer was lost (a timeout), or did not take it.
Answers == {<< TRUE, TRUE >>, << TRUE, FALSE >>, << FALSE, FALSE >>}

\* attempt_delivery.
Post(w, d, taken, success) ==
  /\ task[w].sent = {} /\ d \in task[w].todo
  /\ << taken, success >> \in Answers
  /\ posts' = [posts EXCEPT ![d] = @ + 1]
  /\ accepted' = IF taken THEN accepted \cup {d} ELSE accepted
  /\ task' = [task EXCEPT ![w].todo = @ \ {d}, ![w].sent = {d}, ![w].success = success]
  /\ UNCHANGED << row, crashes, replays >>

\* Mutant of Outcome: the last attempt is not made.
OutcomeEarly(attempts, success) ==
  IF success THEN "delivered"
  ELSE IF attempts + 1 >= MaxAttempts THEN "dead_letter" ELSE "retry_scheduled"

\* Mutant of Outcome: a failed attempt gets a status of its own.
OutcomeFailed(attempts, success) ==
  IF success THEN "delivered"
  ELSE IF attempts >= MaxAttempts THEN "dead_letter" ELSE "failed"

\* mark_delivered and mark_failed_attempt.
Outcome(attempts, success) ==
  IF success THEN "delivered"
  ELSE IF attempts >= MaxAttempts THEN "dead_letter" ELSE "retry_scheduled"

\* The commit that follows: it counts from what the task had read, writes a
\* status only when it differs from the one read, and releases every lock of
\* the task.  The row may be locked by another task, which it waits for.
Record(w, d) ==
  LET attempts == task[w].seen[d].attempts + 1
      outcome == Outcome(attempts, task[w].success)
  IN /\ task[w].sent = {d}
     /\ ~ LockedByOthers(w, d)
     /\ row' = [row EXCEPT ![d] =
                  [status |-> IF outcome = task[w].seen[d].status THEN @.status ELSE outcome,
                   attempts |-> attempts,
                   due |-> FALSE]]
     /\ task' = [task EXCEPT ![w] = IF @.todo = {} THEN Resting
                                    ELSE [@ EXCEPT !.locks = {}, !.sent = {},
                                                   !.success = FALSE,
                                                   !.seen[d] = Absent]]
     /\ UNCHANGED << posts, accepted, crashes, replays >>

\* The worker process dies: its transaction is rolled back, its locks and
\* the answer it had are gone.
Crash(w) ==
  /\ crashes + replays < MaxDisturbances
  /\ task[w] # Resting
  /\ task' = [task EXCEPT ![w] = Resting]
  /\ crashes' = crashes + 1
  /\ UNCHANGED << row, posts, accepted, replays >>

\* replay_dead_letter: waits for the row lock, and does not look at the status.
ReplayDeadLetter(d) ==
  /\ crashes + replays < MaxDisturbances
  /\ row[d].status # "absent"
  /\ \A w \in Workers : d \notin task[w].locks
  /\ row' = [row EXCEPT ![d] = [status |-> "pending", attempts |-> 0, due |-> TRUE]]
  /\ replays' = replays + 1
  /\ UNCHANGED << task, posts, accepted, crashes >>

Work(w) ==
  \/ Claim(w)
  \/ \E d \in Deliveries, taken \in BOOLEAN, success \in BOOLEAN : Post(w, d, taken, success)
  \/ \E d \in Deliveries : Record(w, d)

WebhookNext ==
  \/ \E d \in Deliveries : EnqueueEvent(d) \/ BecomeDue(d) \/ ReplayDeadLetter(d)
  \/ \E w \in Workers : Work(w) \/ Crash(w)

\* Beat keeps starting tasks, a task that is not killed goes on, and time
\* passes.  Nothing is assumed of the endpoint.
WebhookFairness ==
  /\ \A w \in Workers : WF_webhookVars(Work(w))
  /\ \A d \in Deliveries : WF_webhookVars(BecomeDue(d))

WebhookSpec == WebhookInit /\ [][WebhookNext]_webhookVars /\ WebhookFairness

-----------------------------------------------------------------------------
(* Properties *)

WebhookRows == [status : Statuses, attempts : Nat, due : BOOLEAN]

\* Every variable keeps to its type: the statuses are the ones of the code,
\* and nothing but these steps counts attempts.
WebhookTypeOK ==
  /\ row \in [Deliveries -> WebhookRows]
  /\ task \in [Workers -> [todo : SUBSET Deliveries, locks : SUBSET Deliveries,
                           seen : [Deliveries -> WebhookRows], sent : SUBSET Deliveries,
                           success : BOOLEAN]]
  /\ posts \in [Deliveries -> Nat]
  /\ accepted \subseteq Deliveries
  /\ crashes \in Nat /\ replays \in Nat

\* A delivery shown as delivered was taken by the endpoint, whatever tasks
\* overlapped, answers were lost or workers died.
DeliveredWasAccepted ==
  \A d \in Deliveries : row[d].status = "delivered" => d \in accepted

\* A delivery is only given up after all its attempts have really been made:
\* attempts may be lost from the count, never invented.
GivenUpAfterAllAttempts ==
  \A d \in Deliveries : row[d].status = "dead_letter" => posts[d] >= MaxAttempts

\* What the settled rows say is what happened.
SettledIsEarned == DeliveredWasAccepted /\ GivenUpAfterAllAttempts

\* Every delivery that waits is delivered or becomes a dead letter, though
\* overlapping tasks set its count back and reopen settled rows.
EventuallySettled ==
  \A d \in Deliveries : row[d].status \in Waiting ~> row[d].status \in Settled

\* The deployment manual: at most six attempts, then the dead letter queue.
\* Two overlapping tasks do not keep it: both post the rows at the end of
\* their batches, and count both posts as one.
AtMostMaxAttempts ==
  \A d \in Deliveries : posts[d] <= MaxAttempts * (1 + replays)

=============================================================================
