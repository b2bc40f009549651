----------------------- MODULE NotificationDeliveries -----------------------
(***************************************************************************)
(* Messages handed to the email, WeCom and DingTalk channels               *)
(* (services/notification_deliveries.py and the channels).                 *)
(*                                                                         *)
(* The session that sends a notification commits a pending delivery and    *)
(* attempts it at once; every minute a task takes the due deliveries with  *)
(* FOR UPDATE SKIP LOCKED and attempts them one by one, each in a commit   *)
(* of its own, which releases the locks of the rest of the batch.          *)
(***************************************************************************)
EXTENDS Integers, FiniteSets

CONSTANTS
    Messages,         \* the deliveries
    DeliveryWorkers,  \* sessions: senders and celery workers
    MaxDeliveryAttempts, \* DEFAULT_NOTIFICATION_MAX_ATTEMPTS
    MaxSends          \* bound: attempts per delivery

ASSUME NotificationDeliveriesAssumption ==
    MaxDeliveryAttempts \in Nat \ {0} /\ MaxSends \in Nat \ {0}

VARIABLES
    delivery,    \* [Messages -> DeliveryRow or NoDelivery]
    adminTold,   \* deliveries the administrators have a dead-letter row for
    worker,      \* what each session is doing
    sends,       \* [Messages -> attempts made]
    failedSends     \* [Messages -> attempts that failed]

deliveryVars == <<delivery, adminTold, worker, sends, failedSends>>

NotificationDeliveryStatus == {"pending", "retry_scheduled", "delivered", "dead_letter"}
NoDelivery == [status |-> "absent"]

\* due: next_retry_at is set and has passed; "later" when it has not, "never"
\* when it is null.
DeliveryRow == [status : NotificationDeliveryStatus, count : 0..MaxSends,
                due : {"now", "later", "never"}]

RestingWorker == [op |-> "idle"]

\* Rows locked by the batch of a worker that has not committed yet.
LockedFrom(w) ==
    UNION {worker[v].locks : v \in {v \in DeliveryWorkers \ {w} : worker[v].op # "idle"}}

-----------------------------------------------------------------------------
(* enqueue_and_attempt *)

\* Commit the pending delivery; the attempt follows without a lock.
EnqueueDelivery(w, m) ==
    /\ worker[w] = RestingWorker
    /\ delivery[m] = NoDelivery
    /\ delivery' = [delivery EXCEPT ![m] = [status |-> "pending", count |-> 0, due |-> "now"]]
    /\ worker' = [worker EXCEPT ![w] =
          [op |-> "send", seen |-> [x \in {m} |-> delivery'[m]], locks |-> {}]]
    /\ UNCHANGED <<adminTold, sends, failedSends>>

\* list_due_deliveries
DueDeliveries(w) ==
    {m \in Messages : /\ delivery[m].status \in {"pending", "retry_scheduled"}
                      /\ delivery[m].due = "now"
                      /\ m \notin LockedFrom(w)}

\* process_due: the batch is read and locked.
ProcessDue(w) ==
    /\ worker[w] = RestingWorker
    /\ DueDeliveries(w) # {}
    /\ worker' = [worker EXCEPT ![w] =
          [op |-> "send", seen |-> [m \in DueDeliveries(w) |-> delivery[m]],
           locks |-> DueDeliveries(w)]]
    /\ UNCHANGED <<delivery, adminTold, sends, failedSends>>

\* A channel answers, refuses, times out or raises (email_channel.py,
\* wework_channel.py, dingtalk_channel.py); an unconfigured one fails.
ChannelSend(w, m, success) ==
    /\ worker[w].op = "send"
    /\ m \in DOMAIN worker[w].seen
    /\ sends[m] < MaxSends
    /\ sends' = [sends EXCEPT ![m] = @ + 1]
    /\ failedSends' = [failedSends EXCEPT ![m] = IF success THEN @ ELSE @ + 1]
    /\ worker' = [worker EXCEPT ![w] =
          [op |-> "record", seen |-> worker[w].seen, locks |-> worker[w].locks,
           message |-> m, success |-> success]]
    /\ UNCHANGED <<delivery, adminTold>>

\* The worker goes on with the rest of its batch; its locks are gone.
AfterRecord(w, m) ==
    LET rest == (DOMAIN worker[w].seen) \ {m}
    IN  IF rest = {} THEN RestingWorker
        ELSE [op |-> "send", seen |-> [x \in rest |-> worker[w].seen[x]], locks |-> {}]

\* mark_delivered: counted from the row the session read.
MarkDelivered(w) ==
    LET m == worker[w].message
        row == worker[w].seen[m]
    IN  /\ worker[w].op = "record" /\ worker[w].success
        /\ m \notin LockedFrom(w)
        /\ delivery' = [delivery EXCEPT ![m] =
              [status |-> "delivered", count |-> row.count + 1, due |-> "never"]]
        /\ worker' = [worker EXCEPT ![w] = AfterRecord(w, m)]
        /\ UNCHANGED <<adminTold, sends, failedSends>>

\* mark_failed_attempt: the last attempt makes a dead letter and tells the
\* administrators in the same commit; a dead-letter row that exists already
\* violates its unique key, the commit fails and the batch is abandoned.  A
\* status equal to the one read is not written.
GiveUpEarly(w) ==
    LET m == worker[w].message
    IN  /\ worker[w].op = "record" /\ ~worker[w].success
        /\ m \notin LockedFrom(w)
        /\ delivery' = [delivery EXCEPT ![m] =
              [status |-> IF worker[w].seen[m].count + 2 >= MaxDeliveryAttempts
                          THEN "dead_letter" ELSE "retry_scheduled",
               count |-> worker[w].seen[m].count + 1, due |-> "later"]]
        /\ adminTold' = adminTold \cup {m}
        /\ worker' = [worker EXCEPT ![w] = AfterRecord(w, m)]
        /\ UNCHANGED <<sends, failedSends>>

MarkFailedAttempt(w) ==
    LET m == worker[w].message
        row == worker[w].seen[m]
        last == row.count + 1 >= MaxDeliveryAttempts
        status == IF last THEN "dead_letter" ELSE "retry_scheduled"
    IN  /\ worker[w].op = "record" /\ ~worker[w].success
        /\ m \notin LockedFrom(w)
        /\ \/ /\ ~(last /\ m \in adminTold)
              /\ delivery' = [delivery EXCEPT ![m] =
                    [status |-> IF status = row.status THEN @.status ELSE status,
                     count |-> row.count + 1, due |-> IF last THEN "never" ELSE "later"]]
              /\ adminTold' = IF last THEN adminTold \cup {m} ELSE adminTold
              /\ worker' = [worker EXCEPT ![w] = AfterRecord(w, m)]
           \/ /\ last /\ m \in adminTold
              /\ worker' = [worker EXCEPT ![w] = RestingWorker]
              /\ UNCHANGED <<delivery, adminTold>>
        /\ UNCHANGED <<sends, failedSends>>

\* _next_retry_at passes (1 minute, then 5).
RetryTimePasses(m) ==
    /\ delivery[m].status # "absent"
    /\ delivery[m].due = "later"
    /\ delivery' = [delivery EXCEPT ![m].due = "now"]
    /\ UNCHANGED <<adminTold, worker, sends, failedSends>>

\* The process dies; what it has not committed is lost, its locks are freed.
DeliveryWorkerDies(w) ==
    /\ worker[w] # RestingWorker
    /\ worker' = [worker EXCEPT ![w] = RestingWorker]
    /\ UNCHANGED <<delivery, adminTold, sends, failedSends>>

DeliveryInit ==
    /\ delivery = [m \in Messages |-> NoDelivery]
    /\ adminTold = {}
    /\ worker = [w \in DeliveryWorkers |-> RestingWorker]
    /\ sends = [m \in Messages |-> 0]
    /\ failedSends = [m \in Messages |-> 0]

DeliveryNext ==
    \/ \E w \in DeliveryWorkers :
          \/ \E m \in Messages :
                \/ EnqueueDelivery(w, m)
                \/ \E success \in BOOLEAN : ChannelSend(w, m, success)
          \/ ProcessDue(w) \/ MarkDelivered(w) \/ MarkFailedAttempt(w)
          \/ DeliveryWorkerDies(w)
    \/ \E m \in Messages : RetryTimePasses(m)

DeliverySpec == DeliveryInit /\ [][DeliveryNext]_deliveryVars

-----------------------------------------------------------------------------
(* Properties *)

\* Every variable keeps to its type.
DeliveryTypeOK ==
    /\ delivery \in [Messages -> DeliveryRow \cup {NoDelivery}]
    /\ adminTold \subseteq Messages
    /\ sends \in [Messages -> 0..MaxSends]
    /\ failedSends \in [Messages -> 0..MaxSends]
    /\ \A w \in DeliveryWorkers : worker[w].op \in {"idle", "send", "record"}

\* A dead letter was really attempted MaxDeliveryAttempts times without
\* success and the administrators have been told of it, although the sender
\* and the retry tasks count from rows they read before they sent.
DeadLetterIsEarned ==
    \A m \in Messages : delivery[m].status = "dead_letter" =>
        failedSends[m] >= MaxDeliveryAttempts /\ m \in adminTold
=============================================================================
