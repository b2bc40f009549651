------------------------ MODULE Background_proofs -------------------------
(***************************************************************************)
(* The queue of webhooks and the tasks with their deadlines, for every set *)
(* of deliveries, workers, tasks and members and every bound.              *)
(*                                                                         *)
(* What a settled row of the queue says is what happened.  No lock is      *)
(* needed for it: tasks may overlap as they like, because each counts from *)
(* a row whose attempts had all been made when it read it.  The aggregated *)
(* status of a task, by contrast, is lost when two sessions race for it;   *)
(* the invariant follows who can have read what, so that nothing else      *)
(* loses it.                                                               *)
(*                                                                         *)
(* At the end both are carried over to BackgroundSpec, every behaviour of  *)
(* which is one of each component.                                         *)
(***************************************************************************)
EXTENDS MCBackground, FiniteSetTheorems, TLAPS

\* A row never counts an attempt that was not made.
CountedWasPosted == \A d \in Deliveries : row[d].attempts <= posts[d]

\* Nor does what a task has read; of the delivery it has posted and not yet
\* recorded there is one more attempt than it read, and a success it
\* remembers is one the endpoint has given.
ReadWasPosted ==
  \A w \in Workers, d \in Deliveries :
    /\ d \in task[w].todo => task[w].seen[d].attempts <= posts[d]
    /\ d \in task[w].sent => /\ task[w].seen[d].attempts < posts[d]
                             /\ task[w].success => d \in accepted

WebhookIInv == WebhookTypeOK /\ CountedWasPosted /\ ReadWasPosted /\ SettledIsEarned

-----------------------------------------------------------------------------

\* A maximum of attempts is a natural number.
LEMMA MaxIsNat == MaxAttempts \in Nat
BY MaxAttemptsAssumption

\* A task that has nothing claimed has a task's type, and nothing to answer for.
LEMMA RestingType ==
  /\ Resting \in [todo : SUBSET Deliveries, locks : SUBSET Deliveries,
                  seen : [Deliveries -> WebhookRows], sent : SUBSET Deliveries,
                  success : BOOLEAN]
  /\ Resting.todo = {} /\ Resting.sent = {}
BY DEF Resting, Absent, WebhookRows, Statuses

\* A row keeps its type whatever an attempt comes to.
LEMMA OutcomeType ==
  ASSUME NEW n \in Nat, NEW b \in BOOLEAN
  PROVE  /\ Outcome(n, b) \in Statuses
         /\ Outcome(n, b) = "delivered" => b
         /\ Outcome(n, b) = "dead_letter" => n >= MaxAttempts
BY DEF Outcome, Statuses, Waiting, Settled

\* The queue starts empty.
LEMMA WebhookInitHolds == WebhookInit => WebhookIInv
<1> SUFFICES ASSUME WebhookInit PROVE WebhookIInv
  OBVIOUS
<1>1. WebhookTypeOK
  BY RestingType DEF WebhookInit, WebhookTypeOK, Absent, WebhookRows, Statuses
<1>2. CountedWasPosted
  BY DEF WebhookInit, CountedWasPosted, Absent
<1>3. ReadWasPosted
  BY RestingType DEF WebhookInit, ReadWasPosted
<1>4. SettledIsEarned
  BY DEF WebhookInit, SettledIsEarned, DeliveredWasAccepted, GivenUpAfterAllAttempts, Absent
<1> QED BY <1>1, <1>2, <1>3, <1>4 DEF WebhookIInv

\* A new, a due and a replayed row has no more attempts than before and is
\* not settled by it.
LEMMA RowStep ==
  ASSUME WebhookIInv, NEW d \in Deliveries,
         EnqueueEvent(d) \/ BecomeDue(d) \/ ReplayDeadLetter(d)
  PROVE  WebhookIInv'
<1>1. PICK r \in WebhookRows :
         /\ row' = [row EXCEPT ![d] = r]
         /\ r.attempts <= posts[d]
         /\ r.status \in Settled => r.status = row[d].status
  <2>1. CASE EnqueueEvent(d)
    <3> [status |-> "pending", attempts |-> 0, due |-> TRUE] \in WebhookRows
      BY DEF WebhookRows, Statuses, Waiting
    <3> WITNESS [status |-> "pending", attempts |-> 0, due |-> TRUE] \in WebhookRows
    <3> QED BY <2>1 DEF EnqueueEvent, WebhookIInv, WebhookTypeOK, WebhookRows, Statuses, Waiting, Settled
  <2>2. CASE BecomeDue(d)
    <3> [row[d] EXCEPT !.due = TRUE] \in WebhookRows
      BY ZenonT(60) DEF WebhookIInv, WebhookTypeOK, WebhookRows
    <3> WITNESS [row[d] EXCEPT !.due = TRUE] \in WebhookRows
    <3> QED BY <2>2 DEF BecomeDue, WebhookIInv, WebhookTypeOK, WebhookRows, CountedWasPosted
  <2>3. CASE ReplayDeadLetter(d)
    <3> [status |-> "pending", attempts |-> 0, due |-> TRUE] \in WebhookRows
      BY DEF WebhookRows, Statuses, Waiting
    <3> WITNESS [status |-> "pending", attempts |-> 0, due |-> TRUE] \in WebhookRows
    <3> QED BY <2>3 DEF ReplayDeadLetter, WebhookIInv, WebhookTypeOK, WebhookRows, Statuses, Waiting, Settled
  <2> QED BY <2>1, <2>2, <2>3
<1>2. UNCHANGED <<task, posts, accepted, crashes>> /\ replays' \in Nat
  BY DEF EnqueueEvent, BecomeDue, ReplayDeadLetter, WebhookIInv, WebhookTypeOK
<1>3. WebhookTypeOK'
  BY <1>1, <1>2 DEF WebhookIInv, WebhookTypeOK
<1>4. CountedWasPosted'
  BY <1>1, <1>2 DEF WebhookIInv, WebhookTypeOK, CountedWasPosted
<1>5. ReadWasPosted'
  BY <1>2 DEF WebhookIInv, ReadWasPosted
<1>6. SettledIsEarned'
  BY <1>1, <1>2 DEF WebhookIInv, WebhookTypeOK, SettledIsEarned, DeliveredWasAccepted,
                    GivenUpAfterAllAttempts, Settled
<1> QED BY <1>3, <1>4, <1>5, <1>6 DEF WebhookIInv

\* A claim reads rows that count made attempts only; a crash forgets them.
LEMMA ClaimStep ==
  ASSUME WebhookIInv, NEW w \in Workers, Claim(w) \/ Crash(w)
  PROVE  WebhookIInv'
<1>1. UNCHANGED <<row, posts, accepted, replays>> /\ crashes' \in Nat
  BY DEF Claim, Crash, WebhookIInv, WebhookTypeOK
<1>2. /\ task' = [task EXCEPT ![w] = task'[w]]
      /\ task'[w] \in [todo : SUBSET Deliveries, locks : SUBSET Deliveries,
                       seen : [Deliveries -> WebhookRows], sent : SUBSET Deliveries,
                       success : BOOLEAN]
      /\ task'[w].sent = {}
      /\ \A d \in task'[w].todo : task'[w].seen[d] = row[d]
  <2>1. CASE Claim(w)
    <3>1. task'[w] = [Resting EXCEPT !.todo = Claimable(w), !.locks = Claimable(w),
                        !.seen = [d \in Deliveries |->
                                    IF d \in Claimable(w) THEN row[d] ELSE Absent]]
      BY <2>1 DEF Claim, WebhookIInv, WebhookTypeOK
    <3>2. Claimable(w) \subseteq Deliveries
      BY DEF Claimable
    <3>3. Absent \in WebhookRows
      BY DEF Absent, WebhookRows, Statuses
    <3> QED BY <2>1, <3>1, <3>2, <3>3, RestingType DEF Claim, WebhookIInv, WebhookTypeOK, Resting
  <2>2. CASE Crash(w)
    BY <2>2, RestingType DEF Crash, WebhookIInv, WebhookTypeOK
  <2> QED BY <2>1, <2>2
<1>3. WebhookTypeOK'
  BY <1>1, <1>2 DEF WebhookIInv, WebhookTypeOK
<1>4. ReadWasPosted'
  BY <1>1, <1>2 DEF WebhookIInv, WebhookTypeOK, ReadWasPosted, CountedWasPosted
<1>5. CountedWasPosted' /\ SettledIsEarned'
  BY <1>1 DEF WebhookIInv, CountedWasPosted, SettledIsEarned, DeliveredWasAccepted,
              GivenUpAfterAllAttempts
<1> QED BY <1>3, <1>4, <1>5 DEF WebhookIInv

\* A post is an attempt made that nobody has counted yet.
LEMMA PostStep ==
  ASSUME WebhookIInv, NEW w \in Workers, NEW d \in Deliveries,
         NEW taken \in BOOLEAN, NEW success \in BOOLEAN, Post(w, d, taken, success)
  PROVE  WebhookIInv'
<1>1. /\ UNCHANGED <<row, crashes, replays>>
      /\ posts' = [posts EXCEPT ![d] = posts[d] + 1]
      /\ accepted \subseteq accepted' /\ accepted' \subseteq Deliveries
      /\ success => d \in accepted'
  BY DEF Post, Answers, WebhookIInv, WebhookTypeOK
<1>2. /\ task' = [task EXCEPT ![w].todo = task[w].todo \ {d}, ![w].sent = {d},
                              ![w].success = success]
      /\ d \in task[w].todo
  BY DEF Post, WebhookIInv, WebhookTypeOK
<1>3. \A x \in Deliveries : posts'[x] \in Nat /\ posts[x] <= posts'[x]
  BY <1>1 DEF WebhookIInv, WebhookTypeOK
<1>4. WebhookTypeOK'
  <2> DEFINE T == [todo : SUBSET Deliveries, locks : SUBSET Deliveries,
                   seen : [Deliveries -> WebhookRows], sent : SUBSET Deliveries,
                   success : BOOLEAN]
  <2>1. [task[w] EXCEPT !.todo = task[w].todo \ {d}, !.sent = {d}, !.success = success] \in T
    BY DEF WebhookIInv, WebhookTypeOK
  <2>2. task' = [task EXCEPT ![w] = [task[w] EXCEPT !.todo = task[w].todo \ {d},
                                                    !.sent = {d}, !.success = success]]
    BY <1>2 DEF WebhookIInv, WebhookTypeOK
  <2>3. task' \in [Workers -> T]
    <3> HIDE DEF T
    <3> QED BY <2>1, <2>2 DEF WebhookIInv, WebhookTypeOK, T
  <2>4. posts' \in [Deliveries -> Nat]
    BY <1>1 DEF WebhookIInv, WebhookTypeOK
  <2> QED BY <1>1, <2>3, <2>4 DEF WebhookIInv, WebhookTypeOK
<1>5. CountedWasPosted'
  BY <1>1, <1>3 DEF WebhookIInv, WebhookTypeOK, WebhookRows, CountedWasPosted
<1>6. ReadWasPosted'
  <2> SUFFICES ASSUME NEW v \in Workers, NEW x \in Deliveries
               PROVE  /\ x \in task'[v].todo => task'[v].seen[x].attempts <= posts'[x]
                      /\ x \in task'[v].sent => /\ task'[v].seen[x].attempts < posts'[x]
                                                /\ task'[v].success => x \in accepted'
    BY DEF ReadWasPosted
  <2>1. task[v].seen[x].attempts \in Nat /\ posts[x] \in Nat
    BY DEF WebhookIInv, WebhookTypeOK, WebhookRows
  <2>2. CASE v # w
    BY <2>1, <2>2, <1>1, <1>2, <1>3 DEF WebhookIInv, WebhookTypeOK, ReadWasPosted
  <2>3. CASE v = w
    <3>1. /\ task'[v].todo = task[v].todo \ {d} /\ task'[v].sent = {d}
          /\ task'[v].seen = task[v].seen /\ task'[v].success = success
      BY <2>3, <1>2 DEF WebhookIInv, WebhookTypeOK
    <3>2. posts'[d] = posts[d] + 1
      BY <1>1 DEF WebhookIInv, WebhookTypeOK
    <3> QED BY <2>1, <2>3, <3>1, <3>2, <1>1, <1>2, <1>3 DEF WebhookIInv, ReadWasPosted
  <2> QED BY <2>2, <2>3
<1>7. SettledIsEarned'
  BY <1>1, <1>3, MaxIsNat DEF WebhookIInv, WebhookTypeOK, SettledIsEarned, DeliveredWasAccepted,
                    GivenUpAfterAllAttempts
<1> QED BY <1>4, <1>5, <1>6, <1>7 DEF WebhookIInv

\* The commit counts the attempt made; it settles a row only as delivered
\* when the endpoint took it, or as dead letter when as many were made.
LEMMA RecordStep ==
  ASSUME WebhookIInv, NEW w \in Workers, NEW d \in Deliveries, Record(w, d)
  PROVE  WebhookIInv'
<1> DEFINE attempts == task[w].seen[d].attempts + 1
           outcome == Outcome(attempts, task[w].success)
           status == IF outcome = task[w].seen[d].status THEN row[d].status ELSE outcome
<1>1. /\ UNCHANGED <<posts, accepted, crashes, replays>>
      /\ row' = [row EXCEPT ![d] = [status |-> status, attempts |-> attempts, due |-> FALSE]]
      /\ task[w].sent = {d}
  BY DEF Record, WebhookIInv, WebhookTypeOK
<1>2. /\ task[w].seen[d].attempts \in Nat /\ attempts \in Nat /\ attempts <= posts[d]
      /\ posts[d] \in Nat /\ task[w].success \in BOOLEAN
      /\ task[w].success => d \in accepted
  BY <1>1 DEF WebhookIInv, WebhookTypeOK, WebhookRows, ReadWasPosted
<1>3. /\ outcome \in Statuses
      /\ outcome = "delivered" => d \in accepted
      /\ outcome = "dead_letter" => posts[d] >= MaxAttempts
  BY <1>2, OutcomeType, MaxIsNat
<1>4. /\ status \in Statuses
      /\ status = "delivered" => d \in accepted
      /\ status = "dead_letter" => posts[d] >= MaxAttempts
  BY <1>3 DEF WebhookIInv, WebhookTypeOK, WebhookRows, SettledIsEarned, DeliveredWasAccepted,
              GivenUpAfterAllAttempts
<1> HIDE DEF attempts, outcome, status
<1>5. \A v \in Workers, x \in Deliveries :
        /\ task'[v].todo = task[v].todo \/ (v = w /\ task'[v].todo = {})
        /\ v # w => task'[v] = task[v]
        /\ v = w => task'[v].sent = {}
        /\ x \in task'[v].todo /\ x # d => task'[v].seen[x] = task[v].seen[x]
        /\ v = w => task'[v].seen[d] = Absent
  BY RestingType DEF Record, WebhookIInv, WebhookTypeOK, Resting
<1>6. WebhookTypeOK'
  <2>1. Absent \in WebhookRows
    BY DEF Absent, WebhookRows, Statuses
  <2>2. row' \in [Deliveries -> WebhookRows]
    BY <1>1, <1>2, <1>4 DEF WebhookIInv, WebhookTypeOK, WebhookRows
  <2>3. task' \in [Workers -> [todo : SUBSET Deliveries, locks : SUBSET Deliveries,
                               seen : [Deliveries -> WebhookRows], sent : SUBSET Deliveries,
                               success : BOOLEAN]]
    BY ZenonT(60), <2>1, RestingType DEF Record, WebhookIInv, WebhookTypeOK
  <2> QED BY <1>1, <2>2, <2>3 DEF WebhookIInv, WebhookTypeOK
<1>7. CountedWasPosted'
  BY <1>1, <1>2 DEF WebhookIInv, WebhookTypeOK, CountedWasPosted
<1>8. ReadWasPosted'
  <2> SUFFICES ASSUME NEW v \in Workers, NEW x \in Deliveries
               PROVE  /\ x \in task'[v].todo => task'[v].seen[x].attempts <= posts[x]
                      /\ x \in task'[v].sent => /\ task'[v].seen[x].attempts < posts[x]
                                                /\ task'[v].success => x \in accepted
    BY <1>1 DEF ReadWasPosted
  <2>1. CASE v # w
    BY <2>1, <1>5 DEF WebhookIInv, ReadWasPosted
  <2>2. CASE v = w /\ x # d
    BY <2>2, <1>5 DEF WebhookIInv, ReadWasPosted
  <2>3. CASE v = w /\ x = d
    <3>1. task'[v].seen[x].attempts = 0 /\ task'[v].sent = {}
      BY <2>3, <1>5 DEF Absent
    <3> QED BY <2>3, <3>1, <1>2
  <2> QED BY <2>1, <2>2, <2>3
<1>9. SettledIsEarned'
  BY <1>1, <1>4 DEF WebhookIInv, WebhookTypeOK, SettledIsEarned, DeliveredWasAccepted,
                    GivenUpAfterAllAttempts
<1> QED BY <1>6, <1>7, <1>8, <1>9 DEF WebhookIInv

\* Every step keeps the invariant.
LEMMA WebhookStepKeeps == WebhookIInv /\ [WebhookNext]_webhookVars => WebhookIInv'
<1> SUFFICES ASSUME WebhookIInv, [WebhookNext]_webhookVars PROVE WebhookIInv'
  OBVIOUS
<1>1. CASE UNCHANGED webhookVars
  BY <1>1 DEF WebhookIInv, webhookVars, WebhookTypeOK, CountedWasPosted, ReadWasPosted,
              SettledIsEarned, DeliveredWasAccepted, GivenUpAfterAllAttempts
<1>2. CASE \E d \in Deliveries : EnqueueEvent(d) \/ BecomeDue(d) \/ ReplayDeadLetter(d)
  BY <1>2, RowStep
<1>3. CASE \E w \in Workers : Claim(w) \/ Crash(w)
  BY <1>3, ClaimStep
<1>4. CASE \E w \in Workers, d \in Deliveries, taken \in BOOLEAN, success \in BOOLEAN :
             Post(w, d, taken, success)
  BY <1>4, PostStep
<1>5. CASE \E w \in Workers, d \in Deliveries : Record(w, d)
  BY <1>5, RecordStep
<1> QED BY <1>1, <1>2, <1>3, <1>4, <1>5 DEF WebhookNext, Work

-----------------------------------------------------------------------------
\* The strengthened invariant holds in every state of the queue.
THEOREM WebhookInductive == WebhookSpec => []WebhookIInv
BY WebhookInitHolds, WebhookStepKeeps, PTL DEF WebhookSpec

\* Every variable keeps to its type.
THEOREM WebhooksTypeCorrect == WebhookSpec => []WebhookTypeOK
<1>1. WebhookIInv => WebhookTypeOK
  BY DEF WebhookIInv
<1> QED BY <1>1, WebhookInductive, PTL

\* A delivery shown as delivered was taken by the endpoint, and one given up
\* was attempted as often as it may be, whatever tasks overlap, answers are
\* lost, workers die and administrators replay (mark_delivered,
\* mark_failed_attempt).
THEOREM SettlementsEarned == WebhookSpec => []SettledIsEarned
<1>1. WebhookIInv => SettledIsEarned
  BY DEF WebhookIInv
<1> QED BY <1>1, WebhookInductive, PTL

-----------------------------------------------------------------------------
(* Tasks. *)

ExecutorRows == UNION {[us -> ExecutorRow] : us \in SUBSET TaskMembers}
SeenTasks == UNION {[ns -> [rows : ExecutorRows, status : TaskStatus]] : ns \in SUBSET TaskNumbers}
RowRefs == [no : TaskNumbers, user : TaskMembers, id : 1..MaxExecutorRows]

\* The kinds of a session's record.
TaskJobRecords ==
  {NoJob}
  \cup [op : {"create"}, no : TaskNumbers, assigned : SUBSET TaskMembers, day : DueDays]
  \cup [op : {"update"}, no : TaskNumbers, assigned : SUBSET TaskMembers, day : DueDays,
        seen : SeenTasks]
  \cup [op : {"complete"}, no : TaskNumbers, user : TaskMembers, seen : SeenTasks]
  \cup [op : {"scan"}, pc : {"late", "mark", "notify"}, users : SUBSET TaskMembers,
        due : SUBSET RowRefs, late : SUBSET RowRefs, escalate : SUBSET RowRefs, seen : SeenTasks]

Holding(j) == j.op \in {"update", "complete", "scan"}

\* Numbers of executor rows do not exceed the last one given.
TasksTyped ==
  /\ DOMAIN executors \subseteq TaskNumbers
  /\ executors \in [DOMAIN executors -> ExecutorRows]
  /\ taskStatus \in [DOMAIN executors -> TaskStatus]
  /\ \A n \in DOMAIN executors : \A u \in DOMAIN executors[n] : executors[n][u].id <= lastRow
  /\ lastRow \in 0..MaxExecutorRows /\ today \in 0..LastDay
  /\ escalated \subseteq 1..lastRow
  /\ taskRaced \subseteq TaskNumbers /\ taskCrashes \in 0..MaxTaskCrashes
  /\ taskJob \in [TaskJobs -> TaskJobRecords]

\* A session has loaded what it is going to write; until it has written, what
\* it holds of a task no two sessions have worked on is what is stored.
JobReads(j) ==
  /\ j.op \in {"update", "complete"} => DOMAIN j.seen = {j.no}
  /\ j.op = "complete" => j.user \in DOMAIN j.seen[j.no].rows
  /\ j.op = "scan" => /\ \A r \in j.late : r.no \in DOMAIN j.seen
                      /\ \A r \in j.escalate : r.id <= lastRow
  /\ Holding(j) => DOMAIN j.seen \subseteq DOMAIN executors
  /\ Holding(j) /\ (j.op = "scan" => j.pc # "notify") =>
       \A n \in DOMAIN j.seen \ taskRaced : j.seen[n] = Read(n)

TasksIInv ==
  /\ TasksTyped
  /\ \A s \in TaskJobs : JobReads(taskJob[s])
  /\ AggregateUnlessRaced

\* The aggregate depends on who executes a task and in which status.
LEMMA AggregateByStatus ==
  ASSUME NEW rows, NEW others, DOMAIN rows = DOMAIN others,
         \A u \in DOMAIN rows : rows[u].status = others[u].status
  PROVE  /\ aggregate_task_status(rows) = aggregate_task_status(others)
         /\ aggregate_task_status(rows) \in TaskStatus
<1> DEFINE done(x) == DOMAIN x # {} /\ \A u \in DOMAIN x : x[u].status = "completed"
           has(x, st) == \E u \in DOMAIN x : x[u].status = st
<1>1. /\ done(rows) <=> done(others)
      /\ \A st : has(rows, st) <=> has(others, st)
  OBVIOUS
<1>2. \A x : aggregate_task_status(x) =
               CASE done(x) -> "completed"
                 [] has(x, "overdue") -> "overdue"
                 [] has(x, "in_progress") -> "in_progress"
                 [] OTHER -> "not_started"
  BY DEF aggregate_task_status
<1> HIDE DEF done, has
<1>3. \A x : aggregate_task_status(x) \in TaskStatus
  BY <1>2 DEF TaskStatus
<1>4. CASE ~ done(rows) /\ ~ has(rows, "overdue") /\ ~ has(rows, "in_progress")
  BY <1>1, <1>2, <1>3, <1>4
<1> QED BY <1>1, <1>2, <1>3, <1>4

\* New rows are numbered on from the last.
LEMMA NewRowsType ==
  ASSUME NEW us \in SUBSET TaskMembers, NEW day \in DueDays, lastRow \in Nat, RowsLeft(us)
  PROVE  /\ lastRow + Cardinality(us) \in Nat /\ lastRow <= lastRow + Cardinality(us)
         /\ lastRow + Cardinality(us) <= MaxExecutorRows
         /\ NewRows(us, day) \in [us -> ExecutorRow]
         /\ \A u \in us : NewRows(us, day)[u].id <= lastRow + Cardinality(us)
<1>1. IsFiniteSet(us) /\ Cardinality(us) \in Nat
  BY TasksAssumption, FS_Subset, FS_CardinalityType
<1> DEFINE numbers == 1..Cardinality(us)
           order == CHOOSE f \in [us -> numbers] : \A u, v \in us : u # v => f[u] # f[v]
<1>2. \E f \in [us -> numbers] : \A u, v \in us : u # v => f[u] # f[v]
  <2>1. PICK g \in Bijection(numbers, us) : TRUE
    <3>1. ExistsBijection(1..Cardinality(us), us)
      BY <1>1, FS_CardinalityType
    <3> QED BY <3>1 DEF ExistsBijection
  <2>2. /\ g \in [numbers -> us] /\ \A u \in us : \E k \in numbers : g[k] = u
    BY <2>1 DEF Bijection, Surjection
  <2> DEFINE f == [u \in us |-> CHOOSE k \in numbers : g[k] = u]
  <2>3. \A u \in us : f[u] \in numbers /\ g[f[u]] = u
    BY <2>2
  <2> HIDE DEF numbers
  <2>4. f \in [us -> numbers]
    BY <2>3
  <2>5. \A u, v \in us : u # v => f[u] # f[v]
    BY <2>3
  <2> HIDE DEF f
  <2> QED BY <2>4, <2>5
<1>3. order \in [us -> numbers]
  <2> HIDE DEF numbers
  <2> QED BY <1>2
<1>4. NewRows(us, day) = [u \in us |-> [status |-> "in_progress", due |-> day, id |-> lastRow + order[u]]]
  BY DEF NewRows
<1> HIDE DEF order
<1>5. lastRow + Cardinality(us) <= MaxExecutorRows /\ MaxExecutorRows \in Nat
  BY TasksAssumption DEF RowsLeft
<1>6. ASSUME NEW u \in us
      PROVE  lastRow + order[u] \in 1..MaxExecutorRows /\ lastRow + order[u] <= lastRow + Cardinality(us)
  <2>1. order[u] \in numbers
    BY <1>3
  <2> QED BY <1>1, <1>5, <2>1
<1>7. NewRows(us, day) \in [us -> ExecutorRow]
  BY <1>4, <1>6 DEF ExecutorRow, TaskStatus
<1>8. \A u \in us : NewRows(us, day)[u].id <= lastRow + Cardinality(us)
  BY <1>4, <1>6
<1> QED BY <1>1, <1>5, <1>7, <1>8

LEMMA TaskInitHolds == TaskInit => TasksIInv
<1> SUFFICES ASSUME TaskInit PROVE TasksIInv
  OBVIOUS
<1>1. DOMAIN executors = {} /\ DOMAIN taskStatus = {}
  BY DEF TaskInit
<1>2. executors \in [DOMAIN executors -> ExecutorRows] /\ taskStatus \in [DOMAIN executors -> TaskStatus]
  <2>1. executors = [n \in {} |-> executors[n]] /\ taskStatus = [n \in {} |-> taskStatus[n]]
    BY DEF TaskInit
  <2> QED BY <1>1, <2>1
<1>3. NoJob \in TaskJobRecords /\ NoJob.op = "idle"
  BY DEF TaskJobRecords, NoJob
<1>4. taskJob \in [TaskJobs -> TaskJobRecords]
  BY <1>3 DEF TaskInit
<1>5. TasksTyped
  BY <1>1, <1>2, <1>4, TasksAssumption DEF TaskInit, TasksTyped
<1>6. \A s \in TaskJobs : JobReads(taskJob[s])
  BY <1>3 DEF TaskInit, JobReads, Holding
<1>7. AggregateUnlessRaced
  BY <1>1 DEF AggregateUnlessRaced
<1> QED BY <1>5, <1>6, <1>7 DEF TasksIInv

\* A step that writes the tasks in W, which others may not hold unnoticed.
LEMMA TaskWriteStep ==
  ASSUME TasksIInv, NEW s \in TaskJobs, NEW new \in TaskJobRecords,
         taskJob' = [taskJob EXCEPT ![s] = new],
         NEW W, W \cap HeldByOthers(s) \subseteq taskRaced',
         taskRaced \subseteq taskRaced', taskRaced' \subseteq TaskNumbers,
         DOMAIN executors \subseteq DOMAIN executors', DOMAIN executors' \subseteq TaskNumbers,
         executors' \in [DOMAIN executors' -> ExecutorRows],
         taskStatus' \in [DOMAIN executors' -> TaskStatus],
         \A n \in DOMAIN executors \ W :
           executors'[n] = executors[n] /\ taskStatus'[n] = taskStatus[n],
         \A n \in (DOMAIN executors' \ DOMAIN executors) \cup (DOMAIN executors \cap W) :
           n \notin taskRaced' => taskStatus'[n] = aggregate_task_status(executors'[n]),
         lastRow' \in 0..MaxExecutorRows, lastRow <= lastRow',
         \A n \in DOMAIN executors' : \A u \in DOMAIN executors'[n] : executors'[n][u].id <= lastRow',
         escalated' \subseteq 1..lastRow', today' \in 0..LastDay, taskCrashes' \in 0..MaxTaskCrashes,
         new.op \in {"update", "complete"} => DOMAIN new.seen = {new.no},
         new.op = "complete" => new.user \in DOMAIN new.seen[new.no].rows,
         new.op = "scan" => /\ \A r \in new.late : r.no \in DOMAIN new.seen
                            /\ \A r \in new.escalate : r.id <= lastRow',
         Holding(new) => DOMAIN new.seen \subseteq DOMAIN executors',
         Holding(new) /\ (new.op = "scan" => new.pc # "notify") =>
           /\ UNCHANGED << executors, taskStatus, taskRaced >>
           /\ \A n \in DOMAIN new.seen \ taskRaced : new.seen[n] = Read(n)
  PROVE  TasksIInv'
<1>1. taskJob'[s] = new /\ \A t \in TaskJobs \ {s} : taskJob'[t] = taskJob[t]
  BY DEF TasksIInv, TasksTyped
<1>2. taskJob' \in [TaskJobs -> TaskJobRecords]
  BY DEF TasksIInv, TasksTyped
<1>3. TasksTyped'
  BY <1>2 DEF TasksTyped
<1>4. JobReads(taskJob[s])'
  BY <1>1 DEF JobReads, Holding, Read
<1>5. ASSUME NEW t \in TaskJobs, t # s PROVE JobReads(taskJob[t])'
  <2> DEFINE j == taskJob[t]
  <2>1. JobReads(j) /\ taskJob'[t] = j
    BY <1>1, <1>5 DEF TasksIInv
  <2>2. j \in TaskJobRecords
    BY DEF TasksIInv, TasksTyped
  <2>3. j.op = "scan" => \A r \in j.escalate : r.id <= lastRow'
    <3>1. ASSUME j.op = "scan", NEW r \in j.escalate PROVE r.id <= lastRow'
      <4>1. r \in RowRefs
        BY <2>2, <3>1 DEF TaskJobRecords, NoJob
      <4>2. r.id \in Nat /\ r.id <= lastRow /\ lastRow \in Nat /\ lastRow' \in Nat
        BY <2>1, <3>1, <4>1 DEF JobReads, RowRefs, TasksIInv, TasksTyped
      <4> QED BY <4>2
    <3> QED BY <3>1
  <2>4. ASSUME Holding(j), j.op = "scan" => j.pc # "notify", NEW n \in DOMAIN j.seen \ taskRaced'
        PROVE  j.seen[n] = [rows |-> executors'[n], status |-> taskStatus'[n]]
    <3>1. n \in DOMAIN executors /\ n \in TaskNumbers
      BY <2>1, <2>4 DEF JobReads, TasksIInv, TasksTyped
    <3>2. n \in HeldByOthers(s)
      BY <1>5, <2>4, <3>1 DEF HeldByOthers, Holding
    <3>3. executors'[n] = executors[n] /\ taskStatus'[n] = taskStatus[n]
      BY <2>4, <3>1, <3>2
    <3>4. j.seen[n] = Read(n)
      BY <2>1, <2>4 DEF JobReads
    <3> QED BY <3>3, <3>4 DEF Read
  <2> HIDE DEF j
  <2>5. /\ j.op \in {"update", "complete"} => DOMAIN j.seen = {j.no}
        /\ j.op = "complete" => j.user \in DOMAIN j.seen[j.no].rows
        /\ j.op = "scan" => \A r \in j.late : r.no \in DOMAIN j.seen
        /\ Holding(j) => DOMAIN j.seen \subseteq DOMAIN executors'
    BY <2>1 DEF JobReads
  <2> QED BY <2>1, <2>3, <2>4, <2>5 DEF JobReads, Holding, Read
<1>6. AggregateUnlessRaced'
  <2>1. ASSUME NEW n \in DOMAIN taskStatus' \ taskRaced'
        PROVE  taskStatus'[n] = aggregate_task_status(executors'[n])
    <3>1. n \in DOMAIN executors'
      OBVIOUS
    <3>2. CASE n \in DOMAIN executors \ W
      <4>1. n \in DOMAIN taskStatus \ taskRaced
        BY <3>2 DEF TasksIInv, TasksTyped
      <4>2. taskStatus[n] = aggregate_task_status(executors[n])
        BY <4>1 DEF TasksIInv, AggregateUnlessRaced
      <4> QED BY <3>2, <4>2
    <3>3. CASE n \notin DOMAIN executors \ W
      BY <2>1, <3>1, <3>3
    <3> QED BY <3>2, <3>3
  <2> QED BY <2>1 DEF AggregateUnlessRaced
<1> QED BY <1>3, <1>4, <1>5, <1>6 DEF TasksIInv

\* A step that writes no task.
LEMMA TaskReadStep ==
  ASSUME TasksIInv, NEW s \in TaskJobs, NEW new \in TaskJobRecords,
         taskJob' = [taskJob EXCEPT ![s] = new],
         UNCHANGED << executors, taskStatus, taskRaced, lastRow, today >>,
         escalated' \subseteq 1..lastRow, taskCrashes' \in 0..MaxTaskCrashes,
         new.op \in {"update", "complete"} => DOMAIN new.seen = {new.no},
         new.op = "complete" => new.user \in DOMAIN new.seen[new.no].rows,
         new.op = "scan" => /\ \A r \in new.late : r.no \in DOMAIN new.seen
                            /\ \A r \in new.escalate : r.id <= lastRow,
         Holding(new) => DOMAIN new.seen \subseteq DOMAIN executors,
         Holding(new) /\ (new.op = "scan" => new.pc # "notify") =>
           \A n \in DOMAIN new.seen \ taskRaced : new.seen[n] = Read(n)
  PROVE  TasksIInv'
<1>1. lastRow \in 0..MaxExecutorRows /\ lastRow <= lastRow /\ today \in 0..LastDay
  BY TasksAssumption DEF TasksIInv, TasksTyped
<1>2. /\ DOMAIN executors \subseteq TaskNumbers /\ taskRaced \subseteq TaskNumbers
      /\ executors \in [DOMAIN executors -> ExecutorRows]
      /\ taskStatus \in [DOMAIN executors -> TaskStatus]
      /\ \A n \in DOMAIN executors : \A u \in DOMAIN executors[n] : executors[n][u].id <= lastRow
  BY DEF TasksIInv, TasksTyped
<1> DEFINE W == {}
<1>3. W = {}
  OBVIOUS
<1> HIDE DEF W
<1> QED BY <1>1, <1>2, <1>3, TaskWriteStep

\* What a session reads of a task, and of the executors of the members us.
LEMMA ReadType ==
  ASSUME TasksIInv, NEW n \in DOMAIN executors
  PROVE  /\ Read(n) \in [rows : ExecutorRows, status : TaskStatus]
         /\ n \in TaskNumbers /\ n \in DOMAIN taskStatus
         /\ executors[n] \in ExecutorRows
         /\ Read(n).rows = executors[n] /\ Read(n).status = taskStatus[n]
BY DEF Read, TasksIInv, TasksTyped

LEMMA RowsType ==
  ASSUME NEW rows \in ExecutorRows
  PROVE  /\ DOMAIN rows \subseteq TaskMembers
         /\ rows \in [DOMAIN rows -> ExecutorRow]
         /\ \A u \in DOMAIN rows : rows[u] \in ExecutorRow
BY DEF ExecutorRows

LEMMA ListedRows ==
  ASSUME TasksIInv, NEW us \in SUBSET TaskMembers,
         NEW r, r \in list_due_today_executors(us) \/ r \in list_overdue_executors(us)
  PROVE  /\ r \in RowRefs /\ r.no \in DOMAIN executors
         /\ r.user \in DOMAIN executors[r.no] /\ r.id = executors[r.no][r.user].id
         /\ r.id <= lastRow
<1>1. PICK n \in DOMAIN executors, u \in us :
        /\ u \in DOMAIN executors[n]
        /\ r = [no |-> n, user |-> u, id |-> executors[n][u].id]
  <2> DEFINE active(days) ==
               {x \in (DOMAIN executors) \X us :
                  /\ x[2] \in DOMAIN executors[x[1]]
                  /\ executors[x[1]][x[2]].status \in ACTIVE_DEADLINE_STATUSES
                  /\ executors[x[1]][x[2]].due \in days}
             ref(x) == [no |-> x[1], user |-> x[2], id |-> executors[x[1]][x[2]].id]
             day == {d \in 0..LastDay : d = today}
             past == {d \in 0..LastDay : d < today}
  <2>1. \A x \in (DOMAIN executors) \X us :
          x[2] \in DOMAIN executors[x[1]] => executors[x[1]][x[2]].due \in 0..LastDay
    BY ReadType, RowsType, TasksAssumption DEF ExecutorRow
  <2>2. list_due_today_executors(us) = {ref(x) : x \in active(day)}
    BY <2>1 DEF list_due_today_executors, ActiveRows
  <2>3. list_overdue_executors(us) = {ref(x) : x \in active(past)}
    BY <2>1 DEF list_overdue_executors, ActiveRows
  <2> HIDE DEF day, past, active, ref
  <2>4. r \in {ref(x) : x \in active(day)} \/ r \in {ref(x) : x \in active(past)}
    BY <2>2, <2>3
  <2>5. PICK x \in active(day) \cup active(past) : r = ref(x)
    BY <2>4
  <2> USE DEF active, ref
  <2> QED BY <2>5
<1>2. executors[n][u] \in ExecutorRow /\ executors[n][u].id <= lastRow /\ n \in TaskNumbers
  BY <1>1, ReadType, RowsType DEF TasksIInv, TasksTyped
<1> QED BY <1>1, <1>2 DEF RowRefs, ExecutorRow

\* Loading keeps what is held and reads the rest.
LEMMA LoadType ==
  ASSUME TasksIInv, NEW seen \in SeenTasks, NEW refs \in SUBSET RowRefs,
         \A r \in refs : r.no \in DOMAIN executors,
         DOMAIN seen \subseteq DOMAIN executors
  PROVE  /\ Load(seen, refs) \in SeenTasks
         /\ DOMAIN Load(seen, refs) \subseteq DOMAIN executors
         /\ \A r \in refs : r.no \in DOMAIN Load(seen, refs)
         /\ \A n \in DOMAIN Load(seen, refs) :
              Load(seen, refs)[n] = IF n \in DOMAIN seen THEN seen[n] ELSE Read(n)
<1> DEFINE ns == DOMAIN seen \cup {r.no : r \in refs}
<1>1. Load(seen, refs) = [n \in ns |-> IF n \in DOMAIN seen THEN seen[n] ELSE Read(n)]
  BY DEF Load
<1>2. ns \subseteq DOMAIN executors /\ \A r \in refs : r.no \in ns
  OBVIOUS
<1>3. ns \in SUBSET TaskNumbers
  BY <1>2, ReadType
<1>4. \A n \in DOMAIN seen : seen[n] \in [rows : ExecutorRows, status : TaskStatus]
  BY DEF SeenTasks
<1>5. \A n \in ns : (IF n \in DOMAIN seen THEN seen[n] ELSE Read(n)) \in [rows : ExecutorRows, status : TaskStatus]
  BY <1>2, <1>4, ReadType
<1> HIDE DEF ns
<1>6. Load(seen, refs) \in [ns -> [rows : ExecutorRows, status : TaskStatus]]
  BY <1>1, <1>5
<1>7. Load(seen, refs) \in SeenTasks
  BY <1>3, <1>6 DEF SeenTasks
<1> QED BY <1>1, <1>2, <1>7

\* The beginning of a creation, a reassignment and a completion.
LEMMA TaskReads ==
  ASSUME TasksIInv, NEW s \in TaskJobs,
         \/ \E assigned \in SUBSET TaskMembers, day \in DueDays :
              \/ CreateTaskRead(s, assigned, day)
              \/ \E n \in TaskNumbers : UpdateTaskRead(s, n, assigned, day)
         \/ \E n \in TaskNumbers, u \in TaskMembers : CompleteTaskRead(s, n, u)
  PROVE  TasksIInv'
<1>1. escalated \subseteq 1..lastRow /\ taskCrashes \in 0..MaxTaskCrashes
  BY DEF TasksIInv, TasksTyped
<1>2. ASSUME NEW n \in DOMAIN executors
      PROVE  /\ [m \in {n} |-> Read(m)] \in SeenTasks
             /\ DOMAIN [m \in {n} |-> Read(m)] = {n} /\ [m \in {n} |-> Read(m)][n] = Read(n)
             /\ [m \in {n} |-> Read(m)][n].rows = executors[n]
             /\ n \in TaskNumbers
  <2>1. n \in TaskNumbers /\ Read(n) \in [rows : ExecutorRows, status : TaskStatus]
        /\ Read(n).rows = executors[n]
    BY <1>2, ReadType
  <2>2. [m \in {n} |-> Read(m)] \in [{n} -> [rows : ExecutorRows, status : TaskStatus]]
    BY <2>1
  <2>3. {n} \in SUBSET TaskNumbers
    BY <2>1
  <2>4. [m \in {n} |-> Read(m)] \in SeenTasks
    BY <2>2, <2>3 DEF SeenTasks
  <2> QED BY <2>1, <2>4
<1>3. DOMAIN taskStatus = DOMAIN executors
  BY DEF TasksIInv, TasksTyped
<1>4. ASSUME NEW assigned \in SUBSET TaskMembers, NEW day \in DueDays, CreateTaskRead(s, assigned, day)
      PROVE  TasksIInv'
  <2> DEFINE new == [op |-> "create", no |-> next_sequence(DOMAIN taskStatus),
                     assigned |-> assigned, day |-> day]
  <2>1. taskJob' = [taskJob EXCEPT ![s] = new]
        /\ UNCHANGED << executors, taskStatus, taskRaced, lastRow, today, escalated, taskCrashes >>
    BY <1>4 DEF CreateTaskRead
  <2>2. next_sequence(DOMAIN taskStatus) \in TaskNumbers
    BY <1>4 DEF CreateTaskRead
  <2>3. new \in TaskJobRecords /\ new.op = "create"
    BY <2>2 DEF TaskJobRecords
  <2> HIDE DEF new
  <2> QED BY <1>1, <2>1, <2>3, TaskReadStep DEF Holding
<1>5. ASSUME NEW assigned \in SUBSET TaskMembers, NEW day \in DueDays, NEW n \in TaskNumbers,
             UpdateTaskRead(s, n, assigned, day)
      PROVE  TasksIInv'
  <2> DEFINE seen == [m \in {n} |-> Read(m)]
             new == [op |-> "update", no |-> n, assigned |-> assigned, day |-> day, seen |-> seen]
  <2>1. taskJob' = [taskJob EXCEPT ![s] = new] /\ n \in DOMAIN executors
        /\ UNCHANGED << executors, taskStatus, taskRaced, lastRow, today, escalated, taskCrashes >>
    BY <1>3, <1>5 DEF UpdateTaskRead
  <2>2. seen \in SeenTasks /\ DOMAIN seen = {n} /\ seen[n] = Read(n)
    BY <1>2, <2>1
  <2> HIDE DEF seen
  <2>3. new \in TaskJobRecords /\ new.op = "update" /\ new.no = n /\ new.seen = seen
    BY <2>2 DEF TaskJobRecords
  <2> HIDE DEF new
  <2> QED BY <1>1, <2>1, <2>2, <2>3, TaskReadStep DEF Holding
<1>6. ASSUME NEW n \in TaskNumbers, NEW u \in TaskMembers, CompleteTaskRead(s, n, u)
      PROVE  TasksIInv'
  <2> DEFINE seen == [m \in {n} |-> Read(m)]
             new == [op |-> "complete", no |-> n, user |-> u, seen |-> seen]
  <2>1. /\ taskJob' = [taskJob EXCEPT ![s] = new] /\ n \in DOMAIN executors
        /\ u \in DOMAIN executors[n]
        /\ UNCHANGED << executors, taskStatus, taskRaced, lastRow, today, escalated, taskCrashes >>
    BY <1>3, <1>6 DEF CompleteTaskRead
  <2>2. seen \in SeenTasks /\ DOMAIN seen = {n} /\ seen[n] = Read(n) /\ seen[n].rows = executors[n]
    BY <1>2, <2>1
  <2> HIDE DEF seen
  <2>3. new \in TaskJobRecords /\ new.op = "complete" /\ new.no = n /\ new.seen = seen /\ new.user = u
    BY <2>2 DEF TaskJobRecords
  <2> HIDE DEF new
  <2> QED BY <1>1, <2>1, <2>2, <2>3, TaskReadStep DEF Holding
<1> QED BY <1>4, <1>5, <1>6

\* The two queries of a scan, its notifications, and a session that dies.
LEMMA ScanReads ==
  ASSUME TasksIInv, NEW s \in TaskJobs,
         \/ \E us \in SUBSET TaskMembers : ScanDueToday(s, us)
         \/ ScanOverdue(s) \/ ScanNotify(s) \/ TaskJobDies(s)
  PROVE  TasksIInv'
<1>1. /\ escalated \subseteq 1..lastRow /\ taskCrashes \in 0..MaxTaskCrashes /\ lastRow \in Nat
      /\ JobReads(taskJob[s]) /\ taskJob[s] \in TaskJobRecords
  BY DEF TasksIInv, TasksTyped
<1>2. NoJob \in TaskJobRecords /\ NoJob.op = "idle"
  BY DEF TaskJobRecords, NoJob
<1>3. CASE TaskJobDies(s)
  <2>1. taskJob' = [taskJob EXCEPT ![s] = NoJob] /\ taskCrashes' \in 0..MaxTaskCrashes
        /\ UNCHANGED << executors, taskStatus, taskRaced, lastRow, today, escalated >>
    BY <1>1, <1>3, TasksAssumption DEF TaskJobDies
  <2> QED BY <1>1, <1>2, <2>1, TaskReadStep DEF Holding
<1>4. CASE ScanNotify(s)
  <2>1. /\ taskJob' = [taskJob EXCEPT ![s] = NoJob] /\ taskJob[s].op = "scan"
        /\ escalated' = escalated \cup {r.id : r \in taskJob[s].escalate}
        /\ UNCHANGED << executors, taskStatus, taskRaced, lastRow, today, taskCrashes >>
    BY <1>4 DEF ScanNotify
  <2>2. \A r \in taskJob[s].escalate : r.id \in 1..lastRow
    <3>1. taskJob[s].escalate \subseteq RowRefs /\ \A r \in taskJob[s].escalate : r.id <= lastRow
      BY <1>1, <2>1 DEF TaskJobRecords, NoJob, JobReads
    <3> QED BY <1>1, <3>1 DEF RowRefs
  <2>3. escalated' \subseteq 1..lastRow
    BY <1>1, <2>1, <2>2
  <2> QED BY <1>1, <1>2, <2>1, <2>3, TaskReadStep DEF Holding
<1>5. ASSUME NEW us \in SUBSET TaskMembers, ScanDueToday(s, us) PROVE TasksIInv'
  <2> DEFINE due == list_due_today_executors(us)
             held == Load(<< >>, due)
             new == [op |-> "scan", pc |-> "late", users |-> us, due |-> due, late |-> {},
                     escalate |-> {}, seen |-> held]
  <2>1. taskJob' = [taskJob EXCEPT ![s] = new]
        /\ UNCHANGED << executors, taskStatus, taskRaced, lastRow, today, escalated, taskCrashes >>
    BY <1>5 DEF ScanDueToday
  <2>2. \A r \in due : r \in RowRefs /\ r.no \in DOMAIN executors
    BY ListedRows
  <2>3. << >> \in SeenTasks /\ DOMAIN << >> = {}
    <3>1. << >> \in [{} -> [rows : ExecutorRows, status : TaskStatus]]
      OBVIOUS
    <3> QED BY <3>1 DEF SeenTasks
  <2> HIDE DEF due
  <2>4. /\ held \in SeenTasks /\ DOMAIN held \subseteq DOMAIN executors
        /\ \A n \in DOMAIN held : held[n] = Read(n)
    BY <2>2, <2>3, LoadType
  <2> HIDE DEF held
  <2>5. new \in TaskJobRecords
    BY <2>2, <2>4 DEF TaskJobRecords
  <2>6. new.op = "scan" /\ new.pc = "late" /\ new.late = {} /\ new.escalate = {} /\ new.seen = held
    OBVIOUS
  <2> HIDE DEF new
  <2> QED BY <1>1, <2>1, <2>4, <2>5, <2>6, TaskReadStep
<1>6. CASE ScanOverdue(s)
  <2> DEFINE j == taskJob[s]
             late == list_overdue_executors(j.users)
             held == Load(j.seen, late)
             up == {r \in late : today - DueOf(held, r) >= EscalationDays}
             new == [j EXCEPT !.pc = "mark", !.late = late, !.seen = held, !.escalate = up]
  <2>1. taskJob' = [taskJob EXCEPT ![s] = new] /\ j.op = "scan" /\ j.pc = "late"
        /\ UNCHANGED << executors, taskStatus, taskRaced, lastRow, today, escalated, taskCrashes >>
    BY <1>6 DEF ScanOverdue
  <2>2. j \in [op : {"scan"}, pc : {"late", "mark", "notify"}, users : SUBSET TaskMembers,
               due : SUBSET RowRefs, late : SUBSET RowRefs, escalate : SUBSET RowRefs, seen : SeenTasks]
    BY <1>1, <2>1 DEF TaskJobRecords, NoJob
  <2>3. \A r \in late : r \in RowRefs /\ r.no \in DOMAIN executors /\ r.id <= lastRow
    BY <2>2, ListedRows
  <2>4. /\ j.seen \in SeenTasks /\ DOMAIN j.seen \subseteq DOMAIN executors
        /\ \A n \in DOMAIN j.seen \ taskRaced : j.seen[n] = Read(n)
    BY <1>1, <2>1, <2>2 DEF JobReads, Holding
  <2> HIDE DEF late, j
  <2>5. /\ held \in SeenTasks /\ DOMAIN held \subseteq DOMAIN executors
        /\ \A r \in late : r.no \in DOMAIN held
        /\ \A n \in DOMAIN held : held[n] = IF n \in DOMAIN j.seen THEN j.seen[n] ELSE Read(n)
    BY <2>3, <2>4, LoadType
  <2> HIDE DEF held
  <2>6. up \subseteq late
    OBVIOUS
  <2> HIDE DEF up
  <2>7. new \in TaskJobRecords /\ new.op = "scan" /\ new.late = late /\ new.seen = held /\ new.escalate = up
    BY <2>2, <2>3, <2>5, <2>6 DEF TaskJobRecords
  <2>8. \A n \in DOMAIN held \ taskRaced : held[n] = Read(n)
    BY <2>4, <2>5
  <2> HIDE DEF new
  <2> QED BY <1>1, <2>1, <2>3, <2>5, <2>6, <2>7, <2>8, TaskReadStep
<1> QED BY <1>3, <1>4, <1>5, <1>6

\* What every commit relies on.
LEMMA TaskFacts ==
  ASSUME TasksIInv
  PROVE  /\ DOMAIN executors \subseteq TaskNumbers /\ DOMAIN taskStatus = DOMAIN executors
         /\ executors \in [DOMAIN executors -> ExecutorRows]
         /\ taskStatus \in [DOMAIN executors -> TaskStatus]
         /\ \A n \in DOMAIN executors : \A u \in DOMAIN executors[n] : executors[n][u].id <= lastRow
         /\ lastRow \in 0..MaxExecutorRows /\ lastRow \in Nat /\ lastRow <= lastRow
         /\ escalated \subseteq 1..lastRow /\ taskRaced \subseteq TaskNumbers
         /\ today \in 0..LastDay /\ taskCrashes \in 0..MaxTaskCrashes
         /\ NoJob \in TaskJobRecords /\ NoJob.op = "idle" /\ ~ Holding(NoJob)
BY TasksAssumption DEF TasksIInv, TasksTyped, TaskJobRecords, NoJob, Holding

\* The task and its first executors are inserted, or nothing is.
LEMMA CreateTaskCommitStep ==
  ASSUME TasksIInv, NEW s \in TaskJobs, CreateTaskCommit(s)
  PROVE  TasksIInv'
<1> DEFINE j == taskJob[s]
           rows == NewRows(j.assigned, j.day)
<1>1. /\ j.no \in TaskNumbers /\ j.assigned \in SUBSET TaskMembers /\ j.day \in DueDays
      /\ taskJob' = [taskJob EXCEPT ![s] = NoJob]
      /\ UNCHANGED << today, escalated, taskRaced, taskCrashes >>
  BY DEF CreateTaskCommit, TasksIInv, TasksTyped, TaskJobRecords, NoJob
<1>2. CASE UNCHANGED << executors, taskStatus, lastRow >>
  BY <1>1, <1>2, TaskFacts, TaskReadStep
<1>3. CASE /\ j.no \notin DOMAIN taskStatus /\ RowsLeft(j.assigned)
           /\ executors' = [n \in DOMAIN executors \cup {j.no} |->
                               IF n = j.no THEN rows ELSE executors[n]]
           /\ taskStatus' = [n \in DOMAIN taskStatus \cup {j.no} |->
                               IF n = j.no THEN aggregate_task_status(rows) ELSE taskStatus[n]]
           /\ lastRow' = lastRow + Cardinality(j.assigned)
  <2>1. /\ lastRow <= lastRow' /\ lastRow' \in Nat /\ lastRow' <= MaxExecutorRows
        /\ rows \in [j.assigned -> ExecutorRow] /\ \A u \in j.assigned : rows[u].id <= lastRow'
    BY <1>1, <1>3, TaskFacts, NewRowsType
  <2>2. rows \in ExecutorRows /\ DOMAIN rows = j.assigned
    BY <1>1, <2>1 DEF ExecutorRows
  <2>3. aggregate_task_status(rows) \in TaskStatus
    BY AggregateByStatus
  <2> HIDE DEF rows, j
  <2>4. /\ DOMAIN executors' = DOMAIN executors \cup {j.no} /\ j.no \notin DOMAIN executors
        /\ executors' \in [DOMAIN executors' -> ExecutorRows]
        /\ taskStatus' \in [DOMAIN executors' -> TaskStatus]
        /\ \A n \in DOMAIN executors : executors'[n] = executors[n] /\ taskStatus'[n] = taskStatus[n]
        /\ executors'[j.no] = rows /\ taskStatus'[j.no] = aggregate_task_status(rows)
    BY <1>3, <2>2, <2>3, TaskFacts
  <2>5. \A n \in DOMAIN executors' : \A u \in DOMAIN executors'[n] : executors'[n][u].id <= lastRow'
    <3>1. ASSUME NEW n \in DOMAIN executors, NEW u \in DOMAIN executors[n]
          PROVE  executors[n][u].id <= lastRow'
      <4>1. executors[n][u].id \in Nat /\ executors[n][u].id <= lastRow /\ lastRow \in Nat
        BY TaskFacts, ReadType, RowsType DEF ExecutorRow
      <4> QED BY <2>1, <4>1
    <3> QED BY <2>1, <2>2, <2>4, <3>1
  <2>6. escalated' \subseteq 1..lastRow' /\ lastRow' \in 0..MaxExecutorRows
    BY <1>1, <2>1, TaskFacts
  <2> DEFINE W == {}
  <2>7. W = {}
    OBVIOUS
  <2> HIDE DEF W
  <2>8. DOMAIN executors' \subseteq TaskNumbers
    BY <1>1, <2>4, TaskFacts
  <2> QED BY <1>1, <2>1, <2>4, <2>5, <2>6, <2>7, <2>8, TaskFacts, TaskWriteStep
<1> QED BY <1>1, <1>2, <1>3 DEF CreateTaskCommit

\* A task is written to the aggregate of its executors, if it was held as it is.
LEMMA WrittenStatus ==
  ASSUME NEW n, NEW seen, NEW rows, NEW others,
         seen = taskStatus[n],
         DOMAIN rows = DOMAIN others, \A u \in DOMAIN rows : rows[u].status = others[u].status
  PROVE  StatusWritten(n, seen, aggregate_task_status(rows)) = aggregate_task_status(others)
BY AggregateByStatus DEF StatusWritten

\* A task and its executors are written; what the session held is stored, unless
\* others worked on the task too.
LEMMA OneTaskStep ==
  ASSUME TasksIInv, NEW s \in TaskJobs, taskJob' = [taskJob EXCEPT ![s] = NoJob],
         UNCHANGED << today, escalated, taskCrashes >>,
         NEW n \in DOMAIN executors, NEW rows \in ExecutorRows, NEW st \in TaskStatus,
         executors' = [executors EXCEPT ![n] = rows],
         taskStatus' = [taskStatus EXCEPT ![n] = st],
         taskRaced' = taskRaced \cup ({n} \cap HeldByOthers(s)),
         lastRow' \in Nat, lastRow <= lastRow', lastRow' <= MaxExecutorRows,
         \A u \in DOMAIN rows : rows[u].id <= lastRow',
         n \notin taskRaced => st = aggregate_task_status(rows)
  PROVE  TasksIInv'
<1>1. /\ DOMAIN executors' = DOMAIN executors
      /\ executors' \in [DOMAIN executors' -> ExecutorRows]
      /\ taskStatus' \in [DOMAIN executors' -> TaskStatus]
      /\ \A m \in DOMAIN executors \ {n} : executors'[m] = executors[m] /\ taskStatus'[m] = taskStatus[m]
      /\ executors'[n] = rows /\ taskStatus'[n] = st
  BY TaskFacts
<1>2. ASSUME NEW m \in DOMAIN executors', NEW u \in DOMAIN executors'[m]
      PROVE  executors'[m][u].id <= lastRow'
  <2>1. CASE m = n
    BY <1>1, <1>2, <2>1
  <2>2. CASE m # n
    <3>1. executors[m][u].id \in Nat /\ executors[m][u].id <= lastRow /\ lastRow \in Nat
      BY <1>1, <1>2, <2>2, TaskFacts, ReadType, RowsType DEF ExecutorRow
    <3> QED BY <1>1, <2>2, <3>1
  <2> QED BY <2>1, <2>2
<1>3. escalated' \subseteq 1..lastRow' /\ lastRow' \in 0..MaxExecutorRows
  BY TaskFacts
<1>4. {n} \cap HeldByOthers(s) \subseteq taskRaced' /\ taskRaced \subseteq taskRaced'
      /\ taskRaced' \subseteq TaskNumbers /\ DOMAIN executors' \subseteq TaskNumbers
  BY <1>1, TaskFacts
<1>5. \A m \in (DOMAIN executors' \ DOMAIN executors) \cup (DOMAIN executors \cap {n}) :
        m \notin taskRaced' => taskStatus'[m] = aggregate_task_status(executors'[m])
  BY <1>1, <1>4
<1> QED BY <1>1, <1>2, <1>3, <1>4, <1>5, TaskFacts, TaskWriteStep

\* An executor's own part is completed.
LEMMA CompleteTaskCommitStep ==
  ASSUME TasksIInv, NEW s \in TaskJobs, CompleteTaskCommit(s)
  PROVE  TasksIInv'
<1>1. /\ taskJob[s] \in TaskJobRecords /\ JobReads(taskJob[s]) /\ taskJob[s].op = "complete"
      /\ taskJob' = [taskJob EXCEPT ![s] = NoJob]
      /\ UNCHANGED << lastRow, today, escalated, taskCrashes >>
  BY DEF CompleteTaskCommit, TasksIInv, TasksTyped
<1> DEFINE n == taskJob[s].no
           user == taskJob[s].user
           old == taskJob[s].seen[n].rows
           seen == taskJob[s].seen[n].status
<1>3. \/ UNCHANGED << executors, taskStatus, taskRaced >>
      \/ /\ RowLives(n, user, old[user].id)
         /\ executors' = [executors EXCEPT ![n][user].status = "completed"]
         /\ taskStatus' = [taskStatus EXCEPT ![n] =
              StatusWritten(n, seen, aggregate_task_status([old EXCEPT ![user].status = "completed"]))]
         /\ taskRaced' = taskRaced \cup ({n} \cap HeldByOthers(s))
  BY Zenon DEF CompleteTaskCommit
<1>4. /\ n \in DOMAIN executors /\ user \in DOMAIN old
      /\ n \notin taskRaced => old = executors[n] /\ seen = taskStatus[n]
  <2>1. n \in DOMAIN taskJob[s].seen /\ user \in DOMAIN old /\ DOMAIN taskJob[s].seen \subseteq DOMAIN executors
        /\ (n \notin taskRaced => taskJob[s].seen[n] = Read(n))
    BY <1>1 DEF JobReads, Holding
  <2> QED BY <2>1, ReadType
<1> HIDE DEF n, user, old, seen
<1>6. CASE UNCHANGED << executors, taskStatus, taskRaced >>
  BY <1>1, <1>6, TaskFacts, TaskReadStep
<1>7. CASE /\ RowLives(n, user, old[user].id)
           /\ executors' = [executors EXCEPT ![n][user].status = "completed"]
           /\ taskStatus' = [taskStatus EXCEPT ![n] =
                StatusWritten(n, seen, aggregate_task_status([old EXCEPT ![user].status = "completed"]))]
           /\ taskRaced' = taskRaced \cup ({n} \cap HeldByOthers(s))
  <2> DEFINE rows == [executors[n] EXCEPT ![user].status = "completed"]
             mine == [old EXCEPT ![user].status = "completed"]
             st == StatusWritten(n, seen, aggregate_task_status(mine))
  <2>1. user \in DOMAIN executors[n] /\ executors[n] \in ExecutorRows
    BY <1>4, <1>7, ReadType DEF RowLives
  <2>2. executors[n] \in [DOMAIN executors[n] -> ExecutorRow] /\ DOMAIN executors[n] \subseteq TaskMembers
    BY <2>1, RowsType
  <2>3. executors' = [executors EXCEPT ![n] = rows]
    BY <1>7
  <2>4. rows \in [DOMAIN executors[n] -> ExecutorRow]
        /\ \A u \in DOMAIN executors[n] : rows[u].id = executors[n][u].id
    BY <2>1, <2>2 DEF ExecutorRow, TaskStatus
  <2>5. rows \in ExecutorRows
    BY <2>2, <2>4 DEF ExecutorRows
  <2>6. st \in TaskStatus
    BY <1>4, AggregateByStatus, TaskFacts DEF StatusWritten
  <2>7. n \notin taskRaced => st = aggregate_task_status(rows)
    <3>1. ASSUME n \notin taskRaced PROVE st = aggregate_task_status(rows)
      <4>1. mine = rows /\ seen = taskStatus[n]
        BY <1>4, <3>1
      <4> HIDE DEF mine, rows
      <4> QED BY <4>1, WrittenStatus
    <3> QED BY <3>1
  <2>8. \A u \in DOMAIN rows : rows[u].id <= lastRow'
    BY <1>1, <1>4, <2>4, TaskFacts
  <2>9. lastRow' \in Nat /\ lastRow <= lastRow' /\ lastRow' <= MaxExecutorRows
    BY <1>1, TaskFacts, TasksAssumption
  <2>10. taskStatus' = [taskStatus EXCEPT ![n] = st]
    BY SMTT(30), <1>7
  <2> HIDE DEF rows, st, mine
  <2> QED BY <1>1, <1>4, <1>7, <2>3, <2>5, <2>6, <2>7, <2>8, <2>9, <2>10, OneTaskStep
<1> QED BY SMTT(30), <1>3, <1>6, <1>7

\* The executors of a task are replaced.
LEMMA UpdateTaskCommitStep ==
  ASSUME TasksIInv, NEW s \in TaskJobs, UpdateTaskCommit(s)
  PROVE  TasksIInv'
<1> DEFINE n == taskJob[s].no
           seen == taskJob[s].seen[n].status
           old == taskJob[s].seen[n].rows
           assigned == taskJob[s].assigned
           day == taskJob[s].day
           kept == assigned \cap DOMAIN old
           added == assigned \ DOMAIN old
           gone == DOMAIN old \ assigned
           new == NewRows(added, day)
           mine == [u \in assigned |-> IF u \in kept THEN old[u] ELSE new[u]]
           stays == {u \in DOMAIN executors[n] : ~ (u \in gone /\ RowLives(n, u, old[u].id))}
           rows == [u \in stays \cup added |->
                      CASE u \in kept -> [executors[n][u] EXCEPT !.due = day]
                        [] u \in added -> new[u]
                        [] OTHER -> executors[n][u]]
           st == StatusWritten(n, seen, aggregate_task_status(mine))
           Replaced == /\ \A u \in kept : RowLives(n, u, old[u].id)
                       /\ added \cap DOMAIN executors[n] = {}
                       /\ RowsLeft(added)
                       /\ executors' = [executors EXCEPT ![n] = rows]
                       /\ taskStatus' = [taskStatus EXCEPT ![n] = st]
                       /\ lastRow' = lastRow + Cardinality(added)
                       /\ taskRaced' = taskRaced \cup ({n} \cap HeldByOthers(s))
<1>1. /\ taskJob[s] \in TaskJobRecords /\ JobReads(taskJob[s]) /\ taskJob[s].op = "update"
      /\ taskJob' = [taskJob EXCEPT ![s] = NoJob]
      /\ UNCHANGED << today, escalated, taskCrashes >>
  <2>1. /\ taskJob[s].op = "update" /\ taskJob' = [taskJob EXCEPT ![s] = NoJob]
        /\ UNCHANGED << today, escalated, taskCrashes >>
    BY Zenon DEF UpdateTaskCommit
  <2> QED BY <2>1 DEF TasksIInv, TasksTyped
<1>2. Replaced \/ UNCHANGED << executors, taskStatus, lastRow, taskRaced >>
  BY Zenon DEF UpdateTaskCommit
<1>3. CASE UNCHANGED << executors, taskStatus, lastRow, taskRaced >>
  BY <1>1, <1>3, TaskFacts, TaskReadStep
<1>4. CASE Replaced
  <2>1. /\ n \in DOMAIN executors /\ assigned \in SUBSET TaskMembers /\ day \in DueDays
        /\ old \in ExecutorRows /\ seen \in TaskStatus
        /\ n \notin taskRaced => old = executors[n] /\ seen = taskStatus[n]
    <3>1. /\ taskJob[s].seen \in SeenTasks /\ assigned \in SUBSET TaskMembers /\ day \in DueDays
      BY <1>1 DEF TaskJobRecords, NoJob
    <3>2. /\ n \in DOMAIN taskJob[s].seen /\ DOMAIN taskJob[s].seen \subseteq DOMAIN executors
          /\ n \notin taskRaced => taskJob[s].seen[n] = Read(n)
      BY <1>1 DEF JobReads, Holding
    <3>3. taskJob[s].seen[n] \in [rows : ExecutorRows, status : TaskStatus]
      BY <3>1, <3>2 DEF SeenTasks
    <3> QED BY <3>1, <3>2, <3>3, ReadType
  <2> HIDE DEF n, seen, old, assigned, day
  <2>2. /\ \A u \in kept : RowLives(n, u, old[u].id)
        /\ RowsLeft(added) /\ lastRow' = lastRow + Cardinality(added)
        /\ executors' = [executors EXCEPT ![n] = rows]
        /\ taskStatus' = [taskStatus EXCEPT ![n] = st]
        /\ taskRaced' = taskRaced \cup ({n} \cap HeldByOthers(s))
    BY <1>4
  <2>3. /\ executors[n] \in ExecutorRows /\ DOMAIN executors[n] \subseteq TaskMembers
        /\ \A u \in DOMAIN executors[n] : executors[n][u] \in ExecutorRow /\ executors[n][u].id <= lastRow
    BY <2>1, ReadType, RowsType, TaskFacts
  <2>4. /\ lastRow' \in Nat /\ lastRow <= lastRow' /\ lastRow' <= MaxExecutorRows /\ lastRow \in Nat
        /\ new \in [added -> ExecutorRow] /\ \A u \in added : new[u].id <= lastRow'
    <3>1. added \in SUBSET TaskMembers
      BY <2>1
    <3> QED BY <2>1, <2>2, <3>1, TaskFacts, NewRowsType
  <2>5. \A u \in kept : u \in DOMAIN executors[n]
    BY <2>2 DEF RowLives
  <2> HIDE DEF new
  <2>6. stays \subseteq DOMAIN executors[n] /\ DOMAIN rows = stays \cup added
    OBVIOUS
  <2>7. ASSUME NEW u \in stays \cup added
        PROVE  rows[u] \in ExecutorRow /\ rows[u].id <= lastRow'
    <3>1. CASE u \in kept
      <4>1. rows[u] = [executors[n][u] EXCEPT !.due = day]
        BY <3>1
      <4>2. executors[n][u] \in ExecutorRow /\ executors[n][u].id <= lastRow
        BY <2>3, <2>5, <3>1
      <4> QED BY <2>1, <2>4, <4>1, <4>2 DEF ExecutorRow
    <3>2. CASE u \in added
      <4>1. rows[u] = new[u] /\ u \notin kept
        BY <3>2
      <4> QED BY <2>4, <3>2, <4>1
    <3>3. CASE u \notin kept /\ u \notin added
      <4>1. rows[u] = executors[n][u] /\ u \in DOMAIN executors[n]
        BY <2>6, <2>7, <3>3
      <4>2. executors[n][u] \in ExecutorRow /\ executors[n][u].id <= lastRow
        BY <2>3, <4>1
      <4> QED BY <2>4, <4>1, <4>2 DEF ExecutorRow
    <3> QED BY <3>1, <3>2, <3>3
  <2>8. rows \in ExecutorRows /\ \A u \in DOMAIN rows : rows[u].id <= lastRow'
    <3>1. stays \cup added \in SUBSET TaskMembers
      BY <2>1, <2>3, <2>6
    <3>2. rows \in [stays \cup added -> ExecutorRow]
      BY <2>7
    <3> QED BY <2>6, <2>7, <3>1, <3>2 DEF ExecutorRows
  <2>9. st \in TaskStatus
    BY <2>1, AggregateByStatus, TaskFacts DEF StatusWritten
  <2>10. ASSUME n \notin taskRaced PROVE st = aggregate_task_status(rows)
    <3>1. old = executors[n] /\ seen = taskStatus[n]
      BY <2>1, <2>10
    <3>2. \A u \in DOMAIN executors[n] : RowLives(n, u, old[u].id)
      BY <2>1, <3>1 DEF RowLives
    <3>3. stays = kept
      BY <3>1, <3>2
    <3>4. DOMAIN mine = DOMAIN rows
      BY <2>6, <3>3
    <3>5. ASSUME NEW u \in DOMAIN mine PROVE mine[u].status = rows[u].status
      <4>1. CASE u \in kept
        <5>3. u \in assigned /\ u \in stays \cup added
          BY <3>3, <4>1
        <5>1. mine[u] = old[u] /\ rows[u] = [executors[n][u] EXCEPT !.due = day]
          BY <4>1, <5>3
        <5>2. executors[n][u] \in ExecutorRow
          BY <2>3, <2>5, <4>1
        <5> QED BY <3>1, <5>1, <5>2 DEF ExecutorRow
      <4>2. CASE u \notin kept
        <5>1. u \in added
          BY <4>2
        <5>2. mine[u] = new[u] /\ rows[u] = new[u]
          BY <4>2, <5>1
        <5> QED BY <5>2
      <4> QED BY <4>1, <4>2
    <3> HIDE DEF mine, rows
    <3>6. aggregate_task_status(mine) = aggregate_task_status(rows)
      BY <3>4, <3>5, AggregateByStatus, Zenon
    <3> QED BY <3>1, <3>6 DEF StatusWritten
  <2> HIDE DEF rows, st, kept, added, stays, mine, gone
  <2> QED BY <1>1, <2>1, <2>2, <2>4, <2>8, <2>9, <2>10, OneTaskStep
<1> QED BY <1>2, <1>3, <1>4

\* The scan marks its rows and writes the tasks they are of.
LEMMA MarkOverdueStep ==
  ASSUME TasksIInv, NEW s \in TaskJobs, MarkOverdue(s)
  PROVE  TasksIInv'
<1> DEFINE j == taskJob[s]
           hit == {r.no : r \in j.late}
           marked(n) == [u \in DOMAIN executors[n] |->
                           IF \E r \in j.late : r.no = n /\ r.user = u
                           THEN [executors[n][u] EXCEPT !.status = "overdue"]
                           ELSE executors[n][u]]
           st(n) == IF n \in hit
                    THEN StatusWritten(n, j.seen[n].status, aggregate_task_status(Marked(j, n)))
                    ELSE taskStatus[n]
           Written == /\ \A r \in j.late : RowLives(r.no, r.user, r.id)
                      /\ executors' = [n \in DOMAIN executors |-> marked(n)]
                      /\ taskStatus' = [n \in DOMAIN taskStatus |-> st(n)]
                      /\ taskRaced' = taskRaced \cup (hit \cap HeldByOthers(s))
                      /\ taskJob' = [taskJob EXCEPT ![s].pc = "notify"]
<1>1. /\ j \in TaskJobRecords /\ JobReads(j) /\ j.op = "scan" /\ j.pc = "mark"
      /\ UNCHANGED << lastRow, today, escalated, taskCrashes >>
  BY DEF MarkOverdue, TasksIInv, TasksTyped
<1>2. Written \/ (taskJob' = [taskJob EXCEPT ![s] = NoJob] /\ UNCHANGED << executors, taskStatus, taskRaced >>)
  BY Zenon DEF MarkOverdue
<1>3. CASE taskJob' = [taskJob EXCEPT ![s] = NoJob] /\ UNCHANGED << executors, taskStatus, taskRaced >>
  BY <1>1, <1>3, TaskFacts, TaskReadStep
<1>4. CASE Written
  <2>1. j \in [op : {"scan"}, pc : {"late", "mark", "notify"}, users : SUBSET TaskMembers,
               due : SUBSET RowRefs, late : SUBSET RowRefs, escalate : SUBSET RowRefs, seen : SeenTasks]
    BY <1>1 DEF TaskJobRecords, NoJob
  <2>2. /\ \A r \in j.late : r.no \in DOMAIN j.seen /\ r \in RowRefs
        /\ \A r \in j.escalate : r.id <= lastRow
        /\ DOMAIN j.seen \subseteq DOMAIN executors
        /\ \A n \in DOMAIN j.seen \ taskRaced : j.seen[n] = Read(n)
    BY <1>1, <2>1 DEF JobReads, Holding
  <2>3. /\ executors' = [n \in DOMAIN executors |-> marked(n)]
        /\ taskStatus' = [n \in DOMAIN taskStatus |-> st(n)]
        /\ taskRaced' = taskRaced \cup (hit \cap HeldByOthers(s))
        /\ \A r \in j.late : RowLives(r.no, r.user, r.id)
        /\ taskJob' = [taskJob EXCEPT ![s] = [j EXCEPT !.pc = "notify"]]
    BY <1>4
  <2> DEFINE new == [j EXCEPT !.pc = "notify"]
  <2>4. /\ new \in TaskJobRecords /\ new.op = "scan" /\ new.pc = "notify" /\ new.late = j.late
        /\ new.escalate = j.escalate /\ new.seen = j.seen
    BY <2>1 DEF TaskJobRecords
  <2>5. ASSUME NEW n \in DOMAIN executors
        PROVE  /\ marked(n) \in ExecutorRows /\ DOMAIN marked(n) = DOMAIN executors[n]
               /\ \A u \in DOMAIN executors[n] : marked(n)[u].id <= lastRow
    <3>1. /\ DOMAIN executors[n] \subseteq TaskMembers
          /\ \A u \in DOMAIN executors[n] : executors[n][u] \in ExecutorRow /\ executors[n][u].id <= lastRow
      BY ReadType, RowsType, TaskFacts
    <3>2. ASSUME NEW u \in DOMAIN executors[n]
          PROVE  marked(n)[u] \in ExecutorRow /\ marked(n)[u].id = executors[n][u].id
      <4>1. executors[n][u] \in ExecutorRow
        BY <3>1
      <4>2. marked(n)[u] = executors[n][u] \/ marked(n)[u] = [executors[n][u] EXCEPT !.status = "overdue"]
        OBVIOUS
      <4> QED BY <4>1, <4>2 DEF ExecutorRow, TaskStatus
    <3>3. marked(n) \in [DOMAIN executors[n] -> ExecutorRow]
      BY <3>2
    <3> QED BY <3>1, <3>2, <3>3 DEF ExecutorRows
  <2>6. ASSUME NEW n \in DOMAIN executors \ hit
        PROVE  marked(n) = executors[n] /\ st(n) = taskStatus[n]
    <3>1. executors[n] = [u \in DOMAIN executors[n] |-> executors[n][u]]
      BY <2>6, ReadType, RowsType
    <3>2. \A r \in j.late : r.no # n
      BY <2>6
    <3> QED BY <3>1, <3>2
  <2>7. ASSUME NEW n \in DOMAIN executors PROVE st(n) \in TaskStatus
    <3>1. taskStatus[n] \in TaskStatus
      BY TaskFacts
    <3>2. \A rows : aggregate_task_status(rows) \in TaskStatus
      BY AggregateByStatus
    <3> QED BY <3>1, <3>2 DEF StatusWritten
  <2>8. ASSUME NEW n \in DOMAIN executors, n \in hit, n \notin taskRaced
        PROVE  st(n) = aggregate_task_status(marked(n))
    <3>1. n \in DOMAIN j.seen /\ j.seen[n] = Read(n)
      BY <2>2, <2>8
    <3>2. j.seen[n].rows = executors[n] /\ j.seen[n].status = taskStatus[n]
      BY <3>1, ReadType
    <3>3. DOMAIN Marked(j, n) = DOMAIN executors[n] /\ DOMAIN marked(n) = DOMAIN executors[n]
      BY <3>2 DEF Marked
    <3>4. ASSUME NEW u \in DOMAIN executors[n] PROVE Marked(j, n)[u].status = marked(n)[u].status
      <4>1. Marked(j, n)[u] =
              IF [no |-> n, user |-> u, id |-> executors[n][u].id] \in j.late
              THEN [executors[n][u] EXCEPT !.status = "overdue"] ELSE executors[n][u]
        BY <3>2 DEF Marked
      <4>2. marked(n)[u] =
              IF \E r \in j.late : r.no = n /\ r.user = u
              THEN [executors[n][u] EXCEPT !.status = "overdue"] ELSE executors[n][u]
        OBVIOUS
      <4>3. [no |-> n, user |-> u, id |-> executors[n][u].id] \in j.late
              <=> \E r \in j.late : r.no = n /\ r.user = u
        <5>1. ASSUME NEW r \in j.late, r.no = n, r.user = u
              PROVE  r = [no |-> n, user |-> u, id |-> executors[n][u].id]
          <6>1. r.id = executors[n][u].id
            BY <2>3, <5>1 DEF RowLives
          <6>2. r \in RowRefs
            BY <2>2
          <6> QED BY <5>1, <6>1, <6>2 DEF RowRefs
        <5> QED BY <5>1
      <4> QED BY <4>1, <4>2, <4>3
    <3>5. st(n) = StatusWritten(n, j.seen[n].status, aggregate_task_status(Marked(j, n)))
      BY <2>8
    <3> HIDE DEF marked, st, j
    <3>6. aggregate_task_status(Marked(j, n)) = aggregate_task_status(marked(n))
      BY <3>3, <3>4, AggregateByStatus, Zenon
    <3> QED BY <3>2, <3>5, <3>6 DEF StatusWritten
  <2> HIDE DEF new, marked, st, hit, j
  <2>9. /\ DOMAIN executors' = DOMAIN executors /\ DOMAIN taskStatus = DOMAIN executors
        /\ \A n \in DOMAIN executors : executors'[n] = marked(n) /\ taskStatus'[n] = st(n)
        /\ executors' \in [DOMAIN executors' -> ExecutorRows]
        /\ taskStatus' \in [DOMAIN executors' -> TaskStatus]
    BY <2>3, <2>5, <2>7, TaskFacts
  <2>10. /\ taskRaced \subseteq taskRaced' /\ hit \cap HeldByOthers(s) \subseteq taskRaced'
         /\ taskRaced' \subseteq TaskNumbers
    BY <2>3, TaskFacts DEF HeldByOthers
  <2>11. \A n \in (DOMAIN executors' \ DOMAIN executors) \cup (DOMAIN executors \cap hit) :
           n \notin taskRaced' => taskStatus'[n] = aggregate_task_status(executors'[n])
    BY <2>8, <2>9, <2>10
  <2>12. \A n \in DOMAIN executors' : \A u \in DOMAIN executors'[n] : executors'[n][u].id <= lastRow'
    BY <1>1, <2>5, <2>9
  <2>13. \A n \in DOMAIN executors \ hit : executors'[n] = executors[n] /\ taskStatus'[n] = taskStatus[n]
    BY <2>6, <2>9
  <2> QED BY <1>1, <2>2, <2>3, <2>4, <2>9, <2>10, <2>11, <2>12, <2>13, TaskFacts, TaskWriteStep DEF new
<1> QED BY <1>2, <1>3, <1>4

LEMMA TaskStepKeeps == TasksIInv /\ [TaskNext]_taskVars => TasksIInv'
<1> SUFFICES ASSUME TasksIInv, [TaskNext]_taskVars PROVE TasksIInv'
  OBVIOUS
<1>1. CASE UNCHANGED taskVars
  BY <1>1 DEF taskVars, TasksIInv, TasksTyped, JobReads, Holding, Read, AggregateUnlessRaced
<1>2. CASE NextDay
  <2>1. UNCHANGED << taskStatus, executors, lastRow, escalated, taskJob, taskRaced, taskCrashes >>
        /\ today' = today + 1 /\ today < LastDay /\ today \in 0..LastDay /\ LastDay \in Nat
    BY <1>2, TasksAssumption DEF NextDay, TasksIInv, TasksTyped
  <2>2. today' \in 0..LastDay
    BY <2>1
  <2>3. TasksTyped'
    BY <2>1, <2>2 DEF TasksIInv, TasksTyped
  <2>4. \A s \in TaskJobs : JobReads(taskJob[s])'
    BY <2>1 DEF TasksIInv, JobReads, Holding, Read
  <2> QED BY <2>1, <2>3, <2>4 DEF TasksIInv, AggregateUnlessRaced
<1>3. ASSUME NEW s \in TaskJobs,
             \/ \E assigned \in SUBSET TaskMembers, day \in DueDays :
                  \/ CreateTaskRead(s, assigned, day)
                  \/ \E n \in TaskNumbers : UpdateTaskRead(s, n, assigned, day)
             \/ \E n \in TaskNumbers, u \in TaskMembers : CompleteTaskRead(s, n, u)
      PROVE  TasksIInv'
  BY <1>3, TaskReads
<1>4. ASSUME NEW s \in TaskJobs,
             \/ \E us \in SUBSET TaskMembers : ScanDueToday(s, us)
             \/ ScanOverdue(s) \/ ScanNotify(s) \/ TaskJobDies(s)
      PROVE  TasksIInv'
  BY <1>4, ScanReads
<1>5. ASSUME NEW s \in TaskJobs, CreateTaskCommit(s) PROVE TasksIInv'
  BY <1>5, CreateTaskCommitStep
<1>6. ASSUME NEW s \in TaskJobs, UpdateTaskCommit(s) PROVE TasksIInv'
  BY <1>6, UpdateTaskCommitStep
<1>7. ASSUME NEW s \in TaskJobs, CompleteTaskCommit(s) PROVE TasksIInv'
  BY <1>7, CompleteTaskCommitStep
<1>8. ASSUME NEW s \in TaskJobs, MarkOverdue(s) PROVE TasksIInv'
  BY <1>8, MarkOverdueStep
<1> QED BY <1>1, <1>2, <1>3, <1>4, <1>5, <1>6, <1>7, <1>8 DEF TaskNext, TaskScanStep

LEMMA TasksInductive == TaskSpec => []TasksIInv
BY TaskInitHolds, TaskStepKeeps, PTL DEF TaskSpec

LEMMA TasksInvariant ==
  ASSUME TasksIInv
  PROVE  TaskTypeOK /\ AggregateUnlessRaced
<1>1. \A n \in DOMAIN executors : /\ DOMAIN executors[n] \subseteq TaskMembers
                                  /\ \A u \in DOMAIN executors[n] : executors[n][u] \in ExecutorRow
  BY ReadType, RowsType
<1>2. \A s \in TaskJobs : taskJob[s].op \in {"idle", "create", "update", "complete", "scan"}
  <2>1. \A s \in TaskJobs : taskJob[s] \in TaskJobRecords
    BY DEF TasksIInv, TasksTyped
  <2> QED BY <2>1 DEF TaskJobRecords, NoJob
<1> QED BY <1>1, <1>2, TaskFacts DEF TaskTypeOK, TasksIInv

\* Tasks, executors and what sessions hold of them keep to their types.
THEOREM TasksTypeCorrect == TaskSpec => []TaskTypeOK
<1>1. TasksIInv => TaskTypeOK
  BY TasksInvariant
<1> QED BY <1>1, TasksInductive, PTL

\* Creations, reassignments, completions and scans, which lock nothing and
\* write what they computed from what they read, leave the status of a task
\* the aggregate of its executors, unless two of them held it at once.
THEOREM AggregatesHold == TaskSpec => []AggregateUnlessRaced
<1>1. TasksIInv => AggregateUnlessRaced
  BY TasksInvariant
<1> QED BY <1>1, TasksInductive, PTL

-----------------------------------------------------------------------------
(* Side by side. *)

LEMMA BackgroundInductive == BackgroundSpec => [](TasksIInv /\ WebhookIInv)
<1>1. BackgroundInit => TasksIInv /\ WebhookIInv
  BY TaskInitHolds, WebhookInitHolds DEF BackgroundInit
<1>2. [BackgroundNext]_backgroundVars => [TaskNext]_taskVars /\ [WebhookNext]_webhookVars
  BY DEF BackgroundNext, backgroundVars
<1>3. TasksIInv /\ WebhookIInv /\ [BackgroundNext]_backgroundVars => (TasksIInv /\ WebhookIInv)'
  BY <1>2, TaskStepKeeps, WebhookStepKeeps
<1> QED BY <1>1, <1>3, PTL DEF BackgroundSpec

\* Both components keep to their types when beat works them side by side.
THEOREM BackgroundTypeCorrect == BackgroundSpec => []BackgroundTypeOK
<1>1. TasksIInv /\ WebhookIInv => BackgroundTypeOK
  BY TasksInvariant DEF WebhookIInv, BackgroundTypeOK
<1> QED BY <1>1, BackgroundInductive, PTL

\* And both keep their promises: the aggregate of a task, and the settled rows
\* of the webhook queue.
THEOREM BackgroundKeepsItsPromises == BackgroundSpec => [](AggregateUnlessRaced /\ SettledIsEarned)
<1>1. TasksIInv /\ WebhookIInv => AggregateUnlessRaced /\ SettledIsEarned
  BY DEF TasksIInv, WebhookIInv
<1> QED BY <1>1, BackgroundInductive, PTL

=============================================================================
