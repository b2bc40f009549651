-------------------------- MODULE Portfolio_proofs --------------------------
(***************************************************************************)
(* Proofs about Portfolio, for every finite set of sub-projects and every  *)
(* set of sessions.                                                        *)
(*                                                                         *)
(* Sessions write on what they have read, without a lock.  The invariant   *)
(* says what they may still rely on: an approval is never taken back       *)
(* (WorkKeeps), and the counter belongs to one session (CounterAlone).     *)
(***************************************************************************)
EXTENDS Portfolio, TLAPS

\* Sessions that write a sub-project have read one.
OnSub ==
  \A s \in Sessions :
    session[s].at \in {"submitting", "loading_main", "reviewing", "completing", "closing",
                       "terminating"} => session[s].sub \in Subs

\* What a session is about to complete or close has been approved.
WorkKeeps ==
  \A s \in Sessions :
    session[s].at \in {"completing", "closing"} => approvals[session[s].sub] = 1

\* One session at a time has a number that is not used yet.
CounterAlone ==
  \A s, t \in Sessions : session[s].at = "numbered" /\ session[t].at = "numbered" => s = t

IInv ==
  /\ TypeOK
  /\ NumbersConsecutive
  /\ WorkIsApproved
  /\ OnSub
  /\ WorkKeeps
  /\ CounterAlone

-----------------------------------------------------------------------------

\* The fields of a session at rest.
LEMMA IdleFields ==
  /\ Idle \in SessionRecords
  /\ Idle.at = "idle"
BY DEF Idle, SessionRecords, Steps, SubStatuses

\* Nothing exists and nothing is read at first.
LEMMA IInvInit == Init => IInv
<1> SUFFICES ASSUME Init PROVE IInv
  OBVIOUS
<1>1. TypeOK
  BY IdleFields DEF Init, TypeOK, MainStatuses, SubRows, SubStatuses, NoRow
<1>2. NumbersConsecutive
  <2>1. \A u \in Subs : sub[u].number = 0
    BY DEF Init, NoRow
  <2>2. counter = 1 /\ 1 .. (counter - 1) = {}
    BY DEF Init
  <2>. QED
    BY <2>1, <2>2, IdleFields DEF NumbersConsecutive, Init
<1>3. WorkIsApproved
  BY DEF Init, WorkIsApproved, NoRow
<1>4. OnSub /\ WorkKeeps /\ CounterAlone
  BY IdleFields DEF Init, OnSub, WorkKeeps, CounterAlone
<1>. QED
  BY <1>1, <1>2, <1>3, <1>4 DEF IInv

\* A step that changes nothing but the record of one session, which takes
\* neither a number nor anything that has not been approved.
LEMMA RecordStep ==
  ASSUME IInv, NEW s \in Sessions, NEW record \in SessionRecords,
         session' = [session EXCEPT ![s] = record],
         UNCHANGED << main, sub, approvals, counter >>,
         record.at # "numbered",
         record.at \in {"submitting", "loading_main", "reviewing", "completing", "closing",
                        "terminating"} => record.sub \in Subs,
         record.at \in {"completing", "closing"} => approvals[record.sub] = 1
  PROVE  IInv'
<1>1. session'[s] = record /\ \A t \in Sessions \ {s} : session'[t] = session[t]
  BY DEF IInv, TypeOK
<1>2. TypeOK'
  BY DEF IInv, TypeOK
<1>3. NumbersConsecutive'
  BY <1>1 DEF IInv, NumbersConsecutive
<1>4. WorkIsApproved'
  BY DEF IInv, WorkIsApproved
<1>5. OnSub' /\ WorkKeeps' /\ CounterAlone'
  BY <1>1 DEF IInv, OnSub, WorkKeeps, CounterAlone
<1>. QED
  BY <1>2, <1>3, <1>4, <1>5 DEF IInv

\* The operations that load the main project.
LEMMA MainLoadSteps ==
  ASSUME IInv, NEW s \in Sessions,
         SubmitMain(s) \/ ReviewMain(s) \/ CloseMain(s) \/ CreateSub(s)
  PROVE  IInv'
<1>1. PICK at \in {"submitting_main", "reviewing_main", "counting", "creating"},
           statuses \in SUBSET MainStatuses : MainLoad(s, at, statuses)
  BY DEF SubmitMain, ReviewMain, CloseMain, CreateSub, OpenMain, MainStatuses
<1> DEFINE record == [Idle EXCEPT !.at = at, !.seen = main]
<1>2. /\ session' = [session EXCEPT ![s] = record]
      /\ UNCHANGED << main, sub, approvals, counter >>
  BY <1>1 DEF MainLoad
<1>3. record \in SessionRecords /\ record.at = at
  BY DEF Idle, SessionRecords, Steps, IInv, TypeOK
<1> HIDE DEF record
<1>. QED
  BY <1>2, <1>3, RecordStep

\* The operations that load a sub-project.
LEMMA SubLoadSteps ==
  ASSUME IInv, NEW s \in Sessions, NEW u \in Subs,
         \/ SubmitSub(s, u) \/ ReviewSub(s, u)
         \/ CompleteSub(s, u) \/ CloseSub(s, u) \/ TerminateSub(s, u)
  PROVE  IInv'
<1>1. PICK at \in {"submitting", "loading_main", "completing", "closing", "terminating"},
           statuses \in SUBSET SubStatuses :
        /\ SubLoad(s, u, at, statuses)
        /\ at = "completing" => approvals[u] = 1
        /\ at = "closing" => statuses \subseteq {"in_progress", "completed"}
  BY DEF SubmitSub, ReviewSub, CompleteSub, CloseSub, TerminateSub, SubStatuses
<1> DEFINE record == [Idle EXCEPT !.at = at, !.sub = u, !.seen = sub[u].status]
<1>2. /\ session' = [session EXCEPT ![s] = record]
      /\ UNCHANGED << main, sub, approvals, counter >>
      /\ sub[u].status \in statuses
  BY <1>1 DEF SubLoad
<1>3. record \in SessionRecords /\ record.at = at /\ record.sub = u
  BY DEF Idle, SessionRecords, Steps, IInv, TypeOK, SubRows
<1>4. at \in {"completing", "closing"} => approvals[u] = 1
  BY <1>1, <1>2 DEF IInv, WorkIsApproved
<1> HIDE DEF record
<1>. QED
  BY <1>2, <1>3, <1>4, RecordStep

\* The count of open sub-projects, the main project beside a review, and a
\* request that ends early.
LEMMA OtherReads ==
  ASSUME IInv, NEW s \in Sessions, CloseMainCount(s) \/ ReviewSubMain(s) \/ Rollback(s)
  PROVE  IInv'
<1>1. session[s] \in SessionRecords
  BY DEF IInv, TypeOK
<1>2. CASE CloseMainCount(s)
  <2> DEFINE record == [session[s] EXCEPT !.at = "closing_main"]
  <2>1. /\ session' = [session EXCEPT ![s] = record]
        /\ UNCHANGED << main, sub, approvals, counter >>
    BY <1>2 DEF CloseMainCount
  <2>2. record \in SessionRecords /\ record.at = "closing_main"
    BY <1>1 DEF SessionRecords, Steps
  <2> HIDE DEF record
  <2>. QED
    BY <2>1, <2>2, RecordStep
<1>3. CASE ReviewSubMain(s)
  <2> DEFINE record == [session[s] EXCEPT !.at = "reviewing", !.main = main]
  <2>1. /\ session' = [session EXCEPT ![s] = record]
        /\ UNCHANGED << main, sub, approvals, counter >>
        /\ session[s].sub \in Subs
    BY <1>3 DEF ReviewSubMain, IInv, OnSub
  <2>2. record \in SessionRecords /\ record.at = "reviewing" /\ record.sub = session[s].sub
    BY <1>1 DEF SessionRecords, Steps, IInv, TypeOK
  <2> HIDE DEF record
  <2>. QED
    BY <2>1, <2>2, RecordStep
<1>4. CASE Rollback(s)
  BY <1>4, IdleFields, RecordStep DEF Rollback
<1>. QED
  BY <1>2, <1>3, <1>4

\* The counter is locked and its value taken.
LEMMA CreateSubNumberStep ==
  ASSUME IInv, NEW s \in Sessions, CreateSubNumber(s)
  PROVE  IInv'
<1> DEFINE record == [session[s] EXCEPT !.at = "numbered", !.number = counter]
<1>1. /\ session' = [session EXCEPT ![s] = record]
      /\ UNCHANGED << main, sub, approvals, counter >>
      /\ \A t \in Sessions \ {s} : session[t].at # "numbered"
  BY DEF CreateSubNumber, CounterFree
<1>2. session[s] \in SessionRecords
  BY DEF IInv, TypeOK
<1>3. record \in SessionRecords /\ record.at = "numbered" /\ record.number = counter
  BY <1>2 DEF SessionRecords, Steps, IInv, TypeOK
<1> HIDE DEF record
<1>4. session'[s] = record /\ \A t \in Sessions \ {s} : session'[t] = session[t]
  BY <1>1 DEF IInv, TypeOK
<1>5. TypeOK'
  BY <1>1, <1>3 DEF IInv, TypeOK
<1>6. NumbersConsecutive'
  BY <1>1, <1>3, <1>4 DEF IInv, NumbersConsecutive
<1>7. WorkIsApproved'
  BY <1>1 DEF IInv, WorkIsApproved
<1>8. OnSub' /\ WorkKeeps' /\ CounterAlone'
  BY <1>1, <1>3, <1>4 DEF IInv, OnSub, WorkKeeps, CounterAlone
<1>. QED
  BY <1>5, <1>6, <1>7, <1>8 DEF IInv

-----------------------------------------------------------------------------
(* Commits *)

\* What is the same for every commit that does not touch the numbers.
LEMMA CommitStep ==
  ASSUME IInv, NEW s \in Sessions, TypeOK', WorkIsApproved',
         session' = [session EXCEPT ![s] = Idle], UNCHANGED counter,
         \A u \in Subs : sub'[u].number = sub[u].number /\ approvals'[u] >= approvals[u]
  PROVE  IInv'
<1>1. session'[s] = Idle /\ \A t \in Sessions \ {s} : session'[t] = session[t]
  BY DEF IInv, TypeOK
<1>2. NumbersConsecutive'
  <2>1. { sub'[u].number : u \in Subs } = { sub[u].number : u \in Subs }
    OBVIOUS
  <2>. QED
    BY <1>1, <2>1, IdleFields DEF IInv, NumbersConsecutive
<1>3. OnSub' /\ CounterAlone'
  BY <1>1, IdleFields DEF IInv, OnSub, CounterAlone
<1>4. WorkKeeps'
  <2> SUFFICES ASSUME NEW t \in Sessions, session'[t].at \in {"completing", "closing"}
               PROVE  approvals'[session'[t].sub] = 1
    BY DEF WorkKeeps
  <2>1. session'[t] = session[t] /\ session[t].sub \in Subs /\ approvals[session[t].sub] = 1
    BY <1>1, IdleFields DEF IInv, OnSub, WorkKeeps
  <2>2. approvals'[session[t].sub] \in {0, 1} /\ approvals'[session[t].sub] >= 1
    BY <2>1 DEF TypeOK
  <2>. QED
    BY <2>1, <2>2
<1>. QED
  BY <1>2, <1>3, <1>4 DEF IInv

\* Commits of the main project.
LEMMA MainCommitSteps ==
  ASSUME IInv, NEW s \in Sessions,
         \/ SubmitMainCommit(s) \/ ApproveMainCommit(s) \/ RejectMainCommit(s)
         \/ CloseMainCommit(s)
  PROVE  IInv'
<1>1. /\ main' \in {main, "pending_review", "not_started", "rejected", "closed"}
      /\ session' = [session EXCEPT ![s] = Idle] /\ UNCHANGED << sub, approvals, counter >>
  BY DEF SubmitMainCommit, ApproveMainCommit, RejectMainCommit, CloseMainCommit, MainCommit
<1>2. TypeOK'
  BY <1>1, IdleFields DEF IInv, TypeOK, MainStatuses
<1>3. WorkIsApproved'
  BY <1>1 DEF IInv, WorkIsApproved
<1>4. \A u \in Subs : sub'[u].number = sub[u].number /\ approvals'[u] >= approvals[u]
  BY <1>1 DEF IInv, TypeOK
<1>. QED
  BY <1>1, <1>2, <1>3, <1>4, CommitStep

\* What a commit writes to a sub-project.
LEMMA WriteSubRows ==
  ASSUME TypeOK, NEW s \in Sessions, NEW status \in SubStatuses, WriteSub(s, status)
  PROVE  /\ sub' \in [Subs -> SubRows]
         /\ \A u \in Subs : sub'[u].number = sub[u].number
         /\ \A u \in Subs : \/ sub'[u].status = sub[u].status
                            \/ u = session[s].sub /\ sub'[u].status = status
<1> DEFINE new == IF session[s].seen = status THEN sub[session[s].sub].status ELSE status
<1>1. sub' = [sub EXCEPT ![session[s].sub].status = new]
  BY DEF WriteSub
<1>2. \A u \in Subs : sub[u] \in SubRows
  BY DEF TypeOK
<1>3. new = status \/ new = sub[session[s].sub].status
  OBVIOUS
<1> HIDE DEF new
<1>4. ASSUME NEW u \in Subs
      PROVE  /\ sub'[u] \in SubRows /\ sub'[u].number = sub[u].number
             /\ \/ sub'[u].status = sub[u].status
                \/ u = session[s].sub /\ sub'[u].status = status
  BY <1>1, <1>2, <1>3 DEF TypeOK, SubRows
<1>5. sub' \in [Subs -> SubRows]
  BY <1>1, <1>4 DEF TypeOK
<1>. QED
  BY <1>4, <1>5

\* Commits that write the status of a sub-project only.
LEMMA SubCommitSteps ==
  ASSUME IInv, NEW s \in Sessions,
         \/ SubmitSubCommit(s) \/ RejectSubCommit(s) \/ CompleteSubCommit(s)
         \/ CloseSubCommit(s) \/ TerminateSubCommit(s)
  PROVE  IInv'
<1>1. PICK at \in Steps, status \in SubStatuses :
        /\ SubCommit(s, at, status)
        /\ status \in {"completed", "closed"} => at \in {"completing", "closing"}
        /\ status # "in_progress"
  BY DEF SubmitSubCommit, RejectSubCommit, CompleteSubCommit, CloseSubCommit,
         TerminateSubCommit, Steps, SubStatuses
<1>2. /\ session[s].at = at /\ WriteSub(s, status)
      /\ session' = [session EXCEPT ![s] = Idle] /\ UNCHANGED << main, approvals, counter >>
  BY <1>1 DEF SubCommit
<1>3. /\ sub' \in [Subs -> SubRows]
      /\ \A u \in Subs : sub'[u].number = sub[u].number
      /\ \A u \in Subs : \/ sub'[u].status = sub[u].status
                         \/ u = session[s].sub /\ sub'[u].status = status
  BY <1>2, WriteSubRows DEF IInv
<1>4. TypeOK'
  BY <1>2, <1>3, IdleFields DEF IInv, TypeOK
<1>5. WorkIsApproved'
  BY <1>1, <1>2, <1>3 DEF IInv, WorkIsApproved, WorkKeeps
<1>6. \A u \in Subs : sub'[u].number = sub[u].number /\ approvals'[u] >= approvals[u]
  BY <1>2, <1>3 DEF IInv, TypeOK
<1>. QED
  BY <1>2, <1>4, <1>5, <1>6, CommitStep

\* An approval, which the unique index of the phases lets through once.
LEMMA ApproveSubCommitStep ==
  ASSUME IInv, NEW s \in Sessions, ApproveSubCommit(s)
  PROVE  IInv'
<1> DEFINE u == session[s].sub
<1>1. /\ u \in Subs /\ approvals[u] = 0
      /\ WriteSub(s, "in_progress")
      /\ main' \in {main, "in_progress"}
      /\ approvals' = [approvals EXCEPT ![u] = @ + 1]
      /\ session' = [session EXCEPT ![s] = Idle] /\ UNCHANGED counter
  BY DEF ApproveSubCommit, PhasesAbsent, IInv, OnSub
<1> HIDE DEF u
<1>2. /\ approvals' \in [Subs -> {0, 1}] /\ approvals'[u] = 1
      /\ \A v \in Subs : approvals'[v] >= approvals[v]
  BY <1>1 DEF IInv, TypeOK
<1>3. /\ sub' \in [Subs -> SubRows]
      /\ \A v \in Subs : sub'[v].number = sub[v].number
      /\ \A v \in Subs : sub'[v].status = sub[v].status \/ v = u
  BY <1>1, WriteSubRows DEF IInv, SubStatuses, u
<1>4. TypeOK'
  BY <1>1, <1>2, <1>3, IdleFields DEF IInv, TypeOK, MainStatuses
<1>5. WorkIsApproved'
  BY <1>1, <1>2, <1>3 DEF IInv, TypeOK, WorkIsApproved
<1>. QED
  BY <1>1, <1>2, <1>3, <1>4, <1>5, CommitStep

\* A new sub-project takes the number its session has locked.
LEMMA CreateSubCommitStep ==
  ASSUME IInv, NEW s \in Sessions, NEW u \in Subs, CreateSubCommit(s, u)
  PROVE  IInv'
<1> DEFINE row == [status |-> "pending_review", number |-> session[s].number]
<1>1. /\ session[s].at = "numbered" /\ session[s].number = counter
      /\ sub[u] = NoRow /\ sub' = [sub EXCEPT ![u] = row] /\ counter' = counter + 1
      /\ session' = [session EXCEPT ![s] = Idle] /\ UNCHANGED << main, approvals >>
  BY DEF CreateSubCommit, IInv, NumbersConsecutive
<1>2. counter \in Nat \ {0}
  BY DEF IInv, TypeOK
<1>3. row \in SubRows /\ row.status = "pending_review" /\ row.number = counter
  BY <1>1, <1>2 DEF SubRows, SubStatuses
<1> HIDE DEF row
<1>4. session'[s] = Idle /\ \A t \in Sessions \ {s} : session'[t] = session[t]
  BY <1>1 DEF IInv, TypeOK
<1>5. TypeOK'
  BY <1>1, <1>2, <1>3, IdleFields DEF IInv, TypeOK
<1>6. \A t \in Sessions : session'[t].at # "numbered"
  BY <1>1, <1>4, IdleFields DEF IInv, CounterAlone
<1>7. NumbersConsecutive'
  <2>1. sub'[u].number = counter /\ \A v \in Subs \ {u} : sub'[v].number = sub[v].number
    BY <1>1, <1>3 DEF IInv, TypeOK
  <2>2. sub[u].number = 0
    BY <1>1 DEF NoRow
  <2>3. { sub'[v].number : v \in Subs } \ {0} = ({ sub[v].number : v \in Subs } \ {0}) \cup {counter}
    BY <1>2, <2>1, <2>2
  <2>4. (1 .. (counter - 1)) \cup {counter} = 1 .. counter
    BY <1>2
  <2>5. counter' - 1 = counter
    BY <1>1, <1>2
  <2>. QED
    BY <1>6, <2>3, <2>4, <2>5 DEF IInv, NumbersConsecutive
<1>8. WorkIsApproved'
  BY <1>1, <1>3 DEF IInv, TypeOK, WorkIsApproved
<1>9. OnSub' /\ WorkKeeps' /\ CounterAlone'
  BY <1>1, <1>4, <1>6, IdleFields DEF IInv, OnSub, WorkKeeps, CounterAlone
<1>. QED
  BY <1>5, <1>7, <1>8, <1>9 DEF IInv

-----------------------------------------------------------------------------

\* Every step keeps the invariant.
LEMMA IInvStep == IInv /\ [Next]_vars => IInv'
<1> SUFFICES ASSUME IInv, [Next]_vars PROVE IInv'
  OBVIOUS
<1>1. CASE UNCHANGED vars
  BY <1>1
  DEF vars, IInv, TypeOK, NumbersConsecutive, WorkIsApproved, OnSub, WorkKeeps, CounterAlone
<1>2. ASSUME NEW s \in Sessions, MainStep(s) PROVE IInv'
  BY <1>2, MainLoadSteps, MainCommitSteps, OtherReads DEF MainStep
<1>3. ASSUME NEW s \in Sessions, SubStep(s) PROVE IInv'
  BY <1>3, MainLoadSteps, CreateSubNumberStep, CreateSubCommitStep, SubLoadSteps,
     SubCommitSteps, ApproveSubCommitStep, OtherReads
  DEF SubStep
<1>4. ASSUME NEW s \in Sessions, Rollback(s) PROVE IInv'
  BY <1>4, OtherReads
<1>. QED
  BY <1>1, <1>2, <1>3, <1>4 DEF Next

\* What sessions rely on without locks stays true.
THEOREM Inductive == Spec => []IInv
BY IInvInit, IInvStep, PTL DEF Spec

\* Types, and at most one approval of each sub-project.
THEOREM TypeCorrect == Spec => []TypeOK
<1>1. IInv => TypeOK
  BY DEF IInv
<1>. QED
  BY Inductive, <1>1, PTL

\* The counter gives out every number once and leaves none out.
THEOREM NumbersAreConsecutive == Spec => []NumbersConsecutive
<1>1. IInv => NumbersConsecutive
  BY DEF IInv
<1>. QED
  BY Inductive, <1>1, PTL

\* Only approved sub-projects are worked on, completed and closed.
THEOREM WorkApproved == Spec => []WorkIsApproved
<1>1. IInv => WorkIsApproved
  BY DEF IInv
<1>. QED
  BY Inductive, <1>1, PTL

=============================================================================
