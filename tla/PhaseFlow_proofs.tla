-------------------------- MODULE PhaseFlow_proofs --------------------------
(***************************************************************************)
(* Proofs about PhaseFlow, for every number of phases, every set of        *)
(* sessions and every finite set of revoke requests.                       *)
(*                                                                         *)
(* The inductive invariant says what a session may rely on between its     *)
(* steps: what the row locks keep (LocksKeep), what stays true of the rows *)
(* it only read (SeenSubKeeps, ApprovedPhaseKeeps), and how the unique     *)
(* index keeps reviews of one phase apart (PendingOnce).                   *)
(***************************************************************************)
EXTENDS PhaseFlow, FiniteSetTheorems, TLAPS

\* A session that holds the phase rows is alone, and everything it read
\* about them is still so, except that the phase it promotes may have been
\* completed by a promotion it did not see.
LocksKeep ==
  \A s \in Sessions : session[s].at = "promotable" =>
    /\ \A t \in Sessions \ {s} : session[t].at # "promotable"
    /\ session[s].seen[session[s].phase] = "in_progress"
    /\ \A k \in Phases \ {session[s].phase} : session[s].seen[k] = phase[k]
    /\ \A k \in Earlier(session[s].phase) : session[s].seen[k] = "completed"

\* The phase being promoted has been opened before.
PromotedIsOpen ==
  \A s \in Sessions : session[s].at \in {"loading", "promoting", "promotable"} =>
    phase[session[s].phase] # "waiting"

\* A sub-project seen outside in_progress has not come back to it.
SeenSubKeeps ==
  \A s \in Sessions : session[s].seenSub # "in_progress" => sub # "in_progress"

\* A request under review is pending, and reviewed by one session.
ReviewKeeps ==
  \A s \in Sessions :
    /\ session[s].request # NoRequest <=> session[s].at \in {"approving", "rejecting"}
    /\ session[s].request # NoRequest =>
         /\ request[session[s].request].status = "pending"
         /\ request[session[s].request].phase = session[s].phase
         /\ \A t \in Sessions \ {s} : session[t].request # session[s].request

\* One pending request for a phase, at most.
PendingOnce ==
  \A p, q \in Requests :
    /\ request[p].status = "pending"
    /\ request[q].status = "pending"
    /\ request[p].phase = request[q].phase
    => p = q

\* The phase whose revocation is being approved stays completed.
ApprovedPhaseKeeps ==
  \A s \in Sessions : session[s].at = "approving" => phase[session[s].phase] = "completed"

\* Fewer revocations than promotions while a phase is completed, never more.
HistoryCounts ==
  \A n \in Phases :
    /\ promotions[n] >= rollbacks[n]
    /\ phase[n] = "completed" => promotions[n] > rollbacks[n]

IInv ==
  /\ TypeOK
  /\ LocksKeep
  /\ PromotedIsOpen
  /\ SeenSubKeeps
  /\ ReviewKeeps
  /\ PendingOnce
  /\ ApprovedPhaseKeeps
  /\ OpenedByPredecessor
  /\ HistoryCounts
  /\ NoLostCompletion

-----------------------------------------------------------------------------
(* Facts about the rules *)

\* The fields of a session at rest.
LEMMA IdleFields ==
  /\ Idle \in SessionRecords
  /\ Idle.at = "idle" /\ Idle.phase = 1 /\ Idle.request = NoRequest
  /\ Idle.seen = InitialPhases /\ Idle.seenSub = "in_progress"
BY PhaseCountAssumption
DEF Idle, SessionRecords, Steps, SubStatuses, Phases, PhaseStatuses, InitialPhases

\* A promotion gives every phase one of the three statuses.
LEMMA AfterPromotionType ==
  ASSUME NEW n \in Phases, NEW st \in [Phases -> PhaseStatuses]
  PROVE  AfterPromotion(n, st) \in [Phases -> PhaseStatuses]
BY DEF AfterPromotion, PhaseStatuses

\* Promoting phase n completes n, opens at most the next one, and writes no
\* other phase.
LEMMA AfterPromotionValues ==
  ASSUME NEW n \in Phases, NEW st \in [Phases -> PhaseStatuses], NEW k \in Phases
  PROVE  /\ k = n => AfterPromotion(n, st)[k] = "completed"
         /\ k # n /\ Opens(n, k, st) => AfterPromotion(n, st)[k] = "in_progress"
         /\ k # n /\ ~ Opens(n, k, st) => AfterPromotion(n, st)[k] = st[k]
BY DEF AfterPromotion

-----------------------------------------------------------------------------
(* Type correctness *)

\* One step of one session keeps every variable in its type.
LEMMA TypeStep ==
  ASSUME TypeOK, NEW s \in Sessions, Step(s)
  PROVE  TypeOK'
<1>0. /\ session[s] \in SessionRecords
      /\ session[s].phase \in Phases
      /\ session[s].seen \in [Phases -> PhaseStatuses]
  BY DEF TypeOK, SessionRecords
<1>1. ASSUME NEW n \in Phases, PromoteLoad(s, n) PROVE TypeOK'
  BY ZenonT(60), <1>1, IdleFields DEF PromoteLoad, TypeOK, SessionRecords, Steps
<1>2. ASSUME NEW n \in Phases, SubmitLoad(s, n) PROVE TypeOK'
  BY <1>2, IdleFields DEF SubmitLoad, TypeOK, SessionRecords, Steps
<1>3. ASSUME NEW q \in Requests, SubmitCommit(s, q) PROVE TypeOK'
  BY <1>0, <1>3, IdleFields DEF SubmitCommit, TypeOK, RequestStatuses
<1>4. ASSUME NEW q \in Requests, NEW d \in {"approving", "rejecting"}, ReviewLoad(s, q, d)
      PROVE  TypeOK'
  BY <1>4, IdleFields DEF ReviewLoad, TypeOK, SessionRecords, Steps
<1>5. CASE PromoteCheck(s)
  <2>1. [phase EXCEPT ![session[s].phase] = "in_progress"] \in [Phases -> PhaseStatuses]
    BY DEF TypeOK, PhaseStatuses
  <2>. QED
    BY <1>0, <1>5, <2>1 DEF PromoteCheck, TypeOK, SessionRecords, Steps
<1>6. CASE PromoteCommit(s)
  <2>1. AfterPromotion(session[s].phase, session[s].seen) \in [Phases -> PhaseStatuses]
    BY <1>0, AfterPromotionType
  <2>2. phase' \in [Phases -> PhaseStatuses] /\ sub' \in SubStatuses
    BY <1>6, <2>1 DEF PromoteCommit, TypeOK, SubStatuses
  <2>3. promotions' \in [Phases -> Nat]
    BY <1>0, <1>6 DEF PromoteCommit, TypeOK
  <2>. QED
    BY <1>6, <2>2, <2>3, IdleFields DEF PromoteCommit, TypeOK
<1>7. CASE ApproveCommit(s)
  <2>1. phase' \in [Phases -> PhaseStatuses] /\ rollbacks' \in [Phases -> Nat]
    BY <1>0, <1>7 DEF ApproveCommit, TypeOK, PhaseStatuses
  <2>2. request' \in [Requests -> [status : RequestStatuses, phase : Phases]]
    BY <1>7 DEF ApproveCommit, TypeOK, RequestStatuses
  <2>. QED
    BY <1>7, <2>1, <2>2, IdleFields DEF ApproveCommit, TypeOK
<1>8. CASE RejectCommit(s)
  <2>1. request' \in [Requests -> [status : RequestStatuses, phase : Phases]]
    BY <1>8 DEF RejectCommit, TypeOK, RequestStatuses
  <2>. QED
    BY <1>8, <2>1, IdleFields DEF RejectCommit, TypeOK
<1>9. CASE CloseLoad(s) \/ TerminateLoad(s)
  <2>1. [Idle EXCEPT !.at = "ending"] \in SessionRecords
        /\ [Idle EXCEPT !.at = "terminating"] \in SessionRecords
    BY IdleFields DEF Idle, SessionRecords, Steps
  <2>. QED
    BY <1>9, <2>1 DEF CloseLoad, TerminateLoad, TypeOK
<1>10. CASE CloseCommit(s) \/ TerminateCommit(s)
  BY <1>10, IdleFields DEF CloseCommit, TerminateCommit, TypeOK, SubStatuses
<1>11. CASE Rollback(s)
  BY <1>11, IdleFields DEF Rollback, TypeOK
<1>12. CASE PromoteLoadSub(s)
  BY <1>0, <1>12 DEF PromoteLoadSub, TypeOK, SessionRecords, Steps
<1>13. CASE SubmitLoadSub(s) \/ SubmitCheck(s) \/ CloseCheck(s)
  <2>1. PICK to \in Steps : session' = [session EXCEPT ![s].at = to]
    BY <1>13 DEF SubmitLoadSub, SubmitCheck, CloseCheck, Steps
  <2>2. [session[s] EXCEPT !.at = to] \in SessionRecords
    BY <1>0 DEF SessionRecords
  <2>3. session' \in [Sessions -> SessionRecords]
    BY <2>1, <2>2 DEF TypeOK
  <2>. QED
    BY <1>13, <2>3 DEF SubmitLoadSub, SubmitCheck, CloseCheck, TypeOK
<1>. QED
  BY <1>1, <1>2, <1>3, <1>4, <1>5, <1>6, <1>7, <1>8, <1>9, <1>10, <1>11, <1>12, <1>13 DEF Step

\* The workflow starts well typed.
LEMMA TypeInit == Init => TypeOK
BY IdleFields, PhaseCountAssumption
DEF Init, TypeOK, Phases, PhaseStatuses, SubStatuses, RequestStatuses, InitialPhases

\* Type correctness: whatever requests interleave, every column keeps to the
\* values the code gives it; no phase is ever "revoked".
THEOREM TypeCorrect == Spec => []TypeOK
<1>1. TypeOK /\ [Next]_vars => TypeOK'
  <2>1. CASE UNCHANGED vars
    BY <2>1 DEF vars, TypeOK
  <2>. QED
    BY <2>1, TypeStep DEF Next
<1>. QED
  BY TypeInit, <1>1, PTL DEF Spec

-----------------------------------------------------------------------------
(* The inductive invariant *)

\* What is true at the start: nothing is in flight, nothing is recorded.
LEMMA IInvInit == Init => IInv
<1> SUFFICES ASSUME Init PROVE IInv
  OBVIOUS
<1>1. TypeOK
  BY TypeInit
<1>2. \A s \in Sessions : session[s] = Idle
  BY DEF Init
<1>3. LocksKeep /\ PromotedIsOpen /\ SeenSubKeeps /\ ReviewKeeps /\ ApprovedPhaseKeeps
  BY <1>2, IdleFields DEF LocksKeep, PromotedIsOpen, SeenSubKeeps, ReviewKeeps, ApprovedPhaseKeeps
<1>4. PendingOnce
  BY DEF Init, PendingOnce
<1>5. /\ \A n \in Phases : promotions[n] = 0 /\ rollbacks[n] = 0
      /\ \A n \in Phases : phase[n] = IF n \in {1, 5, 6} THEN "in_progress" ELSE "waiting"
  BY DEF Init, InitialPhases
<1>6. OpenedByPredecessor
  <2> SUFFICES ASSUME NEW n \in Phases \cap {2, 3, 4}
               PROVE  phase[n] # "waiting" <=> promotions[n - 1] > 0
    BY DEF OpenedByPredecessor
  <2>1. n - 1 \in Phases
    BY PhaseCountAssumption DEF Phases
  <2>. QED
    BY <1>5, <2>1
<1>7. HistoryCounts /\ NoLostCompletion
  <2>1. 1 \in Phases
    BY PhaseCountAssumption DEF Phases
  <2>. QED
    BY <1>5, <2>1 DEF HistoryCounts, NoLostCompletion, AllCompleted
<1>. QED
  BY <1>1, <1>3, <1>4, <1>6, <1>7 DEF IInv

\* A step that changes only the session s, to a record that holds no lock,
\* reviews nothing and has seen of the sub-project only what may be relied on.
LEMMA HarmlessStep ==
  ASSUME IInv, TypeOK', NEW s \in Sessions, NEW r,
         session' = [session EXCEPT ![s] = r],
         r.at \notin {"loading", "promoting", "promotable", "approving", "rejecting"},
         r.request = NoRequest, r.seenSub # "in_progress" => sub # "in_progress",
         UNCHANGED << phase, sub, promotions, rollbacks, request >>
  PROVE  IInv'
<1>1. session'[s] = r /\ \A t \in Sessions \ {s} : session'[t] = session[t]
  BY DEF IInv, TypeOK
<1>2. LocksKeep'
  BY <1>1 DEF IInv, LocksKeep
<1>3. PromotedIsOpen' /\ SeenSubKeeps' /\ ApprovedPhaseKeeps'
  BY <1>1 DEF IInv, PromotedIsOpen, SeenSubKeeps, ApprovedPhaseKeeps
<1>4. ReviewKeeps'
  BY <1>1 DEF IInv, ReviewKeeps
<1>5. PendingOnce' /\ OpenedByPredecessor' /\ HistoryCounts' /\ NoLostCompletion'
  BY DEF IInv, PendingOnce, OpenedByPredecessor, HistoryCounts, NoLostCompletion, AllCompleted
<1>. QED
  BY <1>2, <1>3, <1>4, <1>5 DEF IInv

\* The requests that only begin, or give up.
LEMMA BeginSteps ==
  ASSUME IInv, TypeOK', NEW s \in Sessions,
         \/ \E n \in Phases : SubmitLoad(s, n)
         \/ CloseLoad(s) \/ TerminateLoad(s) \/ Rollback(s)
  PROVE  IInv'
<1>1. CASE \E n \in Phases : SubmitLoad(s, n)
  <2>1. PICK n \in Phases : SubmitLoad(s, n)
    BY <1>1
  <2> DEFINE r == [Idle EXCEPT !.at = "filing", !.phase = n]
  <2>2. r.at = "filing" /\ r.request = NoRequest /\ r.seenSub = "in_progress"
    BY DEF Idle
  <2>. QED
    BY <2>1, <2>2, HarmlessStep DEF SubmitLoad
<1>2. CASE CloseLoad(s)
  <2> DEFINE r == [Idle EXCEPT !.at = "ending"]
  <2>1. r.at = "ending" /\ r.request = NoRequest /\ r.seenSub = "in_progress"
    BY DEF Idle
  <2>. QED
    BY <1>2, <2>1, HarmlessStep DEF CloseLoad
<1>3. CASE TerminateLoad(s)
  <2> DEFINE r == [Idle EXCEPT !.at = "terminating"]
  <2>1. r.at = "terminating" /\ r.request = NoRequest /\ r.seenSub = "in_progress"
    BY DEF Idle
  <2>. QED
    BY <1>3, <2>1, HarmlessStep DEF TerminateLoad
<1>4. CASE Rollback(s)
  BY <1>4, IdleFields, HarmlessStep DEF Rollback
<1>. QED
  BY <1>1, <1>2, <1>3, <1>4

\* The checks that filing and closing pass on their way.
LEMMA WaySteps ==
  ASSUME IInv, TypeOK', NEW s \in Sessions,
         SubmitLoadSub(s) \/ SubmitCheck(s) \/ CloseCheck(s)
  PROVE  IInv'
<1>1. session[s] \in SessionRecords /\ session[s].at \in {"filing", "revocable", "ending"}
  BY DEF SubmitLoadSub, SubmitCheck, CloseCheck, IInv, TypeOK
<1>2. session[s].request = NoRequest /\ (session[s].seenSub # "in_progress" => sub # "in_progress")
  BY <1>1 DEF IInv, ReviewKeeps, SeenSubKeeps
<1>3. PICK to \in {"revocable", "submitting", "closing"} :
        session' = [session EXCEPT ![s].at = to]
  BY DEF SubmitLoadSub, SubmitCheck, CloseCheck
<1> DEFINE r == [session[s] EXCEPT !.at = to]
<1>4. session' = [session EXCEPT ![s] = r]
  BY <1>3
<1>5. r.at = to /\ r.request = session[s].request /\ r.seenSub = session[s].seenSub
  BY <1>1 DEF SessionRecords
<1>6. UNCHANGED << phase, sub, promotions, rollbacks, request >>
  BY DEF SubmitLoadSub, SubmitCheck, CloseCheck
<1> HIDE DEF r
<1>. QED
  BY <1>2, <1>4, <1>5, <1>6, HarmlessStep

\* Beginning a promotion: the phase is open.
LEMMA PromoteLoadStep ==
  ASSUME IInv, TypeOK', NEW s \in Sessions, NEW n \in Phases, PromoteLoad(s, n)
  PROVE  IInv'
<1> DEFINE r == [Idle EXCEPT !.at = "loading", !.phase = n]
<1>1. /\ r.at = "loading" /\ r.phase = n /\ r.request = NoRequest /\ r.seenSub = "in_progress"
  BY DEF Idle
<1>2. session'[s] = r /\ \A t \in Sessions \ {s} : session'[t] = session[t]
  BY DEF PromoteLoad, IInv, TypeOK
<1>3. UNCHANGED << phase, sub, promotions, rollbacks, request >> /\ phase[n] = "in_progress"
  BY DEF PromoteLoad
<1> HIDE DEF r
<1>4. LocksKeep'
  BY <1>1, <1>2, <1>3 DEF IInv, LocksKeep
<1>5. PromotedIsOpen' /\ SeenSubKeeps' /\ ApprovedPhaseKeeps'
  BY <1>1, <1>2, <1>3 DEF IInv, PromotedIsOpen, SeenSubKeeps, ApprovedPhaseKeeps
<1>6. ReviewKeeps'
  BY <1>1, <1>2, <1>3 DEF IInv, ReviewKeeps
<1>7. PendingOnce' /\ OpenedByPredecessor' /\ HistoryCounts' /\ NoLostCompletion'
  BY <1>3 DEF IInv, PendingOnce, OpenedByPredecessor, HistoryCounts, NoLostCompletion, AllCompleted
<1>. QED
  BY <1>4, <1>5, <1>6, <1>7 DEF IInv

\* Seeing the sub-project: what was seen of it is what it is.
LEMMA PromoteLoadSubStep ==
  ASSUME IInv, TypeOK', NEW s \in Sessions, PromoteLoadSub(s)
  PROVE  IInv'
<1>1. /\ session[s].at = "loading"
      /\ session[s] \in SessionRecords
      /\ UNCHANGED << phase, sub, promotions, rollbacks, request >>
  BY DEF PromoteLoadSub, IInv, TypeOK
<1>2. /\ session'[s].at = "promoting" /\ session'[s].phase = session[s].phase
      /\ session'[s].request = session[s].request /\ session'[s].seenSub = sub
      /\ \A t \in Sessions \ {s} : session'[t] = session[t]
  BY <1>1 DEF PromoteLoadSub, IInv, TypeOK, SessionRecords
<1>3. LocksKeep'
  BY <1>1, <1>2 DEF IInv, LocksKeep
<1>4. PromotedIsOpen' /\ SeenSubKeeps' /\ ApprovedPhaseKeeps'
  BY <1>1, <1>2 DEF IInv, PromotedIsOpen, SeenSubKeeps, ApprovedPhaseKeeps
<1>5. ReviewKeeps'
  BY <1>1, <1>2 DEF IInv, ReviewKeeps
<1>6. PendingOnce' /\ OpenedByPredecessor' /\ HistoryCounts' /\ NoLostCompletion'
  BY <1>1 DEF IInv, PendingOnce, OpenedByPredecessor, HistoryCounts, NoLostCompletion, AllCompleted
<1>. QED
  BY <1>3, <1>4, <1>5, <1>6 DEF IInv

\* Taking the row locks: what is read under them is so, except for the phase
\* that was loaded before.
LEMMA PromoteCheckStep ==
  ASSUME IInv, TypeOK', NEW s \in Sessions, PromoteCheck(s)
  PROVE  IInv'
<1> DEFINE n == session[s].phase
           read == [phase EXCEPT ![n] = "in_progress"]
<1>1. n \in Phases /\ session[s] \in SessionRecords /\ phase \in [Phases -> PhaseStatuses]
  BY DEF IInv, TypeOK, SessionRecords
<1>2. /\ \A t \in Sessions \ {s} : session'[t] = session[t]
      /\ session[s].at = "promoting"
      /\ \A t \in Sessions \ {s} : session[t].at # "promotable"
      /\ \A k \in Earlier(n) : read[k] = "completed"
      /\ UNCHANGED << phase, sub, promotions, rollbacks, request >>
  BY DEF PromoteCheck, PhaseRowsFree, IInv, TypeOK
<1>3. /\ session'[s].at = "promotable" /\ session'[s].phase = n /\ session'[s].seen = read
      /\ session'[s].request = session[s].request
      /\ session'[s].seenSub = session[s].seenSub
  <2>1. session' = [session EXCEPT ![s] = [session[s] EXCEPT !.at = "promotable", !.seen = read]]
    BY DEF PromoteCheck, IInv, TypeOK
  <2>. QED
    BY <1>1, <2>1 DEF SessionRecords, IInv, TypeOK
<1>4. read[n] = "in_progress" /\ \A k \in Phases \ {n} : read[k] = phase[k]
  BY <1>1
<1> HIDE DEF n, read
<1>5. LocksKeep'
  BY <1>1, <1>2, <1>3, <1>4 DEF LocksKeep
<1>6. PromotedIsOpen' /\ SeenSubKeeps' /\ ApprovedPhaseKeeps'
  BY <1>1, <1>2, <1>3 DEF IInv, PromotedIsOpen, SeenSubKeeps, ApprovedPhaseKeeps, n
<1>7. ReviewKeeps'
  BY <1>1, <1>2, <1>3 DEF IInv, ReviewKeeps, n
<1>8. PendingOnce' /\ OpenedByPredecessor' /\ HistoryCounts' /\ NoLostCompletion'
  BY <1>2 DEF IInv, PendingOnce, OpenedByPredecessor, HistoryCounts, NoLostCompletion, AllCompleted
<1>. QED
  BY <1>5, <1>6, <1>7, <1>8 DEF IInv

\* A session that goes back to rest changes nothing another one relies on,
\* as far as the parts about sessions alone are concerned.
LEMMA BackToRest ==
  ASSUME TypeOK, NEW s \in Sessions, session' = [session EXCEPT ![s] = Idle]
  PROVE  /\ session'[s].at = "idle" /\ session'[s].request = NoRequest
         /\ session'[s].seenSub = "in_progress"
         /\ \A t \in Sessions \ {s} : session'[t] = session[t]
BY IdleFields DEF TypeOK

\* Closing and terminating write only the sub-project, and never in_progress.
LEMMA FinishStep ==
  ASSUME IInv, TypeOK', NEW s \in Sessions, CloseCommit(s) \/ TerminateCommit(s)
  PROVE  IInv'
<1>1. /\ session' = [session EXCEPT ![s] = Idle]
      /\ sub' # "in_progress"
      /\ UNCHANGED << phase, promotions, rollbacks, request >>
  BY DEF CloseCommit, TerminateCommit
<1>2. /\ session'[s].at = "idle" /\ session'[s].request = NoRequest
      /\ session'[s].seenSub = "in_progress"
      /\ \A t \in Sessions \ {s} : session'[t] = session[t]
  BY <1>1, BackToRest DEF IInv
<1>3. LocksKeep'
  BY <1>1, <1>2 DEF IInv, LocksKeep
<1>4. PromotedIsOpen' /\ SeenSubKeeps' /\ ApprovedPhaseKeeps'
  BY <1>1, <1>2 DEF IInv, PromotedIsOpen, SeenSubKeeps, ApprovedPhaseKeeps
<1>5. ReviewKeeps'
  BY <1>1, <1>2 DEF IInv, ReviewKeeps
<1>6. PendingOnce' /\ OpenedByPredecessor' /\ HistoryCounts' /\ NoLostCompletion'
  BY <1>1 DEF IInv, PendingOnce, OpenedByPredecessor, HistoryCounts, NoLostCompletion, AllCompleted
<1>. QED
  BY <1>3, <1>4, <1>5, <1>6 DEF IInv

\* Filing a request: the unique index has seen no other pending one.
LEMMA SubmitCommitStep ==
  ASSUME IInv, TypeOK', NEW s \in Sessions, NEW q \in Requests, SubmitCommit(s, q)
  PROVE  IInv'
<1> DEFINE n == session[s].phase
<1>1. /\ session' = [session EXCEPT ![s] = Idle]
      /\ request[q].status = "unfiled"
      /\ NonePending(n)
      /\ request' = [request EXCEPT ![q] = [status |-> "pending", phase |-> n]]
      /\ UNCHANGED << phase, sub, promotions, rollbacks >>
  BY DEF SubmitCommit
<1>2. /\ session'[s].at = "idle" /\ session'[s].request = NoRequest
      /\ session'[s].seenSub = "in_progress"
      /\ \A t \in Sessions \ {s} : session'[t] = session[t]
  BY <1>1, BackToRest DEF IInv
<1>3. /\ request'[q].status = "pending" /\ request'[q].phase = n
      /\ \A p \in Requests \ {q} : request'[p] = request[p]
  BY <1>1 DEF IInv, TypeOK
<1>4. \A t \in Sessions : session[t].request # q
  BY <1>1, RequestsAssumption DEF IInv, ReviewKeeps
<1>5. \A t \in Sessions : session[t].request \in Requests \cup {NoRequest}
  BY DEF IInv, TypeOK, SessionRecords
<1> HIDE DEF n
<1>6. LocksKeep'
  BY <1>1, <1>2 DEF IInv, LocksKeep
<1>7. PromotedIsOpen' /\ SeenSubKeeps' /\ ApprovedPhaseKeeps'
  BY <1>1, <1>2 DEF IInv, PromotedIsOpen, SeenSubKeeps, ApprovedPhaseKeeps
<1>8. ReviewKeeps'
  BY <1>2, <1>3, <1>4, <1>5 DEF IInv, ReviewKeeps
<1>9. PendingOnce'
  BY <1>1, <1>3 DEF IInv, PendingOnce, NonePending
<1>10. OpenedByPredecessor' /\ HistoryCounts' /\ NoLostCompletion'
  BY <1>1 DEF IInv, OpenedByPredecessor, HistoryCounts, NoLostCompletion, AllCompleted
<1>. QED
  BY <1>6, <1>7, <1>8, <1>9, <1>10 DEF IInv

\* Taking a request up: its row lock keeps every other reviewer away.
LEMMA ReviewLoadStep ==
  ASSUME IInv, TypeOK', NEW s \in Sessions, NEW q \in Requests,
         NEW d \in {"approving", "rejecting"}, ReviewLoad(s, q, d)
  PROVE  IInv'
<1> DEFINE r == [Idle EXCEPT !.at = d, !.phase = request[q].phase, !.request = q]
<1>1. /\ r.at = d /\ r.phase = request[q].phase /\ r.request = q
      /\ r.seenSub = "in_progress"
  BY DEF Idle
<1>2. session'[s] = r /\ \A t \in Sessions \ {s} : session'[t] = session[t]
  BY DEF ReviewLoad, IInv, TypeOK
<1>3. /\ \A t \in Sessions \ {s} : session[t].request # q
      /\ request[q].status = "pending"
      /\ d = "approving" => phase[request[q].phase] = "completed"
      /\ UNCHANGED << phase, sub, promotions, rollbacks, request >>
  BY DEF ReviewLoad, RequestRowFree, Revocable
<1> HIDE DEF r
<1>4. LocksKeep'
  BY <1>1, <1>2, <1>3 DEF IInv, LocksKeep
<1>5. PromotedIsOpen' /\ SeenSubKeeps' /\ ApprovedPhaseKeeps'
  BY <1>1, <1>2, <1>3 DEF IInv, PromotedIsOpen, SeenSubKeeps, ApprovedPhaseKeeps
<1>6. ReviewKeeps'
  BY <1>1, <1>2, <1>3, RequestsAssumption DEF IInv, ReviewKeeps
<1>7. PendingOnce' /\ OpenedByPredecessor' /\ HistoryCounts' /\ NoLostCompletion'
  BY <1>3 DEF IInv, PendingOnce, OpenedByPredecessor, HistoryCounts, NoLostCompletion, AllCompleted
<1>. QED
  BY <1>4, <1>5, <1>6, <1>7 DEF IInv

\* A decided request is no longer pending, and no one else reviews it.
LEMMA RejectCommitStep ==
  ASSUME IInv, TypeOK', NEW s \in Sessions, RejectCommit(s)
  PROVE  IInv'
<1> DEFINE q == session[s].request
<1>1. /\ session[s].at = "rejecting"
      /\ session' = [session EXCEPT ![s] = Idle]
      /\ request' = [request EXCEPT ![q].status = "rejected"]
      /\ UNCHANGED << phase, sub, promotions, rollbacks >>
  BY DEF RejectCommit
<1>2. q \in Requests /\ \A t \in Sessions \ {s} : session[t].request # q
  BY <1>1 DEF IInv, TypeOK, SessionRecords, ReviewKeeps
<1>3. /\ session'[s].at = "idle" /\ session'[s].request = NoRequest
      /\ session'[s].seenSub = "in_progress"
      /\ \A t \in Sessions \ {s} : session'[t] = session[t]
  BY <1>1, BackToRest DEF IInv
<1>4. /\ request'[q].status = "rejected"
      /\ \A p \in Requests \ {q} : request'[p] = request[p]
  BY <1>1, <1>2 DEF IInv, TypeOK
<1>5. \A t \in Sessions : session[t].request \in Requests \cup {NoRequest}
  BY DEF IInv, TypeOK, SessionRecords
<1> HIDE DEF q
<1>6. LocksKeep'
  BY <1>1, <1>3 DEF IInv, LocksKeep
<1>7. PromotedIsOpen' /\ SeenSubKeeps' /\ ApprovedPhaseKeeps'
  BY <1>1, <1>3 DEF IInv, PromotedIsOpen, SeenSubKeeps, ApprovedPhaseKeeps
<1>8. ReviewKeeps'
  BY <1>2, <1>3, <1>4, <1>5 DEF IInv, ReviewKeeps
<1>9. PendingOnce'
  BY <1>4 DEF IInv, PendingOnce
<1>10. OpenedByPredecessor' /\ HistoryCounts' /\ NoLostCompletion'
  BY <1>1 DEF IInv, OpenedByPredecessor, HistoryCounts, NoLostCompletion, AllCompleted
<1>. QED
  BY <1>6, <1>7, <1>8, <1>9, <1>10 DEF IInv

\* Approving a revocation: no promotion holds the phase rows, and no other
\* review is about the same phase.
LEMMA ApproveCommitStep ==
  ASSUME IInv, TypeOK', NEW s \in Sessions, ApproveCommit(s)
  PROVE  IInv'
<1> DEFINE n == session[s].phase
           q == session[s].request
<1>1. /\ session[s].at = "approving"
      /\ \A t \in Sessions \ {s} : session[t].at # "promotable"
      /\ session' = [session EXCEPT ![s] = Idle]
      /\ request' = [request EXCEPT ![q].status = "approved"]
      /\ phase' = [phase EXCEPT ![n] = "in_progress"]
      /\ rollbacks' = [rollbacks EXCEPT ![n] = @ + 1]
      /\ UNCHANGED << sub, promotions >>
  BY DEF ApproveCommit, PhaseRowsFree
<1>2. /\ n \in Phases /\ q \in Requests /\ phase[n] = "completed"
      /\ request[q].status = "pending" /\ request[q].phase = n
      /\ \A t \in Sessions \ {s} : session[t].request # q
  BY <1>1 DEF IInv, TypeOK, SessionRecords, ReviewKeeps, ApprovedPhaseKeeps
<1>3. /\ session'[s].at = "idle" /\ session'[s].request = NoRequest
      /\ session'[s].seenSub = "in_progress"
      /\ \A t \in Sessions \ {s} : session'[t] = session[t]
  BY <1>1, BackToRest DEF IInv
<1>4. /\ request'[q].status = "approved"
      /\ \A p \in Requests \ {q} : request'[p] = request[p]
  BY <1>1, <1>2 DEF IInv, TypeOK
<1>5. /\ phase'[n] = "in_progress" /\ \A k \in Phases \ {n} : phase'[k] = phase[k]
      /\ rollbacks'[n] = rollbacks[n] + 1
      /\ \A k \in Phases \ {n} : rollbacks'[k] = rollbacks[k]
  BY <1>1, <1>2 DEF IInv, TypeOK
<1>6. /\ \A t \in Sessions : session[t].request \in Requests \cup {NoRequest}
      /\ \A t \in Sessions : session[t].phase \in Phases
      /\ \A k \in Phases : promotions[k] \in Nat /\ rollbacks[k] \in Nat
  BY DEF IInv, TypeOK, SessionRecords
<1> HIDE DEF n, q
<1>7. LocksKeep'
  BY <1>1, <1>3 DEF LocksKeep
<1>8. PromotedIsOpen' /\ SeenSubKeeps'
  BY <1>1, <1>3, <1>5, <1>6 DEF IInv, PromotedIsOpen, SeenSubKeeps
<1>9. ReviewKeeps'
  BY <1>2, <1>3, <1>4, <1>6 DEF IInv, ReviewKeeps
<1>10. PendingOnce'
  BY <1>4 DEF IInv, PendingOnce
<1>11. ApprovedPhaseKeeps'
  <2> SUFFICES ASSUME NEW t \in Sessions, session'[t].at = "approving"
               PROVE  phase'[session'[t].phase] = "completed"
    BY DEF ApprovedPhaseKeeps
  <2>1. t # s /\ session'[t] = session[t]
    BY <1>3
  <2>2. /\ session[t].request \in Requests
        /\ request[session[t].request].status = "pending"
        /\ request[session[t].request].phase = session[t].phase
    BY <1>6, <2>1 DEF IInv, ReviewKeeps
  <2>3. session[t].phase # n
    BY <1>2, <2>1, <2>2 DEF IInv, PendingOnce
  <2>4. phase[session[t].phase] = "completed"
    BY <2>1 DEF IInv, ApprovedPhaseKeeps
  <2>. QED
    BY <1>5, <1>6, <2>1, <2>3, <2>4
<1>12. OpenedByPredecessor'
  BY <1>1, <1>2, <1>5 DEF IInv, OpenedByPredecessor
<1>13. HistoryCounts'
  BY <1>1, <1>2, <1>5, <1>6 DEF IInv, HistoryCounts
<1>14. NoLostCompletion'
  BY <1>2, <1>5 DEF NoLostCompletion, AllCompleted
<1>. QED
  BY <1>7, <1>8, <1>9, <1>10, <1>11, <1>12, <1>13, <1>14 DEF IInv

\* What a promotion writes is what the rules make of the phases as they are
\* when it writes, although it computed it from what it had read.
LEMMA PromoteWrites ==
  ASSUME IInv, NEW s \in Sessions, PromoteCommit(s)
  PROVE  /\ phase' = AfterPromotion(session[s].phase, session[s].seen)
         /\ phase' = AfterPromotion(session[s].phase, phase)
<1> DEFINE n == session[s].phase
           seen == session[s].seen
<1>1. /\ n \in Phases /\ seen \in [Phases -> PhaseStatuses]
      /\ phase \in [Phases -> PhaseStatuses]
  BY DEF IInv, TypeOK, SessionRecords
<1>2. \A k \in Phases \ {n} : seen[k] = phase[k]
  BY DEF IInv, LocksKeep, PromoteCommit
<1>3. phase' = [k \in Phases |-> IF k = n \/ Opens(n, k, seen)
                                 THEN AfterPromotion(n, seen)[k] ELSE phase[k]]
  BY DEF PromoteCommit
<1> HIDE DEF n, seen
<1>4. \A k \in Phases \ {n} : Opens(n, k, seen) <=> Opens(n, k, phase)
  BY <1>2 DEF Opens
<1>5. phase' = AfterPromotion(n, seen)
  BY <1>1, <1>2, <1>3 DEF AfterPromotion
<1>6. AfterPromotion(n, seen) = AfterPromotion(n, phase)
  BY <1>2, <1>4 DEF AfterPromotion
<1>. QED
  BY <1>5, <1>6 DEF n, seen

\* Committing a promotion.
LEMMA PromoteCommitStep ==
  ASSUME IInv, TypeOK', NEW s \in Sessions, PromoteCommit(s)
  PROVE  IInv'
<1> DEFINE n == session[s].phase
           seen == session[s].seen
<1>1. /\ session[s].at = "promotable"
      /\ promotions' = [promotions EXCEPT ![n] = @ + 1]
      /\ sub' = IF AllCompleted(AfterPromotion(n, seen)) /\ session[s].seenSub # "completed"
                THEN "completed" ELSE sub
      /\ session' = [session EXCEPT ![s] = Idle]
      /\ UNCHANGED << rollbacks, request >>
  BY DEF PromoteCommit
<1>2. /\ n \in Phases /\ phase \in [Phases -> PhaseStatuses]
      /\ phase[n] # "waiting"
      /\ \A t \in Sessions \ {s} : session[t].at # "promotable"
  BY <1>1 DEF IInv, TypeOK, SessionRecords, LocksKeep, PromotedIsOpen
<1>3. /\ session'[s].at = "idle" /\ session'[s].request = NoRequest
      /\ session'[s].seenSub = "in_progress"
      /\ \A t \in Sessions \ {s} : session'[t] = session[t]
  BY <1>1, BackToRest DEF IInv
<1>4. phase' = AfterPromotion(n, seen) /\ phase' = AfterPromotion(n, phase)
  BY PromoteWrites
<1>5. /\ \A t \in Sessions : session[t].phase \in Phases
      /\ \A k \in Phases : promotions[k] \in Nat /\ rollbacks[k] \in Nat
      /\ promotions'[n] = promotions[n] + 1
      /\ \A k \in Phases \ {n} : promotions'[k] = promotions[k]
  BY <1>1, <1>2 DEF IInv, TypeOK, SessionRecords
<1> HIDE DEF n, seen
<1>6. /\ phase'[n] = "completed"
      /\ \A k \in Phases : Opens(n, k, phase) =>
           k # n /\ phase[k] = "waiting" /\ phase'[k] = "in_progress"
      /\ \A k \in Phases \ {n} : ~ Opens(n, k, phase) => phase'[k] = phase[k]
  BY <1>2, <1>4 DEF AfterPromotion, Opens, Phases
<1>7. LocksKeep'
  BY <1>2, <1>3 DEF LocksKeep
<1>8. PromotedIsOpen'
  BY <1>3, <1>5, <1>6 DEF IInv, PromotedIsOpen
<1>9. SeenSubKeeps'
  BY <1>1, <1>3 DEF IInv, SeenSubKeeps
<1>10. ReviewKeeps' /\ PendingOnce'
  BY <1>1, <1>3 DEF IInv, ReviewKeeps, PendingOnce
<1>11. ApprovedPhaseKeeps'
  BY <1>3, <1>5, <1>6 DEF IInv, ApprovedPhaseKeeps
<1>12. OpenedByPredecessor'
  <2> SUFFICES ASSUME NEW k \in Phases \cap {2, 3, 4}
               PROVE  phase'[k] # "waiting" <=> promotions'[k - 1] > 0
    BY DEF OpenedByPredecessor
  <2>1. k - 1 \in Phases /\ (phase[k] # "waiting" <=> promotions[k - 1] > 0)
    BY PhaseCountAssumption DEF IInv, OpenedByPredecessor, Phases
  <2>2. CASE n = k - 1
    <3>1. promotions'[n] > 0
      BY <1>2, <1>5
    <3>2. phase[k] = "waiting" => Opens(n, k, phase)
      BY <2>2 DEF Opens
    <3>. QED
      BY <1>6, <2>2, <3>1, <3>2
  <2>3. CASE n = k
    BY <1>2, <1>5, <1>6, <2>1, <2>3, PhaseCountAssumption DEF Phases
  <2>4. CASE n # k - 1 /\ n # k
    <3>1. ~ Opens(n, k, phase)
      BY <1>2, <2>4, PhaseCountAssumption DEF Opens, Phases
    <3>. QED
      BY <1>5, <1>6, <2>1, <2>4, <3>1
  <2>. QED
    BY <2>2, <2>3, <2>4
<1>13. HistoryCounts'
  BY <1>1, <1>2, <1>5, <1>6 DEF IInv, HistoryCounts
<1>14. NoLostCompletion'
  <2> SUFFICES ASSUME AllCompleted(phase') PROVE sub' # "in_progress"
    BY DEF NoLostCompletion
  <2>1. AllCompleted(AfterPromotion(n, seen))
    BY <1>4 DEF AllCompleted
  <2>2. session[s].seenSub = "completed" => sub # "in_progress"
    BY DEF IInv, SeenSubKeeps
  <2>. QED
    BY <1>1, <2>1, <2>2
<1>. QED
  BY <1>7, <1>8, <1>9, <1>10, <1>11, <1>12, <1>13, <1>14 DEF IInv

\* Every step keeps the invariant.
LEMMA IInvStep == IInv /\ [Next]_vars => IInv'
<1> SUFFICES ASSUME IInv, [Next]_vars PROVE IInv'
  OBVIOUS
<1>1. CASE UNCHANGED vars
  BY <1>1 DEF vars, IInv, TypeOK, LocksKeep, PromotedIsOpen, SeenSubKeeps, ReviewKeeps,
              PendingOnce, ApprovedPhaseKeeps, OpenedByPredecessor, HistoryCounts,
              NoLostCompletion, AllCompleted
<1>2. CASE Next
  <2>1. PICK s \in Sessions : Step(s)
    BY <1>2 DEF Next
  <2>2. TypeOK'
    BY <2>1, TypeStep DEF IInv
  <2>. QED
    BY <2>1, <2>2, BeginSteps, WaySteps, PromoteLoadStep, PromoteLoadSubStep, PromoteCheckStep,
       PromoteCommitStep, SubmitCommitStep, ReviewLoadStep, ApproveCommitStep, RejectCommitStep, FinishStep
    DEF Step
<1>. QED
  BY <1>1, <1>2

\* The strengthened invariant holds in every reachable state.
THEOREM Inductive == Spec => []IInv
BY IInvInit, IInvStep, PTL DEF Spec

-----------------------------------------------------------------------------
(* What the invariant gives *)

\* No completion is lost: concurrent promotions of the last open phases never
\* leave a sub-project in progress with every phase completed.
THEOREM CompletionNotLost == Spec => []NoLostCompletion
<1>1. IInv => NoLostCompletion
  BY DEF IInv
<1>. QED
  BY Inductive, <1>1, PTL

\* A main-line phase is open exactly when its predecessor was promoted.
THEOREM PhasesOpenInOrder == Spec => []OpenedByPredecessor
<1>1. IInv => OpenedByPredecessor
  BY DEF IInv
<1>. QED
  BY Inductive, <1>1, PTL

\* A completed phase has a promotion no revocation has undone.
THEOREM CompletionIsRecorded == Spec => []CompletedIsRecorded
<1>1. IInv => CompletedIsRecorded
  BY SMTT(30) DEF IInv, HistoryCounts, CompletedIsRecorded
<1>. QED
  BY Inductive, <1>1, PTL

\* A step that rolls a phase back is the approval of one session.
LEMMA OnlyApprovalsRollBack ==
  ASSUME TypeOK, NEW s \in Sessions, Step(s), rollbacks' # rollbacks
  PROVE  ApproveCommit(s)
BY DEF Step, PromoteLoad, PromoteLoadSub, SubmitLoad, SubmitLoadSub, SubmitCheck, SubmitCommit, ReviewLoad,
                PromoteCheck, PromoteCommit, RejectCommit, CloseLoad, CloseCheck, CloseCommit, TerminateLoad,
       TerminateCommit, Rollback

\* A revocation reopens a phase that is completed at that moment, although
\* the decision read it earlier, without a lock.
THEOREM RevocationsReopenCompleted == Spec => ReopensOnlyCompleted
<1>1. IInv /\ [Next]_vars =>
        [\A n \in Phases : rollbacks'[n] # rollbacks[n] =>
           phase[n] = "completed" /\ phase'[n] = "in_progress"]_vars
  <2> SUFFICES ASSUME IInv, Next, NEW n \in Phases, rollbacks'[n] # rollbacks[n]
               PROVE  phase[n] = "completed" /\ phase'[n] = "in_progress"
    OBVIOUS
  <2>1. PICK s \in Sessions : Step(s)
    BY DEF Next
  <2>2. ApproveCommit(s)
    BY <2>1, OnlyApprovalsRollBack DEF IInv
  <2>3. n = session[s].phase
    BY <2>2 DEF ApproveCommit, IInv, TypeOK
  <2>4. phase[n] = "completed"
    BY <2>2, <2>3 DEF ApproveCommit, IInv, ApprovedPhaseKeeps
  <2>5. phase'[n] = "in_progress"
    BY <2>2, <2>3 DEF ApproveCommit, IInv, TypeOK
  <2>. QED
    BY <2>4, <2>5
<1>. QED
  BY Inductive, <1>1, PTL DEF Spec, ReopensOnlyCompleted

-----------------------------------------------------------------------------
(* Every approval rolls back once *)

ApprovedOf(n) == {q \in Requests : request[q].status = "approved" /\ request[q].phase = n}

\* One step of one session keeps the count of approvals and that of
\* rollbacks together.
LEMMA OneRollbackStep ==
  ASSUME IInv, OneRollbackPerApproval, NEW s \in Sessions, Step(s)
  PROVE  OneRollbackPerApproval'
<1> SUFFICES ASSUME NEW n \in Phases
             PROVE  rollbacks'[n] = Cardinality(ApprovedOf(n)')
  BY DEF OneRollbackPerApproval, ApprovedOf
<1>1. rollbacks[n] = Cardinality(ApprovedOf(n))
  BY DEF OneRollbackPerApproval, ApprovedOf
<1>2. CASE ApproveCommit(s)
  <2> DEFINE q == session[s].request
  <2>1. /\ q \in Requests /\ request[q].status = "pending"
        /\ request[q].phase = session[s].phase /\ session[s].phase \in Phases
    BY <1>2 DEF ApproveCommit, IInv, TypeOK, SessionRecords, ReviewKeeps
  <2>2. /\ request'[q].status = "approved" /\ request'[q].phase = session[s].phase
        /\ \A p \in Requests \ {q} : request'[p] = request[p]
    BY <1>2, <2>1 DEF ApproveCommit, IInv, TypeOK
  <2>3. rollbacks'[n] = IF n = session[s].phase THEN rollbacks[n] + 1 ELSE rollbacks[n]
    BY <1>2, <2>1 DEF ApproveCommit, IInv, TypeOK
  <2> HIDE DEF q
  <2>4. CASE n = session[s].phase
    <3>1. ApprovedOf(n)' = ApprovedOf(n) \cup {q} /\ q \notin ApprovedOf(n)
      BY <2>1, <2>2, <2>4 DEF ApprovedOf
    <3>2. IsFiniteSet(ApprovedOf(n))
      BY RequestsAssumption, FS_Subset DEF ApprovedOf
    <3>. QED
      BY ZenonT(60), <1>1, <2>3, <2>4, <3>1, <3>2, FS_AddElement
  <2>5. CASE n # session[s].phase
    <3>1. ApprovedOf(n)' = ApprovedOf(n)
      BY <2>1, <2>2, <2>5 DEF ApprovedOf
    <3>. QED
      BY <1>1, <2>3, <2>5, <3>1
  <2>. QED
    BY <2>4, <2>5
<1>3. CASE ~ ApproveCommit(s)
  <2>1. rollbacks' = rollbacks
    BY <1>3, OnlyApprovalsRollBack DEF IInv
  <2>2. ApprovedOf(n)' = ApprovedOf(n)
    <3>1. CASE \E q \in Requests : SubmitCommit(s, q)
      BY <3>1 DEF SubmitCommit, ApprovedOf, IInv, TypeOK
    <3>2. CASE RejectCommit(s)
      <4>1. session[s].request \in Requests /\ request[session[s].request].status = "pending"
        BY <3>2 DEF RejectCommit, IInv, TypeOK, SessionRecords, ReviewKeeps
      <4>2. /\ request'[session[s].request].status = "rejected"
            /\ \A p \in Requests \ {session[s].request} : request'[p] = request[p]
        BY <3>2, <4>1 DEF RejectCommit, IInv, TypeOK
      <4>. QED
        BY <4>1, <4>2 DEF ApprovedOf
    <3>3. CASE request' = request
      BY <3>3 DEF ApprovedOf
    <3>4. \/ \E q \in Requests : SubmitCommit(s, q)
          \/ RejectCommit(s)
          \/ request' = request
      BY <1>3 DEF Step, PromoteLoad, PromoteLoadSub, SubmitLoad, SubmitLoadSub, SubmitCheck, ReviewLoad, PromoteCheck,
                  PromoteCommit, CloseLoad, CloseCheck, CloseCommit, TerminateLoad, TerminateCommit, Rollback
    <3>. QED
      BY <3>1, <3>2, <3>3, <3>4
  <2>. QED
    BY <1>1, <2>1, <2>2
<1>. QED
  BY <1>2, <1>3

\* Every approved revocation rolled its phase back exactly once, however many
\* reviewers decide on requests at the same time.
THEOREM ApprovalsRollBackOnce == Spec => []OneRollbackPerApproval
<1>1. Init => OneRollbackPerApproval
  <2> SUFFICES ASSUME Init, NEW n \in Phases
               PROVE  rollbacks[n] = Cardinality(ApprovedOf(n))
    BY DEF OneRollbackPerApproval, ApprovedOf
  <2>1. ApprovedOf(n) = {} /\ rollbacks[n] = 0
    BY DEF Init, ApprovedOf
  <2>. QED
    BY <2>1, FS_EmptySet
<1>2. IInv /\ OneRollbackPerApproval /\ [Next]_vars => OneRollbackPerApproval'
  <2>1. CASE UNCHANGED vars
    BY <2>1 DEF vars, OneRollbackPerApproval
  <2>. QED
    BY <2>1, OneRollbackStep DEF Next
<1>. QED
  BY Inductive, <1>1, <1>2, PTL DEF Spec

-----------------------------------------------------------------------------
(* PhaseFlow implements PhaseContract *)

\* The contract's rules are the same rules.
LEMMA SameRules ==
  /\ Contract!Phases = Phases
  /\ Contract!InitialPhases = InitialPhases
  /\ \A n : Contract!Earlier(n) = Earlier(n)
  /\ \A n, st : Contract!AfterPromotion(n, st) = AfterPromotion(n, st)
  /\ \A st : Contract!AllCompleted(st) <=> AllCompleted(st)
BY DEF Contract!Phases, Phases, Contract!InitialPhases, InitialPhases, Contract!Earlier,
       Earlier, Contract!AfterPromotion, AfterPromotion, Contract!Opens, Opens,
       Contract!AllCompleted, AllCompleted

\* A promotion's commit is one Promote of the contract: its checks, made on
\* what was read earlier, hold of the phases it writes to.
LEMMA PromoteImplements ==
  ASSUME IInv, NEW s \in Sessions, PromoteCommit(s)
  PROVE  Contract!Promote(session[s].phase)
<1> DEFINE n == session[s].phase
           seen == session[s].seen
<1>1. n \in Phases /\ session[s].at = "promotable"
  BY DEF PromoteCommit, IInv, TypeOK, SessionRecords
<1>2. phase[n] # "waiting"
  BY <1>1 DEF IInv, PromotedIsOpen
<1>3. \A k \in Earlier(n) : phase[k] = "completed"
  <2> SUFFICES ASSUME NEW k \in Earlier(n) PROVE phase[k] = "completed"
    OBVIOUS
  <2>1. k \in Phases \ {n}
    BY <1>1, PhaseCountAssumption DEF Earlier, Phases
  <2>. QED
    BY <1>1, <2>1 DEF IInv, LocksKeep
<1>4. phase' = AfterPromotion(n, seen) /\ phase' = AfterPromotion(n, phase)
  BY PromoteWrites
<1>5. sub' = IF AllCompleted(AfterPromotion(n, seen)) /\ session[s].seenSub # "completed"
             THEN "completed" ELSE sub
  BY DEF PromoteCommit
<1>6. session[s].seenSub = "completed" => sub # "in_progress"
  BY DEF IInv, SeenSubKeeps
<1>7. AllCompleted(phase') <=> AllCompleted(AfterPromotion(n, seen))
  BY <1>4 DEF AllCompleted
<1> HIDE DEF n, seen
<1>8. \/ AllCompleted(phase') /\ sub' = "completed"
      \/ (AllCompleted(phase') => sub # "in_progress") /\ sub' = sub
  BY <1>5, <1>6, <1>7
<1>. QED
  BY <1>2, <1>3, <1>4, <1>8, SameRules DEF Contract!Promote, n

\* Implementation: seen from the two status columns, the interleaved requests
\* only take the steps of the contract.
THEOREM FlowImplementsContract == Spec => ImplementsContract
<1>1. Init => Contract!Init
  BY SameRules DEF Init, Contract!Init
<1>2. IInv /\ [Next]_vars => [Contract!Next]_(Contract!vars)
  <2> SUFFICES ASSUME IInv, Next, << phase, sub >>' # << phase, sub >>
               PROVE  Contract!Next
    BY DEF vars, Contract!vars
  <2>1. PICK s \in Sessions : Step(s)
    BY DEF Next
  <2>2. session[s].phase \in Phases
    BY DEF IInv, TypeOK, SessionRecords
  <2>3. CASE PromoteCommit(s)
    BY <2>2, <2>3, PromoteImplements, SameRules DEF Contract!Next
  <2>4. CASE ApproveCommit(s)
    <3>1. Contract!Reopen(session[s].phase)
      BY <2>4 DEF ApproveCommit, Contract!Reopen, IInv, ApprovedPhaseKeeps
    <3>. QED
      BY <2>2, <3>1, SameRules DEF Contract!Next
  <2>5. CASE CloseCommit(s) \/ TerminateCommit(s)
    BY SMTT(30), <2>5 DEF CloseCommit, TerminateCommit, Contract!Next, Contract!Finish
  <2>6. \/ PromoteCommit(s) \/ ApproveCommit(s) \/ CloseCommit(s) \/ TerminateCommit(s)
    BY <2>1 DEF Step, PromoteLoad, PromoteLoadSub, SubmitLoad, SubmitLoadSub, SubmitCheck, SubmitCommit, ReviewLoad,
                PromoteCheck, RejectCommit, CloseLoad, CloseCheck, TerminateLoad, Rollback
  <2>. QED
    BY <2>3, <2>4, <2>5, <2>6
<1>. QED
  BY Inductive, <1>1, <1>2, PTL DEF Spec, ImplementsContract, Contract!Spec

=============================================================================
