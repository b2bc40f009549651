----------------------------- MODULE PhaseFlow -----------------------------
(***************************************************************************)
(* The phases of one approved sub-project and the requests that change     *)
(* them: promotion (services/phases.py), revocation                        *)
(* (services/revoke_requests.py), closing and terminating                  *)
(* (services/sub_projects.py).                                             *)
(*                                                                         *)
(* A session is one HTTP request with its own database session.  It reads  *)
(* rows, may take row locks, decides in Python on what it READ, and writes *)
(* at its commit.  PostgreSQL runs READ COMMITTED, so another session may  *)
(* commit between any two of those steps; and a row already loaded is not  *)
(* refreshed by a later SELECT ... FOR UPDATE of the same session, which   *)
(* is why a session carries what it saw.  Every read whose outcome another *)
(* session can change is a step of its own.  Locks that delay a commit     *)
(* without changing what it does are left out.                             *)
(*                                                                         *)
(* Whether the documents, vouchers and acceptance steps a promotion needs  *)
(* are on file is not kept here: a failed check is a Rollback.             *)
(***************************************************************************)
EXTENDS PhaseRules, FiniteSets

CONSTANTS
  Sessions,      \* HTTP requests that may be in flight together
  Requests,      \* revoke requests that may ever be filed (the only bound)
  NoRequest      \* what a session that reviews nothing refers to

ASSUME RequestsAssumption == IsFiniteSet(Requests) /\ NoRequest \notin Requests

VARIABLES
  phase,         \* phases.status, by phase_no
  sub,           \* sub_projects.status
  promotions,    \* phase_history rows with note "promoted", by phase
  rollbacks,     \* phase_history rows with note "revoked", by phase
  request,       \* revoke_requests rows
  session        \* what each session is doing, and what it has read

vars == << phase, sub, promotions, rollbacks, request, session >>

RequestStatuses == {"unfiled", "pending", "approved", "rejected"}

\* A rolled back sub-project must be neither finished nor abandoned.
LockedRevokeStatuses == {"completed", "closed", "terminated"}

Steps == {"idle", "loading", "promoting", "promotable",
          "filing", "revocable", "submitting", "approving", "rejecting",
          "ending", "closing", "terminating"}

\* A session at rest; the fields an operation does not use keep these values.
Idle == [at |-> "idle", phase |-> 1, request |-> NoRequest,
         seen |-> InitialPhases, seenSub |-> "in_progress"]

Init ==
  /\ phase = InitialPhases
  /\ sub = "in_progress"
  /\ promotions = [n \in Phases |-> 0]
  /\ rollbacks = [n \in Phases |-> 0]
  /\ request = [q \in Requests |-> [status |-> "unfiled", phase |-> 1]]
  /\ session = [s \in Sessions |-> Idle]

-----------------------------------------------------------------------------
(* Row locks, derived from where the sessions are. *)

\* SELECT ... FOR UPDATE of all the phases of the sub-project is held from
\* list_phases_for_update to the end of the promotion.
PhaseRowsFree(s) == \A t \in Sessions \ {s} : session[t].at # "promotable"

\* A reviewer holds the row of the request from its first read.
RequestRowFree(s, q) == \A t \in Sessions \ {s} : session[t].request # q

\* uq_revoke_requests_pending_phase: one pending request for a phase.
NonePending(n) ==
  \A q \in Requests : ~ (request[q].status = "pending" /\ request[q].phase = n)

-----------------------------------------------------------------------------
(* promote_phase *)

\* Loads the phase, unlocked.
PromoteLoad(s, n) ==
  /\ session[s] = Idle
  /\ phase[n] = "in_progress"
  /\ session' = [session EXCEPT ![s] = [Idle EXCEPT !.at = "loading", !.phase = n]]
  /\ UNCHANGED << phase, sub, promotions, rollbacks, request >>

\* Loads the sub-project, unlocked; its status is not looked at.
PromoteLoadSub(s) ==
  /\ session[s].at = "loading"
  /\ session' = [session EXCEPT ![s].at = "promoting", ![s].seenSub = sub]
  /\ UNCHANGED << phase, sub, promotions, rollbacks, request >>

\* Mutants of PromoteCheck: the phases are read without FOR UPDATE; the
\* dependencies are not checked.
PromoteCheckUnlocked(s) ==
  LET n == session[s].phase
      read == [phase EXCEPT ![n] = "in_progress"]
  IN /\ session[s].at = "promoting"
     /\ \A k \in Earlier(n) : read[k] = "completed"
     /\ session' = [session EXCEPT ![s].at = "promotable", ![s].seen = read]
     /\ UNCHANGED << phase, sub, promotions, rollbacks, request >>

PromoteCheckIndependent(s) ==
  LET read == [phase EXCEPT ![session[s].phase] = "in_progress"]
  IN /\ session[s].at = "promoting"
     /\ PhaseRowsFree(s)
     /\ session' = [session EXCEPT ![s].at = "promotable", ![s].seen = read]
     /\ UNCHANGED << phase, sub, promotions, rollbacks, request >>

\* Locks and reads the phases; the promoted one keeps the status loaded
\* before.  The dependencies are checked on what was read.
PromoteCheck(s) ==
  LET n == session[s].phase
      read == [phase EXCEPT ![n] = "in_progress"]
  IN /\ session[s].at = "promoting"
     /\ PhaseRowsFree(s)
     /\ \A k \in Earlier(n) : read[k] = "completed"
     /\ session' = [session EXCEPT ![s].at = "promotable", ![s].seen = read]
     /\ UNCHANGED << phase, sub, promotions, rollbacks, request >>

\* Mutant of PromoteCommit: only promotions that open a phase get a history
\* row.
PromoteCommitUnrecorded(s) ==
  LET n == session[s].phase
      seen == session[s].seen
      after == AfterPromotion(n, seen)
  IN /\ session[s].at = "promotable"
     /\ phase' = [k \in Phases |-> IF k = n \/ Opens(n, k, seen) THEN after[k] ELSE phase[k]]
     /\ promotions' = [promotions EXCEPT ![n] = IF \E k \in Phases : Opens(n, k, seen)
                                                THEN @ + 1 ELSE @]
     /\ sub' = IF AllCompleted(after) /\ session[s].seenSub # "completed"
               THEN "completed" ELSE sub
     /\ session' = [session EXCEPT ![s] = Idle]
     /\ UNCHANGED << rollbacks, request >>

\* Writes the two phase rows it changed, the history row, and the sub-project
\* if every phase it knows of is completed (a status that was "completed"
\* when loaded has no change to write).
PromoteCommit(s) ==
  LET n == session[s].phase
      seen == session[s].seen
      after == AfterPromotion(n, seen)
  IN /\ session[s].at = "promotable"
     /\ phase' = [k \in Phases |-> IF k = n \/ Opens(n, k, seen) THEN after[k] ELSE phase[k]]
     /\ promotions' = [promotions EXCEPT ![n] = @ + 1]
     /\ sub' = IF AllCompleted(after) /\ session[s].seenSub # "completed"
               THEN "completed" ELSE sub
     /\ session' = [session EXCEPT ![s] = Idle]
     /\ UNCHANGED << rollbacks, request >>

-----------------------------------------------------------------------------
(* submit_request and review_request *)

\* Reads the phase, then the sub-project (_ensure_phase_can_be_revoked), then
\* whether a request is pending: three reads without a lock.
SubmitLoad(s, n) ==
  /\ session[s] = Idle
  /\ phase[n] = "completed"
  /\ session' = [session EXCEPT ![s] = [Idle EXCEPT !.at = "filing", !.phase = n]]
  /\ UNCHANGED << phase, sub, promotions, rollbacks, request >>

SubmitLoadSub(s) ==
  /\ session[s].at = "filing"
  /\ sub \notin LockedRevokeStatuses
  /\ session' = [session EXCEPT ![s].at = "revocable"]
  /\ UNCHANGED << phase, sub, promotions, rollbacks, request >>

SubmitCheck(s) ==
  /\ session[s].at = "revocable"
  /\ NonePending(session[s].phase)
  /\ session' = [session EXCEPT ![s].at = "submitting"]
  /\ UNCHANGED << phase, sub, promotions, rollbacks, request >>

\* The unique index decides again when the row is inserted.
SubmitCommit(s, q) ==
  LET n == session[s].phase
  IN /\ session[s].at = "submitting"
     /\ request[q].status = "unfiled"
     /\ NonePending(n)
     /\ request' = [request EXCEPT ![q] = [status |-> "pending", phase |-> n]]
     /\ session' = [session EXCEPT ![s] = Idle]
     /\ UNCHANGED << phase, sub, promotions, rollbacks >>

\* _ensure_phase_can_be_revoked.
Revocable(n) == sub \notin LockedRevokeStatuses /\ phase[n] = "completed"

\* Mutant of ReviewLoad: the request is read without FOR UPDATE.
ReviewLoadUnlocked(s, q, decision) ==
  /\ session[s] = Idle
  /\ request[q].status = "pending"
  /\ decision = "approving" => Revocable(request[q].phase)
  /\ session' = [session EXCEPT ![s] =
                   [Idle EXCEPT !.at = decision, !.phase = request[q].phase, !.request = q]]
  /\ UNCHANGED << phase, sub, promotions, rollbacks, request >>

\* Locks the request, then loads its phase and the sub-project unlocked (one
\* step: only another request pending for the phase could reopen it between).
ReviewLoad(s, q, decision) ==
  /\ session[s] = Idle
  /\ RequestRowFree(s, q)
  /\ request[q].status = "pending"
  /\ decision = "approving" => Revocable(request[q].phase)
  /\ session' = [session EXCEPT ![s] =
                   [Idle EXCEPT !.at = decision, !.phase = request[q].phase, !.request = q]]
  /\ UNCHANGED << phase, sub, promotions, rollbacks, request >>

\* Mutant of ApproveCommit: the phase gets the status named after what was
\* done to it.
ApproveCommitRevoked(s) ==
  LET n == session[s].phase
  IN /\ session[s].at = "approving"
     /\ PhaseRowsFree(s)
     /\ request' = [request EXCEPT ![session[s].request].status = "approved"]
     /\ phase' = [phase EXCEPT ![n] = "revoked"]
     /\ rollbacks' = [rollbacks EXCEPT ![n] = @ + 1]
     /\ session' = [session EXCEPT ![s] = Idle]
     /\ UNCHANGED << sub, promotions >>

\* Mutant of ApproveCommit: the phase waits to be opened again.
ApproveCommitWaiting(s) ==
  LET n == session[s].phase
  IN /\ session[s].at = "approving"
     /\ PhaseRowsFree(s)
     /\ request' = [request EXCEPT ![session[s].request].status = "approved"]
     /\ phase' = [phase EXCEPT ![n] = "waiting"]
     /\ rollbacks' = [rollbacks EXCEPT ![n] = @ + 1]
     /\ session' = [session EXCEPT ![s] = Idle]
     /\ UNCHANGED << sub, promotions >>

\* _apply_approval: the write of the phase row waits for the row locks.
ApproveCommit(s) ==
  LET n == session[s].phase
  IN /\ session[s].at = "approving"
     /\ PhaseRowsFree(s)
     /\ request' = [request EXCEPT ![session[s].request].status = "approved"]
     /\ phase' = [phase EXCEPT ![n] = "in_progress"]
     /\ rollbacks' = [rollbacks EXCEPT ![n] = @ + 1]
     /\ session' = [session EXCEPT ![s] = Idle]
     /\ UNCHANGED << sub, promotions >>

RejectCommit(s) ==
  /\ session[s].at = "rejecting"
  /\ request' = [request EXCEPT ![session[s].request].status = "rejected"]
  /\ session' = [session EXCEPT ![s] = Idle]
  /\ UNCHANGED << phase, sub, promotions, rollbacks >>

-----------------------------------------------------------------------------
(* close_sub_project and terminate_sub_project: no row is locked. *)

CloseLoad(s) ==
  /\ session[s] = Idle
  /\ sub \in {"in_progress", "completed"}
  /\ session' = [session EXCEPT ![s] = [Idle EXCEPT !.at = "ending"]]
  /\ UNCHANGED << phase, sub, promotions, rollbacks, request >>

CloseCheck(s) ==
  /\ session[s].at = "ending"
  /\ PhaseCount = 6 /\ AllCompleted(phase)
  /\ session' = [session EXCEPT ![s].at = "closing"]
  /\ UNCHANGED << phase, sub, promotions, rollbacks, request >>

CloseCommit(s) ==
  /\ session[s].at = "closing"
  /\ sub' = "closed"
  /\ session' = [session EXCEPT ![s] = Idle]
  /\ UNCHANGED << phase, promotions, rollbacks, request >>

TerminateLoad(s) ==
  /\ session[s] = Idle
  /\ sub \notin {"closed", "terminated"}
  /\ session' = [session EXCEPT ![s] = [Idle EXCEPT !.at = "terminating"]]
  /\ UNCHANGED << phase, sub, promotions, rollbacks, request >>

TerminateCommit(s) ==
  /\ session[s].at = "terminating"
  /\ sub' = "terminated"
  /\ session' = [session EXCEPT ![s] = Idle]
  /\ UNCHANGED << phase, promotions, rollbacks, request >>

-----------------------------------------------------------------------------
\* A check that fails, a unique violation, a lost connection or a crashed
\* worker: the transaction is rolled back and its locks are released.
Rollback(s) ==
  /\ session[s] # Idle
  /\ session' = [session EXCEPT ![s] = Idle]
  /\ UNCHANGED << phase, sub, promotions, rollbacks, request >>

Step(s) ==
  \/ \E n \in Phases : PromoteLoad(s, n) \/ SubmitLoad(s, n)
  \/ \E q \in Requests : SubmitCommit(s, q)
  \/ \E q \in Requests, d \in {"approving", "rejecting"} : ReviewLoad(s, q, d)
  \/ PromoteLoadSub(s) \/ PromoteCheck(s) \/ PromoteCommit(s)
  \/ SubmitLoadSub(s) \/ SubmitCheck(s) \/ ApproveCommit(s) \/ RejectCommit(s)
  \/ CloseLoad(s) \/ CloseCheck(s) \/ CloseCommit(s)
  \/ TerminateLoad(s) \/ TerminateCommit(s)
  \/ Rollback(s)

Next == \E s \in Sessions : Step(s)

Spec == Init /\ [][Next]_vars

-----------------------------------------------------------------------------
(* Properties *)

SessionRecords ==
  [at : Steps, phase : Phases, request : Requests \cup {NoRequest},
   seen : [Phases -> PhaseStatuses], seenSub : SubStatuses]

\* Every variable keeps to its type: in particular nothing ever writes the
\* status "revoked" to a phase.
TypeOK ==
  /\ phase \in [Phases -> PhaseStatuses]
  /\ sub \in SubStatuses
  /\ promotions \in [Phases -> Nat]
  /\ rollbacks \in [Phases -> Nat]
  /\ request \in [Requests -> [status : RequestStatuses, phase : Phases]]
  /\ session \in [Sessions -> SessionRecords]

\* No completion is lost: when every phase is completed the sub-project has
\* left in_progress, even when its last two phases (payment and post review,
\* which do not wait for each other) are promoted at the same time.
NoLostCompletion == AllCompleted(phase) => sub # "in_progress"

\* A main-line phase has been opened exactly when its predecessor has been
\* promoted, whatever was revoked and promoted again since.
OpenedByPredecessor ==
  \A n \in Phases \cap {2, 3, 4} : phase[n] # "waiting" <=> promotions[n - 1] > 0

\* The history explains the status: a completed phase has a promotion that no
\* revocation has undone.
CompletedIsRecorded ==
  \A n \in Phases : phase[n] = "completed" => promotions[n] > rollbacks[n]

\* Every approved revoke request rolled its phase back exactly once, and
\* nothing else rolls a phase back.
OneRollbackPerApproval ==
  \A n \in Phases : rollbacks[n] =
    Cardinality({q \in Requests : request[q].status = "approved" /\ request[q].phase = n})

\* A revocation only ever reopens a phase that is completed when it is
\* written, although it was seen completed before, without a lock.
ReopensOnlyCompleted ==
  [][\A n \in Phases : rollbacks'[n] # rollbacks[n] =>
       phase[n] = "completed" /\ phase'[n] = "in_progress"]_vars

\* Seen from the two status columns, the interleaved requests do what the
\* contract allows single steps to do.
Contract == INSTANCE PhaseContract
              WITH PhaseCount <- PhaseCount, phase <- phase, sub <- sub
ImplementsContract == Contract!Spec

\* What the error message of the revoke service says: a sub-project that is
\* completed or closed is never rolled back.  The service does not keep it: an
\* approval decided on a sub-project still in progress may be written after
\* the promotion that completes the sub-project.
NoRollbackOfFinished ==
  [][rollbacks' # rollbacks => sub \notin {"completed", "closed"}]_vars

=============================================================================
