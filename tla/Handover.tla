------------------------------ MODULE Handover ------------------------------
(***************************************************************************)
(* Handing sub-projects over to another leader: requests that the leader   *)
(* files for several sub-projects, the candidate answers and a manager     *)
(* reviews, or an administrator forces once the candidate has let seven    *)
(* days pass (services/handover_requests.py), beside the administrator's   *)
(* direct handover (services/sub_projects.py) and changes of status.       *)
(*                                                                         *)
(* Answers, reviews and forced transfers lock the request and then, one by *)
(* one, its sub-projects.  Their order is not fixed: the rows of a request *)
(* are sorted by a creation time they share.  The direct handover locks    *)
(* nothing: it decides on what it has read, and its UPDATE waits for the   *)
(* row.  The batch handover is a sequence of direct ones, each with a      *)
(* commit of its own.                                                      *)
(*                                                                         *)
(* Receivers have to be active users, which is checked without a lock;    *)
(* departments and the roles of the members are left out.                  *)
(***************************************************************************)
EXTENDS FiniteSets

CONSTANTS
  Users,          \* project leaders
  Subs,           \* sub-projects
  Revivable,      \* those a promotion may complete after they were closed
  Requests,       \* rows of handover_requests that may ever exist
  Sessions,       \* HTTP requests that may be in flight together
  NoRequest,      \* what a session without a request refers to
  NoUser          \* and one without a leader

ASSUME HandoverAssumption ==
  /\ NoRequest \notin Requests /\ NoUser \notin Users
  /\ Revivable \subseteq Subs

VARIABLES
  sub,            \* manager_id of each sub-project, and whether its status
                  \* is one of ACTIVE_HANDOVER_STATUSES
  user,           \* UserStatus of each leader
  request,        \* handover_requests rows with their sub-projects
  session         \* what each HTTP request is doing, and what it has read

vars == << sub, user, request, session >>

SubRows == [manager : Users, active : BOOLEAN]

Statuses == {"unfiled", "pending_candidate", "candidate_rejected", "pending_review",
             "review_rejected", "approved", "forced"}

Unfiled == [status |-> "unfiled", from |-> NoUser, to |-> NoUser, subs |-> {}, overdue |-> FALSE]

\* "todo" are the sub-projects still to be locked, "held" those locked; "fit"
\* tells whether those read so far may be handed over.
Idle == [at |-> "idle", request |-> NoRequest, from |-> NoUser, to |-> NoUser,
         todo |-> {}, held |-> {}, fit |-> TRUE]

Init ==
  /\ sub \in [Subs -> [manager : Users, active : {TRUE}]]
  /\ user = [l \in Users |-> "active"]
  /\ request = [q \in Requests |-> Unfiled]
  /\ session = [s \in Sessions |-> Idle]

\* Mutant of SubRowFree: the sub-projects are read without FOR UPDATE.
SubRowUnlocked(s, u) == TRUE

\* get_sub_project_for_update.
SubRowFree(s, u) == \A t \in Sessions \ {s} : u \notin session[t].held

\* Mutant of RequestRowFree: the request is read without FOR UPDATE.
RequestRowUnlocked(s, q) == TRUE

\* get_request_for_update.
RequestRowFree(s, q) == \A t \in Sessions \ {s} : session[t].request # q

\* _ensure_active_project and the comparison of the manager.
MayHandOver(u, from) == sub[u].active /\ sub[u].manager = from

\* The next sub-project of the session is locked and read.
LockSub(s, u) ==
  /\ u \in session[s].todo
  /\ session[s].at # "handing"
  /\ SubRowFree(s, u)
  /\ session' = [session EXCEPT ![s].todo = @ \ {u}, ![s].held = @ \cup {u},
                                ![s].fit = @ /\ MayHandOver(u, session[s].from)]
  /\ UNCHANGED << sub, user, request >>

-----------------------------------------------------------------------------
(* submit_request *)

\* Mutant of Candidate: one may be one's own candidate.
AnyCandidate(from, to) == user[to] = "active"

Candidate(from, to) == from # to /\ user[to] = "active"

SubmitLoad(s, from, to, subs) ==
  /\ session[s] = Idle
  /\ subs # {} /\ user[from] = "active" /\ Candidate(from, to)
  /\ session' = [session EXCEPT ![s] =
       [Idle EXCEPT !.at = "submitting", !.from = from, !.to = to, !.todo = subs]]
  /\ UNCHANGED << sub, user, request >>

SubmitCommit(s, q) ==
  /\ session[s].at = "submitting" /\ session[s].todo = {} /\ session[s].fit
  /\ request[q] = Unfiled
  /\ request' = [request EXCEPT ![q] =
       [status |-> "pending_candidate", from |-> session[s].from, to |-> session[s].to,
        subs |-> session[s].held, overdue |-> FALSE]]
  /\ session' = [session EXCEPT ![s] = Idle]
  /\ UNCHANGED << sub, user >>

\* ADMIN_FORCE_AFTER passes before the candidate has answered.
BecomeOverdue(q) ==
  /\ request[q].status = "pending_candidate" /\ ~ request[q].overdue
  /\ request' = [request EXCEPT ![q].overdue = TRUE]
  /\ UNCHANGED << sub, user, session >>

-----------------------------------------------------------------------------
(* review_candidate, review_request and force_request *)

\* Locks the request in the status it must have, and will lock "subs".
Take(s, q, status, at, subs) ==
  /\ session[s] = Idle
  /\ RequestRowFree(s, q)
  /\ request[q].status = status
  /\ session' = [session EXCEPT ![s] =
       [Idle EXCEPT !.at = at, !.request = q, !.from = request[q].from,
                    !.to = request[q].to, !.todo = subs]]
  /\ UNCHANGED << sub, user, request >>

\* The candidate has to be logged in.  An acceptance locks the sub-projects to
\* find who is to review it.
Answer(s, q, at, subs) ==
  /\ Take(s, q, "pending_candidate", at, subs)
  /\ user[request[q].to] = "active"

Accept(s, q) == Answer(s, q, "accepting", request[q].subs)
Decline(s, q) == Answer(s, q, "declining", {})
Review(s, q) == Take(s, q, "pending_review", "reviewing", request[q].subs)
ForceLoad(s, q) == request[q].overdue /\ Take(s, q, "pending_candidate", "forcing", request[q].subs)

\* Commits that write the request only.
Decide(s, at, status) ==
  /\ session[s].at = at /\ session[s].todo = {}
  /\ request' = [request EXCEPT ![session[s].request].status = status,
                              ![session[s].request].overdue = FALSE]
  /\ session' = [session EXCEPT ![s] = Idle]
  /\ UNCHANGED << sub, user >>

AcceptCommit(s) == Decide(s, "accepting", "pending_review")
DeclineCommit(s) == Decide(s, "declining", "candidate_rejected")
RejectCommit(s) == Decide(s, "reviewing", "review_rejected")

\* _apply_transfer, up to the commit.
ApplyTransfer(s, at, next) ==
  /\ session[s].at = at /\ session[s].todo = {} /\ session[s].fit
  /\ user[session[s].to] = "active"
  /\ session' = [session EXCEPT ![s].at = next]
  /\ UNCHANGED << sub, user, request >>

Approve(s) == ApplyTransfer(s, "reviewing", "approving")
ForceTransfer(s) == ApplyTransfer(s, "forcing", "transferring")

\* Its commit.
Transfer(s, at, status) ==
  /\ session[s].at = at
  /\ sub' = [u \in Subs |-> IF u \in session[s].held
                            THEN [sub[u] EXCEPT !.manager = session[s].to] ELSE sub[u]]
  /\ request' = [request EXCEPT ![session[s].request].status = status,
                              ![session[s].request].overdue = FALSE]
  /\ session' = [session EXCEPT ![s] = Idle]
  /\ UNCHANGED user

ApproveCommit(s) == Transfer(s, "approving", "approved")
ForceCommit(s) == Transfer(s, "transferring", "forced")

-----------------------------------------------------------------------------
(* handover_sub_project, and the other writers of the sub-project's row *)

DirectLoad(s, u, to) ==
  /\ session[s] = Idle
  /\ sub[u].active /\ sub[u].manager # to /\ user[to] = "active"
  /\ session' = [session EXCEPT ![s] =
       [Idle EXCEPT !.at = "handing", !.to = to, !.todo = {u}]]
  /\ UNCHANGED << sub, user, request >>

\* The status is not looked at again, nor who is manager by now.
DirectCommit(s, u) ==
  /\ session[s].at = "handing" /\ u \in session[s].todo
  /\ SubRowFree(s, u)
  /\ sub' = [sub EXCEPT ![u].manager = session[s].to]
  /\ session' = [session EXCEPT ![s] = Idle]
  /\ UNCHANGED << user, request >>

\* Closing and terminating; a promotion that was on its way meanwhile and
\* completes a closed sub-project.
ChangeStatus(u) ==
  /\ sub[u].active \/ u \in Revivable
  /\ \A t \in Sessions : u \notin session[t].held
  /\ sub' = [sub EXCEPT ![u].active = ~ @]
  /\ UNCHANGED << user, request, session >>

-----------------------------------------------------------------------------
(* disable_user, and a password that is reset and then changed by its owner *)

LeadsNothing(l) == \A u \in Subs : ~ (sub[u].manager = l /\ sub[u].active)

DisableLoad(s, l) ==
  /\ session[s] = Idle
  /\ LeadsNothing(l)
  /\ session' = [session EXCEPT ![s] = [Idle EXCEPT !.at = "disabling", !.from = l]]
  /\ UNCHANGED << sub, user, request >>

DisableCommit(s) ==
  /\ session[s].at = "disabling"
  /\ user' = [user EXCEPT ![session[s].from] = "disabled"]
  /\ session' = [session EXCEPT ![s] = Idle]
  /\ UNCHANGED << sub, request >>

Reinstate(l) ==
  /\ user[l] = "disabled"
  /\ user' = [user EXCEPT ![l] = "active"]
  /\ UNCHANGED << sub, request, session >>

\* A check that fails, a lost connection, a deadlock PostgreSQL breaks.
Rollback(s) ==
  /\ session[s] # Idle
  /\ session' = [session EXCEPT ![s] = Idle]
  /\ UNCHANGED << sub, user, request >>

Step(s) ==
  \/ \E from, to \in Users, subs \in SUBSET Subs : SubmitLoad(s, from, to, subs)
  \/ \E u \in Subs : LockSub(s, u) \/ DirectCommit(s, u)
  \/ \E u \in Subs, to \in Users : DirectLoad(s, u, to)
  \/ \E q \in Requests :
       SubmitCommit(s, q) \/ Accept(s, q) \/ Decline(s, q) \/ Review(s, q) \/ ForceLoad(s, q)
  \/ AcceptCommit(s) \/ DeclineCommit(s) \/ RejectCommit(s)
  \/ Approve(s) \/ ForceTransfer(s) \/ ApproveCommit(s) \/ ForceCommit(s)
  \/ \E l \in Users : DisableLoad(s, l)
  \/ DisableCommit(s) \/ Rollback(s)

Next ==
  \/ \E s \in Sessions : Step(s)
  \/ \E q \in Requests : BecomeOverdue(q)
  \/ \E u \in Subs : ChangeStatus(u)
  \/ \E l \in Users : Reinstate(l)

Spec == Init /\ [][Next]_vars

-----------------------------------------------------------------------------
(* Properties *)

RequestRows == [status : Statuses, from : Users \cup {NoUser}, to : Users \cup {NoUser},
                subs : SUBSET Subs, overdue : BOOLEAN]

SessionRecords ==
  [at : {"idle", "submitting", "accepting", "declining", "reviewing", "approving",
         "forcing", "transferring", "handing", "disabling"},
   request : Requests \cup {NoRequest},
   from : Users \cup {NoUser}, to : Users \cup {NoUser},
   todo : SUBSET Subs, held : SUBSET Subs, fit : BOOLEAN]

\* Every variable keeps to its type; a request is from one leader to another,
\* and for at least one sub-project.
TypeOK ==
  /\ sub \in [Subs -> SubRows]
  /\ user \in [Users -> {"active", "disabled"}]
  /\ request \in [Requests -> RequestRows]
  /\ session \in [Sessions -> SessionRecords]
  /\ \A q \in Requests : request[q] # Unfiled =>
       /\ request[q].from \in Users
       /\ request[q].to \in Users \ {request[q].from}
       /\ request[q].subs # {}

Transferred == {"approved", "forced"}

\* A transfer is whole: when a request is approved or forced, all of its
\* sub-projects are active and held by the one who filed it, and all of them
\* change hands, though direct handovers and other requests for the same
\* sub-projects run beside it.
TransfersAreWhole ==
  [][\A q \in Requests :
       request[q].status \notin Transferred /\ request'[q].status \in Transferred =>
         \A u \in request[q].subs :
           /\ sub[u].active
           /\ sub[u].manager = request[q].from
           /\ sub'[u].manager = request[q].to]_vars

\* A request is decided once, and by the stage it has reached: the candidate's
\* late answer and the administrator's force exclude each other, and so do two
\* reviews.
DecidedOnce ==
  [][\A q \in Requests : request'[q].status # request[q].status =>
       << request[q].status, request'[q].status >> \in
         {<< "unfiled", "pending_candidate" >>,
          << "pending_candidate", "candidate_rejected" >>,
          << "pending_candidate", "pending_review" >>,
          << "pending_candidate", "forced" >>,
          << "pending_review", "review_rejected" >>,
          << "pending_review", "approved" >>}]_vars

\* A disabled leader leads nothing in flight: docs/rule-failure-test-matrix.md
\* has a disabling refused before the projects are handed over.
DisabledLeadsNothing ==
  \A l \in Users : user[l] = "disabled" => LeadsNothing(l)

=============================================================================
