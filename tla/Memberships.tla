----------------------------- MODULE Memberships -----------------------------
(***************************************************************************)
(* The members of a sub-project (services/sub_projects.py) and what a      *)
(* handover does to them, directly or through an approved request          *)
(* (services/handover_requests.py).                                        *)
(*                                                                         *)
(* The manager is a column of the sub-project; the same fact is kept a     *)
(* second time, as the role of a row in sub_project_members, and a third   *)
(* time in the history of handovers.  A request locks the sub-project      *)
(* before it looks at it.  A direct handover looks first: the session      *)
(* writes, and so locks, the sub-project when it next queries, and adding  *)
(* or removing a member takes no lock at all.                              *)
(***************************************************************************)
EXTENDS Naturals, Sequences, FiniteSets, FiniteSetsExt

CONSTANTS
    TeamSubs,        \* sub-projects, all of one leader in the beginning
    TeamLeaders,     \* active users with role proj_leader
    TeamMembers,     \* active users with role proj_member
    FirstLeader,     \* who created the sub-projects
    TeamJobs,        \* requests in flight
    MaxHandovers     \* bound: handovers committed when one begins

\* The author of the sub-projects is a leader.
ASSUME TeamAssumption == FirstLeader \in TeamLeaders

VARIABLES
    manager,         \* [TeamSubs -> manager_id]
    teamStatus,      \* [TeamSubs -> status]; in_progress also for not_started, closed for terminated
    role_in_project, \* [TeamSubs -> [users -> "none" | "proj_member" | "proj_leader"]]
    handovers,       \* [TeamSubs -> SubProjectHandover rows, as committed]
    teamJob,
    outdated         \* history: sub-projects written from an outdated reading

teamVars == <<manager, teamStatus, role_in_project, handovers, teamJob, outdated>>

TeamUsers == TeamLeaders \cup TeamMembers
NoTeamJob == [at |-> "idle"]
TeamWrite(s, j) == teamJob' = [teamJob EXCEPT ![s] = j]
TeamData == <<manager, teamStatus, role_in_project, handovers, outdated>>

ACTIVE_HANDOVER_STATUSES == {"in_progress", "completed"}
MEMBERS_MAY_CHANGE == {"pending_review", "in_progress"}

-----------------------------------------------------------------------------
(* Adding and removing a member, by the manager *)

AddRead(s, w, u) ==
    /\ teamJob[s] = NoTeamJob
    /\ teamStatus[w] \in MEMBERS_MAY_CHANGE
    /\ u \in TeamMembers /\ role_in_project[w][u] = "none"
    /\ TeamWrite(s, [at |-> "add", sub |-> w, user |-> u])
    /\ UNCHANGED TeamData

\* A second row for the user violates the unique key.
add_sub_project_member(s) ==
    LET j == teamJob[s]
    IN  /\ j.at = "add"
        /\ role_in_project[j.sub][j.user] = "none"
        /\ role_in_project' = [role_in_project EXCEPT ![j.sub][j.user] = "proj_member"]
        /\ TeamWrite(s, NoTeamJob)
        /\ UNCHANGED <<manager, teamStatus, handovers, outdated>>

RemoveRead(s, w, u) ==
    /\ teamJob[s] = NoTeamJob
    /\ teamStatus[w] \in MEMBERS_MAY_CHANGE
    /\ role_in_project[w][u] = "proj_member" /\ u # manager[w]
    /\ TeamWrite(s, [at |-> "remove", sub |-> w, user |-> u])
    /\ UNCHANGED TeamData

\* The row is deleted, whatever has become of it since.
remove_sub_project_member(s) ==
    LET j == teamJob[s]
    IN  /\ j.at = "remove"
        /\ role_in_project[j.sub][j.user] # "none"
        /\ role_in_project' = [role_in_project EXCEPT ![j.sub][j.user] = "none"]
        /\ outdated' = IF role_in_project[j.sub][j.user] = "proj_member" THEN outdated
                       ELSE outdated \cup {j.sub}
        /\ TeamWrite(s, NoTeamJob)
        /\ UNCHANGED <<manager, teamStatus, handovers>>

-----------------------------------------------------------------------------
(* Handovers *)

HandoversMade == MapThenSumSet(LAMBDA w : Len(handovers[w]), TeamSubs)

\* The row of the sub-project is not locked.
TeamFree(w) == \A s \in TeamJobs : teamJob[s].at = "locked" => teamJob[s].sub # w

\* handover_sub_project by an administrator, as the first of several when it
\* is batch_handover_sub_projects.
DirectRead(s, todo, to) ==
    LET w == Head(todo)
    IN  /\ teamStatus[w] \in ACTIVE_HANDOVER_STATUSES
        /\ to # manager[w] /\ HandoversMade < MaxHandovers
        /\ TeamWrite(s, [at |-> "direct", sub |-> w, from |-> manager[w], to |-> to,
                         todo |-> Tail(todo)])
        /\ UNCHANGED TeamData

StartDirect(s, todo, to) == teamJob[s] = NoTeamJob /\ DirectRead(s, todo, to)

\* The job holds the row; its further queries find the rows of both leaders.
LockTeam(s, j) ==
    /\ TeamFree(j.sub)
    /\ TeamWrite(s, [at |-> "locked", sub |-> j.sub, from |-> j.from, to |-> j.to, todo |-> j.todo,
                     old |-> role_in_project[j.sub][j.from],
                     new |-> role_in_project[j.sub][j.to]])

\* The query for the first member writes the new manager.
DirectLock(s) ==
    LET j == teamJob[s]
    IN  /\ j.at = "direct"
        /\ LockTeam(s, j)
        /\ outdated' = IF manager[j.sub] = j.from THEN outdated ELSE outdated \cup {j.sub}
        /\ UNCHANGED <<manager, teamStatus, role_in_project, handovers>>

\* _apply_transfer of an approved request: locked, then checked.
TransferLock(s, w, to) ==
    /\ teamJob[s] = NoTeamJob
    /\ teamStatus[w] \in ACTIVE_HANDOVER_STATUSES
    /\ to # manager[w] /\ HandoversMade < MaxHandovers
    /\ LockTeam(s, [at |-> "request", sub |-> w, from |-> manager[w], to |-> to, todo |-> <<>>])
    /\ UNCHANGED TeamData

\* Mutant of _upsert_members: the former leader keeps the role.
UpsertNewOnly(j) == [role_in_project[j.sub] EXCEPT ![j.to] = "proj_leader"]

\* A row that was found gets its new role; the new leader gets a row.
_upsert_members(j) ==
    [u \in TeamUsers |->
        IF u = j.to THEN "proj_leader"
        ELSE IF u = j.from /\ j.old # "none" THEN "proj_member"
        ELSE role_in_project[j.sub][u]]

\* An UPDATE finds its row and an INSERT does not; an UPDATE that changes
\* nothing is not sent.
RowsAsRead(j) ==
    /\ j.old = "proj_leader" => role_in_project[j.sub][j.from] # "none"
    /\ j.new = "proj_member" => role_in_project[j.sub][j.to] # "none"
    /\ j.new = "none" => role_in_project[j.sub][j.to] = "none"

HandoverCommit(s) ==
    LET j == teamJob[s]
    IN  /\ j.at = "locked"
        /\ RowsAsRead(j)
        /\ manager' = [manager EXCEPT ![j.sub] = j.to]
        /\ role_in_project' = [role_in_project EXCEPT ![j.sub] = _upsert_members(j)]
        /\ handovers' = [handovers EXCEPT ![j.sub] = Append(@, [from |-> j.from, to |-> j.to])]
        /\ outdated' =
              IF /\ j.old = role_in_project[j.sub][j.from]
                 /\ j.new = role_in_project[j.sub][j.to]
              THEN outdated ELSE outdated \cup {j.sub}
        /\ TeamWrite(s, IF j.todo = <<>> THEN NoTeamJob
                        ELSE [at |-> "next", from |-> j.from, to |-> j.to, todo |-> j.todo])
        /\ UNCHANGED teamStatus

\* The next of a batch, if the leader to be replaced still manages it.
BatchNext(s) ==
    LET j == teamJob[s]
    IN  /\ j.at = "next"
        /\ manager[Head(j.todo)] = j.from
        /\ DirectRead(s, j.todo, j.to)

\* A check or a write that fails; what a batch has committed stays.
TeamRollback(s) ==
    /\ teamJob[s] # NoTeamJob
    /\ TeamWrite(s, NoTeamJob)
    /\ UNCHANGED TeamData

\* Reviews, promotions and closing, which wait for the row.
StatusMoves(w) ==
    LET order == <<"pending_review", "in_progress", "completed", "closed">>
    IN  /\ TeamFree(w)
        /\ \E i \in 1 .. 3 : /\ teamStatus[w] = order[i]
                             /\ teamStatus' = [teamStatus EXCEPT ![w] = order[i + 1]]
        /\ UNCHANGED <<manager, role_in_project, handovers, teamJob, outdated>>

-----------------------------------------------------------------------------

\* create_sub_project makes its author manager and member.
TeamInit ==
    /\ manager = [w \in TeamSubs |-> FirstLeader]
    /\ teamStatus = [w \in TeamSubs |-> "pending_review"]
    /\ role_in_project = [w \in TeamSubs |->
          [u \in TeamUsers |-> IF u = FirstLeader THEN "proj_leader" ELSE "none"]]
    /\ handovers = [w \in TeamSubs |-> <<>>]
    /\ teamJob = [s \in TeamJobs |-> NoTeamJob]
    /\ outdated = {}

Batches == {<<w>> : w \in TeamSubs} \cup {b \in TeamSubs \X TeamSubs : b[1] # b[2]}

TeamNext ==
    \/ \E w \in TeamSubs :
          \/ StatusMoves(w)
          \/ \E s \in TeamJobs, u \in TeamUsers : AddRead(s, w, u) \/ RemoveRead(s, w, u)
          \/ \E s \in TeamJobs, to \in TeamLeaders : TransferLock(s, w, to)
    \/ \E s \in TeamJobs :
          \/ add_sub_project_member(s) \/ remove_sub_project_member(s)
          \/ \E b \in Batches, to \in TeamLeaders : StartDirect(s, b, to)
          \/ DirectLock(s) \/ HandoverCommit(s) \/ BatchNext(s) \/ TeamRollback(s)

TeamSpec == TeamInit /\ [][TeamNext]_teamVars

-----------------------------------------------------------------------------
(* Properties *)

\* Every variable keeps to its type.
TeamTypeOK ==
    /\ manager \in [TeamSubs -> TeamLeaders]
    /\ teamStatus \in [TeamSubs -> MEMBERS_MAY_CHANGE \cup ACTIVE_HANDOVER_STATUSES \cup {"closed"}]
    /\ role_in_project \in [TeamSubs -> [TeamUsers -> {"none", "proj_member", "proj_leader"}]]

\* The three records of who leads agree: the manager took over last.  Unless
\* two requests have overtaken each other, the handovers form a chain, every
\* former manager has stayed or was removed, and exactly the manager's row
\* has the role proj_leader, which protects it from being removed.
RecordsOfLeaderAgree ==
    \A w \in TeamSubs :
       LET h == handovers[w]
       IN  /\ h # <<>> => manager[w] = h[Len(h)].to
           /\ w \notin outdated =>
                 /\ \A i \in 1 .. Len(h) - 1 : h[i].to = h[i + 1].from
                 /\ \A u \in TeamUsers :
                       role_in_project[w][u] = "proj_leader" <=> u = manager[w]
=============================================================================
