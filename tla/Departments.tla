---------------------------- MODULE Departments ----------------------------
(***************************************************************************)
(* Departments and the users in them (services/departments.py, and         *)
(* create_user, update_user and disable_user of services/users.py).        *)
(* users.dept_id is SET NULL when its department is deleted; code and name *)
(* of a department are unique keys.                                        *)
(***************************************************************************)
EXTENDS FiniteSets

CONSTANTS
    DeptIds,      \* departments that may be created
    DeptNames,    \* code and name together
    DeptUsers,    \* users
    DeptJobs,     \* sessions of administrators
    NoDept        \* NULL

ASSUME DepartmentsAssumption == NoDept \notin DeptIds \cup DeptNames /\ IsFiniteSet(DeptUsers)

VARIABLES
    deptName,    \* [departments -> DeptNames]
    deptOf,      \* [DeptUsers -> departments or NoDept]
    userStatus,  \* [DeptUsers -> status]
    deptJob,
    stranded,    \* history: users whose department was deleted under them
    joinedLate   \* history: users assigned while a deletion was under way

deptVars == <<deptName, deptOf, userStatus, deptJob, stranded, joinedLate>>

DeptStatus == {"active", "password_reset_required", "disabled"}
NoDeptJob == [op |-> "idle"]
DeptIdle(s) == deptJob[s] = NoDeptJob

\* Mutant of count_active_users: users who must reset their password are not counted.
CountActiveOnly(d) == Cardinality({u \in DeptUsers : deptOf[u] = d /\ userStatus[u] = "active"})

count_active_users(d) ==
    Cardinality({u \in DeptUsers : deptOf[u] = d /\ userStatus[u] # "disabled"})

\* Mutant of NameTaken: a department without users does not keep its name.
NameTakenInUse(n, d) ==
    \E e \in DOMAIN deptName \ {d} : deptName[e] = n /\ \E u \in DeptUsers : deptOf[u] = e

\* _ensure_unique_code and _ensure_unique_name, of the rows but d's own.
NameTaken(n, d) == \E e \in DOMAIN deptName \ {d} : deptName[e] = n

\* create_department and update_department, up to the checks.
NameCheck(s, d, n) ==
    /\ DeptIdle(s)
    /\ ~NameTaken(n, d)
    /\ d \in DOMAIN deptName => deptName[d] # n
    /\ deptJob' = [deptJob EXCEPT ![s] =
          [op |-> IF d \in DOMAIN deptName THEN "rename" ELSE "create", dept |-> d, name |-> n]]
    /\ UNCHANGED <<deptName, deptOf, userStatus, stranded, joinedLate>>

\* The commit; a unique key taken meanwhile, or a row gone, fails it.
NameCommit(s) ==
    LET j == deptJob[s]
        fits == /\ ~NameTaken(j.name, j.dept)
                /\ (j.op = "rename") = (j.dept \in DOMAIN deptName)
    IN  /\ j.op \in {"create", "rename"}
        /\ deptName' = IF fits
              THEN [d \in DOMAIN deptName \cup {j.dept} |->
                       IF d = j.dept THEN j.name ELSE deptName[d]]
              ELSE deptName
        /\ deptJob' = [deptJob EXCEPT ![s] = NoDeptJob]
        /\ UNCHANGED <<deptOf, userStatus, stranded, joinedLate>>

\* delete_department: the users are counted, without a lock.
DeleteCheck(s, d) ==
    /\ DeptIdle(s)
    /\ d \in DOMAIN deptName
    /\ count_active_users(d) = 0
    /\ deptJob' = [deptJob EXCEPT ![s] = [op |-> "delete", dept |-> d]]
    /\ UNCHANGED <<deptName, deptOf, userStatus, stranded, joinedLate>>

DeleteCommit(s) ==
    LET d == deptJob[s].dept
        members == {u \in DeptUsers : deptOf[u] = d}
    IN  /\ deptJob[s].op = "delete"
        /\ deptJob' = [deptJob EXCEPT ![s] = NoDeptJob]
        /\ deptName' = [e \in DOMAIN deptName \ {d} |-> deptName[e]]
        /\ deptOf' = [u \in DeptUsers |-> IF u \in members THEN NoDept ELSE deptOf[u]]
        /\ stranded' = stranded \cup {u \in members : userStatus[u] # "disabled"}
        /\ UNCHANGED <<userStatus, joinedLate>>

\* update_user with a dept_id; the foreign key needs the department.
MoveUser(u, d) ==
    /\ d \in DOMAIN deptName \cup {NoDept} /\ d # deptOf[u]
    /\ deptOf' = [deptOf EXCEPT ![u] = d]
    /\ stranded' = stranded \ {u}
    /\ joinedLate' = IF \E s \in DeptJobs : deptJob[s].op = "delete" /\ deptJob[s].dept = d
                     THEN joinedLate \cup {u} ELSE joinedLate \ {u}
    /\ UNCHANGED <<deptName, userStatus, deptJob>>

\* disable_user, reset_password, change_own_password; a disabled member that
\* comes back while a deletion is under way joins late as well.
ChangeUserStatus(u, st) ==
    /\ userStatus[u] # st
    /\ st = "active" => userStatus[u] = "password_reset_required"
    /\ userStatus' = [userStatus EXCEPT ![u] = st]
    /\ joinedLate' = IF /\ userStatus[u] = "disabled"
                        /\ \E s \in DeptJobs : deptJob[s].op = "delete" /\ deptJob[s].dept = deptOf[u]
                     THEN joinedLate \cup {u} ELSE joinedLate
    /\ UNCHANGED <<deptName, deptOf, deptJob, stranded>>

DeptInit ==
    /\ deptName = [d \in {} |-> NoDept]
    /\ deptOf = [u \in DeptUsers |-> NoDept]
    /\ userStatus = [u \in DeptUsers |-> "active"]
    /\ deptJob = [s \in DeptJobs |-> NoDeptJob]
    /\ stranded = {} /\ joinedLate = {}

DeptNext ==
    \/ \E s \in DeptJobs :
          \/ \E d \in DeptIds, n \in DeptNames : NameCheck(s, d, n)
          \/ NameCommit(s)
          \/ \E d \in DeptIds : DeleteCheck(s, d)
          \/ DeleteCommit(s)
    \/ \E u \in DeptUsers :
          \/ \E d \in DeptIds \cup {NoDept} : MoveUser(u, d)
          \/ \E st \in DeptStatus : ChangeUserStatus(u, st)

DeptSpec == DeptInit /\ [][DeptNext]_deptVars

-----------------------------------------------------------------------------
(* Properties *)

\* Every variable keeps to its type.
DeptTypeOK ==
    /\ deptName \in [DOMAIN deptName -> DeptNames] /\ DOMAIN deptName \subseteq DeptIds
    /\ deptOf \in [DeptUsers -> DOMAIN deptName \cup {NoDept}]
    /\ userStatus \in [DeptUsers -> DeptStatus]
    /\ \A d, e \in DOMAIN deptName : deptName[d] = deptName[e] => d = e

\* A user who can log in loses the department to a deletion only after
\* joining it between the deletion's count and its commit.
StrandedJoinedLate == stranded \subseteq joinedLate
=============================================================================
