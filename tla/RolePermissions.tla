-------------------------- MODULE RolePermissions --------------------------
(***************************************************************************)
(* The permissions of one role (services/role_permissions.py,              *)
(* core/permissions.py).  Administrators replace the rows of a role: a     *)
(* DELETE and the INSERT of a row for every code, in one transaction.      *)
(***************************************************************************)
EXTENDS Naturals

CONSTANTS
    Codes,            \* the codes of DEFAULT_PERMISSION_MATRIX
    DefaultCodes,     \* those it gives the role
    PermissionJobs,   \* sessions
    MaxReplacements   \* bound: replacements committed

ASSUME RolePermissionsAssumption == DefaultCodes \subseteq Codes /\ MaxReplacements \in Nat

VARIABLES
    rows,          \* code -> enabled, for the codes that have a row
    rowsVersion,   \* which transaction inserted them
    permissionJob,
    lastRequest    \* history: codes of the last replacement committed

permissionVars == <<rows, rowsVersion, permissionJob, lastRequest>>

NoReplacement == [op |-> "idle"]

\* A role without rows has the default permissions; one with rows has the
\* enabled ones, none of them possibly.
effective_permissions ==
    IF DOMAIN rows = {} THEN DefaultCodes ELSE {c \in DOMAIN rows : rows[c]}

\* require_permission, before a call that needs code c.
has_permission(c) == c \in effective_permissions

\* Unknown codes are refused; the DELETE takes the rows its snapshot sees.
update_role_permissions(s, codes) ==
    /\ permissionJob[s] = NoReplacement
    /\ codes \subseteq Codes
    /\ permissionJob' = [permissionJob EXCEPT ![s] =
          [op |-> "insert", codes |-> codes, deleted |-> rowsVersion]]
    /\ UNCHANGED <<rows, rowsVersion, lastRequest>>

\* Mutant of RequestedRows: no rows are inserted for what is disabled.
EnabledRowsOnly(codes) == [c \in codes |-> TRUE]

\* A row for every code of the matrix, enabled or not.
RequestedRows(codes) == [c \in Codes |-> c \in codes]

\* The INSERT and the commit.  Rows that another transaction has inserted
\* since are not among the deleted ones and collide with the new ones.
replace_role_permissions(s) ==
    LET j == permissionJob[s]
    IN  /\ j.op = "insert"
        /\ permissionJob' = [permissionJob EXCEPT ![s] = NoReplacement]
        /\ \/ /\ j.deleted = rowsVersion
              /\ rowsVersion < MaxReplacements
              /\ rows' = RequestedRows(j.codes)
              /\ rowsVersion' = rowsVersion + 1
              /\ lastRequest' = j.codes
           \/ /\ j.deleted # rowsVersion
              /\ UNCHANGED <<rows, rowsVersion, lastRequest>>

PermissionInit ==
    /\ rows = [c \in {} |-> TRUE]
    /\ rowsVersion = 0
    /\ permissionJob = [s \in PermissionJobs |-> NoReplacement]
    /\ lastRequest = DefaultCodes

PermissionNext ==
    \E s \in PermissionJobs :
        \/ \E codes \in SUBSET Codes : update_role_permissions(s, codes)
        \/ replace_role_permissions(s)

PermissionSpec == PermissionInit /\ [][PermissionNext]_permissionVars

-----------------------------------------------------------------------------
(* Properties *)

\* Every variable keeps to its type.
PermissionTypeOK ==
    /\ rows \in [DOMAIN rows -> BOOLEAN] /\ DOMAIN rows \subseteq Codes
    /\ rowsVersion \in 0..MaxReplacements
    /\ lastRequest \subseteq Codes

\* The role has exactly what the last request that succeeded gave it, or the
\* defaults before the first: two requests never mix, and a role stripped of
\* everything does not fall back to its defaults.
EffectiveIsLastRequest ==
    \A c \in Codes : has_permission(c) <=> c \in lastRequest
=============================================================================
