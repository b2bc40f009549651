---------------------------- MODULE Users_proofs ----------------------------
(***************************************************************************)
(* What users and administrators may rely on, for every set of users,      *)
(* keys, departments and sessions and every bound.                         *)
(*                                                                         *)
(* Each component has an inductive invariant of its own and its theorems   *)
(* are about its own specification; at the end they are carried over to    *)
(* UsersSpec, every behaviour of which is one of each component.           *)
(***************************************************************************)
EXTENDS MCUsersReports, FiniteLemmas

-----------------------------------------------------------------------------
(***************************************************************************)
(* API keys: a session that has read a row holds its lock, so what it has  *)
(* read is still there when it writes.                                     *)
(***************************************************************************)

KeyTyped ==
    /\ DOMAIN apiKey \subseteq ApiKeyIds
    /\ apiKey \in [DOMAIN apiKey -> ApiKeyRow]
    /\ DOMAIN keyLock \subseteq DOMAIN apiKey
    /\ keyLock \in [DOMAIN keyLock -> KeyJobs]
    /\ keyJob = [s \in KeyJobs |-> keyJob[s]]
    /\ keyClock \in KeyTicks

\* What a session has read, it has locked and is unchanged.
HoldsItsRow(j, s) ==
    j # NoKeyJob =>
        /\ j.op \in {"use", "revoke"}
        /\ j.key \in DOMAIN keyLock /\ keyLock[j.key] = s
        /\ j.row = apiKey[j.key]

RowsAreHeld == \A s \in KeyJobs : HoldsItsRow(keyJob[s], s)

\* No use lies in the future.
UsedBefore ==
    \A k \in DOMAIN apiKey :
        apiKey[k].last_used_at # NoKeyTick => apiKey[k].last_used_at <= keyClock

KeyIInv == KeyTyped /\ RowsAreHeld /\ UsedBefore /\ NotUsedWhenDead

\* The keys start without rows.
LEMMA KeyInitHolds == KeyInit => KeyIInv
BY ApiKeysAssumption
   DEF KeyInit, KeyIInv, KeyTyped, RowsAreHeld, HoldsItsRow, UsedBefore, NotUsedWhenDead, KeyTicks

\* A row of the right type.
LEMMA KeyRowFields ==
    ASSUME KeyTyped, NEW k \in DOMAIN apiKey
    PROVE  /\ apiKey[k] \in ApiKeyRow
           /\ apiKey[k].expires_at \in Int \cup {NoKeyTick}
           /\ apiKey[k].last_used_at \in KeyTicks \cup {NoKeyTick}
           /\ apiKey[k].revoked_at \in KeyTicks \cup {NoKeyTick}
BY DEF KeyTyped, ApiKeyRow

\* A new key has not been used, and nobody holds it.
LEMMA CreateKeyKeeps ==
    ASSUME KeyIInv, NEW k \in ApiKeyIds, NEW life \in KeyLifetimes \cup {NoKeyTick},
           create_key(k, life)
    PROVE  KeyIInv'
<1> DEFINE new == [expires_at |-> IF life = NoKeyTick THEN life ELSE keyClock + life,
                   last_used_at |-> NoKeyTick, revoked_at |-> NoKeyTick]
<1>1. new \in ApiKeyRow
  BY ApiKeysAssumption DEF KeyIInv, KeyTyped, KeyTicks, ApiKeyRow
<1>2. /\ DOMAIN apiKey' = DOMAIN apiKey \cup {k} /\ k \notin DOMAIN apiKey
      /\ apiKey'[k] = new
      /\ \A l \in DOMAIN apiKey : apiKey'[l] = apiKey[l]
  BY DEF create_key
<1> HIDE DEF new
<1>3. apiKey' \in [DOMAIN apiKey' -> ApiKeyRow]
  <2>1. apiKey' = [l \in DOMAIN apiKey \cup {k} |-> IF l = k THEN new ELSE apiKey[l]]
    BY DEF create_key, new
  <2> QED BY <2>1, <1>1 DEF KeyIInv, KeyTyped
<1>4. KeyTyped'
  BY <1>2, <1>3 DEF KeyIInv, KeyTyped, create_key, KeyTicks
<1>5. RowsAreHeld'
  BY <1>2 DEF KeyIInv, KeyTyped, RowsAreHeld, HoldsItsRow, create_key
<1>6. UsedBefore' /\ NotUsedWhenDead'
  BY <1>2 DEF KeyIInv, UsedBefore, NotUsedWhenDead, create_key, new
<1> QED BY <1>4, <1>5, <1>6 DEF KeyIInv

\* Reading takes the lock of a row that nobody holds.
LEMMA GetForUpdateKeeps ==
    ASSUME KeyIInv, NEW s \in KeyJobs, NEW k \in ApiKeyIds, NEW op \in {"use", "revoke"},
           get_for_update(s, k, op)
    PROVE  KeyIInv'
<1>1. /\ keyJob' = [t \in KeyJobs |-> IF t = s THEN [op |-> op, key |-> k, row |-> apiKey[k]]
                                      ELSE keyJob[t]]
      /\ keyJob' = [t \in KeyJobs |-> keyJob'[t]]
  BY DEF KeyIInv, KeyTyped, get_for_update
<1>2. /\ DOMAIN keyLock' = DOMAIN keyLock \cup {k} /\ k \notin DOMAIN keyLock
      /\ keyLock'[k] = s
      /\ \A l \in DOMAIN keyLock : keyLock'[l] = keyLock[l]
      /\ keyLock' \in [DOMAIN keyLock' -> KeyJobs]
  BY DEF KeyIInv, KeyTyped, get_for_update, Locked, KeyIsLocked
<1>3. KeyTyped'
  BY <1>1, <1>2 DEF KeyIInv, KeyTyped, get_for_update, KeyTicks
<1>4. RowsAreHeld'
  <2> SUFFICES ASSUME NEW t \in KeyJobs PROVE HoldsItsRow(keyJob[t], t)'
    BY DEF RowsAreHeld
  <2>1. CASE t = s
    BY <2>1, <1>1, <1>2 DEF HoldsItsRow, get_for_update
  <2>2. CASE t # s
    BY <2>2, <1>1, <1>2 DEF KeyIInv, RowsAreHeld, HoldsItsRow, get_for_update
  <2> QED BY <2>1, <2>2
<1>5. UsedBefore' /\ NotUsedWhenDead'
  BY DEF KeyIInv, UsedBefore, NotUsedWhenDead, get_for_update
<1> QED BY <1>3, <1>4, <1>5 DEF KeyIInv

\* The commit of a session: the row it holds may change, its lock is freed.
LEMMA CommitRowKeeps ==
    ASSUME KeyIInv, NEW s \in KeyJobs, keyJob[s] # NoKeyJob, NEW row \in ApiKeyRow,
           apiKey' = [apiKey EXCEPT ![keyJob[s].key] = row],
           keyLock' = Unlocked(keyJob[s].key),
           keyJob' = [keyJob EXCEPT ![s] = NoKeyJob],
           UNCHANGED keyClock
    PROVE  /\ KeyTyped' /\ RowsAreHeld'
           /\ keyJob[s].key \in DOMAIN apiKey
           /\ apiKey'[keyJob[s].key] = row
           /\ \A l \in DOMAIN apiKey : l # keyJob[s].key => apiKey'[l] = apiKey[l]
           /\ DOMAIN apiKey' = DOMAIN apiKey
<1> DEFINE k == keyJob[s].key
<1>1. k \in DOMAIN keyLock /\ keyLock[k] = s /\ k \in DOMAIN apiKey
  BY DEF KeyIInv, KeyTyped, RowsAreHeld, HoldsItsRow
<1>2. /\ keyJob' = [t \in KeyJobs |-> IF t = s THEN NoKeyJob ELSE keyJob[t]]
      /\ keyJob' = [t \in KeyJobs |-> keyJob'[t]]
  BY DEF KeyIInv, KeyTyped
<1>3. /\ DOMAIN keyLock' = DOMAIN keyLock \ {k}
      /\ \A l \in DOMAIN keyLock \ {k} : keyLock'[l] = keyLock[l]
      /\ keyLock' \in [DOMAIN keyLock' -> KeyJobs]
  BY DEF KeyIInv, KeyTyped, Unlocked
<1>4. /\ DOMAIN apiKey' = DOMAIN apiKey
      /\ apiKey'[k] = row
      /\ \A l \in DOMAIN apiKey : l # k => apiKey'[l] = apiKey[l]
      /\ apiKey' \in [DOMAIN apiKey' -> ApiKeyRow]
  BY <1>1 DEF KeyIInv, KeyTyped
<1>5. KeyTyped'
  BY <1>2, <1>3, <1>4 DEF KeyIInv, KeyTyped, KeyTicks
<1>6. RowsAreHeld'
  <2> SUFFICES ASSUME NEW t \in KeyJobs PROVE HoldsItsRow(keyJob[t], t)'
    BY DEF RowsAreHeld
  <2>1. CASE t = s
    BY <2>1, <1>2 DEF HoldsItsRow
  <2>2. CASE t # s
    <3>1. HoldsItsRow(keyJob[t], t) /\ keyJob'[t] = keyJob[t]
      BY <2>2, <1>2 DEF KeyIInv, RowsAreHeld
    <3>2. keyJob[t] # NoKeyJob => keyJob[t].key # k
      BY <3>1, <2>2, <1>1 DEF HoldsItsRow
    <3> QED BY <3>1, <3>2, <1>3, <1>4 DEF HoldsItsRow, KeyIInv, KeyTyped
  <2> QED BY <2>1, <2>2
<1> QED BY <1>1, <1>4, <1>5, <1>6

\* A use is let in by a key that is neither revoked nor expired.
LEMMA AuthenticateKeeps ==
    ASSUME KeyIInv, NEW s \in KeyJobs, authenticate(s)
    PROVE  KeyIInv'
<1> DEFINE k == keyJob[s].key
           r == apiKey[k]
           usable == /\ r.revoked_at = NoKeyTick
                     /\ r.expires_at = NoKeyTick \/ r.expires_at > keyClock
           row == IF usable THEN [r EXCEPT !.last_used_at = keyClock] ELSE r
<1>1. keyJob[s] # NoKeyJob /\ k \in DOMAIN apiKey /\ keyJob[s].row = r
  BY DEF KeyIInv, KeyTyped, RowsAreHeld, HoldsItsRow, authenticate, NoKeyJob
<1>2. r \in ApiKeyRow /\ keyClock \in KeyTicks
  BY <1>1, KeyRowFields DEF KeyIInv, KeyTyped
<1>3. row \in ApiKeyRow
  BY <1>2 DEF ApiKeyRow
<1>4. apiKey' = [apiKey EXCEPT ![k] = row]
  BY <1>1 DEF authenticate, KeyIInv, KeyTyped
<1>5. /\ KeyTyped' /\ RowsAreHeld' /\ apiKey'[k] = row
      /\ \A l \in DOMAIN apiKey : l # k => apiKey'[l] = apiKey[l]
      /\ DOMAIN apiKey' = DOMAIN apiKey
  <2>1. keyLock' = Unlocked(k) /\ keyJob' = [keyJob EXCEPT ![s] = NoKeyJob] /\ keyClock' = keyClock
    BY DEF authenticate
  <2> HIDE DEF row
  <2> QED BY <2>1, <1>1, <1>3, <1>4, CommitRowKeeps
<1>6. /\ row.last_used_at # NoKeyTick => row.last_used_at <= keyClock
      /\ row.last_used_at # NoKeyTick =>
            /\ row.revoked_at = NoKeyTick \/ row.last_used_at <= row.revoked_at
            /\ row.expires_at = NoKeyTick \/ row.last_used_at < row.expires_at
  BY <1>1, <1>2 DEF KeyIInv, UsedBefore, NotUsedWhenDead, ApiKeyRow, KeyTicks
<1>7. UsedBefore' /\ NotUsedWhenDead'
  <2> HIDE DEF row
  <2> QED BY <1>5, <1>6 DEF KeyIInv, UsedBefore, NotUsedWhenDead, authenticate
<1> QED BY <1>5, <1>7 DEF KeyIInv

\* A revocation comes after every use there has been.
LEMMA RevokeKeyKeeps ==
    ASSUME KeyIInv, NEW s \in KeyJobs, revoke_key(s)
    PROVE  KeyIInv'
<1> DEFINE k == keyJob[s].key
           r == apiKey[k]
           row == IF r.revoked_at = NoKeyTick THEN [r EXCEPT !.revoked_at = keyClock] ELSE r
<1>1. keyJob[s] # NoKeyJob /\ k \in DOMAIN apiKey /\ keyJob[s].row = r
  BY DEF KeyIInv, KeyTyped, RowsAreHeld, HoldsItsRow, revoke_key, NoKeyJob
<1>2. r \in ApiKeyRow /\ keyClock \in KeyTicks
  BY <1>1, KeyRowFields DEF KeyIInv, KeyTyped
<1>3. row \in ApiKeyRow
  BY <1>2 DEF ApiKeyRow
<1>4. apiKey' = [apiKey EXCEPT ![k] = row]
  BY <1>1 DEF revoke_key, KeyIInv, KeyTyped
<1>5. /\ KeyTyped' /\ RowsAreHeld' /\ apiKey'[k] = row
      /\ \A l \in DOMAIN apiKey : l # k => apiKey'[l] = apiKey[l]
      /\ DOMAIN apiKey' = DOMAIN apiKey
  <2>1. keyLock' = Unlocked(k) /\ keyJob' = [keyJob EXCEPT ![s] = NoKeyJob] /\ keyClock' = keyClock
    BY DEF revoke_key
  <2> HIDE DEF row
  <2> QED BY <2>1, <1>1, <1>3, <1>4, CommitRowKeeps
<1>6. /\ row.last_used_at # NoKeyTick => row.last_used_at <= keyClock
      /\ row.last_used_at # NoKeyTick =>
            /\ row.revoked_at = NoKeyTick \/ row.last_used_at <= row.revoked_at
            /\ row.expires_at = NoKeyTick \/ row.last_used_at < row.expires_at
  BY <1>1, <1>2 DEF KeyIInv, UsedBefore, NotUsedWhenDead, ApiKeyRow, KeyTicks
<1>7. UsedBefore' /\ NotUsedWhenDead'
  <2> HIDE DEF row
  <2> QED BY <1>5, <1>6 DEF KeyIInv, UsedBefore, NotUsedWhenDead, revoke_key
<1> QED BY <1>5, <1>7 DEF KeyIInv

\* Each step of the keys keeps it.
LEMMA KeyInductive == KeyIInv /\ [KeyNext]_keyVars => KeyIInv'
<1> SUFFICES ASSUME KeyIInv, [KeyNext]_keyVars PROVE KeyIInv'
  OBVIOUS
<1>1. ASSUME NEW k \in ApiKeyIds, NEW life \in KeyLifetimes \cup {NoKeyTick}, create_key(k, life)
      PROVE  KeyIInv'
  BY <1>1, CreateKeyKeeps
<1>2. ASSUME NEW s \in KeyJobs, NEW k \in ApiKeyIds, NEW op \in {"use", "revoke"},
             get_for_update(s, k, op)
      PROVE  KeyIInv'
  BY <1>2, GetForUpdateKeeps
<1>3. ASSUME NEW s \in KeyJobs, authenticate(s) PROVE KeyIInv'
  BY <1>3, AuthenticateKeeps
<1>4. ASSUME NEW s \in KeyJobs, revoke_key(s) PROVE KeyIInv'
  BY <1>4, RevokeKeyKeeps
<1>5. CASE KeyTick
  <2>1. UsedBefore'
    BY <1>5, KeyRowFields DEF KeyIInv, UsedBefore, KeyTick, KeyTyped, KeyTicks
  <2> QED BY <1>5, <2>1, ApiKeysAssumption
          DEF KeyIInv, KeyTyped, RowsAreHeld, HoldsItsRow, NotUsedWhenDead, KeyTick, KeyTicks
<1>6. CASE UNCHANGED keyVars
  BY <1>6 DEF keyVars, KeyIInv, KeyTyped, RowsAreHeld, HoldsItsRow, UsedBefore, NotUsedWhenDead, KeyTicks
<1> QED BY <1>1, <1>2, <1>3, <1>4, <1>5, <1>6 DEF KeyNext

\* Type correctness of the keys.
THEOREM KeysTypeCorrect == KeySpec => []KeyTypeOK
<1>1. KeyIInv => KeyTypeOK
  BY DEF KeyIInv, KeyTyped, KeyTypeOK
<1> QED BY <1>1, KeyInitHolds, KeyInductive, PTL DEF KeySpec

\* NotUsedWhenDead of the keys: authenticate and revoke_key, however they interleave.
THEOREM DeadKeysLetNobodyIn == KeySpec => []NotUsedWhenDead
<1>1. KeyIInv => NotUsedWhenDead
  BY DEF KeyIInv
<1> QED BY <1>1, KeyInitHolds, KeyInductive, PTL DEF KeySpec


-----------------------------------------------------------------------------
(***************************************************************************)
(* Role permissions: the rows there are were inserted by one transaction,  *)
(* with a row for every code.                                              *)
(***************************************************************************)

PermissionTyped ==
    /\ rowsVersion \in 0..MaxReplacements
    /\ lastRequest \subseteq Codes
    /\ permissionJob = [s \in PermissionJobs |-> permissionJob[s]]
    /\ \A s \in PermissionJobs : permissionJob[s] # NoReplacement =>
          permissionJob[s].op = "insert" /\ permissionJob[s].codes \subseteq Codes

\* A role without rows was never changed.
RowsAreRequested ==
    IF rowsVersion = 0 THEN rows = [c \in {} |-> TRUE] /\ lastRequest = DefaultCodes
    ELSE rows = RequestedRows(lastRequest)

PermissionIInv == PermissionTyped /\ RowsAreRequested

\* At first there are no rows.
LEMMA PermissionInitHolds == PermissionInit => PermissionIInv
BY RolePermissionsAssumption
   DEF PermissionInit, PermissionIInv, PermissionTyped, RowsAreRequested

\* A flag for each code.
LEMMA FlagsType ==
    ASSUME NEW S, NEW T
    PROVE  [c \in S |-> c \in T] \in [S -> BOOLEAN]
<1>1. ASSUME NEW c \in S PROVE (c \in T) \in BOOLEAN
  OBVIOUS
<1> QED BY <1>1, Zenon

\* A role has what the last request asked for.
LEMMA RequestedIsEffective ==
    ASSUME PermissionIInv
    PROVE  EffectiveIsLastRequest
<1> SUFFICES ASSUME NEW c \in Codes PROVE has_permission(c) <=> c \in lastRequest
  BY DEF EffectiveIsLastRequest
<1>1. CASE rowsVersion = 0
  BY <1>1 DEF PermissionIInv, RowsAreRequested, has_permission, effective_permissions
<1>2. CASE rowsVersion # 0
  <2>1. rows = [d \in Codes |-> d \in lastRequest]
    BY <1>2 DEF PermissionIInv, RowsAreRequested, RequestedRows
  <2>2. DOMAIN rows = Codes /\ rows[c] = (c \in lastRequest)
    BY <2>1
  <2> QED BY <2>2 DEF has_permission, effective_permissions
<1> QED BY <1>1, <1>2

\* Each step of the permissions keeps it.
LEMMA PermissionInductive == PermissionIInv /\ [PermissionNext]_permissionVars => PermissionIInv'
<1> SUFFICES ASSUME PermissionIInv, [PermissionNext]_permissionVars PROVE PermissionIInv'
  OBVIOUS
<1>1. ASSUME NEW s \in PermissionJobs, NEW codes \in SUBSET Codes,
             update_role_permissions(s, codes)
      PROVE  PermissionIInv'
  BY <1>1 DEF PermissionIInv, PermissionTyped, RowsAreRequested, update_role_permissions
<1>2. ASSUME NEW s \in PermissionJobs, replace_role_permissions(s) PROVE PermissionIInv'
  <2>1. permissionJob[s].op = "insert" /\ permissionJob[s].codes \subseteq Codes
    BY <1>2 DEF PermissionIInv, PermissionTyped, replace_role_permissions, NoReplacement
  <2>2. /\ permissionJob' = [t \in PermissionJobs |-> permissionJob'[t]]
        /\ \A t \in PermissionJobs : permissionJob'[t] = NoReplacement
                                     \/ permissionJob'[t] = permissionJob[t]
    BY <1>2 DEF PermissionIInv, PermissionTyped, replace_role_permissions
  <2>3. CASE /\ rowsVersion < MaxReplacements
             /\ rows' = RequestedRows(permissionJob[s].codes)
             /\ rowsVersion' = rowsVersion + 1
             /\ lastRequest' = permissionJob[s].codes
    <3>1. rowsVersion' \in 0..MaxReplacements /\ rowsVersion' # 0
      BY <2>3, RolePermissionsAssumption DEF PermissionIInv, PermissionTyped
    <3>2. PermissionTyped'
      BY <2>1, <2>2, <2>3, <3>1 DEF PermissionIInv, PermissionTyped
    <3>3. RowsAreRequested'
      BY <2>3, <3>1 DEF RowsAreRequested, RequestedRows
    <3> QED BY <3>2, <3>3 DEF PermissionIInv
  <2>4. CASE UNCHANGED <<rows, rowsVersion, lastRequest>>
    BY <2>2, <2>4 DEF PermissionIInv, PermissionTyped, RowsAreRequested, RequestedRows
  <2> QED BY <1>2, <2>3, <2>4 DEF replace_role_permissions
<1>3. CASE UNCHANGED permissionVars
  BY <1>3 DEF permissionVars, PermissionIInv, PermissionTyped, RowsAreRequested, RequestedRows
<1> QED BY <1>1, <1>2, <1>3 DEF PermissionNext

\* Type correctness of the permissions of a role.
THEOREM PermissionsTypeCorrect == PermissionSpec => []PermissionTypeOK
<1>1. PermissionIInv => PermissionTypeOK
  <2> SUFFICES ASSUME PermissionIInv PROVE PermissionTypeOK
    OBVIOUS
  <2>1. CASE rowsVersion = 0
    BY <2>1, RolePermissionsAssumption
       DEF PermissionIInv, PermissionTyped, RowsAreRequested, PermissionTypeOK
  <2>2. CASE rowsVersion # 0
    <3>1. rows \in [Codes -> BOOLEAN]
      <4>1. rows = [c \in Codes |-> c \in lastRequest]
        BY <2>2 DEF PermissionIInv, RowsAreRequested, RequestedRows
      <4>2. [c \in Codes |-> c \in lastRequest] \in [Codes -> BOOLEAN]
        BY FlagsType
      <4> QED BY <4>1, <4>2
    <3>2. DOMAIN rows = Codes
      BY <3>1
    <3> QED BY <3>1, <3>2 DEF PermissionIInv, PermissionTyped, PermissionTypeOK
  <2> QED BY <2>1, <2>2
<1> QED BY <1>1, PermissionInitHolds, PermissionInductive, PTL DEF PermissionSpec

\* EffectiveIsLastRequest: update_role_permissions and replace_role_permissions
\* of any number of administrators.
THEOREM RolesHaveWhatWasAsked == PermissionSpec => []EffectiveIsLastRequest
<1> QED BY RequestedIsEffective, PermissionInitHolds, PermissionInductive, PTL DEF PermissionSpec


-----------------------------------------------------------------------------
(***************************************************************************)
(* Departments: whoever could log in was not in a department when its      *)
(* deletion counted, so those who are in it at the commit came later.      *)
(***************************************************************************)

DeptTyped ==
    /\ DOMAIN deptName \subseteq DeptIds
    /\ deptName \in [DOMAIN deptName -> DeptNames]
    /\ deptOf \in [DeptUsers -> DOMAIN deptName \cup {NoDept}]
    /\ userStatus \in [DeptUsers -> DeptStatus]
    /\ deptJob = [s \in DeptJobs |-> deptJob[s]]

NamesAreUnique == \A d, e \in DOMAIN deptName : deptName[d] = deptName[e] => d = e

ChecksName(j) == j.op \in {"create", "rename"} => j.dept \in DeptIds /\ j.name \in DeptNames

\* The members of a department about to be deleted that can log in.
CameLate(j) ==
    j.op = "delete" =>
        \A u \in DeptUsers : deptOf[u] = j.dept /\ userStatus[u] # "disabled" => u \in joinedLate

JobsAreRight ==
    \A s \in DeptJobs :
        /\ deptJob[s].op \in {"idle", "create", "rename", "delete"}
        /\ deptJob[s].op = "delete" => deptJob[s].dept \in DeptIds
        /\ ChecksName(deptJob[s])
        /\ CameLate(deptJob[s])

DeptIInv == DeptTyped /\ NamesAreUnique /\ JobsAreRight /\ StrandedJoinedLate

\* At first there are no departments.
LEMMA DeptInitHolds == DeptInit => DeptIInv
BY DEF DeptInit, DeptIInv, DeptTyped, NamesAreUnique, JobsAreRight, ChecksName, CameLate,
       StrandedJoinedLate, NoDeptJob, DeptStatus

\* A job begun or ended by one session leaves what the others do.
LEMMA DeptJobSet ==
    ASSUME DeptTyped, NEW s \in DeptJobs, NEW j, deptJob' = [deptJob EXCEPT ![s] = j]
    PROVE  /\ deptJob' = [t \in DeptJobs |-> deptJob'[t]]
           /\ deptJob'[s] = j
           /\ \A t \in DeptJobs \ {s} : deptJob'[t] = deptJob[t]
BY DEF DeptTyped

\* A job that only checks a name, or none.
LEMMA NameJobIsRight ==
    ASSUME NEW j,
           \/ j = NoDeptJob
           \/ j.op \in {"create", "rename"} /\ j.dept \in DeptIds /\ j.name \in DeptNames
    PROVE  /\ j.op \in {"idle", "create", "rename", "delete"}
           /\ j.op = "delete" => j.dept \in DeptIds
           /\ ChecksName(j) /\ CameLate(j) /\ CameLate(j)'
BY DEF NoDeptJob, ChecksName, CameLate

\* The checks of a name change no row.
LEMMA NameCheckKeeps ==
    ASSUME DeptIInv, NEW s \in DeptJobs, NEW d \in DeptIds, NEW n \in DeptNames,
           NameCheck(s, d, n)
    PROVE  DeptIInv'
<1> DEFINE j == [op |-> IF d \in DOMAIN deptName THEN "rename" ELSE "create",
                 dept |-> d, name |-> n]
<1>1. j.op \in {"create", "rename"} /\ j.dept \in DeptIds /\ j.name \in DeptNames
  OBVIOUS
<1>2. deptJob' = [deptJob EXCEPT ![s] = j]
  BY DEF NameCheck
<1> HIDE DEF j
<1>3. JobsAreRight'
  BY <1>1, <1>2, DeptJobSet, NameJobIsRight
     DEF DeptIInv, JobsAreRight, ChecksName, CameLate, NameCheck
<1> QED BY <1>2, <1>3, DeptJobSet
        DEF DeptIInv, DeptTyped, NamesAreUnique, StrandedJoinedLate, NameCheck

\* The unique keys keep two departments from one name.
LEMMA NameCommitKeeps ==
    ASSUME DeptIInv, NEW s \in DeptJobs, NameCommit(s)
    PROVE  DeptIInv'
<1> DEFINE j == deptJob[s]
<1>1. j.op \in {"create", "rename"} /\ j.dept \in DeptIds /\ j.name \in DeptNames
  BY DEF DeptIInv, JobsAreRight, ChecksName, NameCommit
<1>2. deptJob' = [deptJob EXCEPT ![s] = NoDeptJob]
  BY DEF NameCommit
<1>3. JobsAreRight'
  BY <1>2, DeptJobSet, NameJobIsRight
     DEF DeptIInv, JobsAreRight, ChecksName, CameLate, NameCommit
<1>4. CASE /\ ~NameTaken(j.name, j.dept)
           /\ deptName' = [d \in DOMAIN deptName \cup {j.dept} |->
                              IF d = j.dept THEN j.name ELSE deptName[d]]
  <2>1. /\ DOMAIN deptName' = DOMAIN deptName \cup {j.dept}
        /\ deptName'[j.dept] = j.name
        /\ \A d \in DOMAIN deptName \ {j.dept} : deptName'[d] = deptName[d]
        /\ deptName' \in [DOMAIN deptName' -> DeptNames]
    BY <1>1, <1>4 DEF DeptIInv, DeptTyped
  <2>2. NamesAreUnique'
    BY <1>4, <2>1 DEF DeptIInv, NamesAreUnique, NameTaken
  <2>3. DeptTyped'
    BY <1>1, <1>2, <2>1, DeptJobSet DEF DeptIInv, DeptTyped, NameCommit
  <2> QED BY <1>3, <2>2, <2>3 DEF DeptIInv, StrandedJoinedLate, NameCommit
<1>5. CASE deptName' = deptName
  BY <1>2, <1>3, <1>5, DeptJobSet
     DEF DeptIInv, DeptTyped, NamesAreUnique, StrandedJoinedLate, NameCommit
<1> QED BY <1>4, <1>5 DEF NameCommit

\* A count of zero is that nobody can log in.
LEMMA DeleteCheckKeeps ==
    ASSUME DeptIInv, NEW s \in DeptJobs, NEW d \in DeptIds, DeleteCheck(s, d)
    PROVE  DeptIInv'
<1> DEFINE j == [op |-> "delete", dept |-> d]
<1>1. deptJob' = [deptJob EXCEPT ![s] = j]
  BY DEF DeleteCheck
<1>2. {u \in DeptUsers : deptOf[u] = d /\ userStatus[u] # "disabled"} = {}
  <2>1. IsFiniteSet({u \in DeptUsers : deptOf[u] = d /\ userStatus[u] # "disabled"})
    BY DepartmentsAssumption, FS_Subset
  <2> QED BY <2>1, FS_EmptySet DEF DeleteCheck, count_active_users
<1>3. j.op = "delete" /\ j.dept = d /\ CameLate(j)
  BY <1>2 DEF CameLate
<1> HIDE DEF j
<1>4. JobsAreRight'
  BY <1>1, <1>3, DeptJobSet
     DEF DeptIInv, JobsAreRight, ChecksName, CameLate, DeleteCheck
<1> QED BY <1>1, <1>4, DeptJobSet
        DEF DeptIInv, DeptTyped, NamesAreUnique, StrandedJoinedLate, DeleteCheck

\* Whoever is stranded by the commit came after the count.
LEMMA DeleteCommitKeeps ==
    ASSUME DeptIInv, NEW s \in DeptJobs, DeleteCommit(s)
    PROVE  DeptIInv'
<1> DEFINE d == deptJob[s].dept
<1>1. d \in DeptIds /\ CameLate(deptJob[s]) /\ deptJob[s].op = "delete"
  BY DEF DeptIInv, JobsAreRight, DeleteCommit
<1>2. /\ DOMAIN deptName' = DOMAIN deptName \ {d}
      /\ \A e \in DOMAIN deptName \ {d} : deptName'[e] = deptName[e]
      /\ deptName' \in [DOMAIN deptName' -> DeptNames]
  BY DEF DeptIInv, DeptTyped, DeleteCommit
<1>3. /\ \A u \in DeptUsers : deptOf'[u] = IF deptOf[u] = d THEN NoDept ELSE deptOf[u]
      /\ deptOf' \in [DeptUsers -> DOMAIN deptName' \cup {NoDept}]
  BY <1>2 DEF DeptIInv, DeptTyped, DeleteCommit
<1>4. deptJob' = [deptJob EXCEPT ![s] = NoDeptJob]
  BY DEF DeleteCommit
<1>5. DeptTyped'
  BY <1>2, <1>3, <1>4, DeptJobSet DEF DeptIInv, DeptTyped, DeleteCommit
<1>6. \A t \in DeptJobs : CameLate(deptJob[t])'
  <2> SUFFICES ASSUME NEW t \in DeptJobs \ {s} PROVE CameLate(deptJob[t])'
    BY <1>4, DeptJobSet, NameJobIsRight DEF DeptIInv, CameLate, NoDeptJob
  <2>1. /\ CameLate(deptJob[t]) /\ deptJob'[t] = deptJob[t]
        /\ deptJob[t].op = "delete" => deptJob[t].dept # NoDept
    BY <1>4, DeptJobSet, DepartmentsAssumption DEF DeptIInv, JobsAreRight
  <2> QED BY <2>1, <1>3 DEF CameLate, DeleteCommit
<1>7. JobsAreRight'
  BY <1>4, <1>6, DeptJobSet, NameJobIsRight DEF DeptIInv, JobsAreRight, ChecksName
<1>8. StrandedJoinedLate'
  BY <1>1 DEF DeptIInv, StrandedJoinedLate, CameLate, DeleteCommit
<1>9. NamesAreUnique'
  BY <1>2 DEF DeptIInv, NamesAreUnique
<1> QED BY <1>5, <1>7, <1>8, <1>9 DEF DeptIInv

\* A user moved into a department about to be deleted comes late.
LEMMA MoveUserKeeps ==
    ASSUME DeptIInv, NEW u \in DeptUsers, NEW d \in DeptIds \cup {NoDept}, MoveUser(u, d)
    PROVE  DeptIInv'
<1>1. /\ deptOf' \in [DeptUsers -> DOMAIN deptName \cup {NoDept}]
      /\ deptOf'[u] = d /\ \A v \in DeptUsers \ {u} : deptOf'[v] = deptOf[v]
  BY DEF DeptIInv, DeptTyped, MoveUser
<1>2. \A v \in DeptUsers \ {u} : v \in joinedLate => v \in joinedLate'
  BY DEF MoveUser
<1>3. \A s \in DeptJobs : deptJob[s].op = "delete" /\ deptJob[s].dept = d => u \in joinedLate'
  BY DEF MoveUser
<1>4. JobsAreRight'
  BY <1>1, <1>2, <1>3 DEF DeptIInv, JobsAreRight, ChecksName, CameLate, MoveUser
<1>5. StrandedJoinedLate'
  BY <1>2 DEF DeptIInv, StrandedJoinedLate, MoveUser
<1> QED BY <1>1, <1>4, <1>5 DEF DeptIInv, DeptTyped, NamesAreUnique, MoveUser

\* So does a member who can log in again.
LEMMA ChangeUserStatusKeeps ==
    ASSUME DeptIInv, NEW u \in DeptUsers, NEW st \in DeptStatus, ChangeUserStatus(u, st)
    PROVE  DeptIInv'
<1>1. /\ userStatus' \in [DeptUsers -> DeptStatus]
      /\ \A v \in DeptUsers \ {u} : userStatus'[v] = userStatus[v]
  BY DEF DeptIInv, DeptTyped, ChangeUserStatus
<1>2. joinedLate \subseteq joinedLate'
  BY DEF ChangeUserStatus
<1>3. \A s \in DeptJobs : deptJob[s].op = "delete" /\ deptJob[s].dept = deptOf[u] =>
         userStatus[u] # "disabled" \/ u \in joinedLate'
  BY DEF ChangeUserStatus
<1>4. JobsAreRight'
  <2> SUFFICES ASSUME NEW s \in DeptJobs PROVE CameLate(deptJob[s])'
    BY DEF DeptIInv, JobsAreRight, ChecksName, ChangeUserStatus
  <2>1. CameLate(deptJob[s]) /\ deptJob'[s] = deptJob[s] /\ deptOf' = deptOf
    BY DEF DeptIInv, JobsAreRight, ChangeUserStatus
  <2> QED BY <2>1, <1>1, <1>2, <1>3 DEF CameLate
<1>5. StrandedJoinedLate'
  BY <1>2 DEF DeptIInv, StrandedJoinedLate, ChangeUserStatus
<1> QED BY <1>1, <1>4, <1>5 DEF DeptIInv, DeptTyped, NamesAreUnique, ChangeUserStatus

\* Each step of the departments keeps it.
LEMMA DeptInductive == DeptIInv /\ [DeptNext]_deptVars => DeptIInv'
<1> SUFFICES ASSUME DeptIInv, [DeptNext]_deptVars PROVE DeptIInv'
  OBVIOUS
<1>1. ASSUME NEW s \in DeptJobs, NEW d \in DeptIds, NEW n \in DeptNames, NameCheck(s, d, n)
      PROVE  DeptIInv'
  BY <1>1, NameCheckKeeps
<1>2. ASSUME NEW s \in DeptJobs, NameCommit(s) PROVE DeptIInv'
  BY <1>2, NameCommitKeeps
<1>3. ASSUME NEW s \in DeptJobs, NEW d \in DeptIds, DeleteCheck(s, d) PROVE DeptIInv'
  BY <1>3, DeleteCheckKeeps
<1>4. ASSUME NEW s \in DeptJobs, DeleteCommit(s) PROVE DeptIInv'
  BY <1>4, DeleteCommitKeeps
<1>5. ASSUME NEW u \in DeptUsers, NEW d \in DeptIds \cup {NoDept}, MoveUser(u, d) PROVE DeptIInv'
  BY <1>5, MoveUserKeeps
<1>6. ASSUME NEW u \in DeptUsers, NEW st \in DeptStatus, ChangeUserStatus(u, st) PROVE DeptIInv'
  BY <1>6, ChangeUserStatusKeeps
<1>7. CASE UNCHANGED deptVars
  BY <1>7 DEF deptVars, DeptIInv, DeptTyped, NamesAreUnique, JobsAreRight, ChecksName, CameLate,
              StrandedJoinedLate
<1> QED BY <1>1, <1>2, <1>3, <1>4, <1>5, <1>6, <1>7 DEF DeptNext

\* Type correctness of departments and their members; no two departments
\* have the same name.
THEOREM DepartmentsTypeCorrect == DeptSpec => []DeptTypeOK
<1>1. DeptIInv => DeptTypeOK
  BY DEF DeptIInv, DeptTyped, NamesAreUnique, DeptTypeOK
<1> QED BY <1>1, DeptInitHolds, DeptInductive, PTL DEF DeptSpec

\* StrandedJoinedLate: delete_department counts without a lock.
THEOREM OnlyLateJoinersAreStranded == DeptSpec => []StrandedJoinedLate
<1>1. DeptIInv => StrandedJoinedLate
  BY DEF DeptIInv
<1> QED BY <1>1, DeptInitHolds, DeptInductive, PTL DEF DeptSpec


-----------------------------------------------------------------------------
(***************************************************************************)
(* Accounts: the mark of the last revocation outlives every token issued   *)
(* before it, and the counter of failures without an expiry has a session  *)
(* that is about to give it one.                                           *)
(***************************************************************************)

AccountOps == {"idle", "fail", "expire", "succeed", "refresh", "revoke", "setex", "commit"}
Assigned == UserStatus \cup {"unchanged"}
Assignment == [op : {"revoke", "commit"}, to : Assigned]
Marking == [op : {"setex"}, to : Assigned, at : 0..LastSecond]

\* What a session does; an assignment under way has its values.
AccountJobTyped(j) ==
    /\ j.op \in AccountOps
    /\ j.op \in {"revoke", "commit"} => j \in Assignment
    /\ j.op = "setex" => j \in Marking

AccountTyped ==
    /\ account \in [status : UserStatus, sso : BOOLEAN]
    /\ failures \in [count : Nat, until : Nat \cup {NoExpiry}]
    /\ tokens \subseteq Token /\ IsFiniteSet(tokens) /\ blacklist \subseteq tokens
    /\ second \in 0..LastSecond
    /\ lastRevoked \in -1..LastSecond /\ orphaned \in BOOLEAN
    /\ accountJob = [s \in AccountJobs |-> accountJob[s]]
    /\ \A s \in AccountJobs : AccountJobTyped(accountJob[s])

\* No token is issued in the future or outlives a refresh token.
TokensEnd == \A tk \in tokens : tk.iat <= second /\ tk.exp <= tk.iat + RefreshTTL

\* The mark outlives what it is about, and is for no later second than the
\* latest.
MarkIsLast ==
    IF lastRevoked = -1 THEN revokeMark = NoMark
    ELSE /\ revokeMark \in [at : Nat, until : Nat]
         /\ revokeMark.at <= lastRevoked /\ revokeMark.at + RefreshTTL <= revokeMark.until

\* Sessions that have seen a wrong password and not counted it yet were let
\* in below the limit.
Failing == {s \in AccountJobs : accountJob[s].op = "fail"}
FailuresBounded ==
    /\ failures.count <= AUTH_FAILURE_LIMIT + Cardinality(AccountJobs)
    /\ get_fail_count + Cardinality(Failing) <= AUTH_FAILURE_LIMIT + Cardinality(AccountJobs)

\* The second a mark will be for has come.
ClockReadsPast == \A s \in AccountJobs : accountJob[s].op = "setex" => accountJob[s].at <= second

AccountIInv ==
    /\ AccountTyped /\ TokensEnd /\ MarkIsLast /\ ClockReadsPast
    /\ FailuresBounded /\ LockoutEnds

\* The constants are numbers, and the bound on the counter is one.
LEMMA AccountConstants ==
    /\ AccessTTL \in Nat \ {0} /\ RefreshTTL \in Nat /\ AccessTTL <= RefreshTTL
    /\ AUTH_FAILURE_LIMIT \in Nat \ {0} /\ AUTH_FAILURE_TTL \in Nat \ {0}
    /\ LastSecond \in Nat /\ MaxTokens \in Nat
    /\ IsFiniteSet(AccountJobs) /\ Cardinality(AccountJobs) \in Nat
BY AccountsAssumption, FS_CardinalityType

\* The sessions that have a failure to count are so many.
LEMMA FailingCount ==
    /\ IsFiniteSet(Failing)
    /\ Cardinality(Failing) \in Nat /\ Cardinality(Failing) <= Cardinality(AccountJobs)
<1>1. Failing \subseteq AccountJobs
  BY DEF Failing
<1> QED BY <1>1, AccountConstants, FS_Subset, FS_CardinalityType

\* At first nothing has been issued.
LEMMA AccountInitHolds == AccountInit => AccountIInv
<1> SUFFICES ASSUME AccountInit PROVE AccountIInv
  OBVIOUS
<1>1. AccountTyped
  <2>1. IsFiniteSet({})
    BY FS_EmptySet
  <2>2. \A s \in AccountJobs : AccountJobTyped(accountJob[s])
    BY DEF AccountInit, AccountJobTyped, AccountOps, NoJobAccount
  <2>3. accountJob = [s \in AccountJobs |-> accountJob[s]]
    BY DEF AccountInit
  <2>4. tokens = {} /\ blacklist = {} /\ second = 0 /\ lastRevoked = -1 /\ orphaned = FALSE
    BY DEF AccountInit
  <2>5. /\ account \in [status : UserStatus, sso : BOOLEAN]
        /\ failures \in [count : Nat, until : Nat \cup {NoExpiry}]
    BY DEF AccountInit, UserStatus
  <2>6. IsFiniteSet(tokens) /\ tokens \subseteq Token /\ blacklist \subseteq tokens
    BY <2>1, <2>4, Zenon
  <2>7. second \in 0..LastSecond /\ lastRevoked \in -1..LastSecond
    BY <2>4, AccountConstants
  <2>8. orphaned \in BOOLEAN
    BY <2>4
  <2> QED BY <2>2, <2>3, <2>5, <2>6, <2>7, <2>8 DEF AccountTyped
<1>2. TokensEnd /\ MarkIsLast /\ ClockReadsPast /\ LockoutEnds
  BY DEF AccountInit, TokensEnd, MarkIsLast, ClockReadsPast, LockoutEnds, get_fail_count,
         NoJobAccount
<1>3. FailuresBounded
  BY AccountConstants, FailingCount DEF AccountInit, FailuresBounded, get_fail_count
<1> QED BY <1>1, <1>2, <1>3 DEF AccountIInv

\* What a session sets its job to, and what that does to the number of those
\* that have a failure to count.
LEMMA AccountJobSet ==
    ASSUME AccountTyped, NEW s \in AccountJobs, NEW j, AccountJobTyped(j),
           accountJob' = [accountJob EXCEPT ![s] = j]
    PROVE  /\ accountJob' = [t \in AccountJobs |-> accountJob'[t]]
           /\ accountJob'[s] = j
           /\ \A t \in AccountJobs \ {s} : accountJob'[t] = accountJob[t]
           /\ \A t \in AccountJobs : AccountJobTyped(accountJob'[t])
           /\ Cardinality(Failing') \in Nat /\ Cardinality(Failing') <= Cardinality(AccountJobs)
           /\ j.op # "fail" => Cardinality(Failing') <= Cardinality(Failing)
           /\ j.op # "fail" /\ accountJob[s].op = "fail" =>
                Cardinality(Failing') = Cardinality(Failing) - 1
<1>1. /\ accountJob' = [t \in AccountJobs |-> accountJob'[t]]
      /\ accountJob'[s] = j
      /\ \A t \in AccountJobs \ {s} : accountJob'[t] = accountJob[t]
  BY DEF AccountTyped
<1>2. \A t \in AccountJobs : AccountJobTyped(accountJob'[t])
  BY <1>1 DEF AccountTyped
<1>3. Failing' = IF j.op = "fail" THEN Failing \cup {s} ELSE Failing \ {s}
  BY <1>1 DEF Failing
<1>4. Cardinality(Failing') \in Nat /\ Cardinality(Failing') <= Cardinality(AccountJobs)
  <2>1. Failing' \subseteq AccountJobs
    BY DEF Failing
  <2> QED BY <2>1, AccountConstants, FS_Subset, FS_CardinalityType
<1>5. j.op # "fail" =>
         Cardinality(Failing') = IF s \in Failing THEN Cardinality(Failing) - 1 ELSE Cardinality(Failing)
  BY <1>3, FailingCount, FS_RemoveElement
<1>6. s \in Failing <=> accountJob[s].op = "fail"
  BY DEF Failing
<1> QED BY <1>1, <1>2, <1>4, <1>5, <1>6, FailingCount

\* A session that is not about to write a mark.
LEMMA ClockReadsKeep ==
    ASSUME AccountTyped, ClockReadsPast, NEW s \in AccountJobs, NEW j, AccountJobTyped(j),
           accountJob' = [accountJob EXCEPT ![s] = j], second' = second,
           j.op = "setex" => j.at <= second
    PROVE  ClockReadsPast'
BY AccountJobSet DEF ClockReadsPast

\* What the counter is read as: a number, and the counter itself unless it is 0.
LEMMA FailCountRead ==
    ASSUME AccountTyped
    PROVE  get_fail_count \in Nat /\ (get_fail_count = failures.count \/ get_fail_count = 0)
BY AccountConstants DEF AccountTyped, get_fail_count, NoExpiry

\* A session that begins or ends something, and writes nothing.
LEMMA OnlyJobKeeps ==
    ASSUME AccountIInv, NEW s \in AccountJobs, NEW j, AccountJobTyped(j),
           accountJob' = [accountJob EXCEPT ![s] = j],
           UNCHANGED <<account, revokeMark, failures, tokens, blacklist, second, lastRevoked>>,
           orphaned' \in BOOLEAN, orphaned \/ accountJob[s].op = "expire" => orphaned',
           j.op = "fail" => get_fail_count < AUTH_FAILURE_LIMIT,
           j.op = "setex" => j.at <= second
    PROVE  AccountIInv'
<1> USE DEF AccountIInv
<1>1. AccountTyped' /\ ClockReadsPast'
  BY AccountJobSet, ClockReadsKeep DEF AccountTyped
<1>2. TokensEnd' /\ MarkIsLast'
  BY DEF TokensEnd, MarkIsLast
<1>3. get_fail_count' = get_fail_count
  BY DEF get_fail_count
<1>4. FailuresBounded'
  <2>1. /\ Cardinality(Failing') \in Nat /\ Cardinality(Failing') <= Cardinality(AccountJobs)
        /\ j.op # "fail" => Cardinality(Failing') <= Cardinality(Failing)
    BY AccountJobSet
  <2> QED BY <1>3, <2>1, FailingCount, FailCountRead, AccountConstants DEF FailuresBounded
<1>5. LockoutEnds'
  BY <1>3, AccountJobSet DEF LockoutEnds
<1> QED BY <1>1, <1>2, <1>4, <1>5

\* A wrong password is counted; the first one is about to get its expiry.
LEMMA IncrementKeeps ==
    ASSUME AccountIInv, NEW s \in AccountJobs, increment_fail_count(s)
    PROVE  AccountIInv'
<1> USE DEF AccountIInv
<1> DEFINE j == IF get_fail_count = 0 THEN [op |-> "expire"] ELSE NoJobAccount
<1>1. accountJob' = [accountJob EXCEPT ![s] = j] /\ accountJob[s].op = "fail"
  BY DEF increment_fail_count, Begin, Done
<1>2. /\ AccountJobTyped(j) /\ j.op \notin {"fail", "setex"}
      /\ get_fail_count = 0 => j.op = "expire"
  BY DEF AccountJobTyped, AccountOps, NoJobAccount
<1> HIDE DEF j
<1>3. /\ failures' \in [count : Nat, until : Nat \cup {NoExpiry}]
      /\ failures'.count = get_fail_count + 1
      /\ failures'.until = IF get_fail_count = 0 THEN NoExpiry ELSE failures.until
  BY FailCountRead DEF increment_fail_count, AccountTyped
<1>4. get_fail_count' = get_fail_count + 1
  BY <1>3, AccountConstants DEF increment_fail_count, get_fail_count, AccountTyped, NoExpiry
<1>5. AccountTyped' /\ ClockReadsPast'
  BY <1>1, <1>2, <1>3, AccountJobSet, ClockReadsKeep DEF AccountTyped, increment_fail_count
<1>6. TokensEnd' /\ MarkIsLast'
  BY DEF TokensEnd, MarkIsLast, increment_fail_count
<1>7. FailuresBounded'
  <2>1. Cardinality(Failing') = Cardinality(Failing) - 1
    BY <1>1, <1>2, AccountJobSet
  <2>2. Cardinality(Failing') \in Nat
    BY <1>1, <1>2, AccountJobSet
  <2> QED BY <2>1, <2>2, <1>3, <1>4, FailingCount, FailCountRead, AccountConstants
          DEF FailuresBounded
<1>8. LockoutEnds'
  <2>1. CASE get_fail_count = 0
    BY <2>1, <1>1, <1>2, AccountJobSet DEF LockoutEnds
  <2>2. CASE get_fail_count # 0
    <3>1. get_fail_count > 0
      BY <2>2, FailCountRead
    <3>2. failures'.until = NoExpiry => orphaned \/ \E t \in AccountJobs : accountJob[t].op = "expire"
      BY <3>1, <2>2, <1>3 DEF LockoutEnds
    <3>3. \A t \in AccountJobs : accountJob[t].op = "expire" => accountJob'[t] = accountJob[t]
      BY <1>1, <1>2, AccountJobSet
    <3> QED BY <3>2, <3>3 DEF LockoutEnds, increment_fail_count
  <2> QED BY <2>1, <2>2
<1> QED BY <1>5, <1>6, <1>7, <1>8

\* The expiry of the counter, if there still is one.
LEMMA ExpireKeeps ==
    ASSUME AccountIInv, NEW s \in AccountJobs, ExpireFailures(s)
    PROVE  AccountIInv'
<1> USE DEF AccountIInv
<1>1. accountJob' = [accountJob EXCEPT ![s] = NoJobAccount]
  BY DEF ExpireFailures, Done
<1>2. AccountJobTyped(NoJobAccount) /\ NoJobAccount.op \notin {"fail", "setex"}
  BY DEF AccountJobTyped, AccountOps, NoJobAccount
<1>3. /\ failures' \in [count : Nat, until : Nat \cup {NoExpiry}]
      /\ failures'.count = failures.count
      /\ get_fail_count > 0 => failures'.until = second + AUTH_FAILURE_TTL
      /\ get_fail_count = 0 => failures'.until = failures.until
  BY FailCountRead, AccountConstants DEF ExpireFailures, AccountTyped
<1>4. get_fail_count' = get_fail_count
  BY <1>3, FailCountRead, AccountConstants DEF ExpireFailures, get_fail_count, AccountTyped, NoExpiry
<1>5. AccountTyped' /\ ClockReadsPast'
  BY <1>1, <1>2, <1>3, AccountJobSet, ClockReadsKeep DEF AccountTyped, ExpireFailures
<1>6. TokensEnd' /\ MarkIsLast'
  BY DEF TokensEnd, MarkIsLast, ExpireFailures
<1>7. FailuresBounded'
  <2>1. Cardinality(Failing') \in Nat /\ Cardinality(Failing') <= Cardinality(Failing)
    BY <1>1, <1>2, AccountJobSet
  <2> QED BY <2>1, <1>3, <1>4, FailingCount, FailCountRead, AccountConstants DEF FailuresBounded
<1>8. LockoutEnds'
  BY <1>3, <1>4, FailCountRead, AccountConstants DEF LockoutEnds, AccountTyped, NoExpiry
<1> QED BY <1>5, <1>6, <1>7, <1>8

\* A token issued now has the type of one and ends in time.
LEMMA NewToken ==
    ASSUME AccountTyped, NEW kind \in {"access", "refresh"}, NEW n \in 1..MaxTokens
    PROVE  /\ create_jwt_token(kind, n) \in Token
           /\ create_jwt_token(kind, n).iat = second
           /\ create_jwt_token(kind, n).exp <= second + RefreshTTL
BY AccountConstants DEF AccountTyped, create_jwt_token, Token

\* Tokens are issued, and the counter perhaps deleted.
LEMMA IssueKeeps ==
    ASSUME AccountIInv, NEW s \in AccountJobs, NEW new \in SUBSET Token, IsFiniteSet(new),
           \A tk \in new : tk.iat = second /\ tk.exp <= second + RefreshTTL,
           accountJob[s].op # "expire",
           tokens' = tokens \cup new,
           failures' \in {failures, [count |-> 0, until |-> NoExpiry]},
           accountJob' = [accountJob EXCEPT ![s] = NoJobAccount],
           UNCHANGED <<account, revokeMark, blacklist, second, lastRevoked, orphaned>>
    PROVE  AccountIInv'
<1> USE DEF AccountIInv
<1>1. AccountJobTyped(NoJobAccount) /\ NoJobAccount.op \notin {"fail", "setex"}
  BY DEF AccountJobTyped, AccountOps, NoJobAccount
<1>2. /\ failures' \in [count : Nat, until : Nat \cup {NoExpiry}]
      /\ failures'.count <= failures.count
      /\ get_fail_count' \in Nat /\ get_fail_count' <= get_fail_count
      /\ get_fail_count' > 0 => failures' = failures /\ get_fail_count' = get_fail_count
  BY FailCountRead DEF AccountTyped, get_fail_count, NoExpiry
<1>3. AccountTyped' /\ ClockReadsPast'
  <2>1. ClockReadsPast'
    BY <1>1, ClockReadsKeep
  <2> QED BY <1>1, <1>2, <2>1, AccountJobSet, FS_Union DEF AccountTyped
<1>4. TokensEnd' /\ MarkIsLast'
  BY AccountConstants DEF TokensEnd, MarkIsLast, AccountTyped
<1>5. FailuresBounded'
  <2>1. Cardinality(Failing') \in Nat /\ Cardinality(Failing') <= Cardinality(Failing)
    BY <1>1, AccountJobSet
  <2>2. failures.count \in Nat /\ failures'.count \in Nat
    BY <1>2 DEF AccountTyped
  <2> QED BY <2>1, <2>2, <1>2, FailingCount, FailCountRead, AccountConstants DEF FailuresBounded
<1>6. LockoutEnds'
  BY <1>1, <1>2, AccountJobSet DEF LockoutEnds
<1> QED BY <1>3, <1>4, <1>5, <1>6

\* The tokens of a login.
LEMMA LoginSucceedsKeeps ==
    ASSUME AccountIInv, NEW s \in AccountJobs, LoginSucceeds(s)
    PROVE  AccountIInv'
<1>1. AccountTyped /\ Cardinality(tokens) \in Nat
  BY FS_CardinalityType DEF AccountIInv, AccountTyped
<1>2. /\ create_auth_tokens \in SUBSET Token /\ IsFiniteSet(create_auth_tokens)
      /\ \A tk \in create_auth_tokens : tk.iat = second /\ tk.exp <= second + RefreshTTL
  <2>1. Cardinality(tokens) + 1 \in 1..MaxTokens /\ Cardinality(tokens) + 2 \in 1..MaxTokens
    BY <1>1, AccountConstants DEF LoginSucceeds
  <2> DEFINE a == create_jwt_token("access", Cardinality(tokens) + 1)
             r == create_jwt_token("refresh", Cardinality(tokens) + 2)
  <2>2. /\ a \in Token /\ a.iat = second /\ a.exp <= second + RefreshTTL
        /\ r \in Token /\ r.iat = second /\ r.exp <= second + RefreshTTL
    BY <1>1, <2>1, NewToken
  <2>3. create_auth_tokens = {a, r}
    BY DEF create_auth_tokens
  <2> HIDE DEF a, r
  <2>4. IsFiniteSet({a} \cup {r})
    BY FS_Singleton, FS_Union
  <2>5. {a} \cup {r} = {a, r}
    OBVIOUS
  <2> QED BY <2>2, <2>3, <2>4, <2>5
<1>3. accountJob[s].op # "expire" /\ failures' = [count |-> 0, until |-> NoExpiry]
  BY DEF LoginSucceeds
<1> QED BY <1>2, <1>3, IssueKeeps DEF LoginSucceeds, Done

\* The new access token of a refresh.
LEMMA CreateAccessKeeps ==
    ASSUME AccountIInv, NEW s \in AccountJobs, create_access_token(s)
    PROVE  AccountIInv'
<1> DEFINE new == {create_jwt_token("access", Cardinality(tokens) + 1)}
<1>1. AccountTyped /\ Cardinality(tokens) \in Nat
  BY FS_CardinalityType DEF AccountIInv, AccountTyped
<1>2. /\ new \in SUBSET Token /\ IsFiniteSet(new)
      /\ \A tk \in new : tk.iat = second /\ tk.exp <= second + RefreshTTL
  <2>1. Cardinality(tokens) + 1 \in 1..MaxTokens
    BY <1>1, AccountConstants DEF create_access_token
  <2> QED BY <1>1, <2>1, NewToken, FS_Singleton
<1>3. tokens' = tokens \cup new /\ failures' = failures /\ accountJob[s].op # "expire"
  BY DEF create_access_token
<1> HIDE DEF new
<1> QED BY <1>2, <1>3, IssueKeeps DEF create_access_token, Done

\* The clock is read for a mark.
LEMMA ReadClockKeeps ==
    ASSUME AccountIInv, NEW s \in AccountJobs, ReadClock(s)
    PROVE  AccountIInv'
<1> DEFINE j == [op |-> "setex", to |-> accountJob[s].to, at |-> second]
<1>1. accountJob' = [accountJob EXCEPT ![s] = j] /\ accountJob[s].op = "revoke"
  BY DEF ReadClock, Begin
<1>2. AccountJobTyped(j) /\ j.op # "fail" /\ j.at <= second
  <2>1. accountJob[s] \in Assignment /\ second \in 0..LastSecond
    BY <1>1, AccountConstants DEF AccountIInv, AccountTyped, AccountJobTyped
  <2> QED BY <2>1, AccountConstants DEF AccountJobTyped, AccountOps, Assignment, Marking
<1> HIDE DEF j
<1>3. /\ UNCHANGED <<account, revokeMark, failures, tokens, blacklist, second, lastRevoked>>
      /\ orphaned' = orphaned
  BY DEF ReadClock
<1>4. orphaned \in BOOLEAN
  BY DEF AccountIInv, AccountTyped
<1>5. orphaned' \in BOOLEAN /\ (orphaned \/ accountJob[s].op = "expire" => orphaned')
  BY <1>1, <1>3, <1>4
<1> QED BY <1>1, <1>2, <1>3, <1>5, OnlyJobKeeps

\* The mark of a revocation: of the second that was read, from now on.
LEMMA RevokeTokensKeeps ==
    ASSUME AccountIInv, NEW s \in AccountJobs, revoke_user_tokens(s)
    PROVE  AccountIInv'
<1> USE DEF AccountIInv
<1> DEFINE j == [op |-> "commit", to |-> accountJob[s].to]
           at == accountJob[s].at
<1>1. accountJob' = [accountJob EXCEPT ![s] = j] /\ accountJob[s].op = "setex"
  BY DEF revoke_user_tokens, SetMark, Begin
<1>2. AccountJobTyped(j) /\ j.op = "commit" /\ at \in 0..LastSecond /\ at <= second
  <2>1. accountJob[s] \in Marking /\ accountJob[s].at <= second
    BY <1>1 DEF AccountTyped, AccountJobTyped, ClockReadsPast
  <2> QED BY <2>1 DEF AccountJobTyped, AccountOps, Assignment, Marking
<1>3. /\ revokeMark' = [at |-> at, until |-> second + RefreshTTL]
      /\ lastRevoked' = IF at > lastRevoked THEN at ELSE lastRevoked
      /\ UNCHANGED <<account, failures, tokens, blacklist, second, orphaned>>
  BY DEF revoke_user_tokens, SetMark
<1> HIDE DEF j, at
<1>4. get_fail_count' = get_fail_count
  BY <1>3 DEF get_fail_count
<1>5. lastRevoked' \in -1..LastSecond /\ lastRevoked' # -1 /\ at <= lastRevoked'
  BY <1>2, <1>3, AccountConstants DEF AccountTyped
<1>6. AccountTyped' /\ ClockReadsPast'
  BY <1>1, <1>2, <1>3, <1>5, AccountJobSet, ClockReadsKeep DEF AccountTyped, AccountJobTyped
<1>7. TokensEnd'
  BY <1>3 DEF TokensEnd
<1>8. MarkIsLast'
  BY <1>2, <1>3, <1>5, AccountConstants DEF MarkIsLast, AccountTyped
<1>9. FailuresBounded'
  <2>1. Cardinality(Failing') \in Nat /\ Cardinality(Failing') <= Cardinality(Failing)
    BY <1>1, <1>2, AccountJobSet
  <2> QED BY <2>1, <1>3, <1>4, FailingCount, FailCountRead, AccountConstants DEF FailuresBounded
<1>10. LockoutEnds'
  BY <1>1, <1>2, <1>3, <1>4, AccountJobSet DEF LockoutEnds
<1> QED BY <1>6, <1>7, <1>8, <1>9, <1>10

\* The commit of a status.
LEMMA CommitStatusKeeps ==
    ASSUME AccountIInv, NEW s \in AccountJobs, CommitStatus(s)
    PROVE  AccountIInv'
<1> USE DEF AccountIInv
<1>1. accountJob[s] \in Assignment /\ accountJob[s].op = "commit"
  BY DEF AccountTyped, AccountJobTyped, CommitStatus
<1>2. account' \in [status : UserStatus, sso : BOOLEAN]
  BY <1>1 DEF AccountTyped, CommitStatus, Assignment, Assigned
<1>3. accountJob' = [accountJob EXCEPT ![s] = NoJobAccount]
  BY DEF CommitStatus, Done
<1>4. AccountJobTyped(NoJobAccount) /\ NoJobAccount.op \notin {"fail", "setex"}
  BY DEF AccountJobTyped, AccountOps, NoJobAccount
<1>5. AccountTyped' /\ ClockReadsPast'
  <2>1. ClockReadsPast'
    BY <1>3, <1>4, ClockReadsKeep DEF CommitStatus
  <2> QED BY <1>2, <1>3, <1>4, <2>1, AccountJobSet DEF AccountTyped, CommitStatus
<1>6. get_fail_count' = get_fail_count
  BY DEF CommitStatus, get_fail_count
<1>7. TokensEnd' /\ MarkIsLast'
  BY DEF TokensEnd, MarkIsLast, CommitStatus
<1>8. FailuresBounded'
  <2>1. Cardinality(Failing') \in Nat /\ Cardinality(Failing') <= Cardinality(Failing)
    BY <1>3, <1>4, AccountJobSet
  <2> QED BY <2>1, <1>6, FailingCount, FailCountRead, AccountConstants
          DEF FailuresBounded, CommitStatus
<1>9. LockoutEnds'
  BY <1>1, <1>3, <1>4, <1>6, AccountJobSet DEF LockoutEnds, CommitStatus
<1> QED BY <1>5, <1>7, <1>8, <1>9

\* What changes no session and not the counter: a token logged out, the
\* sso_required column.
LEMMA OtherRowsKeep ==
    ASSUME AccountIInv, account' \in [status : UserStatus, sso : BOOLEAN],
           blacklist' \subseteq tokens,
           UNCHANGED <<revokeMark, failures, tokens, accountJob, second, lastRevoked, orphaned>>
    PROVE  AccountIInv'
BY DEF AccountIInv, AccountTyped, TokensEnd, MarkIsLast, ClockReadsPast, FailuresBounded,
       LockoutEnds, get_fail_count, Failing

\* Time lets the counter expire, never come back.
LEMMA NextSecondKeeps ==
    ASSUME AccountIInv, NextSecond
    PROVE  AccountIInv'
<1> USE DEF AccountIInv
<1>1. /\ get_fail_count' \in {get_fail_count, 0}
      /\ Failing' = Failing
  BY FailCountRead DEF NextSecond, get_fail_count, AccountTyped, NoExpiry, Failing
<1>2. AccountTyped' /\ ClockReadsPast'
  <2>1. ClockReadsPast'
    BY AccountConstants DEF NextSecond, AccountTyped, AccountJobTyped, Marking, ClockReadsPast
  <2> QED BY <2>1, AccountConstants DEF NextSecond, AccountTyped
<1>3. TokensEnd' /\ MarkIsLast'
  <2>1. \A tk \in tokens : tk.iat \in Nat
    BY DEF AccountTyped, Token
  <2> QED BY <2>1, AccountConstants DEF NextSecond, TokensEnd, MarkIsLast, AccountTyped
<1>4. FailuresBounded'
  BY <1>1, FailingCount, FailCountRead, AccountConstants DEF NextSecond, FailuresBounded
<1>5. LockoutEnds'
  BY <1>1 DEF NextSecond, LockoutEnds
<1> QED BY <1>2, <1>3, <1>4, <1>5

\* Each step of an account keeps it.
LEMMA AccountInductive == AccountIInv /\ [AccountNext]_accountVars => AccountIInv'
<1> SUFFICES ASSUME AccountIInv, [AccountNext]_accountVars PROVE AccountIInv'
  OBVIOUS
<1>a. /\ account \in [status : UserStatus, sso : BOOLEAN] /\ orphaned \in BOOLEAN
      /\ blacklist \subseteq tokens
  BY DEF AccountIInv, AccountTyped
<1>b. \A s \in AccountJobs : AccountJobTyped(accountJob[s])
  BY DEF AccountIInv, AccountTyped
<1>1. ASSUME NEW s \in AccountJobs, NEW right \in BOOLEAN, LoginCheck(s, right)
      PROVE  AccountIInv'
  <2> DEFINE j == [op |-> IF right THEN "succeed" ELSE "fail"]
  <2>1. /\ AccountJobTyped(j) /\ accountJob' = [accountJob EXCEPT ![s] = j]
        /\ j.op # "setex"
    BY <1>1 DEF AccountJobTyped, AccountOps, LoginCheck, Begin
  <2>2. accountJob[s].op # "expire" /\ orphaned' = orphaned /\ get_fail_count < AUTH_FAILURE_LIMIT
    BY <1>1 DEF LoginCheck, Free, NoJobAccount
  <2>3. orphaned' \in BOOLEAN /\ (orphaned \/ accountJob[s].op = "expire" => orphaned')
    BY <1>a, <2>2, Zenon
  <2>4. UNCHANGED <<account, revokeMark, failures, tokens, blacklist, second, lastRevoked>>
    BY <1>1 DEF LoginCheck
  <2> HIDE DEF j
  <2> QED BY <2>1, <2>2, <2>3, <2>4, OnlyJobKeeps
<1>2. ASSUME NEW s \in AccountJobs, NEW tk \in tokens, RefreshCheck(s, tk)
      PROVE  AccountIInv'
  <2> DEFINE j == [op |-> "refresh"]
  <2>1. /\ AccountJobTyped(j) /\ accountJob' = [accountJob EXCEPT ![s] = j]
        /\ j.op \notin {"fail", "setex"}
    BY <1>2 DEF AccountJobTyped, AccountOps, RefreshCheck, Begin
  <2>2. accountJob[s].op # "expire" /\ orphaned' = orphaned
    BY <1>2 DEF RefreshCheck, Free, NoJobAccount
  <2>3. orphaned' \in BOOLEAN /\ (orphaned \/ accountJob[s].op = "expire" => orphaned')
    BY <1>a, <2>2, Zenon
  <2>4. UNCHANGED <<account, revokeMark, failures, tokens, blacklist, second, lastRevoked>>
    BY <1>2 DEF RefreshCheck
  <2> HIDE DEF j
  <2> QED BY <2>1, <2>2, <2>3, <2>4, OnlyJobKeeps
<1>3. ASSUME NEW s \in AccountJobs, NEW to \in UserStatus, Free(s), Assign(s, account.status, to),
             UNCHANGED <<account, revokeMark, failures, tokens, blacklist, second,
                         lastRevoked, orphaned>>
      PROVE  AccountIInv'
  <2> DEFINE j == [op |-> "revoke", to |-> IF account.status = to THEN "unchanged" ELSE to]
  <2>1. /\ AccountJobTyped(j) /\ accountJob' = [accountJob EXCEPT ![s] = j]
        /\ j.op \notin {"fail", "setex"}
    <3>1. j \in Assignment
      BY DEF Assignment, Assigned
    <3> QED BY <1>3, <3>1 DEF AccountJobTyped, AccountOps, Assign, Begin
  <2>2. accountJob[s].op # "expire"
    BY <1>3 DEF Free, NoJobAccount
  <2> HIDE DEF j
  <2> QED BY <1>3, <1>a, <2>1, <2>2, OnlyJobKeeps
<1>4. ASSUME NEW s \in AccountJobs, AccountJobDies(s) PROVE AccountIInv'
  <2>1. AccountJobTyped(NoJobAccount) /\ NoJobAccount.op \notin {"fail", "setex"}
    BY DEF AccountJobTyped, AccountOps, NoJobAccount
  <2>2. orphaned' \in BOOLEAN /\ (orphaned \/ accountJob[s].op = "expire" => orphaned')
    BY <1>4, <1>a DEF AccountJobDies
  <2> QED BY <1>4, <2>1, <2>2, OnlyJobKeeps DEF AccountJobDies, Done
<1>5. ASSUME NEW tk \in tokens, logout(tk) PROVE AccountIInv'
  BY <1>5, <1>a, OtherRowsKeep DEF logout
<1>6. ASSUME NEW sso \in BOOLEAN, update_user(sso) PROVE AccountIInv'
  BY <1>6, <1>a, OtherRowsKeep DEF update_user
<1>7. CASE UNCHANGED accountVars
  BY <1>7, <1>a, OtherRowsKeep DEF accountVars
<1>8. /\ \A s \in AccountJobs : disable_user(s) => AccountIInv'
      /\ \A s \in AccountJobs : reset_password(s) => AccountIInv'
      /\ \A s \in AccountJobs, tk \in tokens : change_own_password(s, tk) => AccountIInv'
  BY <1>3 DEF disable_user, reset_password, change_own_password, UserStatus
<1>9. ASSUME NEW s \in AccountJobs,
             \/ increment_fail_count(s) \/ ExpireFailures(s) \/ LoginSucceeds(s)
             \/ create_access_token(s) \/ ReadClock(s) \/ revoke_user_tokens(s)
             \/ CommitStatus(s)
      PROVE  AccountIInv'
  BY <1>9, IncrementKeeps, ExpireKeeps, LoginSucceedsKeeps, CreateAccessKeeps,
     ReadClockKeeps, RevokeTokensKeeps, CommitStatusKeeps
<1> QED BY <1>1, <1>2, <1>4, <1>5, <1>6, <1>7, <1>8, <1>9, NextSecondKeeps DEF AccountNext

\* A token issued before the last revocation is refused by the mark as long
\* as the mark stands, and has expired when it is gone.
LEMMA OldTokensAreRefused ==
    ASSUME AccountIInv
    PROVE  RevokedStaysRevoked
<1> SUFFICES ASSUME NEW tk \in tokens, tk.iat < lastRevoked, ~MarkIsOutdated
             PROVE  ~validate_token_claims(tk, tk.kind)
  BY DEF RevokedStaysRevoked
<1>1. /\ tk.iat \in Nat /\ tk.exp \in Int /\ tk.exp <= tk.iat + RefreshTTL
      /\ lastRevoked \in Int /\ second \in Nat
  BY AccountConstants DEF AccountIInv, AccountTyped, Token, TokensEnd
<1>2. /\ revokeMark.at = lastRevoked /\ revokeMark.until \in Nat
      /\ lastRevoked + RefreshTTL <= revokeMark.until
  BY <1>1, AccountConstants DEF AccountIInv, MarkIsLast, MarkIsOutdated
<1> QED BY <1>1, <1>2, AccountConstants DEF validate_token_claims, get_user_revoked_after

\* Type correctness of an account, its tokens and its counter.
THEOREM AccountsTypeCorrect == AccountSpec => []AccountTypeOK
<1>1. AccountIInv => AccountTypeOK
  <2> SUFFICES ASSUME AccountIInv PROVE AccountTypeOK
    OBVIOUS
  <2> QED BY AccountConstants
          DEF AccountIInv, AccountTyped, FailuresBounded, AccountTypeOK
<1> QED BY <1>1, AccountInitHolds, AccountInductive, PTL DEF AccountSpec

\* AccessEndsAndReturns: validate_token_claims refuses what was revoked, and
\* increment_fail_count leaves no counter without an expiry.
THEOREM AccessIsRightlyEnded == AccountSpec => []AccessEndsAndReturns
<1>1. AccountIInv => AccessEndsAndReturns
  BY OldTokensAreRefused DEF AccountIInv, AccessEndsAndReturns
<1> QED BY <1>1, AccountInitHolds, AccountInductive, PTL DEF AccountSpec


-----------------------------------------------------------------------------
(***************************************************************************)
(* Deliveries: no lock is needed for a dead letter to be earned, because   *)
(* each session counts from a row whose failures all happened before it    *)
(* read it.                                                                *)
(***************************************************************************)

DeliveryTyped ==
    /\ delivery \in [Messages -> DeliveryRow \cup {NoDelivery}]
    /\ adminTold \subseteq Messages
    /\ sends \in [Messages -> 0..MaxSends]
    /\ failedSends \in [Messages -> 0..MaxSends]
    /\ worker = [w \in DeliveryWorkers |-> worker[w]]

Unsettled == {"pending", "retry_scheduled"}

\* A row still to be delivered counts only attempts that failed.
CountedHasFailed ==
    \A m \in Messages :
        /\ failedSends[m] <= sends[m]
        /\ delivery[m].status \in Unsettled => delivery[m].count <= failedSends[m]

\* So do the rows a session has read, in tables d, n and f; the attempt it has
\* not recorded yet is one more.
WorkerRight(j, d, n, f) ==
    /\ j.op \in {"idle", "send", "record"}
    /\ j.op # "idle" =>
          /\ DOMAIN j.seen \subseteq Messages
          /\ \A m \in DOMAIN j.seen :
                /\ d[m] # NoDelivery
                /\ j.seen[m] \in DeliveryRow /\ j.seen[m].status \in Unsettled
                /\ j.seen[m].count <= f[m]
    /\ j.op = "record" =>
          /\ j.message \in DOMAIN j.seen
          /\ j.seen[j.message].count < n[j.message]
          /\ ~j.success => j.seen[j.message].count < f[j.message]

WorkersRight == \A w \in DeliveryWorkers : WorkerRight(worker[w], delivery, sends, failedSends)

DeliveryIInv == DeliveryTyped /\ CountedHasFailed /\ WorkersRight /\ DeadLetterIsEarned

\* The bounds are numbers, and a delivery that does not exist is not a row.
LEMMA DeliveryConstants ==
    /\ MaxDeliveryAttempts \in Nat \ {0} /\ MaxSends \in Nat \ {0}
    /\ NoDelivery \notin DeliveryRow /\ NoDelivery.status = "absent"
    /\ \A r \in DeliveryRow : /\ r.status \in NotificationDeliveryStatus
                              /\ r.count \in 0..MaxSends
                              /\ r.status # "absent"
BY NotificationDeliveriesAssumption DEF NoDelivery, DeliveryRow, NotificationDeliveryStatus

\* At first there are no deliveries.
LEMMA DeliveryInitHolds == DeliveryInit => DeliveryIInv
<1> SUFFICES ASSUME DeliveryInit PROVE DeliveryIInv
  OBVIOUS
<1>1. DeliveryTyped
  BY DeliveryConstants DEF DeliveryInit, DeliveryTyped
<1>2. CountedHasFailed /\ DeadLetterIsEarned
  BY DeliveryConstants DEF DeliveryInit, CountedHasFailed, DeadLetterIsEarned, Unsettled
<1>3. WorkersRight
  BY DEF DeliveryInit, WorkersRight, WorkerRight, RestingWorker
<1> QED BY <1>1, <1>2, <1>3 DEF DeliveryIInv

\* Nothing is deleted and no attempt is taken back.
Onward ==
    \A m \in Messages :
        /\ delivery[m] # NoDelivery => delivery'[m] # NoDelivery
        /\ sends[m] <= sends'[m] /\ failedSends[m] <= failedSends'[m]

\* What a session has read stays right.
LEMMA ReadStaysRight ==
    ASSUME DeliveryTyped, DeliveryTyped', Onward, NEW j,
           WorkerRight(j, delivery, sends, failedSends)
    PROVE  WorkerRight(j, delivery', sends', failedSends')
<1>1. \A m \in Messages : /\ sends[m] \in Nat /\ sends'[m] \in Nat
                          /\ failedSends[m] \in Nat /\ failedSends'[m] \in Nat
  BY DeliveryConstants DEF DeliveryTyped
<1>2. j.op # "idle" => \A m \in DOMAIN j.seen : m \in Messages /\ j.seen[m].count \in Nat
  BY DeliveryConstants DEF WorkerRight
<1> QED BY <1>1, <1>2 DEF WorkerRight, Onward

\* A step of one session: the rows and counts it writes, and what it does next.
LEMMA WorkerStepKeeps ==
    ASSUME DeliveryIInv, NEW w \in DeliveryWorkers, NEW j,
           worker' = [worker EXCEPT ![w] = j],
           delivery' \in [Messages -> DeliveryRow \cup {NoDelivery}],
           adminTold' \subseteq Messages,
           sends' \in [Messages -> 0..MaxSends], failedSends' \in [Messages -> 0..MaxSends],
           Onward, CountedHasFailed', DeadLetterIsEarned',
           WorkerRight(j, delivery', sends', failedSends')
    PROVE  DeliveryIInv'
<1>1. /\ worker' = [v \in DeliveryWorkers |-> worker'[v]]
      /\ worker'[w] = j
      /\ \A v \in DeliveryWorkers \ {w} : worker'[v] = worker[v]
  BY DEF DeliveryIInv, DeliveryTyped
<1>2. DeliveryTyped'
  BY <1>1 DEF DeliveryTyped
<1>3. \A v \in DeliveryWorkers : WorkerRight(worker[v], delivery', sends', failedSends')
                                 \/ v = w
  BY <1>2, ReadStaysRight DEF DeliveryIInv, WorkersRight
<1>4. WorkersRight'
  BY <1>1, <1>3 DEF WorkersRight
<1> QED BY <1>2, <1>4 DEF DeliveryIInv

\* The resting worker, and one that goes on with its batch.
LEMMA RestingIsRight ==
    ASSUME NEW d, NEW n, NEW f
    PROVE  WorkerRight(RestingWorker, d, n, f)
BY DEF WorkerRight, RestingWorker

LEMMA AfterRecordIsRight ==
    ASSUME NEW w \in DeliveryWorkers, NEW m, NEW d, NEW n, NEW f,
           worker[w].op # "idle", WorkerRight(worker[w], d, n, f)
    PROVE  WorkerRight(AfterRecord(w, m), d, n, f)
<1> DEFINE rest == (DOMAIN worker[w].seen) \ {m}
           j == [op |-> "send", seen |-> [x \in rest |-> worker[w].seen[x]], locks |-> {}]
<1>1. WorkerRight(j, d, n, f)
  BY DEF WorkerRight
<1>2. AfterRecord(w, m) \in {RestingWorker, j}
  BY DEF AfterRecord
<1> HIDE DEF j
<1> QED BY <1>1, <1>2, RestingIsRight

\* The pending row is committed, and read.
LEMMA EnqueueKeeps ==
    ASSUME DeliveryIInv, NEW w \in DeliveryWorkers, NEW m \in Messages, EnqueueDelivery(w, m)
    PROVE  DeliveryIInv'
<1> USE DEF DeliveryIInv
<1> DEFINE row == [status |-> "pending", count |-> 0, due |-> "now"]
           j == [op |-> "send", seen |-> [x \in {m} |-> row], locks |-> {}]
<1>1. row \in DeliveryRow /\ row.status = "pending" /\ row.count = 0
  BY DeliveryConstants DEF DeliveryRow, NotificationDeliveryStatus
<1>2. delivery' = [delivery EXCEPT ![m] = row] /\ delivery'[m] = row
  BY DEF EnqueueDelivery, DeliveryTyped
<1>3. worker' = [worker EXCEPT ![w] = j]
  <2>1. [x \in {m} |-> delivery'[m]] = [x \in {m} |-> row]
    BY <1>2
  <2> HIDE DEF row
  <2> QED BY <2>1 DEF EnqueueDelivery
<1>4. /\ sends' = sends /\ failedSends' = failedSends /\ adminTold' = adminTold
      /\ delivery[m] = NoDelivery
  BY DEF EnqueueDelivery
<1>5. j.op = "send" /\ DOMAIN j.seen = {m} /\ j.seen[m] = row
  OBVIOUS
<1> HIDE DEF row, j
<1>6. /\ delivery' \in [Messages -> DeliveryRow \cup {NoDelivery}]
      /\ delivery'[m] # NoDelivery
      /\ \A x \in Messages \ {m} : delivery'[x] = delivery[x]
  BY <1>1, <1>2, DeliveryConstants DEF DeliveryTyped
<1>7. \A x \in Messages : sends[x] \in Nat /\ failedSends[x] \in Nat
  BY DeliveryConstants DEF DeliveryTyped
<1>8. WorkerRight(j, delivery', sends', failedSends')
  BY <1>1, <1>4, <1>5, <1>6, <1>7 DEF WorkerRight, Unsettled
<1>9. Onward /\ CountedHasFailed' /\ DeadLetterIsEarned'
  BY <1>1, <1>2, <1>4, <1>6, <1>7 DEF Onward, CountedHasFailed, DeadLetterIsEarned, Unsettled
<1> QED BY <1>3, <1>4, <1>6, <1>8, <1>9, WorkerStepKeeps DEF DeliveryTyped

\* The due rows are read.
LEMMA ProcessDueKeeps ==
    ASSUME DeliveryIInv, NEW w \in DeliveryWorkers, ProcessDue(w)
    PROVE  DeliveryIInv'
<1> USE DEF DeliveryIInv
<1> DEFINE D == DueDeliveries(w)
           j == [op |-> "send", seen |-> [m \in D |-> delivery[m]], locks |-> D]
<1>1. worker' = [worker EXCEPT ![w] = j]
  BY DEF ProcessDue
<1>2. UNCHANGED <<delivery, adminTold, sends, failedSends>>
  BY DEF ProcessDue
<1>3. \A m \in D : /\ m \in Messages /\ delivery[m].status \in Unsettled
                   /\ delivery[m] \in DeliveryRow /\ delivery[m] # NoDelivery
                   /\ delivery[m].count <= failedSends[m]
  <2>1. \A m \in D : m \in Messages /\ delivery[m].status \in Unsettled
    BY DEF DueDeliveries, Unsettled
  <2> QED BY <2>1, DeliveryConstants DEF DeliveryTyped, CountedHasFailed, Unsettled
<1>4. j.op = "send" /\ DOMAIN j.seen = D /\ \A m \in D : j.seen[m] = delivery[m]
  OBVIOUS
<1> HIDE DEF D, j
<1>5. WorkerRight(j, delivery', sends', failedSends')
  BY <1>2, <1>3, <1>4 DEF WorkerRight
<1>6. Onward /\ CountedHasFailed' /\ DeadLetterIsEarned'
  BY <1>2, DeliveryConstants
     DEF Onward, CountedHasFailed, DeadLetterIsEarned, DeliveryTyped
<1> QED BY <1>1, <1>2, <1>5, <1>6, WorkerStepKeeps DEF DeliveryTyped

\* An attempt more.
LEMMA ChannelSendKeeps ==
    ASSUME DeliveryIInv, NEW w \in DeliveryWorkers, NEW m \in Messages, NEW success \in BOOLEAN,
           ChannelSend(w, m, success)
    PROVE  DeliveryIInv'
<1> USE DEF DeliveryIInv
<1> DEFINE j == [op |-> "record", seen |-> worker[w].seen, locks |-> worker[w].locks,
                 message |-> m, success |-> success]
<1>1. worker' = [worker EXCEPT ![w] = j]
  BY DEF ChannelSend
<1>2. \A x \in Messages : /\ sends[x] \in Nat /\ failedSends[x] \in Nat
                          /\ failedSends[x] <= sends[x]
  BY DeliveryConstants DEF DeliveryTyped, CountedHasFailed
<1>3. /\ sends' \in [Messages -> 0..MaxSends]
      /\ sends'[m] = sends[m] + 1 /\ \A x \in Messages \ {m} : sends'[x] = sends[x]
  BY <1>2, DeliveryConstants DEF ChannelSend, DeliveryTyped
<1>4. /\ failedSends' \in [Messages -> 0..MaxSends]
      /\ failedSends'[m] = IF success THEN failedSends[m] ELSE failedSends[m] + 1
      /\ \A x \in Messages \ {m} : failedSends'[x] = failedSends[x]
  BY <1>2, DeliveryConstants DEF ChannelSend, DeliveryTyped
<1>5. delivery' = delivery /\ adminTold' = adminTold
  BY DEF ChannelSend
<1>6. Onward
  BY <1>2, <1>3, <1>4, <1>5 DEF Onward
<1>7. CountedHasFailed' /\ DeadLetterIsEarned'
  <2>1. \A x \in Messages : delivery[x].status \in Unsettled => delivery[x].count \in Nat
    BY DeliveryConstants DEF DeliveryTyped, Unsettled
  <2> QED BY <2>1, <1>2, <1>3, <1>4, <1>5, DeliveryConstants
          DEF CountedHasFailed, DeadLetterIsEarned
<1>8. WorkerRight(j, delivery', sends', failedSends')
  <2>1. /\ WorkerRight(worker[w], delivery, sends, failedSends)
        /\ worker[w].op = "send" /\ m \in DOMAIN worker[w].seen
    BY DEF WorkersRight, ChannelSend
  <2>2. \A x \in DOMAIN worker[w].seen : x \in Messages /\ worker[w].seen[x].count \in Nat
    BY <2>1, DeliveryConstants DEF WorkerRight
  <2>3. /\ j.op = "record" /\ j.seen = worker[w].seen /\ j.message = m
        /\ ~j.success => ~success
    OBVIOUS
  <2> HIDE DEF j
  <2> QED BY <2>1, <2>2, <2>3, <1>2, <1>3, <1>4, <1>5 DEF WorkerRight
<1> HIDE DEF j
<1> QED BY <1>1, <1>3, <1>4, <1>5, <1>6, <1>7, <1>8, WorkerStepKeeps DEF DeliveryTyped

\* What a session is about to record.
LEMMA RecordFields ==
    ASSUME DeliveryIInv, NEW w \in DeliveryWorkers, worker[w].op = "record"
    PROVE  LET m == worker[w].message
               r == worker[w].seen[m]
           IN  /\ m \in Messages /\ r \in DeliveryRow /\ r.status \in Unsettled
               /\ r.count \in Nat /\ r.count < sends[m]
               /\ ~worker[w].success => r.count < failedSends[m]
               /\ delivery[m] \in DeliveryRow
               /\ sends[m] \in 0..MaxSends /\ failedSends[m] \in 0..MaxSends
<1>1. WorkerRight(worker[w], delivery, sends, failedSends)
  BY DEF DeliveryIInv, WorkersRight
<1>2. worker[w].message \in Messages
  BY <1>1 DEF WorkerRight
<1> QED BY <1>1, <1>2, DeliveryConstants DEF WorkerRight, DeliveryIInv, DeliveryTyped

\* The row of a message is written.
LEMMA RecordKeeps ==
    ASSUME DeliveryIInv, NEW w \in DeliveryWorkers, worker[w].op = "record",
           NEW row \in DeliveryRow,
           delivery' = [delivery EXCEPT ![worker[w].message] = row],
           adminTold' \subseteq Messages, adminTold \subseteq adminTold',
           UNCHANGED <<sends, failedSends>>,
           worker' = [worker EXCEPT ![w] = AfterRecord(w, worker[w].message)],
           row.status \in Unsettled => row.count <= failedSends[worker[w].message],
           row.status = "dead_letter" =>
              /\ failedSends[worker[w].message] >= MaxDeliveryAttempts
              /\ worker[w].message \in adminTold'
    PROVE  DeliveryIInv'
<1> USE DEF DeliveryIInv
<1> DEFINE m == worker[w].message
<1>1. m \in Messages
  BY RecordFields
<1> HIDE DEF m
<1>2. /\ delivery' \in [Messages -> DeliveryRow \cup {NoDelivery}]
      /\ delivery'[m] = row /\ \A x \in Messages \ {m} : delivery'[x] = delivery[x]
  BY <1>1 DEF DeliveryTyped, m
<1>3. \A x \in Messages : sends[x] \in Nat /\ failedSends[x] \in Nat
  BY DeliveryConstants DEF DeliveryTyped
<1>4. Onward
  BY <1>2, <1>3, DeliveryConstants DEF Onward
<1>5. CountedHasFailed'
  BY <1>2 DEF CountedHasFailed, m
<1>6. DeadLetterIsEarned'
  BY <1>2 DEF DeadLetterIsEarned, m
<1>7. WorkerRight(AfterRecord(w, m), delivery', sends', failedSends')
  <2>1. WorkerRight(worker[w], delivery, sends, failedSends)
    BY DEF WorkersRight
  <2>2. DeliveryTyped'
    BY <1>2 DEF DeliveryTyped
  <2>3. WorkerRight(worker[w], delivery', sends', failedSends')
    BY <2>1, <2>2, <1>4, ReadStaysRight
  <2> QED BY <2>3, AfterRecordIsRight
<1> QED BY <1>2, <1>4, <1>5, <1>6, <1>7, WorkerStepKeeps DEF DeliveryTyped, m

\* A success.
LEMMA MarkDeliveredKeeps ==
    ASSUME DeliveryIInv, NEW w \in DeliveryWorkers, MarkDelivered(w)
    PROVE  DeliveryIInv'
<1> DEFINE m == worker[w].message
           row == [status |-> "delivered", count |-> worker[w].seen[m].count + 1, due |-> "never"]
<1>1. worker[w].op = "record"
  BY DEF MarkDelivered
<1>2. row \in DeliveryRow
  BY <1>1, RecordFields, DeliveryConstants DEF DeliveryRow, NotificationDeliveryStatus
<1>3. row.status = "delivered"
  OBVIOUS
<1>4. /\ delivery' = [delivery EXCEPT ![m] = row]
      /\ worker' = [worker EXCEPT ![w] = AfterRecord(w, m)]
      /\ UNCHANGED <<adminTold, sends, failedSends>>
  BY DEF MarkDelivered
<1>5. adminTold' \subseteq Messages /\ adminTold \subseteq adminTold'
  BY <1>4 DEF DeliveryIInv, DeliveryTyped
<1> HIDE DEF row
<1> QED BY <1>1, <1>2, <1>3, <1>4, <1>5, RecordKeeps DEF Unsettled

\* A failure, the last one or not.
LEMMA MarkFailedKeeps ==
    ASSUME DeliveryIInv, NEW w \in DeliveryWorkers, MarkFailedAttempt(w)
    PROVE  DeliveryIInv'
<1> DEFINE m == worker[w].message
           r == worker[w].seen[m]
           last == r.count + 1 >= MaxDeliveryAttempts
           status == IF last THEN "dead_letter" ELSE "retry_scheduled"
           row == [status |-> IF status = r.status THEN delivery[m].status ELSE status,
                   count |-> r.count + 1, due |-> IF last THEN "never" ELSE "later"]
<1>1. worker[w].op = "record" /\ ~worker[w].success
  BY DEF MarkFailedAttempt
<1>2. /\ m \in Messages /\ r \in DeliveryRow /\ r.status \in Unsettled
      /\ r.count \in Nat /\ r.count < failedSends[m]
      /\ delivery[m] \in DeliveryRow /\ failedSends[m] \in 0..MaxSends
  BY <1>1, RecordFields
<1>3. CASE /\ delivery' = [delivery EXCEPT ![m] = row]
           /\ adminTold' = IF last THEN adminTold \cup {m} ELSE adminTold
           /\ worker' = [worker EXCEPT ![w] = AfterRecord(w, m)]
           /\ UNCHANGED <<sends, failedSends>>
  <2>1. row \in DeliveryRow /\ row.count <= failedSends[m]
    BY <1>2, DeliveryConstants DEF DeliveryRow, NotificationDeliveryStatus
  <2>2. row.status = "dead_letter" => failedSends[m] >= MaxDeliveryAttempts /\ m \in adminTold'
    <3>1. CASE last
      BY <3>1, <1>2, <1>3, DeliveryConstants
    <3>2. CASE ~last
      BY <3>2, <1>2, <1>3 DEF DeliveryIInv, DeadLetterIsEarned
    <3> QED BY <3>1, <3>2
  <2>3. adminTold' \subseteq Messages /\ adminTold \subseteq adminTold'
    BY <1>2, <1>3 DEF DeliveryIInv, DeliveryTyped
  <2> HIDE DEF row
  <2> QED BY <1>1, <1>3, <2>1, <2>2, <2>3, RecordKeeps
<1>4. CASE /\ worker' = [worker EXCEPT ![w] = RestingWorker]
           /\ UNCHANGED <<delivery, adminTold, sends, failedSends>>
  <2>1. Onward /\ CountedHasFailed' /\ DeadLetterIsEarned'
    BY <1>4, DeliveryConstants
       DEF Onward, DeliveryIInv, CountedHasFailed, DeadLetterIsEarned, DeliveryTyped
  <2> QED BY <1>4, <2>1, RestingIsRight, WorkerStepKeeps DEF DeliveryIInv, DeliveryTyped
<1>5. \/ /\ delivery' = [delivery EXCEPT ![m] = row]
         /\ adminTold' = IF last THEN adminTold \cup {m} ELSE adminTold
         /\ worker' = [worker EXCEPT ![w] = AfterRecord(w, m)]
         /\ UNCHANGED <<sends, failedSends>>
      \/ /\ worker' = [worker EXCEPT ![w] = RestingWorker]
         /\ UNCHANGED <<delivery, adminTold, sends, failedSends>>
  BY DEF MarkFailedAttempt
<1> QED BY <1>3, <1>4, <1>5

\* A row that becomes due, or nothing at all.
LEMMA RetryTimeKeeps ==
    ASSUME DeliveryIInv, NEW m \in Messages, RetryTimePasses(m)
    PROVE  DeliveryIInv'
<1> USE DEF DeliveryIInv
<1> DEFINE row == [delivery[m] EXCEPT !.due = "now"]
<1>1. delivery[m] \in DeliveryRow
  BY DeliveryConstants DEF RetryTimePasses, DeliveryTyped
<1>2. row \in DeliveryRow /\ row.status = delivery[m].status /\ row.count = delivery[m].count
  BY <1>1 DEF DeliveryRow
<1>3. delivery' = [delivery EXCEPT ![m] = row]
  BY DEF RetryTimePasses
<1>4. UNCHANGED <<adminTold, worker, sends, failedSends>>
  BY DEF RetryTimePasses
<1> HIDE DEF row
<1>5. /\ delivery' \in [Messages -> DeliveryRow \cup {NoDelivery}]
      /\ delivery'[m] = row /\ \A x \in Messages \ {m} : delivery'[x] = delivery[x]
  BY <1>2, <1>3 DEF DeliveryTyped
<1>6. DeliveryTyped'
  BY <1>4, <1>5 DEF DeliveryTyped
<1>7. Onward
  BY <1>2, <1>4, <1>5, DeliveryConstants DEF Onward, DeliveryTyped
<1>8. CountedHasFailed' /\ DeadLetterIsEarned'
  BY <1>2, <1>4, <1>5 DEF CountedHasFailed, DeadLetterIsEarned
<1>9. WorkersRight'
  BY <1>4, <1>6, <1>7, ReadStaysRight DEF WorkersRight
<1> QED BY <1>6, <1>8, <1>9

\* Each step of the deliveries keeps it.
LEMMA DeliveryInductive == DeliveryIInv /\ [DeliveryNext]_deliveryVars => DeliveryIInv'
<1> SUFFICES ASSUME DeliveryIInv, [DeliveryNext]_deliveryVars PROVE DeliveryIInv'
  OBVIOUS
<1>1. ASSUME NEW w \in DeliveryWorkers, NEW m \in Messages, EnqueueDelivery(w, m)
      PROVE  DeliveryIInv'
  BY <1>1, EnqueueKeeps
<1>2. ASSUME NEW w \in DeliveryWorkers, NEW m \in Messages, NEW success \in BOOLEAN,
             ChannelSend(w, m, success)
      PROVE  DeliveryIInv'
  BY <1>2, ChannelSendKeeps
<1>3. ASSUME NEW w \in DeliveryWorkers, DeliveryWorkerDies(w) PROVE DeliveryIInv'
  <2>1. /\ worker' = [worker EXCEPT ![w] = RestingWorker]
        /\ UNCHANGED <<delivery, adminTold, sends, failedSends>>
    BY <1>3 DEF DeliveryWorkerDies
  <2>2. Onward /\ CountedHasFailed' /\ DeadLetterIsEarned'
    BY <2>1, DeliveryConstants
       DEF Onward, DeliveryIInv, CountedHasFailed, DeadLetterIsEarned, DeliveryTyped
  <2> QED BY <2>1, <2>2, RestingIsRight, WorkerStepKeeps DEF DeliveryIInv, DeliveryTyped
<1>4. ASSUME NEW w \in DeliveryWorkers,
             ProcessDue(w) \/ MarkDelivered(w) \/ MarkFailedAttempt(w)
      PROVE  DeliveryIInv'
  BY <1>4, ProcessDueKeeps, MarkDeliveredKeeps, MarkFailedKeeps
<1>5. ASSUME NEW m \in Messages, RetryTimePasses(m) PROVE DeliveryIInv'
  BY <1>5, RetryTimeKeeps
<1>6. CASE UNCHANGED deliveryVars
  BY <1>6 DEF deliveryVars, DeliveryIInv, DeliveryTyped, CountedHasFailed, WorkersRight,
              DeadLetterIsEarned
<1> QED BY <1>1, <1>2, <1>3, <1>4, <1>5, <1>6 DEF DeliveryNext

\* Type correctness of the deliveries.
THEOREM DeliveriesTypeCorrect == DeliverySpec => []DeliveryTypeOK
<1>1. DeliveryIInv => DeliveryTypeOK
  BY DEF DeliveryIInv, DeliveryTyped, WorkersRight, WorkerRight, DeliveryTypeOK
<1> QED BY <1>1, DeliveryInitHolds, DeliveryInductive, PTL DEF DeliverySpec

\* DeadLetterIsEarned: mark_failed_attempt of any number of senders and tasks.
THEOREM DeadLettersAreEarned == DeliverySpec => []DeadLetterIsEarned
<1>1. DeliveryIInv => DeadLetterIsEarned
  BY DEF DeliveryIInv
<1> QED BY <1>1, DeliveryInitHolds, DeliveryInductive, PTL DEF DeliverySpec

-----------------------------------------------------------------------------
(***************************************************************************)
(* Notifications: the unique key of the inbox lets one session through,    *)
(* and a call ends within its tick, so no row of a day is inserted after   *)
(* the digest of that day.                                                 *)
(***************************************************************************)

Sends == [op : {"insert", "external"},
          prefs : UNION {[R -> Preference] : R \in SUBSET Receivers},
          keys : SUBSET Keys, at : 0..LastTick]
Digests == [op : {"digest"}, pending : SUBSET Keys, new : SUBSET Keys]

NotifyTyped ==
    /\ DOMAIN inbox \subseteq Keys
    /\ \A k \in DOMAIN inbox : inbox[k] \in InboxRow
    /\ preference \in [Receivers -> Preference]
    /\ zone \in [Receivers -> Zones]
    /\ clock \in 0..LastTick
    /\ notifyJob \in [NotifyJobs -> Sends \cup Digests \cup {QuietJob}]
    /\ external \in [Keys -> 0..2]
    /\ silent \subseteq Keys /\ movedZone \subseteq Receivers

\* A sender has keys of sources, and no later or earlier tick than now.
SendersAreToday ==
    \A s \in NotifyJobs : notifyJob[s].op \in {"insert", "external"} =>
        /\ notifyJob[s].at = clock
        /\ \A k \in notifyJob[s].keys : k[2] \in Sources /\ k[1] \in DOMAIN notifyJob[s].prefs

\* A session about to send the key outside.
Announces(s, k) == notifyJob[s].op = "external" /\ k \in notifyJob[s].keys

\* Whoever sends a key outside has inserted its row, alone.
OneAnnounces ==
    \A k \in Keys \ silent :
        /\ \A s \in NotifyJobs : Announces(s, k) =>
              /\ external[k] = 0 /\ k \in DOMAIN inbox
              /\ \A t \in NotifyJobs \ {s} : ~Announces(t, k)
        /\ external[k] > 0 => external[k] = 1 /\ k \in DOMAIN inbox

\* A row in digest mode of receiver r and day d.
OfDay(k, r, d) ==
    /\ k \in DOMAIN inbox /\ k[1] = r
    /\ inbox[k].mode = "daily_digest" /\ LocalDate(r, inbox[k].at) = d

\* A digest covers a day that is over, and every row of it.
DigestsAreComplete ==
    \A r \in Receivers \ movedZone, d \in Dates :
        <<r, Digest, d>> \in DOMAIN inbox =>
            /\ d < LocalDate(r, clock)
            /\ \A k \in Keys : OfDay(k, r, d) => inbox[k].digested

\* So does a digest about to be inserted, together with what is marked then.
DigestJobRight(j) ==
    j.op = "digest" =>
        /\ \A k \in j.pending :
              /\ k \in DOMAIN inbox
              /\ k[1] \notin movedZone => \E d \in Dates : <<k[1], Digest, d>> \in j.new
        /\ \A k \in j.new : k[2] = Digest
        /\ \A r \in Receivers \ movedZone, d \in Dates :
              <<r, Digest, d>> \in j.new =>
                  /\ d < LocalDate(r, clock)
                  /\ \A k \in Keys : OfDay(k, r, d) => inbox[k].digested \/ k \in j.pending

DigestJobsRight == \A s \in NotifyJobs : DigestJobRight(notifyJob[s])

NotifyIInv ==
    /\ NotifyTyped /\ SendersAreToday /\ OneAnnounces
    /\ DigestsAreComplete /\ DigestJobsRight /\ DigestedIsListed


\* The constants are numbers; a day has at least one tick.
LEMMA NotifyConstants ==
    /\ DayTicks \in Nat \ {0} /\ LastTick \in Nat
    /\ (\A z \in Zones : z \in Nat /\ z < DayTicks) /\ 0 \in Zones
    /\ Digest \notin Sources
BY NotificationsAssumption DEF Digest

\* Days are numbers, and time does not go back.
LEMMA DivType ==
    ASSUME NEW a \in Nat, NEW b \in Nat \ {0}
    PROVE  a \div b \in Nat
OBVIOUS

LEMMA DivMonotone ==
    ASSUME NEW a \in Nat, NEW c \in Nat, NEW b \in Nat \ {0}, a <= c
    PROVE  a \div b <= c \div b
OBVIOUS

LEMMA LocalDates ==
    ASSUME NotifyTyped, NEW r \in Receivers, NEW t \in 0..LastTick
    PROVE  /\ LocalDate(r, t) \in Dates /\ LocalDate(r, t) \in Nat
           /\ t \div DayTicks \in Dates
           /\ \A u \in 0..LastTick : t <= u => LocalDate(r, t) <= LocalDate(r, u)
<1>1. /\ zone[r] \in Nat /\ zone[r] < DayTicks /\ DayTicks \in Nat \ {0}
      /\ LastTick \in Nat /\ t \in Nat /\ t <= LastTick
  <2>1. zone[r] \in Zones
    BY DEF NotifyTyped
  <2>2. zone[r] \in Nat /\ zone[r] < DayTicks
    BY <2>1, NotifyConstants
  <2>3. t \in Nat /\ t <= LastTick
    BY NotifyConstants
  <2> QED BY <2>2, <2>3, NotifyConstants
<1> DEFINE a == t + zone[r]
           e == LastTick + DayTicks
<1>a. a \in Nat /\ e \in Nat /\ a <= e /\ t <= e
  BY <1>1
<1>2. /\ (t + zone[r]) \div DayTicks \in Nat /\ t \div DayTicks \in Nat
      /\ (LastTick + DayTicks) \div DayTicks \in Nat
  <2> HIDE DEF a, e
  <2>1. a \div DayTicks \in Nat /\ t \div DayTicks \in Nat /\ e \div DayTicks \in Nat
    BY <1>1, <1>a, DivType
  <2> QED BY <2>1 DEF a, e
<1>3. /\ (t + zone[r]) \div DayTicks <= (LastTick + DayTicks) \div DayTicks
      /\ t \div DayTicks <= (LastTick + DayTicks) \div DayTicks
  <2> HIDE DEF a, e
  <2>1. a \div DayTicks <= e \div DayTicks /\ t \div DayTicks <= e \div DayTicks
    BY <1>1, <1>a, DivMonotone
  <2> QED BY <2>1 DEF a, e
<1>4. ASSUME NEW u \in 0..LastTick, t <= u
      PROVE  (t + zone[r]) \div DayTicks <= (u + zone[r]) \div DayTicks
  <2> DEFINE b == u + zone[r]
  <2>1. b \in Nat /\ a <= b
    BY <1>1, <1>4
  <2> HIDE DEF a, b
  <2>2. a \div DayTicks <= b \div DayTicks
    BY <1>1, <1>a, <2>1, DivMonotone
  <2> QED BY <2>2 DEF a, b
<1> QED BY <1>2, <1>3, <1>4 DEF LocalDate, Dates

\* A key is a receiver, a source or a digest, and a day.
LEMMA KeyFields ==
    /\ \A k \in Keys : /\ k[1] \in Receivers /\ k[2] \in Sources \cup {Digest} /\ k[3] \in Dates
                       /\ k = <<k[1], k[2], k[3]>>
    /\ \A r \in Receivers, c \in Sources \cup {Digest}, d \in Dates :
          /\ <<r, c, d>> \in Keys
          /\ <<r, c, d>>[1] = r /\ <<r, c, d>>[2] = c /\ <<r, c, d>>[3] = d
BY DEF Keys

\* What a job is, by what it does.
LEMMA NotifyJobFields ==
    ASSUME NEW j \in Sends \cup Digests \cup {QuietJob}
    PROVE  /\ j.op \in {"idle", "insert", "external", "digest"}
           /\ j.op = "idle" <=> j = QuietJob
           /\ j.op \in {"insert", "external"} <=> j \in Sends
           /\ j.op = "digest" <=> j \in Digests
           /\ j \in Sends => /\ j.keys \subseteq Keys /\ j.at \in 0..LastTick
                             /\ j.prefs \in [DOMAIN j.prefs -> Preference]
                             /\ DOMAIN j.prefs \subseteq Receivers
           /\ j \in Digests => j.pending \subseteq Keys /\ j.new \subseteq Keys
BY DEF Sends, Digests, QuietJob

\* At first the inbox is empty.
LEMMA NotifyInitHolds == NotifyInit => NotifyIInv
<1> SUFFICES ASSUME NotifyInit PROVE NotifyIInv
  OBVIOUS
<1>1. DOMAIN inbox = {}
  BY DEF NotifyInit
<1>2. NotifyTyped
  <2>1. preference \in [Receivers -> Preference]
    BY PreferencesAssumption DEF NotifyInit
  <2>2. external \in [Keys -> 0..2]
    BY DEF NotifyInit
  <2> QED BY <1>1, <2>1, <2>2, NotifyConstants DEF NotifyInit, NotifyTyped
<1>3. \A s \in NotifyJobs : notifyJob[s].op = "idle"
  BY DEF NotifyInit, QuietJob
<1>4. SendersAreToday /\ DigestJobsRight
  BY <1>3 DEF SendersAreToday, DigestJobsRight, DigestJobRight
<1>5. OneAnnounces
  BY <1>3 DEF NotifyInit, OneAnnounces, Announces
<1>6. DigestsAreComplete /\ DigestedIsListed
  BY <1>1 DEF DigestsAreComplete, DigestedIsListed
<1> QED BY <1>2, <1>4, <1>5, <1>6 DEF NotifyIInv

-----------------------------------------------------------------------------

\* The inbox grows: rows are kept, may be marked as digested and read, and
\* new ones in digest mode are of now.
InboxGrows ==
    /\ UNCHANGED <<zone, clock, movedZone>>
    /\ DOMAIN inbox \subseteq DOMAIN inbox'
    /\ \A k \in DOMAIN inbox :
          /\ inbox'[k].at = inbox[k].at /\ inbox'[k].mode = inbox[k].mode
          /\ inbox'[k].items = inbox[k].items
          /\ inbox[k].digested => inbox'[k].digested
    /\ \A k \in DOMAIN inbox' \ DOMAIN inbox :
          inbox'[k].mode = "daily_digest" => inbox'[k].at = clock

\* A day that is over gets no more rows.
LEMMA PastDaysStay ==
    ASSUME InboxGrows, NEW r \in Receivers, NEW d \in Dates, d < LocalDate(r, clock), NEW k \in Keys,
           OfDay(k, r, d)'
    PROVE  OfDay(k, r, d)
<1>1. zone' = zone /\ clock' = clock
  BY DEF InboxGrows
<1>2. k \in DOMAIN inbox
  BY <1>1 DEF InboxGrows, OfDay, LocalDate, Dates
<1> QED BY <1>1, <1>2 DEF InboxGrows, OfDay, LocalDate

\* So the digests there are stay complete and the jobs right.
LEMMA OldDigestsStay ==
    ASSUME NotifyIInv, InboxGrows, NEW r \in Receivers \ movedZone, NEW d \in Dates,
           <<r, Digest, d>> \in DOMAIN inbox
    PROVE  /\ d < LocalDate(r, clock)'
           /\ \A k \in Keys : OfDay(k, r, d)' => inbox'[k].digested
<1>1. /\ d < LocalDate(r, clock)
      /\ \A k \in Keys : OfDay(k, r, d) => inbox[k].digested
  BY DEF NotifyIInv, DigestsAreComplete
<1>2. \A k \in Keys : OfDay(k, r, d)' => OfDay(k, r, d)
  BY <1>1, PastDaysStay
<1> QED BY <1>1, <1>2 DEF InboxGrows, OfDay, LocalDate

LEMMA DigestJobStays ==
    ASSUME NotifyIInv, InboxGrows, NEW t \in NotifyJobs, notifyJob'[t] = notifyJob[t]
    PROVE  DigestJobRight(notifyJob[t])'
<1> DEFINE j == notifyJob[t]
<1>1. DigestJobRight(j)
  BY DEF NotifyIInv, DigestJobsRight
<1>2. notifyJob'[t] = j
  OBVIOUS
<1> HIDE DEF j
<1> SUFFICES ASSUME j.op = "digest"
             PROVE  /\ \A k \in j.pending :
                          /\ k \in DOMAIN inbox'
                          /\ k[1] \notin movedZone' => \E d \in Dates : <<k[1], Digest, d>> \in j.new
                    /\ \A k \in j.new : k[2] = Digest
                    /\ \A r \in Receivers \ movedZone', d \in Dates :
                          <<r, Digest, d>> \in j.new =>
                              /\ d < LocalDate(r, clock)'
                              /\ \A k \in Keys : OfDay(k, r, d)' =>
                                                    inbox'[k].digested \/ k \in j.pending
  BY <1>2 DEF DigestJobRight
<1>3. /\ \A k \in j.pending :
            /\ k \in DOMAIN inbox'
            /\ k[1] \notin movedZone' => \E d \in Dates : <<k[1], Digest, d>> \in j.new
      /\ \A k \in j.new : k[2] = Digest
  BY <1>1 DEF DigestJobRight, InboxGrows
<1>4. ASSUME NEW r \in Receivers \ movedZone', NEW d \in Dates, <<r, Digest, d>> \in j.new
      PROVE  /\ d < LocalDate(r, clock)'
             /\ \A k \in Keys : OfDay(k, r, d)' => inbox'[k].digested \/ k \in j.pending
  <2>1. r \in Receivers \ movedZone /\ LocalDate(r, clock)' = LocalDate(r, clock)
    BY DEF InboxGrows, LocalDate
  <2>2. /\ d < LocalDate(r, clock)
        /\ \A k \in Keys : OfDay(k, r, d) => inbox[k].digested \/ k \in j.pending
    BY <1>1, <1>4, <2>1 DEF DigestJobRight
  <2>3. \A k \in Keys : OfDay(k, r, d)' => OfDay(k, r, d)
    BY <2>1, <2>2, PastDaysStay
  <2> QED BY <2>1, <2>2, <2>3 DEF InboxGrows, OfDay
<1> QED BY <1>3, <1>4

\* What was listed stays listed.
LEMMA ListedStays ==
    ASSUME NotifyIInv, InboxGrows, NEW k \in DOMAIN inbox, inbox[k].digested, k[1] \notin movedZone
    PROVE  \E d \in Dates : /\ <<k[1], Digest, d>> \in DOMAIN inbox'
                            /\ k \in inbox'[<<k[1], Digest, d>>].items
<1>1. PICK d \in Dates : /\ <<k[1], Digest, d>> \in DOMAIN inbox
                         /\ k \in inbox[<<k[1], Digest, d>>].items
  BY DEF NotifyIInv, DigestedIsListed
<1> QED BY <1>1 DEF InboxGrows

-----------------------------------------------------------------------------

\* A job set.
LEMMA NotifyJobSet ==
    ASSUME NotifyTyped, NEW s \in NotifyJobs, NEW j \in Sends \cup Digests \cup {QuietJob},
           notifyJob' = [notifyJob EXCEPT ![s] = j]
    PROVE  /\ notifyJob' \in [NotifyJobs -> Sends \cup Digests \cup {QuietJob}]
           /\ notifyJob'[s] = j
           /\ \A t \in NotifyJobs \ {s} : notifyJob'[t] = notifyJob[t]
BY DEF NotifyTyped

\* Rows that stay as they are but for the mark that they were read.
LEMMA SameRowsKeep ==
    ASSUME NotifyIInv, preference' \in [Receivers -> Preference],
           DOMAIN inbox' = DOMAIN inbox, \A k \in DOMAIN inbox : inbox'[k] \in InboxRow,
           \A k \in DOMAIN inbox :
              /\ inbox'[k].at = inbox[k].at /\ inbox'[k].mode = inbox[k].mode
              /\ inbox'[k].items = inbox[k].items /\ inbox'[k].digested = inbox[k].digested,
           UNCHANGED <<zone, clock, notifyJob, external, silent, movedZone>>
    PROVE  NotifyIInv'
<1>1. InboxGrows
  BY DEF InboxGrows
<1>2. NotifyTyped'
  BY DEF NotifyIInv, NotifyTyped
<1>3. SendersAreToday'
  BY DEF NotifyIInv, SendersAreToday
<1>4. OneAnnounces'
  BY DEF NotifyIInv, OneAnnounces, Announces
<1>5. DigestsAreComplete'
  <2>1. movedZone' = movedZone
    OBVIOUS
  <2> QED BY <1>1, <2>1, OldDigestsStay DEF DigestsAreComplete
<1>6. DigestJobsRight'
  BY <1>1, DigestJobStays DEF DigestJobsRight
<1>7. DigestedIsListed'
  BY <1>1, ListedStays DEF DigestedIsListed
<1> QED BY <1>2, <1>3, <1>4, <1>5, <1>6, <1>7 DEF NotifyIInv

\* A session that has read, or gives up.
LEMMA OnlyNotifyJobKeeps ==
    ASSUME NotifyIInv, NEW s \in NotifyJobs, NEW j \in Digests \cup Sends \cup {QuietJob},
           notifyJob' = [notifyJob EXCEPT ![s] = j],
           UNCHANGED <<inbox, preference, zone, clock, external, silent, movedZone>>,
           j.op # "external",
           j.op = "insert" => /\ j.at = clock
                              /\ \A k \in j.keys : k[2] \in Sources /\ k[1] \in DOMAIN j.prefs,
           DigestJobRight(j)
    PROVE  NotifyIInv'
<1>1. InboxGrows
  BY DEF InboxGrows
<1>2. /\ notifyJob' \in [NotifyJobs -> Sends \cup Digests \cup {QuietJob}]
      /\ notifyJob'[s] = j
      /\ \A t \in NotifyJobs \ {s} : notifyJob'[t] = notifyJob[t]
  BY NotifyJobSet DEF NotifyIInv
<1>3. NotifyTyped'
  BY <1>2 DEF NotifyIInv, NotifyTyped
<1>4. SendersAreToday'
  BY <1>2 DEF NotifyIInv, SendersAreToday
<1>5. OneAnnounces'
  <2>1. \A t \in NotifyJobs, k \in Keys : Announces(t, k)' => Announces(t, k)
    BY <1>2 DEF Announces
  <2> QED BY <2>1 DEF NotifyIInv, OneAnnounces
<1>6. DigestsAreComplete'
  BY <1>1, OldDigestsStay DEF DigestsAreComplete
<1>7. DigestJobsRight'
  <2> SUFFICES ASSUME NEW t \in NotifyJobs PROVE DigestJobRight(notifyJob[t])'
    BY DEF DigestJobsRight
  <2>1. CASE t = s
    BY <2>1, <1>2 DEF DigestJobRight, OfDay, LocalDate
  <2>2. CASE t # s
    BY <2>2, <1>1, <1>2, DigestJobStays
  <2> QED BY <2>1, <2>2
<1>8. DigestedIsListed'
  BY <1>1, ListedStays DEF DigestedIsListed
<1> QED BY <1>3, <1>4, <1>5, <1>6, <1>7, <1>8 DEF NotifyIInv

\* The keys of a notification that are free.
LEMMA SendReadKeeps ==
    ASSUME NotifyIInv, NEW s \in NotifyJobs, NEW source \in Sources, NEW rs \in SUBSET Receivers,
           SendRead(s, source, rs)
    PROVE  NotifyIInv'
<1> DEFINE reached == {r \in rs : _has_enabled_channel(preference[r])}
           keys == {<<r, source, business_date>> :
                       r \in {r \in reached : <<r, source, business_date>> \notin DOMAIN inbox}}
           j == [op |-> "insert", prefs |-> [r \in reached |-> preference[r]],
                 keys |-> keys, at |-> clock]
<1>1. NotifyTyped /\ clock \in 0..LastTick
  BY DEF NotifyIInv, NotifyTyped
<1>2. notifyJob' = [notifyJob EXCEPT ![s] = j]
  BY DEF SendRead
<1>3. \A k \in keys : k \in Keys /\ k[2] = source /\ k[1] \in reached
  <2> SUFFICES ASSUME NEW r \in reached
               PROVE  LET k == <<r, source, business_date>>
                      IN  k \in Keys /\ k[2] = source /\ k[1] \in reached
    OBVIOUS
  <2>1. business_date \in Dates
    BY <1>1, LocalDates DEF business_date
  <2> QED BY <2>1, KeyFields
<1>4. [r \in reached |-> preference[r]] \in UNION {[R -> Preference] : R \in SUBSET Receivers}
  <2>1. reached \in SUBSET Receivers /\ [r \in reached |-> preference[r]] \in [reached -> Preference]
    BY <1>1 DEF NotifyTyped
  <2> QED BY <2>1
<1>5. /\ j \in Sends /\ j.op = "insert" /\ j.at = clock /\ j.keys = keys
      /\ DOMAIN j.prefs = reached
  BY <1>1, <1>3, <1>4 DEF Sends
<1> HIDE DEF keys, j, reached
<1>6. DigestJobRight(j)
  BY <1>5 DEF DigestJobRight
<1> QED BY <1>2, <1>3, <1>5, <1>6, OnlyNotifyJobKeeps DEF SendRead

\* The rows of a digest that is due.
LEMMA DigestReadKeeps ==
    ASSUME NotifyIInv, NEW s \in NotifyJobs, NEW z \in Zones, DigestRead(s, z)
    PROVE  NotifyIInv'
<1> DEFINE due == {r \in Receivers : zone[r] = z /\ AtNine(r)}
           date == (clock + z) \div DayTicks - 1
           pending == list_pending_digest_notifications(due, date)
           new == {<<r, Digest, date>> : r \in {k[1] : k \in pending}} \ DOMAIN inbox
           j == [op |-> "digest", pending |-> pending, new |-> new]
<1>1. NotifyTyped /\ clock \in 0..LastTick
  BY DEF NotifyIInv, NotifyTyped
<1>2. notifyJob' = [notifyJob EXCEPT ![s] = j]
  BY DEF DigestRead
<1>3. \A r \in due : r \in Receivers /\ date = LocalDate(r, clock) - 1
  BY DEF LocalDate
<1>4. \A k \in pending : /\ k \in DOMAIN inbox /\ k \in Keys /\ k[1] \in due
                         /\ OfDay(k, k[1], date) /\ ~inbox[k].digested
  BY <1>1 DEF list_pending_digest_notifications, OfDay, NotifyTyped
<1>5. \A r \in due, k \in Keys : OfDay(k, r, date) /\ ~inbox[k].digested => k \in pending
  BY DEF list_pending_digest_notifications, OfDay
<1>6. \A k \in pending : date \in Dates /\ date < LocalDate(k[1], clock) /\ date \in Nat
  <2> SUFFICES ASSUME NEW k \in pending
               PROVE  date \in Dates /\ date < LocalDate(k[1], clock) /\ date \in Nat
    OBVIOUS
  <2> HIDE DEF date, pending, due
  <2>1. k[1] \in Receivers /\ date = LocalDate(k[1], inbox[k].at) /\ k \in DOMAIN inbox
    BY <1>3, <1>4 DEF OfDay
  <2>2. inbox[k].at \in 0..LastTick
    BY <1>1, <2>1 DEF NotifyTyped, InboxRow
  <2>3. date \in Dates /\ date \in Nat /\ LocalDate(k[1], clock) \in Nat
    BY <1>1, <2>1, <2>2, LocalDates
  <2>4. date = LocalDate(k[1], clock) - 1
    BY <1>3, <1>4
  <2> QED BY <2>3, <2>4
<1>7. new \subseteq Keys /\ \A k \in new : k[2] = Digest
  <2> SUFFICES ASSUME NEW k \in pending
               PROVE  <<k[1], Digest, date>> \in Keys /\ <<k[1], Digest, date>>[2] = Digest
    OBVIOUS
  <2> HIDE DEF date, pending, due
  <2> QED BY <1>3, <1>4, <1>6, KeyFields
<1>8. j \in Digests /\ j.op = "digest" /\ j.pending = pending /\ j.new = new
  BY <1>4, <1>7 DEF Digests
<1>9. \A k \in pending : k[1] \notin movedZone => <<k[1], Digest, date>> \in new
  <2> SUFFICES ASSUME NEW k \in pending, k[1] \notin movedZone,
                      <<k[1], Digest, date>> \in DOMAIN inbox
               PROVE  FALSE
    OBVIOUS
  <2> HIDE DEF date, pending, due
  <2>1. k[1] \in Receivers \ movedZone /\ date \in Dates
    BY <1>3, <1>4, <1>6
  <2> QED BY <2>1, <1>4 DEF NotifyIInv, DigestsAreComplete
<1>10. \A r \in Receivers, d \in Dates : <<r, Digest, d>> \in new =>
          /\ d = date /\ r \in due /\ d < LocalDate(r, clock)
  <2> SUFFICES ASSUME NEW r \in Receivers, NEW d \in Dates, <<r, Digest, d>> \in new
               PROVE  d = date /\ r \in due /\ d < LocalDate(r, clock)
    OBVIOUS
  <2>1. PICK k \in pending : <<r, Digest, d>> = <<k[1], Digest, date>>
    OBVIOUS
  <2>2. r = k[1] /\ d = date
    BY <2>1
  <2> QED BY <2>2, <1>4, <1>6
<1>11. DigestJobRight(j)
  <2> HIDE DEF date, pending, due, new, j
  <2>1. /\ \A k \in pending : /\ k \in DOMAIN inbox
                              /\ k[1] \notin movedZone => \E d \in Dates : <<k[1], Digest, d>> \in new
        /\ \A k \in new : k[2] = Digest
    BY <1>4, <1>6, <1>7, <1>9
  <2>2. \A r \in Receivers \ movedZone, d \in Dates : <<r, Digest, d>> \in new =>
           /\ d < LocalDate(r, clock)
           /\ \A k \in Keys : OfDay(k, r, d) => inbox[k].digested \/ k \in pending
    BY <1>5, <1>10
  <2> QED BY <1>8, <2>1, <2>2 DEF DigestJobRight
<1> HIDE DEF j
<1> QED BY <1>2, <1>8, <1>11, OnlyNotifyJobKeeps DEF DigestRead

\* A read flag, or nothing.
LEMMA MarkReadKeeps ==
    ASSUME NotifyIInv, NEW K, UNCHANGED <<preference, zone, clock, notifyJob, external, silent, movedZone>>,
           inbox' = [k \in DOMAIN inbox |->
              IF k \in K THEN [inbox[k] EXCEPT !.read = TRUE] ELSE inbox[k]]
    PROVE  NotifyIInv'
<1>1. DOMAIN inbox' = DOMAIN inbox
  OBVIOUS
<1>2. ASSUME NEW k \in DOMAIN inbox
      PROVE  /\ inbox'[k] \in InboxRow
             /\ inbox'[k].at = inbox[k].at /\ inbox'[k].mode = inbox[k].mode
             /\ inbox'[k].items = inbox[k].items /\ inbox'[k].digested = inbox[k].digested
  <2>1. inbox[k] \in InboxRow
    BY DEF NotifyIInv, NotifyTyped
  <2> QED BY <2>1 DEF InboxRow
<1>3. preference' \in [Receivers -> Preference]
  BY DEF NotifyIInv, NotifyTyped
<1> QED BY <1>1, <1>2, <1>3, SameRowsKeep

\* Time passes while nobody is busy.
LEMMA TickKeeps ==
    ASSUME NotifyIInv, Tick
    PROVE  NotifyIInv'
<1>1. \A s \in NotifyJobs : notifyJob'[s].op = "idle"
  BY DEF Tick, QuietJob
<1>2. /\ clock \in 0..LastTick /\ clock' \in 0..LastTick /\ clock <= clock'
      /\ UNCHANGED <<inbox, preference, zone, notifyJob, external, silent, movedZone>>
  BY NotifyConstants DEF Tick, NotifyIInv, NotifyTyped
<1>3. NotifyTyped'
  BY <1>2 DEF NotifyIInv, NotifyTyped
<1>4. SendersAreToday' /\ DigestJobsRight'
  BY <1>1 DEF SendersAreToday, DigestJobsRight, DigestJobRight
<1>5. OneAnnounces'
  BY <1>1, <1>2 DEF NotifyIInv, OneAnnounces, Announces
<1>6. DigestsAreComplete'
  <2> SUFFICES ASSUME NEW r \in Receivers \ movedZone, NEW d \in Dates,
                      <<r, Digest, d>> \in DOMAIN inbox
               PROVE  /\ d < LocalDate(r, clock)'
                      /\ \A k \in Keys : OfDay(k, r, d)' => inbox[k].digested
    BY <1>2 DEF DigestsAreComplete
  <2>1. /\ d < LocalDate(r, clock)
        /\ \A k \in Keys : OfDay(k, r, d) => inbox[k].digested
    BY DEF NotifyIInv, DigestsAreComplete
  <2>2. LocalDate(r, clock)' = LocalDate(r, clock')
    BY <1>2 DEF LocalDate
  <2>3. LocalDate(r, clock) \in Nat /\ LocalDate(r, clock') \in Nat
        /\ LocalDate(r, clock) <= LocalDate(r, clock')
    BY <1>2, LocalDates DEF NotifyIInv
  <2>4. \A k \in Keys : OfDay(k, r, d)' => OfDay(k, r, d)
    BY <1>2 DEF OfDay, LocalDate
  <2>5. d \in Nat
    BY NotifyConstants DEF Dates
  <2> QED BY <2>1, <2>2, <2>3, <2>4, <2>5
<1>7. DigestedIsListed'
  BY <1>2 DEF NotifyIInv, DigestedIsListed
<1> QED BY <1>3, <1>4, <1>5, <1>6, <1>7 DEF NotifyIInv

\* A receiver who moves is not spoken about any more.
LEMMA ChangeZoneKeeps ==
    ASSUME NotifyIInv, NEW r \in Receivers, NEW z \in Zones, ChangeZone(r, z)
    PROVE  NotifyIInv'
<1>1. /\ movedZone' = movedZone \cup {r}
      /\ \A q \in Receivers \ movedZone' : zone'[q] = zone[q] /\ q \in Receivers \ movedZone
      /\ UNCHANGED <<inbox, preference, clock, notifyJob, external, silent>>
  BY DEF ChangeZone, NotifyIInv, NotifyTyped
<1>2. \A q \in Receivers \ movedZone', d \in Dates, k \in Keys :
         /\ LocalDate(q, clock)' = LocalDate(q, clock)
         /\ OfDay(k, q, d)' <=> OfDay(k, q, d)
  BY <1>1 DEF LocalDate, OfDay
<1>3. NotifyTyped'
  BY <1>1 DEF NotifyIInv, NotifyTyped, ChangeZone
<1>4. SendersAreToday'
  BY <1>1 DEF NotifyIInv, SendersAreToday
<1>5. OneAnnounces'
  BY <1>1 DEF NotifyIInv, OneAnnounces, Announces
<1>6. DigestsAreComplete'
  <2> SUFFICES ASSUME NEW q \in Receivers \ movedZone', NEW d \in Dates,
                      <<q, Digest, d>> \in DOMAIN inbox
               PROVE  /\ d < LocalDate(q, clock)'
                      /\ \A k \in Keys : OfDay(k, q, d)' => inbox[k].digested
    BY <1>1 DEF DigestsAreComplete
  <2>1. /\ d < LocalDate(q, clock)
        /\ \A k \in Keys : OfDay(k, q, d) => inbox[k].digested
    BY <1>1 DEF NotifyIInv, DigestsAreComplete
  <2>2. LocalDate(q, clock)' = LocalDate(q, clock)
    BY <1>1 DEF LocalDate
  <2> QED BY <1>2, <2>1, <2>2
<1>7. DigestJobsRight'
  <2> SUFFICES ASSUME NEW s \in NotifyJobs PROVE DigestJobRight(notifyJob[s])'
    BY DEF DigestJobsRight
  <2> DEFINE j == notifyJob[s]
  <2>1. DigestJobRight(j) /\ notifyJob'[s] = j
    BY <1>1 DEF NotifyIInv, DigestJobsRight
  <2> HIDE DEF j
  <2>2. ASSUME NEW q \in Receivers \ movedZone', NEW d \in Dates, <<q, Digest, d>> \in j.new,
               j.op = "digest"
        PROVE  /\ d < LocalDate(q, clock)'
               /\ \A k \in Keys : OfDay(k, q, d)' => inbox[k].digested \/ k \in j.pending
    <3>1. /\ d < LocalDate(q, clock)
          /\ \A k \in Keys : OfDay(k, q, d) => inbox[k].digested \/ k \in j.pending
      BY <1>1, <2>1, <2>2 DEF DigestJobRight
    <3>2. LocalDate(q, clock)' = LocalDate(q, clock)
      BY <1>1 DEF LocalDate
    <3> QED BY <1>2, <3>1, <3>2
  <2>3. j.op = "digest" =>
           /\ \A k \in j.pending :
                 /\ k \in DOMAIN inbox
                 /\ k[1] \notin movedZone' => \E d \in Dates : <<k[1], Digest, d>> \in j.new
           /\ \A k \in j.new : k[2] = Digest
    BY <1>1, <2>1 DEF DigestJobRight
  <2> QED BY <1>1, <2>1, <2>2, <2>3 DEF DigestJobRight
<1>8. DigestedIsListed'
  BY SMTT(30), <1>1 DEF NotifyIInv, DigestedIsListed
<1> QED BY <1>3, <1>4, <1>5, <1>6, <1>7, <1>8 DEF NotifyIInv

\* The rows of a notification: a key is announced by the session that inserted it.
LEMMA SendInsertKeeps ==
    ASSUME NotifyIInv, NEW s \in NotifyJobs, SendInsert(s)
    PROVE  NotifyIInv'
<1> DEFINE j == notifyJob[s]
           new == {k \in j.keys : j.prefs[k[1]].in_app}
           e == [j EXCEPT !.op = "external"]
<1>1. NotifyTyped
  BY DEF NotifyIInv
<1>2. j \in Sends /\ j.op = "insert"
  BY <1>1, NotifyJobFields DEF NotifyTyped, SendInsert
<1>3. /\ j.at = clock /\ clock \in 0..LastTick /\ j.keys \subseteq Keys
      /\ \A k \in j.keys : /\ k[2] \in Sources /\ j.prefs[k[1]] \in Preference
                           /\ k[1] \in DOMAIN j.prefs
  <2>1. \A k \in j.keys : k[2] \in Sources /\ k[1] \in DOMAIN j.prefs
    BY <1>2 DEF NotifyIInv, SendersAreToday
  <2>2. j.prefs \in [DOMAIN j.prefs -> Preference] /\ j.keys \subseteq Keys
    BY <1>2, NotifyJobFields
  <2>3. j.at = clock /\ clock \in 0..LastTick
    BY <1>1, <1>2 DEF NotifyIInv, SendersAreToday, NotifyTyped
  <2> QED BY <2>1, <2>2, <2>3
<1>4. /\ e \in Sends /\ e.op = "external" /\ e.keys = j.keys
      /\ e.at = j.at /\ e.prefs = j.prefs
  BY <1>2 DEF Sends
<1>5. UNCHANGED <<preference, zone, clock, external, movedZone>>
  BY DEF SendInsert
<1>6. CASE /\ new \cap DOMAIN inbox # {}
           /\ notifyJob' = [notifyJob EXCEPT ![s] = QuietJob]
           /\ UNCHANGED <<inbox, silent>>
  <2>1. QuietJob.op = "idle"
    BY DEF QuietJob
  <2>2. DigestJobRight(QuietJob)
    BY <2>1 DEF DigestJobRight
  <2> QED BY <1>5, <1>6, <2>1, <2>2, OnlyNotifyJobKeeps
<1>7. CASE /\ new \cap DOMAIN inbox = {}
           /\ inbox' = [k \in DOMAIN inbox \cup new |->
                 IF k \in new
                 THEN [at |-> j.at, mode |-> j.prefs[k[1]].mode, digested |-> FALSE,
                       read |-> FALSE, items |-> {}]
                 ELSE inbox[k]]
           /\ notifyJob' = [notifyJob EXCEPT ![s] = e]
           /\ silent' = silent \cup {k \in j.keys : ~j.prefs[k[1]].in_app}
  <2>1. /\ notifyJob' \in [NotifyJobs -> Sends \cup Digests \cup {QuietJob}]
        /\ notifyJob'[s] = e
        /\ \A t \in NotifyJobs \ {s} : notifyJob'[t] = notifyJob[t]
    BY <1>1, <1>4, <1>7, NotifyJobSet
  <2>2. /\ new \subseteq j.keys /\ new \subseteq Keys /\ new \cap DOMAIN inbox = {}
        /\ DOMAIN inbox' = DOMAIN inbox \cup new
        /\ \A k \in j.keys \ silent' : k \in new
    BY <1>3, <1>7
  <2>3. \A k \in DOMAIN inbox : inbox'[k] = inbox[k]
    BY <1>7
  <2>4. ASSUME NEW k \in new
        PROVE  inbox'[k] \in InboxRow /\ inbox'[k].at = clock /\ ~inbox'[k].digested
    <3>1. inbox'[k] = [at |-> j.at, mode |-> j.prefs[k[1]].mode, digested |-> FALSE,
                       read |-> FALSE, items |-> {}]
      BY <1>7
    <3>2. j.prefs[k[1]].mode \in {"real_time", "daily_digest"} /\ j.at \in 0..LastTick
      BY <1>3, <2>2 DEF Preference
    <3> QED BY <1>3, <3>1, <3>2 DEF InboxRow
  <2> HIDE DEF j, e, new
  <2>5. InboxGrows
    BY <1>5, <2>2, <2>3, <2>4 DEF InboxGrows
  <2>6. NotifyTyped'
    <3>1. \A k \in DOMAIN inbox' : inbox'[k] \in InboxRow
      BY <1>1, <2>2, <2>3, <2>4 DEF NotifyTyped
    <3>2. silent' \subseteq Keys
      BY <1>1, <1>3, <1>7 DEF NotifyTyped
    <3> QED BY <1>1, <1>5, <2>1, <2>2, <3>1, <3>2 DEF NotifyTyped
  <2>7. SendersAreToday'
    BY <1>3, <1>4, <1>5, <2>1 DEF NotifyIInv, SendersAreToday
  <2>8. OneAnnounces'
    <3> SUFFICES ASSUME NEW k \in Keys \ silent'
                 PROVE  /\ \A t \in NotifyJobs : Announces(t, k)' =>
                             /\ external'[k] = 0 /\ k \in DOMAIN inbox'
                             /\ \A u \in NotifyJobs \ {t} : ~Announces(u, k)'
                        /\ external'[k] > 0 => external'[k] = 1 /\ k \in DOMAIN inbox'
      BY DEF OneAnnounces
    <3>1. k \in Keys \ silent /\ external'[k] = external[k] /\ external[k] \in 0..2
      BY <1>1, <1>5, <1>7 DEF NotifyTyped
    <3>2. /\ \A t \in NotifyJobs : Announces(t, k) =>
                /\ external[k] = 0 /\ k \in DOMAIN inbox
                /\ \A u \in NotifyJobs \ {t} : ~Announces(u, k)
          /\ external[k] > 0 => external[k] = 1 /\ k \in DOMAIN inbox
      BY <3>1 DEF NotifyIInv, OneAnnounces
    <3>3. Announces(s, k)' => k \in new
      BY <1>4, <2>1, <2>2 DEF Announces
    <3>4. \A t \in NotifyJobs \ {s} : Announces(t, k)' <=> Announces(t, k)
      BY <2>1 DEF Announces
    <3>5. k \in new => /\ k \notin DOMAIN inbox /\ k \in DOMAIN inbox'
                       /\ external[k] = 0
                       /\ \A t \in NotifyJobs : ~Announces(t, k)
      BY <2>2, <3>1, <3>2
    <3> QED BY <2>2, <3>1, <3>2, <3>3, <3>4, <3>5
  <2>9. DigestsAreComplete'
    <3>1. \A r \in Receivers, d \in Dates :
             <<r, Digest, d>> \in DOMAIN inbox' => <<r, Digest, d>> \in DOMAIN inbox
      BY <1>3, <2>2, NotifyConstants
    <3>2. movedZone' = movedZone
      BY <1>5
    <3> QED BY <2>5, <3>1, <3>2, OldDigestsStay DEF DigestsAreComplete
  <2>10. DigestJobsRight'
    <3> SUFFICES ASSUME NEW t \in NotifyJobs PROVE DigestJobRight(notifyJob[t])'
      BY DEF DigestJobsRight
    <3>1. CASE t = s
      BY <3>1, <1>4, <2>1 DEF DigestJobRight
    <3>2. CASE t # s
      BY <3>2, <2>1, <2>5, DigestJobStays
    <3> QED BY <3>1, <3>2
  <2>11. DigestedIsListed'
    <3> SUFFICES ASSUME NEW k \in DOMAIN inbox', inbox'[k].digested, k[1] \notin movedZone'
                 PROVE  \E d \in Dates : /\ <<k[1], Digest, d>> \in DOMAIN inbox'
                                         /\ k \in inbox'[<<k[1], Digest, d>>].items
      BY DEF DigestedIsListed
    <3>1. k \in DOMAIN inbox /\ inbox[k].digested /\ k[1] \notin movedZone
      BY <1>5, <2>2, <2>3, <2>4
    <3> QED BY <2>5, <3>1, ListedStays
  <2> QED BY <2>6, <2>7, <2>8, <2>9, <2>10, <2>11 DEF NotifyIInv
<1> QED BY <1>6, <1>7 DEF SendInsert

\* The messages of a notification.
LEMMA SendExternalKeeps ==
    ASSUME NotifyIInv, NEW s \in NotifyJobs, SendExternal(s)
    PROVE  NotifyIInv'
<1> DEFINE j == notifyJob[s]
<1>1. NotifyTyped
  BY DEF NotifyIInv
<1>2. /\ UNCHANGED <<inbox, preference, zone, clock, silent, movedZone>>
      /\ external' = [k \in Keys |->
            IF k \in j.keys /\ j.prefs[k[1]].outside /\ external[k] < 2
            THEN external[k] + 1 ELSE external[k]]
      /\ j.op = "external"
  BY DEF SendExternal
<1>3. /\ notifyJob' \in [NotifyJobs -> Sends \cup Digests \cup {QuietJob}]
      /\ notifyJob'[s] = QuietJob /\ QuietJob.op = "idle"
      /\ \A t \in NotifyJobs \ {s} : notifyJob'[t] = notifyJob[t]
  <2>1. notifyJob' = [notifyJob EXCEPT ![s] = QuietJob]
    BY DEF SendExternal
  <2> QED BY <1>1, <2>1, NotifyJobSet DEF QuietJob
<1>4. ASSUME NEW k \in Keys
      PROVE  /\ external'[k] \in 0..2
             /\ external'[k] # external[k] => k \in j.keys /\ external'[k] = external[k] + 1
  <2>1. external[k] \in 0..2
    BY <1>1 DEF NotifyTyped
  <2>2. \/ external'[k] = external[k]
        \/ k \in j.keys /\ external[k] < 2 /\ external'[k] = external[k] + 1
    BY <1>2
  <2> QED BY <2>1, <2>2
<1>5. InboxGrows
  BY <1>2 DEF InboxGrows
<1>6. NotifyTyped'
  <2>1. external' \in [Keys -> 0..2]
    BY <1>2, <1>4
  <2> QED BY <1>1, <1>2, <1>3, <2>1 DEF NotifyTyped
<1>7. SendersAreToday'
  BY <1>2, <1>3 DEF NotifyIInv, SendersAreToday
<1>8. OneAnnounces'
  <2> SUFFICES ASSUME NEW k \in Keys \ silent
               PROVE  /\ \A t \in NotifyJobs : Announces(t, k)' =>
                           /\ external'[k] = 0 /\ k \in DOMAIN inbox
                           /\ \A u \in NotifyJobs \ {t} : ~Announces(u, k)'
                      /\ external'[k] > 0 => external'[k] = 1 /\ k \in DOMAIN inbox
    BY <1>2 DEF OneAnnounces
  <2>1. /\ \A t \in NotifyJobs : Announces(t, k) =>
              /\ external[k] = 0 /\ k \in DOMAIN inbox
              /\ \A u \in NotifyJobs \ {t} : ~Announces(u, k)
        /\ external[k] > 0 => external[k] = 1 /\ k \in DOMAIN inbox
    BY DEF NotifyIInv, OneAnnounces
  <2>2. ~Announces(s, k)' /\ \A t \in NotifyJobs \ {s} : Announces(t, k)' <=> Announces(t, k)
    BY <1>3 DEF Announces
  <2>3. external[k] \in 0..2
    BY <1>1 DEF NotifyTyped
  <2>4. CASE external'[k] = external[k]
    BY <2>1, <2>2, <2>4
  <2>5. CASE external'[k] # external[k]
    <3>1. Announces(s, k)
      BY <2>5, <1>2, <1>4 DEF Announces
    <3>2. /\ external'[k] = 1 /\ k \in DOMAIN inbox
          /\ \A t \in NotifyJobs \ {s} : ~Announces(t, k)
      BY <2>1, <2>3, <2>5, <3>1, <1>4
    <3> QED BY <2>2, <3>2
  <2> QED BY <2>4, <2>5
<1>9. DigestsAreComplete'
  BY <1>2, <1>5, OldDigestsStay DEF DigestsAreComplete
<1>10. DigestJobsRight'
  <2> SUFFICES ASSUME NEW t \in NotifyJobs PROVE DigestJobRight(notifyJob[t])'
    BY DEF DigestJobsRight
  <2>1. CASE t = s
    BY <2>1, <1>3 DEF DigestJobRight
  <2>2. CASE t # s
    BY <2>2, <1>3, <1>5, DigestJobStays
  <2> QED BY <2>1, <2>2
<1>11. DigestedIsListed'
  BY <1>2 DEF NotifyIInv, DigestedIsListed
<1> QED BY <1>6, <1>7, <1>8, <1>9, <1>10, <1>11 DEF NotifyIInv

\* The digests of a day: what is marked is listed in one of them.
LEMMA DigestCommitKeeps ==
    ASSUME NotifyIInv, NEW s \in NotifyJobs, DigestCommit(s)
    PROVE  NotifyIInv'
<1> DEFINE j == notifyJob[s]
<1>1. NotifyTyped
  BY DEF NotifyIInv
<1>2. j \in Digests /\ j.op = "digest" /\ j.pending \subseteq Keys /\ j.new \subseteq Keys
  BY <1>1, NotifyJobFields DEF NotifyTyped, DigestCommit
<1>3. /\ \A k \in j.pending :
            /\ k \in DOMAIN inbox
            /\ k[1] \notin movedZone => \E d \in Dates : <<k[1], Digest, d>> \in j.new
      /\ \A k \in j.new : k[2] = Digest
      /\ \A r \in Receivers \ movedZone, d \in Dates :
            <<r, Digest, d>> \in j.new =>
                /\ d < LocalDate(r, clock)
                /\ \A k \in Keys : OfDay(k, r, d) => inbox[k].digested \/ k \in j.pending
  BY <1>2 DEF NotifyIInv, DigestJobsRight, DigestJobRight
<1>4. /\ UNCHANGED <<preference, zone, clock, external, silent, movedZone>>
      /\ notifyJob' = [notifyJob EXCEPT ![s] = QuietJob]
  BY DEF DigestCommit
<1>5. QuietJob.op = "idle" /\ DigestJobRight(QuietJob)
  BY DEF QuietJob, DigestJobRight
<1>6. CASE UNCHANGED inbox
  BY <1>4, <1>5, <1>6, OnlyNotifyJobKeeps
<1>7. CASE /\ j.new \cap DOMAIN inbox = {}
           /\ inbox' = [k \in DOMAIN inbox \cup j.new |->
                 CASE k \in j.new ->
                         [at |-> clock, mode |-> "real_time", digested |-> FALSE,
                          read |-> FALSE, items |-> {i \in j.pending : i[1] = k[1]}]
                   [] k \in j.pending -> [inbox[k] EXCEPT !.digested = TRUE]
                   [] OTHER -> inbox[k]]
  <2>1. /\ notifyJob' \in [NotifyJobs -> Sends \cup Digests \cup {QuietJob}]
        /\ notifyJob'[s] = QuietJob
        /\ \A t \in NotifyJobs \ {s} : notifyJob'[t] = notifyJob[t]
    BY <1>1, <1>4, NotifyJobSet
  <2> HIDE DEF j
  <2>2. j.new \cap DOMAIN inbox = {} /\ DOMAIN inbox' = DOMAIN inbox \cup j.new
    BY <1>7
  <2>3. ASSUME NEW k \in DOMAIN inbox
        PROVE  /\ inbox'[k] \in InboxRow
               /\ inbox'[k].at = inbox[k].at /\ inbox'[k].mode = inbox[k].mode
               /\ inbox'[k].items = inbox[k].items
               /\ inbox'[k].digested <=> inbox[k].digested \/ k \in j.pending
    <3>1. inbox[k] \in InboxRow
      BY <1>1 DEF NotifyTyped
    <3>2. CASE k \in j.pending
      <4>1. inbox'[k] = [inbox[k] EXCEPT !.digested = TRUE]
        BY <3>2, <1>7, <2>2
      <4> QED BY <3>1, <3>2, <4>1 DEF InboxRow
    <3>3. CASE k \notin j.pending
      <4>1. inbox'[k] = inbox[k]
        BY <3>3, <1>7, <2>2
      <4> QED BY <3>1, <3>3, <4>1
    <3> QED BY <3>2, <3>3
  <2>4. ASSUME NEW k \in j.new
        PROVE  /\ inbox'[k] \in InboxRow /\ inbox'[k].at = clock /\ ~inbox'[k].digested
               /\ inbox'[k].items = {i \in j.pending : i[1] = k[1]}
    <3>1. inbox'[k] = [at |-> clock, mode |-> "real_time", digested |-> FALSE,
                       read |-> FALSE, items |-> {i \in j.pending : i[1] = k[1]}]
      <4> DEFINE digest(x) == [at |-> clock, mode |-> "real_time", digested |-> FALSE,
                               read |-> FALSE, items |-> {i \in j.pending : i[1] = x[1]}]
      <4>1. inbox' = [x \in DOMAIN inbox \cup j.new |->
                        CASE x \in j.new -> digest(x)
                          [] x \in j.pending -> [inbox[x] EXCEPT !.digested = TRUE]
                          [] OTHER -> inbox[x]]
        BY <1>7
      <4>2. k \notin j.pending
        BY <1>3, <2>2
      <4> HIDE DEF digest
      <4>3. inbox'[k] = digest(k)
        BY <4>1, <4>2
      <4> QED BY <4>3 DEF digest
    <3> QED BY <1>1, <1>2, <3>1 DEF InboxRow, NotifyTyped
  <2>5. InboxGrows
    BY <1>4, <2>2, <2>3, <2>4 DEF InboxGrows
  <2>6. NotifyTyped'
    <3>1. \A k \in DOMAIN inbox' : inbox'[k] \in InboxRow
      BY <2>2, <2>3, <2>4
    <3> QED BY <1>1, <1>2, <1>4, <2>1, <2>2, <3>1 DEF NotifyTyped
  <2>7. SendersAreToday'
    BY <1>4, <1>5, <2>1 DEF NotifyIInv, SendersAreToday
  <2>8. OneAnnounces'
    <3>1. \A t \in NotifyJobs, k \in Keys : Announces(t, k)' => Announces(t, k)
      BY <1>5, <2>1 DEF Announces
    <3> QED BY <1>4, <2>2, <3>1 DEF NotifyIInv, OneAnnounces
  <2>9. DigestsAreComplete'
    <3> SUFFICES ASSUME NEW r \in Receivers \ movedZone, NEW d \in Dates,
                        <<r, Digest, d>> \in DOMAIN inbox'
                 PROVE  /\ d < LocalDate(r, clock)'
                        /\ \A k \in Keys : OfDay(k, r, d)' => inbox'[k].digested
      BY <1>4 DEF DigestsAreComplete
    <3>1. CASE <<r, Digest, d>> \in DOMAIN inbox
      BY <3>1, <2>5, OldDigestsStay
    <3>2. CASE <<r, Digest, d>> \in j.new
      <4>1. /\ d < LocalDate(r, clock)
            /\ \A k \in Keys : OfDay(k, r, d) => inbox[k].digested \/ k \in j.pending
        BY <3>2, <1>3
      <4>2. \A k \in Keys : OfDay(k, r, d)' => OfDay(k, r, d)
        BY <4>1, <2>5, PastDaysStay
      <4>3. LocalDate(r, clock)' = LocalDate(r, clock)
        BY <1>4 DEF LocalDate
      <4>4. \A k \in Keys : OfDay(k, r, d) => k \in DOMAIN inbox
        BY DEF OfDay
      <4> QED BY <2>3, <4>1, <4>2, <4>3, <4>4
    <3> QED BY <2>2, <3>1, <3>2
  <2>10. DigestJobsRight'
    <3> SUFFICES ASSUME NEW t \in NotifyJobs PROVE DigestJobRight(notifyJob[t])'
      BY DEF DigestJobsRight
    <3>1. CASE t = s
      BY <3>1, <1>5, <2>1 DEF DigestJobRight
    <3>2. CASE t # s
      BY <3>2, <2>1, <2>5, DigestJobStays
    <3> QED BY <3>1, <3>2
  <2>11. DigestedIsListed'
    <3> SUFFICES ASSUME NEW k \in DOMAIN inbox', inbox'[k].digested, k[1] \notin movedZone
                 PROVE  \E d \in Dates : /\ <<k[1], Digest, d>> \in DOMAIN inbox'
                                         /\ k \in inbox'[<<k[1], Digest, d>>].items
      BY <1>4 DEF DigestedIsListed
    <3>1. k \in DOMAIN inbox /\ (inbox[k].digested \/ k \in j.pending)
      BY <2>2, <2>3, <2>4
    <3>2. CASE inbox[k].digested
      BY <2>5, <3>1, <3>2, ListedStays
    <3>3. CASE k \in j.pending
      <4>1. k[1] \in Receivers
        BY <1>2, <3>3, KeyFields
      <4>2. PICK d \in Dates : <<k[1], Digest, d>> \in j.new
        BY <1>3, <3>3
      <4>3. <<k[1], Digest, d>>[1] = k[1]
        OBVIOUS
      <4> QED BY <2>2, <2>4, <3>3, <4>2, <4>3
    <3> QED BY <3>1, <3>2, <3>3
  <2> QED BY <2>6, <2>7, <2>8, <2>9, <2>10, <2>11 DEF NotifyIInv
<1> QED BY <1>6, <1>7 DEF DigestCommit

\* What a receiver does: a choice of preferences, and rows read.
LEMMA ReceiverKeeps ==
    ASSUME NotifyIInv, NEW r \in Receivers,
           \/ \E p \in ChosenPreferences : UpdatePreferences(r, p)
           \/ MarkAllRead(r)
           \/ \E z \in Zones : ChangeZone(r, z)
    PROVE  NotifyIInv'
<1>1. ASSUME NEW p \in ChosenPreferences, UpdatePreferences(r, p)
      PROVE  NotifyIInv'
  <2>1. preference' \in [Receivers -> Preference]
    BY <1>1, PreferencesAssumption DEF UpdatePreferences, NotifyIInv, NotifyTyped
  <2>2. UNCHANGED <<inbox, zone, clock, notifyJob, external, silent, movedZone>>
    BY <1>1 DEF UpdatePreferences
  <2>3. \A k \in DOMAIN inbox : inbox'[k] \in InboxRow
    BY <2>2 DEF NotifyIInv, NotifyTyped
  <2> QED BY <2>1, <2>2, <2>3, SameRowsKeep
<1>2. CASE MarkAllRead(r)
  <2> DEFINE K == list_unread(r)
  <2>1. /\ inbox' = [k \in DOMAIN inbox |->
              IF k \in K THEN [inbox[k] EXCEPT !.read = TRUE] ELSE inbox[k]]
        /\ UNCHANGED <<preference, zone, clock, notifyJob, external, silent, movedZone>>
    BY <1>2 DEF MarkAllRead
  <2> HIDE DEF K
  <2> QED BY <2>1, MarkReadKeeps
<1> QED BY <1>1, <1>2, ChangeZoneKeeps

LEMMA MarkOneReadKeeps ==
    ASSUME NotifyIInv, NEW key \in Keys, MarkRead(key)
    PROVE  NotifyIInv'
<1>1. /\ inbox' = [k \in DOMAIN inbox |->
            IF k \in {key} THEN [inbox[k] EXCEPT !.read = TRUE] ELSE inbox[k]]
      /\ UNCHANGED <<preference, zone, clock, notifyJob, external, silent, movedZone>>
  BY DEF MarkRead
<1> QED BY <1>1, MarkReadKeeps

\* Every step keeps the notifications right.
LEMMA NotifyInductive == NotifyIInv /\ [NotifyNext]_notifyVars => NotifyIInv'
<1> SUFFICES ASSUME NotifyIInv, [NotifyNext]_notifyVars PROVE NotifyIInv'
  OBVIOUS
<1>1. ASSUME NEW s \in NotifyJobs,
             \/ \E source \in Sources, rs \in SUBSET Receivers : SendRead(s, source, rs)
             \/ SendInsert(s) \/ SendExternal(s)
             \/ \E z \in Zones : DigestRead(s, z)
             \/ DigestCommit(s)
      PROVE  NotifyIInv'
  BY <1>1, SendReadKeeps, SendInsertKeeps, SendExternalKeeps, DigestReadKeeps, DigestCommitKeeps
<1>2. CASE UNCHANGED notifyVars
  <2>1. /\ UNCHANGED <<inbox, preference, zone, clock, notifyJob, external, silent, movedZone>>
        /\ preference' \in [Receivers -> Preference]
        /\ \A k \in DOMAIN inbox : inbox'[k] \in InboxRow
    BY <1>2 DEF notifyVars, NotifyIInv, NotifyTyped
  <2> QED BY <2>1, SameRowsKeep
<1> QED BY <1>1, <1>2, ReceiverKeeps, MarkOneReadKeeps, TickKeeps DEF NotifyNext

\* NotifyTypeOK: the tables of services/notifications.py.
THEOREM NotificationsTypeCorrect == NotifySpec => []NotifyTypeOK
<1>1. NotifyIInv => NotifyTypeOK
  BY DEF NotifyIInv, NotifyTyped, NotifyTypeOK
<1> QED BY <1>1, NotifyInitHolds, NotifyInductive, PTL DEF NotifySpec

\* DigestedIsListed: the digest task run by any number of workers at once.
THEOREM DigestsListWhatTheyMark == NotifySpec => []DigestedIsListed
<1>1. NotifyIInv => DigestedIsListed
  BY DEF NotifyIInv
<1> QED BY <1>1, NotifyInitHolds, NotifyInductive, PTL DEF NotifySpec

\* SentOutsideOnce: any number of sessions that send the same notification.
THEOREM OneSessionSendsOutside == NotifySpec => []SentOutsideOnce
<1>1. NotifyIInv => SentOutsideOnce
  <2> SUFFICES ASSUME NotifyIInv, NEW k \in Keys \ silent PROVE external[k] <= 1
    BY DEF SentOutsideOnce
  <2>1. external[k] \in 0..2 /\ (external[k] > 0 => external[k] = 1)
    BY DEF NotifyIInv, NotifyTyped, OneAnnounces
  <2> QED BY <2>1
<1> QED BY <1>1, NotifyInitHolds, NotifyInductive, PTL DEF NotifySpec

-----------------------------------------------------------------------------
(***************************************************************************)
(* OAuth: a session that nobody has overtaken knows the row it is about to *)
(* write, so what it does not write is there already.                      *)
(***************************************************************************)

OAuthJob ==
    {NoOAuthJob}
    \cup [op : {"delete", "provider"}, for : OAuthUsers \cup {Nobody}]
    \cup [op : {"resolve"}, for : OAuthUsers \cup {Nobody}, id : Identities,
          email : OAuthUsers \cup {Nobody}, bound : OAuthUsers \cup {Nobody}]
    \cup [op : {"flush"}, for : OAuthUsers \cup {Nobody}, id : Identities, user : OAuthUsers,
          row : BOOLEAN, held : Identities \cup {Nobody}]

OAuthTyped ==
    /\ OAuthTypeOK
    /\ oauthJob \in [OAuthJobs -> OAuthJob]
    /\ DOMAIN signedIn = OAuthJobs

\* What session s, with job j, remembers is so.
OAuthJobRight(s, j) ==
    s \notin overtaken /\ j.op = "flush" /\ j.held = j.id => binding[j.user] = j.id

OAuthJobsRight == \A s \in OAuthJobs : OAuthJobRight(s, oauthJob[s])

OAuthIInv == OAuthTyped /\ OAuthJobsRight

\* The user an identity is bound to, or nobody.
LEMMA BoundUser ==
    ASSUME OAuthTypeOK, NEW e \in Identities
    PROVE  /\ get_by_provider_external_id(e) \in OAuthUsers \cup {Nobody}
           /\ get_by_provider_external_id(e) # Nobody =>
                 binding[get_by_provider_external_id(e)] = e
           /\ \A u \in OAuthUsers : binding[u] = e => get_by_provider_external_id(e) = u
<1>1. CASE \E u \in OAuthUsers : binding[u] = e
  <2>1. /\ get_by_provider_external_id(e) \in OAuthUsers
        /\ binding[get_by_provider_external_id(e)] = e
    BY <1>1 DEF get_by_provider_external_id
  <2> QED BY <2>1, OAuthAssumption DEF OAuthTypeOK
<1>2. CASE ~\E u \in OAuthUsers : binding[u] = e
  BY <1>2 DEF get_by_provider_external_id
<1> QED BY <1>1, <1>2

\* What a job is, by what it does.
LEMMA OAuthJobFields ==
    ASSUME NEW j \in OAuthJob
    PROVE  /\ j = NoOAuthJob => j.op = "idle"
           /\ j.op = "delete" => j \in [op : {"delete", "provider"}, for : OAuthUsers \cup {Nobody}]
           /\ j.op = "provider" => j.for \in OAuthUsers \cup {Nobody}
           /\ j.op = "resolve" => /\ j.for \in OAuthUsers \cup {Nobody} /\ j.id \in Identities
                                  /\ j.bound \in OAuthUsers \cup {Nobody}
           /\ j.op = "flush" => j.id \in Identities /\ j.user \in OAuthUsers
BY DEF OAuthJob, NoOAuthJob

LEMMA OAuthInitHolds == OAuthInit => OAuthIInv
<1> SUFFICES ASSUME OAuthInit PROVE OAuthIInv
  OBVIOUS
<1>1. OAuthTyped
  BY DEF OAuthInit, OAuthTyped, OAuthTypeOK, OAuthJob
<1>2. \A s \in OAuthJobs : oauthJob[s].op = "idle"
  BY DEF OAuthInit, NoOAuthJob
<1> QED BY <1>1, <1>2 DEF OAuthIInv, OAuthJobsRight, OAuthJobRight

\* A session goes on; no binding changes.
LEMMA OnlyOAuthJobKeeps ==
    ASSUME OAuthIInv, NEW s \in OAuthJobs, NEW j \in OAuthJob,
           oauthJob' = [oauthJob EXCEPT ![s] = j],
           binding' = binding, stateKey' \in BOOLEAN, oauthAllowed' = oauthAllowed,
           DOMAIN signedIn' = OAuthJobs,
           \/ overtaken' = overtaken
           \/ overtaken' = overtaken \ {s} /\ (j.op = "flush" => j.held = binding[j.user]),
           overtaken' = overtaken => OAuthJobRight(s, j)
    PROVE  OAuthIInv'
<1>1. /\ oauthJob' \in [OAuthJobs -> OAuthJob] /\ oauthJob'[s] = j
      /\ \A t \in OAuthJobs \ {s} : oauthJob'[t] = oauthJob[t]
  BY DEF OAuthIInv, OAuthTyped
<1>2. OAuthTyped'
  BY <1>1 DEF OAuthIInv, OAuthTyped, OAuthTypeOK
<1>3. ASSUME NEW t \in OAuthJobs
      PROVE  OAuthJobRight(t, oauthJob[t])'
  <2>1. CASE t = s
    BY <2>1, <1>1 DEF OAuthJobRight
  <2>2. CASE t # s
    <3>1. OAuthJobRight(t, oauthJob[t])
      BY DEF OAuthIInv, OAuthJobsRight
    <3>2. t \notin overtaken' => t \notin overtaken
      BY <2>2
    <3> QED BY <2>2, <3>1, <3>2, <1>1 DEF OAuthJobRight
  <2> QED BY <2>1, <2>2
<1> QED BY <1>2, <1>3 DEF OAuthIInv, OAuthJobsRight

\* A binding changes: every other session under way has been overtaken.
LEMMA BindingChangeKeeps ==
    ASSUME OAuthIInv, OAuthTypeOK', oauthJob' \in [OAuthJobs -> OAuthJob],
           DOMAIN signedIn' = OAuthJobs,
           \A t \in OAuthJobs : \/ oauthJob'[t] = NoOAuthJob
                                \/ oauthJob'[t] = oauthJob[t] /\ t \in overtaken'
    PROVE  OAuthIInv'
<1>1. OAuthJobsRight'
  BY DEF OAuthJobsRight, OAuthJobRight, NoOAuthJob
<1> QED BY <1>1 DEF OAuthIInv, OAuthTyped

\* The callback: what is read is so.
LEMMA CallbackKeeps ==
    ASSUME OAuthIInv, NEW s \in OAuthJobs, NEW e \in Identities, NEW m \in OAuthUsers \cup {Nobody},
           handle_callback(s, e, m)
    PROVE  OAuthIInv'
<1> DEFINE j == [op |-> "resolve", for |-> oauthJob[s].for, id |-> e, email |-> m,
                 bound |-> get_by_provider_external_id(e)]
<1>1. OAuthTypeOK /\ oauthJob[s] \in OAuthJob
  BY DEF OAuthIInv, OAuthTyped
<1>2. j \in OAuthJob
  <2>1. oauthJob[s].for \in OAuthUsers \cup {Nobody}
    BY <1>1, OAuthJobFields DEF handle_callback
  <2> QED BY <1>1, <2>1, BoundUser DEF OAuthJob
<1>3. OAuthJobRight(s, j)
  BY <1>1, BoundUser DEF OAuthJobRight
<1>4. /\ oauthJob' = [oauthJob EXCEPT ![s] = j]
      /\ UNCHANGED <<binding, stateKey, oauthAllowed, signedIn, overtaken>>
  BY DEF handle_callback
<1> HIDE DEF j
<1>5. stateKey' \in BOOLEAN /\ DOMAIN signedIn' = OAuthJobs
  BY <1>1, <1>4 DEF OAuthIInv, OAuthTyped, OAuthTypeOK
<1> QED BY <1>2, <1>3, <1>4, <1>5, OnlyOAuthJobKeeps

\* The user is found and the row read.
LEMMA ResolveKeeps ==
    ASSUME OAuthIInv, NEW s \in OAuthJobs, ResolveUser(s)
    PROVE  OAuthIInv'
<1> DEFINE j == oauthJob[s]
           u == Resolved(j)
           f == [op |-> "flush", for |-> j.for, id |-> j.id, user |-> u,
                 row |-> binding[u] # Nobody, held |-> binding[u]]
<1>1. /\ OAuthTypeOK /\ j \in OAuthJob /\ j.op = "resolve"
      /\ j.for \in OAuthUsers \cup {Nobody} /\ j.id \in Identities
  <2>1. OAuthTypeOK /\ j \in OAuthJob /\ j.op = "resolve"
    BY DEF OAuthIInv, OAuthTyped, ResolveUser
  <2> QED BY <2>1, OAuthJobFields
<1>2. \/ oauthJob' = [oauthJob EXCEPT ![s] = NoOAuthJob]
      \/ oauthJob' = [oauthJob EXCEPT ![s] = f] /\ u \in oauthAllowed
  BY DEF ResolveUser
<1>3. UNCHANGED <<binding, stateKey, oauthAllowed, signedIn>> /\ overtaken' = overtaken \ {s}
  BY DEF ResolveUser
<1>4. stateKey' \in BOOLEAN /\ DOMAIN signedIn' = OAuthJobs
  BY <1>1, <1>3 DEF OAuthIInv, OAuthTyped, OAuthTypeOK
<1>5. CASE oauthJob' = [oauthJob EXCEPT ![s] = NoOAuthJob]
  <2>1. NoOAuthJob \in OAuthJob /\ OAuthJobRight(s, NoOAuthJob) /\ NoOAuthJob.op # "flush"
    BY DEF OAuthJob, OAuthJobRight, NoOAuthJob
  <2> QED BY <1>3, <1>4, <1>5, <2>1, OnlyOAuthJobKeeps
<1>6. CASE oauthJob' = [oauthJob EXCEPT ![s] = f] /\ u \in oauthAllowed
  <2>1. u \in OAuthUsers /\ binding[u] \in Identities \cup {Nobody}
    BY <1>1, <1>6 DEF OAuthTypeOK
  <2> HIDE DEF j, u
  <2>2. (binding[u] # Nobody) \in BOOLEAN
    OBVIOUS
  <2>3. f \in OAuthJob
    BY <1>1, <2>1, <2>2 DEF OAuthJob
  <2>4. f.held = binding[f.user] /\ OAuthJobRight(s, f)
    BY DEF OAuthJobRight
  <2> HIDE DEF f
  <2> QED BY <1>3, <1>4, <1>6, <2>3, <2>4, OnlyOAuthJobKeeps
<1> QED BY <1>2, <1>5, <1>6

\* The binding is written, or the commit fails.
LEMMA UpsertKeeps ==
    ASSUME OAuthIInv, NEW s \in OAuthJobs, upsert_binding(s)
    PROVE  OAuthIInv'
<1> DEFINE j == oauthJob[s]
<1>1. /\ OAuthTypeOK /\ j \in OAuthJob /\ j.op = "flush" /\ DOMAIN signedIn = OAuthJobs
      /\ j.user \in OAuthUsers /\ j.id \in Identities
  <2>1. OAuthTypeOK /\ j \in OAuthJob /\ j.op = "flush" /\ DOMAIN signedIn = OAuthJobs
    BY DEF OAuthIInv, OAuthTyped, upsert_binding
  <2> QED BY <2>1, OAuthJobFields
<1>2. /\ oauthJob' = [oauthJob EXCEPT ![s] = NoOAuthJob]
      /\ UNCHANGED <<stateKey, oauthAllowed>>
  BY DEF upsert_binding
<1>3. /\ oauthJob' \in [OAuthJobs -> OAuthJob] /\ oauthJob'[s] = NoOAuthJob
      /\ \A t \in OAuthJobs \ {s} : oauthJob'[t] = oauthJob[t]
      /\ NoOAuthJob \in OAuthJob /\ OAuthJobRight(s, NoOAuthJob)
  <2>1. NoOAuthJob \in OAuthJob /\ OAuthJobRight(s, NoOAuthJob)
    BY DEF OAuthJob, OAuthJobRight, NoOAuthJob
  <2> QED BY <1>2, <2>1 DEF OAuthIInv, OAuthTyped
<1>4. CASE UNCHANGED <<binding, signedIn, overtaken>>
  <2>1. stateKey' \in BOOLEAN
    BY <1>1, <1>2 DEF OAuthTypeOK
  <2> QED BY <1>1, <1>2, <1>3, <1>4, <2>1, OnlyOAuthJobKeeps
<1>5. CASE /\ \/ binding' = binding
              \/ /\ binding' = [binding EXCEPT ![j.user] = j.id]
                 /\ get_by_provider_external_id(j.id) \in {j.user, Nobody}
           /\ Overtakes(s)
           /\ signedIn' = [signedIn EXCEPT ![s] = <<j.id, j.user>>]
  <2>1. OAuthTypeOK'
    <3>1. CASE binding' = binding
      BY <3>1, <1>1, <1>2 DEF OAuthTypeOK
    <3>2. CASE /\ binding' = [binding EXCEPT ![j.user] = j.id]
               /\ get_by_provider_external_id(j.id) \in {j.user, Nobody}
      <4> HIDE DEF j
      <4>1. \A u \in OAuthUsers \ {j.user} : binding[u] # j.id
        BY <1>1, <3>2, BoundUser, OAuthAssumption
      <4> QED BY <1>1, <1>2, <3>2, <4>1 DEF OAuthTypeOK
    <3> QED BY <1>5, <3>1, <3>2
  <2>2. \A t \in OAuthJobs \ {s} : oauthJob'[t] = NoOAuthJob \/ t \in overtaken'
    BY <1>3, <1>5 DEF Overtakes, OAuthBusy
  <2>3. DOMAIN signedIn' = OAuthJobs
    BY <1>1, <1>5
  <2> QED BY <1>3, <2>1, <2>2, <2>3, BindingChangeKeeps
<1> QED BY <1>4, <1>5 DEF upsert_binding

\* Every step keeps the bindings right.
LEMMA OAuthInductive == OAuthIInv /\ [OAuthNext]_oauthVars => OAuthIInv'
<1> SUFFICES ASSUME OAuthIInv, [OAuthNext]_oauthVars PROVE OAuthIInv'
  OBVIOUS
<1>1. /\ OAuthTypeOK /\ oauthJob \in [OAuthJobs -> OAuthJob] /\ DOMAIN signedIn = OAuthJobs
      /\ \A s \in OAuthJobs : OAuthJobRight(s, oauthJob[s])
  BY DEF OAuthIInv, OAuthTyped, OAuthJobsRight
<1>2. ASSUME stateKey' \in BOOLEAN, oauthAllowed' \subseteq oauthAllowed,
             UNCHANGED <<binding, oauthJob, signedIn, overtaken>>
      PROVE  OAuthIInv'
  BY <1>1, <1>2 DEF OAuthIInv, OAuthTyped, OAuthTypeOK, OAuthJobsRight, OAuthJobRight
<1>3. CASE start_login \/ StateExpires \/ UNCHANGED oauthVars
  BY <1>1, <1>2, <1>3 DEF start_login, StateExpires, oauthVars, OAuthTypeOK
<1>4. ASSUME NEW u \in OAuthUsers, DisableOAuthUser(u)
      PROVE  OAuthIInv'
  BY <1>1, <1>2, <1>4 DEF DisableOAuthUser, OAuthTypeOK
<1>5. ASSUME NEW u \in OAuthUsers, delete_user_binding(u)
      PROVE  OAuthIInv'
  <2>1. OAuthTypeOK'
    BY <1>1, <1>5 DEF delete_user_binding, OAuthTypeOK
  <2>2. /\ oauthJob' \in [OAuthJobs -> OAuthJob] /\ DOMAIN signedIn' = OAuthJobs
        /\ \A t \in OAuthJobs : \/ oauthJob'[t] = NoOAuthJob
                                \/ oauthJob'[t] = oauthJob[t] /\ t \in overtaken'
    BY <1>1, <1>5 DEF delete_user_binding, OAuthBusy
  <2> QED BY <2>1, <2>2, BindingChangeKeeps
<1>6. ASSUME NEW s \in OAuthJobs, NEW for \in OAuthUsers \cup {Nobody}, PopGet(s, for)
      PROVE  OAuthIInv'
  <2> DEFINE j == [op |-> "delete", for |-> for]
  <2>1. j \in OAuthJob /\ OAuthJobRight(s, j) /\ j.op = "delete"
    BY DEF OAuthJob, OAuthJobRight
  <2>2. /\ oauthJob' = [oauthJob EXCEPT ![s] = j]
        /\ UNCHANGED <<binding, stateKey, oauthAllowed, overtaken>> /\ DOMAIN signedIn' = OAuthJobs
        /\ stateKey' \in BOOLEAN
    BY <1>1, <1>6 DEF PopGet, OAuthTypeOK
  <2> HIDE DEF j
  <2> QED BY <2>1, <2>2, OnlyOAuthJobKeeps
<1>7. ASSUME NEW s \in OAuthJobs, PopDelete(s)
      PROVE  OAuthIInv'
  <2> DEFINE j == [oauthJob[s] EXCEPT !.op = "provider"]
  <2>1. oauthJob[s] \in [op : {"delete", "provider"}, for : OAuthUsers \cup {Nobody}]
    BY <1>1, <1>7, OAuthJobFields DEF PopDelete
  <2>2. j \in OAuthJob /\ OAuthJobRight(s, j)
    BY <2>1 DEF OAuthJob, OAuthJobRight
  <2>3. /\ oauthJob' = [oauthJob EXCEPT ![s] = j] /\ DOMAIN signedIn' = OAuthJobs
        /\ stateKey' \in BOOLEAN /\ UNCHANGED <<binding, oauthAllowed, overtaken>>
    BY <1>1, <1>7 DEF PopDelete
  <2> HIDE DEF j
  <2> QED BY <2>2, <2>3, OnlyOAuthJobKeeps
<1>8. ASSUME NEW s \in OAuthJobs, ProviderFails(s)
      PROVE  OAuthIInv'
  <2>1. NoOAuthJob \in OAuthJob /\ OAuthJobRight(s, NoOAuthJob)
    BY DEF OAuthJob, OAuthJobRight, NoOAuthJob
  <2>2. /\ oauthJob' = [oauthJob EXCEPT ![s] = NoOAuthJob] /\ DOMAIN signedIn' = OAuthJobs
        /\ stateKey' \in BOOLEAN /\ UNCHANGED <<binding, oauthAllowed, overtaken>>
    BY <1>1, <1>8 DEF ProviderFails, OAuthTypeOK
  <2> QED BY <2>1, <2>2, OnlyOAuthJobKeeps
<1> QED BY <1>3, <1>4, <1>5, <1>6, <1>7, <1>8, CallbackKeeps, ResolveKeeps, UpsertKeeps
        DEF OAuthNext

\* OAuthTypeOK: an identity is never bound to two users, whatever sessions
\* bind and delete together (the unique keys of the bindings).
THEOREM BindingsStayUnique == OAuthSpec => []OAuthTypeOK
<1>1. OAuthIInv => OAuthTypeOK
  BY DEF OAuthIInv, OAuthTyped
<1> QED BY <1>1, OAuthInitHolds, OAuthInductive, PTL DEF OAuthSpec

\* A step that signs in.
LEMMA SignInStep ==
    ASSUME OAuthIInv, [OAuthNext]_oauthVars, NEW s \in OAuthJobs,
           signedIn'[s] # signedIn[s], signedIn'[s] # <<>>, s \notin overtaken
    PROVE  binding'[signedIn'[s][2]] = signedIn'[s][1]
<1>1. DOMAIN signedIn = OAuthJobs /\ binding \in [OAuthUsers -> Identities \cup {Nobody}]
  BY DEF OAuthIInv, OAuthTyped, OAuthTypeOK
<1>2. upsert_binding(s)
  <2>1. signedIn' # signedIn
    OBVIOUS
  <2>2. CASE \E u \in OAuthUsers : delete_user_binding(u)
    BY <2>2 DEF delete_user_binding
  <2>3. CASE \E t \in OAuthJobs, for \in OAuthUsers \cup {Nobody} : PopGet(t, for)
    BY <2>3, <1>1 DEF PopGet
  <2>4. CASE \E t \in OAuthJobs : upsert_binding(t)
    <3>1. PICK t \in OAuthJobs : upsert_binding(t)
      BY <2>4
    <3>2. \E v : signedIn' = [signedIn EXCEPT ![t] = v]
      BY <3>1, <2>1 DEF upsert_binding
    <3>3. s = t
      BY <3>2, <1>1
    <3> QED BY <3>1, <3>3
  <2> QED BY <2>1, <2>2, <2>3, <2>4
          DEF OAuthNext, oauthVars, start_login, StateExpires, DisableOAuthUser, PopDelete,
              handle_callback, ProviderFails, ResolveUser
<1> DEFINE j == oauthJob[s]
<1>3. j.user \in OAuthUsers
  <2>1. j \in OAuthJob /\ j.op = "flush"
    BY <1>2 DEF OAuthIInv, OAuthTyped, upsert_binding
  <2> QED BY <2>1, OAuthJobFields
<1>4. /\ signedIn' = [signedIn EXCEPT ![s] = <<j.id, j.user>>]
      /\ binding' = IF j.held # j.id THEN [binding EXCEPT ![j.user] = j.id] ELSE binding
      /\ j.op = "flush"
  BY <1>2 DEF upsert_binding
<1>5. OAuthJobRight(s, j)
  BY DEF OAuthIInv, OAuthJobsRight
<1> HIDE DEF j
<1>6. signedIn'[s] = <<j.id, j.user>>
  BY <1>1, <1>4
<1>7. binding'[j.user] = j.id
  BY <1>1, <1>3, <1>4, <1>5 DEF OAuthJobRight
<1> QED BY <1>6, <1>7

\* SignedInAsOwner: the callback of any number of sessions.
THEOREM SignInsBindTheirIdentity == OAuthSpec => SignedInAsOwner
<1>1. OAuthIInv /\ [OAuthNext]_oauthVars =>
         [\A s \in OAuthJobs :
             signedIn'[s] # signedIn[s] /\ signedIn'[s] # <<>> /\ s \notin overtaken
                => binding'[signedIn'[s][2]] = signedIn'[s][1]]_oauthVars
  BY SignInStep
<1> QED BY <1>1, OAuthInitHolds, OAuthInductive, PTL DEF OAuthSpec, SignedInAsOwner

-----------------------------------------------------------------------------
(***************************************************************************)
(* Dashboards: what a leader is shown was true at some tick, and that tick *)
(* is no further back than one request and one expiry of the cache.        *)
(***************************************************************************)

DashTyped ==
    /\ DashTypeOK
    /\ DOMAIN dashJob = DashJobs
    /\ lastManaged \in [DashSubs -> [Leaders -> Nat]]
    /\ \A w \in DashSubs, id \in Leaders : lastManaged[w][id] <= dashTick

\* Sub-project w was managed by the user id in tick t or later.
ManagedSince(w, id, t) ==
    w \in DashSubs /\ id \in Leaders /\ (managed[w] = id \/ t <= lastManaged[w][id])

\* A request that is computing has a snapshot of the tick it began in.
DashJobRight(j) ==
    j.at = "loaded" =>
        /\ j.began \in Nat /\ j.began <= dashTick /\ dashTick <= j.began + MaxLoad
        /\ j.role \in Roles
        /\ \A w \in DashSubs : ManagedSince(w, j.snapshot.managed[w], j.began)

DashJobsRight == \A s \in DashJobs : DashJobRight(dashJob[s])

\* What the cache holds expires, and is not older than a request then.
CacheIsFresh ==
    \A key \in DOMAIN cache :
        /\ cache[key].expires \in Nat
        /\ dashTick < cache[key].expires /\ cache[key].expires <= dashTick + DashboardTTL
        /\ key[1] = "proj_leader" =>
              \A w \in cache[key].payload.managed :
                  ManagedSince(w, key[2], cache[key].expires - DashboardTTL - MaxLoad)

ShownIsRight ==
    shown.role = "proj_leader" =>
        \A w \in shown.payload.managed :
            ManagedSince(w, shown.user.id, dashTick + 1 - DashboardTTL - MaxLoad)

DashIInv == DashTyped /\ DashJobsRight /\ CacheIsFresh /\ ShownIsRight

LEMMA DashInitHolds == DashInit => DashIInv
<1> SUFFICES ASSUME DashInit PROVE DashIInv
  OBVIOUS
<1>1. DashTyped
  BY DashboardsAssumption DEF DashInit, DashTyped, DashTypeOK
<1>2. DashJobsRight
  BY DEF DashInit, DashJobsRight, DashJobRight, NoDash
<1>3. CacheIsFresh /\ ShownIsRight
  BY DEF DashInit, CacheIsFresh, ShownIsRight
<1> QED BY <1>1, <1>2, <1>3 DEF DashIInv

-----------------------------------------------------------------------------

\* While sub-projects are as they are, or are handed over, what was so stays so.
ManagersKept ==
    /\ \A w \in DashSubs, id \in Leaders : lastManaged[w][id] <= lastManaged'[w][id]
    /\ \A w \in DashSubs :
          managed'[w] = managed[w] \/ dashTick <= lastManaged'[w][managed[w]]

LEMMA ManagedSinceStays ==
    ASSUME DashTyped, ManagersKept, lastManaged' \in [DashSubs -> [Leaders -> Nat]],
           NEW w, NEW id, NEW t \in Int, t <= dashTick, ManagedSince(w, id, t)
    PROVE  ManagedSince(w, id, t)'
<1>1. w \in DashSubs /\ id \in Leaders /\ dashTick \in Nat
  BY DashboardsAssumption DEF ManagedSince, DashTyped, DashTypeOK
<1>2. /\ lastManaged[w][id] \in Nat /\ lastManaged'[w][id] \in Nat
      /\ lastManaged[w][id] <= lastManaged'[w][id]
  BY <1>1 DEF DashTyped, ManagersKept
<1>3. managed[w] = id => managed'[w] = id \/ dashTick <= lastManaged'[w][id]
  BY <1>1 DEF ManagersKept
<1> QED BY <1>1, <1>2, <1>3 DEF ManagedSince

\* A step within a tick that keeps the cache and the requests.
LEMMA ProjectsChangeKeeps ==
    ASSUME DashIInv, ManagersKept, managed' \in [DashSubs -> Leaders],
           lastManaged' \in [DashSubs -> [Leaders -> Nat]],
           \A w \in DashSubs, id \in Leaders : lastManaged'[w][id] <= dashTick,
           UNCHANGED <<cache, dashJob, shown, dashTick>>
    PROVE  DashIInv'
<1>1. /\ DashTyped /\ dashTick \in Nat
      /\ DashboardTTL \in Nat \ {0} /\ MaxLoad \in Nat
  BY DashboardsAssumption DEF DashIInv, DashTyped, DashTypeOK
<1>2. DashTyped'
  BY <1>1 DEF DashTyped, DashTypeOK
<1>3. DashJobsRight'
  <2> SUFFICES ASSUME NEW s \in DashJobs, dashJob[s].at = "loaded", NEW w \in DashSubs
               PROVE  /\ dashJob[s].began \in Nat /\ dashJob[s].began <= dashTick
                      /\ dashTick <= dashJob[s].began + MaxLoad
                      /\ dashJob[s].role \in Roles
                      /\ ManagedSince(w, dashJob[s].snapshot.managed[w], dashJob[s].began)'
    BY DEF DashIInv, DashJobsRight, DashJobRight
  <2>1. /\ dashJob[s].began \in Nat /\ dashJob[s].began <= dashTick
        /\ dashTick <= dashJob[s].began + MaxLoad
        /\ dashJob[s].role \in Roles
        /\ ManagedSince(w, dashJob[s].snapshot.managed[w], dashJob[s].began)
    BY DEF DashIInv, DashJobsRight, DashJobRight
  <2>2. dashJob[s].began \in Int /\ dashJob' = dashJob
    BY <2>1
  <2>3. ManagedSince(w, dashJob[s].snapshot.managed[w], dashJob[s].began)'
    BY <1>1, <2>1, <2>2, ManagedSinceStays DEF ManagedSince
  <2> QED BY <2>1, <2>3
<1>4. CacheIsFresh'
  <2> SUFFICES ASSUME NEW key \in DOMAIN cache
               PROVE  /\ cache[key].expires \in Nat
                      /\ dashTick < cache[key].expires
                      /\ cache[key].expires <= dashTick + DashboardTTL
                      /\ key[1] = "proj_leader" =>
                            \A w \in cache[key].payload.managed :
                                ManagedSince(w, key[2],
                                             cache[key].expires - DashboardTTL - MaxLoad)'
    BY DEF CacheIsFresh
  <2>1. /\ cache[key].expires \in Nat
        /\ dashTick < cache[key].expires
        /\ cache[key].expires <= dashTick + DashboardTTL
        /\ key[1] = "proj_leader" =>
              \A w \in cache[key].payload.managed :
                  ManagedSince(w, key[2], cache[key].expires - DashboardTTL - MaxLoad)
    BY DEF DashIInv, CacheIsFresh
  <2> DEFINE t == cache[key].expires - DashboardTTL - MaxLoad
  <2>2. t \in Int /\ t <= dashTick
    BY <1>1, <2>1
  <2>3. t' = t
    OBVIOUS
  <2> HIDE DEF t
  <2>4. ASSUME NEW w, ManagedSince(w, key[2], t) PROVE ManagedSince(w, key[2], t)'
    BY <1>1, <2>2, <2>3, <2>4, ManagedSinceStays DEF ManagedSince
  <2> QED BY <2>1, <2>4 DEF t
<1>5. ShownIsRight'
  <2> DEFINE t == dashTick + 1 - DashboardTTL - MaxLoad
  <2>1. t \in Int /\ t <= dashTick /\ t' = t
    BY <1>1
  <2>2. shown.role = "proj_leader" =>
           \A w \in shown.payload.managed : ManagedSince(w, shown.user.id, t)
    BY DEF DashIInv, ShownIsRight
  <2> HIDE DEF t
  <2>3. ASSUME NEW w, ManagedSince(w, shown.user.id, t)
        PROVE  ManagedSince(w, shown.user.id, t)'
    BY <1>1, <2>1, <2>3, ManagedSinceStays DEF ManagedSince
  <2>4. shown.role = "proj_leader" =>
           \A w \in shown.payload.managed : ManagedSince(w, shown.user.id, t)'
    BY <2>2, <2>3
  <2> QED BY <2>4 DEF ShownIsRight, t
<1> QED BY <1>2, <1>3, <1>4, <1>5 DEF DashIInv

\* A handover is dated; payments and tasks are of no importance here.
LEMMA ProjectStepsKeep ==
    ASSUME DashIInv, NEW w \in DashSubs,
           PaymentMade(w) \/ TaskCompleted(w) \/ \E id \in Leaders : HandOver(w, id)
    PROVE  DashIInv'
<1>1. /\ managed \in [DashSubs -> Leaders] /\ lastManaged \in [DashSubs -> [Leaders -> Nat]]
      /\ dashTick \in Nat
      /\ \A v \in DashSubs, id \in Leaders : lastManaged[v][id] <= dashTick
  BY DashboardsAssumption DEF DashIInv, DashTyped, DashTypeOK
<1>2. CASE UNCHANGED <<managed, lastManaged, cache, dashJob, shown, dashTick>>
  <2>1. \A v \in DashSubs, id \in Leaders : lastManaged[v][id] \in Nat
    BY <1>1
  <2>2. ManagersKept
    BY <1>2, <2>1 DEF ManagersKept
  <2> QED BY <1>1, <1>2, <2>2, ProjectsChangeKeeps
<1>3. ASSUME NEW id \in Leaders, HandOver(w, id)
      PROVE  DashIInv'
  <2>1. /\ managed' = [managed EXCEPT ![w] = id]
        /\ lastManaged' = [lastManaged EXCEPT ![w] =
              [lastManaged[w] EXCEPT ![managed[w]] = dashTick]]
        /\ UNCHANGED <<cache, dashJob, shown, dashTick>>
    BY <1>1, <1>3 DEF HandOver
  <2>2. managed[w] \in Leaders /\ lastManaged[w] \in [Leaders -> Nat]
    BY <1>1
  <2>3. [lastManaged[w] EXCEPT ![managed[w]] = dashTick] \in [Leaders -> Nat]
    BY <1>1, <2>2
  <2>4. managed' \in [DashSubs -> Leaders] /\ lastManaged' \in [DashSubs -> [Leaders -> Nat]]
    BY <1>1, <2>1, <2>3
  <2>5. ASSUME NEW v \in DashSubs, NEW x \in Leaders
        PROVE  /\ lastManaged[v][x] <= lastManaged'[v][x]
               /\ lastManaged'[v][x] <= dashTick
    <3>1. lastManaged[v] \in [Leaders -> Nat] /\ lastManaged[v][x] \in Nat
          /\ lastManaged[v][x] <= dashTick
      BY <1>1
    <3>2. lastManaged'[v][x] \in {lastManaged[v][x], dashTick}
      <4>1. CASE v = w
        BY <4>1, <1>1, <2>1, <2>2
      <4>2. CASE v # w
        BY <4>2, <1>1, <2>1
      <4> QED BY <4>1, <4>2
    <3> QED BY <1>1, <3>1, <3>2
  <2>6. ASSUME NEW v \in DashSubs
        PROVE  managed'[v] = managed[v] \/ dashTick <= lastManaged'[v][managed[v]]
    <3>1. CASE v = w
      BY <3>1, <1>1, <2>1, <2>2
    <3>2. CASE v # w
      BY <3>2, <1>1, <2>1
    <3> QED BY <3>1, <3>2
  <2>7. ManagersKept
    BY <2>5, <2>6 DEF ManagersKept
  <2> QED BY <2>1, <2>4, <2>5, <2>7, ProjectsChangeKeeps
<1> QED BY <1>2, <1>3 DEF PaymentMade, TaskCompleted

\* A dashboard out of the cache is as old as the cache says.
LEMMA AnswerFromCacheKeeps ==
    ASSUME DashIInv, NEW u \in DashUsers, NEW role \in Roles, AnswerFromCache(u, role)
    PROVE  DashIInv'
<1> DEFINE key == cache_key(role, u)
           t == cache[key].expires - DashboardTTL - MaxLoad
           now == dashTick + 1 - DashboardTTL - MaxLoad
<1>1. /\ shown' = [user |-> u, role |-> role, payload |-> cache[key].payload]
      /\ UNCHANGED <<managed, lastManaged, cache, dashJob, dashTick>>
      /\ key \in DOMAIN cache /\ key = <<role, u.id>>
  BY DEF AnswerFromCache, DataSame, Cached, cache_key
<1>2. DashTyped' /\ DashJobsRight' /\ CacheIsFresh'
  BY <1>1 DEF DashIInv, DashTyped, DashTypeOK, DashJobsRight, DashJobRight, CacheIsFresh,
              ManagedSince
<1>3. ShownIsRight'
  <2> SUFFICES ASSUME role = "proj_leader", NEW w \in cache[key].payload.managed
               PROVE  ManagedSince(w, u.id, now)'
    BY <1>1 DEF ShownIsRight
  <2>1. ManagedSince(w, u.id, t) /\ cache[key].expires \in Nat /\ dashTick < cache[key].expires
    BY <1>1 DEF DashIInv, CacheIsFresh
  <2>2. dashTick \in Nat /\ DashboardTTL \in Nat /\ MaxLoad \in Nat
    BY DashboardsAssumption DEF DashIInv, DashTyped, DashTypeOK
  <2>3. w \in DashSubs /\ u.id \in Leaders => lastManaged[w][u.id] \in Nat
    BY DEF DashIInv, DashTyped
  <2>4. now <= t /\ now \in Int /\ t \in Int
    BY <2>1, <2>2
  <2> HIDE DEF t, now
  <2>5. ManagedSince(w, u.id, now)
    BY <2>1, <2>3, <2>4 DEF ManagedSince
  <2> QED BY <1>1, <2>5 DEF ManagedSince, now
<1> QED BY <1>2, <1>3 DEF DashIInv

\* A snapshot is of now.
LEMMA LoadSnapshotKeeps ==
    ASSUME DashIInv, NEW s \in DashJobs, NEW u \in DashUsers, NEW role \in Roles,
           LoadSnapshot(s, u, role)
    PROVE  DashIInv'
<1> DEFINE j == [at |-> "loaded", user |-> u, role |-> role, began |-> dashTick,
                 snapshot |-> [managed |-> managed, spent |-> spent, done |-> taskDone]]
<1>1. /\ dashJob' = [dashJob EXCEPT ![s] = j]
      /\ UNCHANGED <<managed, lastManaged, cache, shown, dashTick>>
  BY DEF LoadSnapshot, DashWrite, DataSame
<1>2. DashTyped' /\ CacheIsFresh' /\ ShownIsRight'
  BY <1>1 DEF DashIInv, DashTyped, DashTypeOK, CacheIsFresh, ShownIsRight, ManagedSince
<1>3. /\ dashTick \in Nat /\ MaxLoad \in Nat /\ managed \in [DashSubs -> Leaders]
      /\ DOMAIN dashJob = DashJobs
  BY DashboardsAssumption DEF DashIInv, DashTyped, DashTypeOK
<1>4. DashJobsRight'
  <2> SUFFICES ASSUME NEW t \in DashJobs PROVE DashJobRight(dashJob[t])'
    BY DEF DashJobsRight
  <2>1. CASE t = s
    <3>1. dashJob'[t] = j
      BY <2>1, <1>1, <1>3
    <3>2. DashJobRight(j)
      BY <1>3 DEF DashJobRight, ManagedSince
    <3> QED BY <1>1, <3>1, <3>2 DEF DashJobRight, ManagedSince
  <2>2. CASE t # s
    <3>1. dashJob'[t] = dashJob[t] /\ DashJobRight(dashJob[t])
      BY <2>2, <1>1, <1>3 DEF DashIInv, DashJobsRight
    <3> QED BY <1>1, <3>1 DEF DashJobRight, ManagedSince
  <2> QED BY <2>1, <2>2
<1> QED BY <1>2, <1>4 DEF DashIInv

\* What is stored and answered is as old as the request.
LEMMA StoreAndAnswerKeeps ==
    ASSUME DashIInv, NEW s \in DashJobs, StoreAndAnswer(s)
    PROVE  DashIInv'
<1> DEFINE j == dashJob[s]
           key == cache_key(j.role, j.user)
           payload == _build_dashboard(j.user, j.role, j.snapshot)
<1>1. /\ cache' = [k \in DOMAIN cache \cup {key} |->
            IF k = key THEN [payload |-> payload, expires |-> dashTick + DashboardTTL]
            ELSE cache[k]]
      /\ shown' = [user |-> j.user, role |-> j.role, payload |-> payload]
      /\ dashJob' = [dashJob EXCEPT ![s] = NoDash]
      /\ UNCHANGED <<managed, lastManaged, dashTick>>
      /\ j.at = "loaded" /\ key = <<j.role, j.user.id>>
  BY DEF StoreAndAnswer, DashWrite, DataSame, cache_key
<1>2. /\ dashTick \in Nat /\ DashboardTTL \in Nat \ {0} /\ MaxLoad \in Nat
      /\ DOMAIN dashJob = DashJobs
  BY DashboardsAssumption DEF DashIInv, DashTyped, DashTypeOK
<1>3. /\ j.began \in Nat /\ dashTick <= j.began + MaxLoad /\ j.role \in Roles
      /\ \A w \in DashSubs : ManagedSince(w, j.snapshot.managed[w], j.began)
  BY <1>1 DEF DashIInv, DashJobsRight, DashJobRight
<1>4. ASSUME j.role = "proj_leader", NEW w \in payload.managed
      PROVE  ManagedSince(w, j.user.id, j.began)
  <2>1. payload = project_leader_dashboard(j.user, j.snapshot)
    BY <1>4 DEF _build_dashboard
  <2>2. w \in DashSubs /\ j.snapshot.managed[w] = j.user.id
    BY <1>4, <2>1 DEF project_leader_dashboard, ManagedBy
  <2> QED BY <1>3, <2>2
<1> HIDE DEF j, payload
<1>5. ASSUME NEW w, ManagedSince(w, j.user.id, j.began), NEW t \in Int, t <= j.began
      PROVE  ManagedSince(w, j.user.id, t)
  <2>1. w \in DashSubs /\ j.user.id \in Leaders => lastManaged[w][j.user.id] \in Nat
    BY DEF DashIInv, DashTyped
  <2> QED BY <1>1, <1>3, <1>5, <2>1 DEF ManagedSince
<1>6. DashTyped'
  <2>1. DashTypeOK'
    <3>1. \A k \in DOMAIN cache' : k[1] \in Roles
      BY <1>1, <1>3 DEF DashIInv, DashTyped, DashTypeOK
    <3> QED BY <1>1, <1>3, <3>1 DEF DashIInv, DashTyped, DashTypeOK
  <2> QED BY <1>1, <2>1 DEF DashIInv, DashTyped
<1>7. DashJobsRight'
  <2> SUFFICES ASSUME NEW t \in DashJobs PROVE DashJobRight(dashJob[t])'
    BY DEF DashJobsRight
  <2>1. CASE t = s
    BY <2>1, <1>1, <1>2 DEF DashJobRight, NoDash
  <2>2. CASE t # s
    <3>1. dashJob'[t] = dashJob[t] /\ DashJobRight(dashJob[t])
      BY <2>2, <1>1, <1>2 DEF DashIInv, DashJobsRight
    <3> QED BY <1>1, <3>1 DEF DashJobRight, ManagedSince
  <2> QED BY <2>1, <2>2
<1>8. CacheIsFresh'
  <2> SUFFICES ASSUME NEW k \in DOMAIN cache'
               PROVE  /\ cache'[k].expires \in Nat
                      /\ dashTick < cache'[k].expires
                      /\ cache'[k].expires <= dashTick + DashboardTTL
                      /\ k[1] = "proj_leader" =>
                            \A w \in cache'[k].payload.managed :
                                ManagedSince(w, k[2],
                                             cache'[k].expires - DashboardTTL - MaxLoad)
    BY ZenonT(60), <1>1 DEF CacheIsFresh, ManagedSince
  <2>1. CASE k = key
    <3>1. cache'[k].payload = payload /\ cache'[k].expires = dashTick + DashboardTTL
      BY <1>1, <2>1
    <3>2. k[1] = j.role /\ k[2] = j.user.id
      BY <1>1, <2>1
    <3> DEFINE t == cache'[k].expires - DashboardTTL - MaxLoad
    <3>3. t \in Int /\ t <= j.began
      BY <1>2, <1>3, <3>1
    <3> HIDE DEF t
    <3>4. j.role = "proj_leader" => \A w \in payload.managed : ManagedSince(w, j.user.id, t)
      BY <1>4, <1>5, <3>3
    <3> QED BY <1>2, <3>1, <3>2, <3>4 DEF t
  <2>2. CASE k # key
    <3>1. k \in DOMAIN cache /\ cache'[k] = cache[k]
      BY <1>1, <2>2
    <3> QED BY <1>1, <3>1 DEF DashIInv, CacheIsFresh, ManagedSince
  <2> QED BY <2>1, <2>2
<1>9. ShownIsRight'
  <2> SUFFICES ASSUME j.role = "proj_leader", NEW w \in payload.managed
               PROVE  ManagedSince(w, j.user.id, dashTick + 1 - DashboardTTL - MaxLoad)
    BY <1>1 DEF ShownIsRight, ManagedSince
  <2> DEFINE t == dashTick + 1 - DashboardTTL - MaxLoad
  <2>1. t \in Int /\ t <= j.began
    BY <1>2, <1>3
  <2> HIDE DEF t
  <2>2. ManagedSince(w, j.user.id, t)
    BY <1>4, <1>5, <2>1
  <2> QED BY <2>2 DEF t
<1> QED BY <1>6, <1>7, <1>8, <1>9 DEF DashIInv

\* Time passes: what has expired is gone, no request is older than MaxLoad.
LEMMA DashTickKeeps ==
    ASSUME DashIInv, DashTick
    PROVE  DashIInv'
<1>1. /\ dashTick \in Nat /\ dashTick' = dashTick + 1 /\ dashTick' \in 0 .. LastDashTick
      /\ DashboardTTL \in Nat \ {0} /\ MaxLoad \in Nat
      /\ cache' = [key \in Unexpired |-> cache[key]]
      /\ shown' = [role |-> "none"]
      /\ UNCHANGED <<managed, lastManaged, dashJob>>
  BY DashboardsAssumption DEF DashTick, DataSame, DashIInv, DashTyped, DashTypeOK
<1>2. DashTyped'
  <2>1. \A w \in DashSubs, id \in Leaders :
           lastManaged[w][id] \in Nat /\ lastManaged[w][id] <= dashTick
    BY DEF DashIInv, DashTyped
  <2>2. \A w \in DashSubs, id \in Leaders : lastManaged[w][id] <= dashTick'
    BY <1>1, <2>1
  <2>3. DashTypeOK'
    BY <1>1 DEF DashIInv, DashTyped, DashTypeOK, Unexpired
  <2> QED BY <1>1, <2>2, <2>3 DEF DashIInv, DashTyped
<1>3. DashJobsRight'
  <2> SUFFICES ASSUME NEW s \in DashJobs, dashJob[s].at = "loaded"
               PROVE  DashJobRight(dashJob[s])'
    BY <1>1 DEF DashJobsRight, DashJobRight
  <2>1. dashJob[s] # NoDash
    BY DEF NoDash
  <2>2. dashTick < dashJob[s].began + MaxLoad /\ DashJobRight(dashJob[s])
    BY <2>1 DEF DashTick, DashIInv, DashJobsRight
  <2> QED BY <1>1, <2>2 DEF DashJobRight, ManagedSince
<1>4. CacheIsFresh'
  <2> SUFFICES ASSUME NEW key \in DOMAIN cache, dashTick + 1 < cache[key].expires
               PROVE  /\ cache[key].expires \in Nat
                      /\ dashTick + 1 < cache[key].expires
                      /\ cache[key].expires <= dashTick + 1 + DashboardTTL
                      /\ key[1] = "proj_leader" =>
                            \A w \in cache[key].payload.managed :
                                ManagedSince(w, key[2],
                                             cache[key].expires - DashboardTTL - MaxLoad)
    BY <1>1 DEF CacheIsFresh, Unexpired, ManagedSince
  <2>1. /\ cache[key].expires \in Nat
        /\ cache[key].expires <= dashTick + DashboardTTL
        /\ key[1] = "proj_leader" =>
              \A w \in cache[key].payload.managed :
                  ManagedSince(w, key[2], cache[key].expires - DashboardTTL - MaxLoad)
    BY DEF DashIInv, CacheIsFresh
  <2>2. cache[key].expires <= dashTick + 1 + DashboardTTL
    BY <1>1, <2>1
  <2> QED BY <2>1, <2>2
<1>5. ShownIsRight'
  BY <1>1 DEF ShownIsRight
<1> QED BY <1>2, <1>3, <1>4, <1>5 DEF DashIInv

\* Every step keeps the dashboards right.
LEMMA DashInductive == DashIInv /\ [DashNext]_dashVars => DashIInv'
<1> SUFFICES ASSUME DashIInv, [DashNext]_dashVars PROVE DashIInv'
  OBVIOUS
<1>1. CASE UNCHANGED dashVars
  BY <1>1 DEF dashVars, DashIInv, DashTyped, DashTypeOK, DashJobsRight, DashJobRight,
              CacheIsFresh, ShownIsRight, ManagedSince
<1> QED BY <1>1, ProjectStepsKeep, AnswerFromCacheKeeps, LoadSnapshotKeeps,
           StoreAndAnswerKeeps, DashTickKeeps DEF DashNext

\* DashTypeOK: the cache of services/dashboard.py.
THEOREM DashboardsTypeCorrect == DashSpec => []DashTypeOK
<1>1. DashIInv => DashTypeOK
  BY DEF DashIInv, DashTyped
<1> QED BY <1>1, DashInitHolds, DashInductive, PTL DEF DashSpec

\* HandedOverDisappears: get_dashboard of any number of requests, the older
\* of which may store last.
THEOREM DashboardsForget == DashSpec => []HandedOverDisappears
<1>1. DashIInv => HandedOverDisappears
  <2> SUFFICES ASSUME DashIInv, shown.role = "proj_leader", NEW w \in shown.payload.managed
               PROVE  \/ managed[w] = shown.user.id
                      \/ dashTick < lastManaged[w][shown.user.id] + DashboardTTL + MaxLoad
    BY DEF HandedOverDisappears
  <2>1. ManagedSince(w, shown.user.id, dashTick + 1 - DashboardTTL - MaxLoad)
    BY DEF DashIInv, ShownIsRight
  <2>2. dashTick \in Nat /\ DashboardTTL \in Nat /\ MaxLoad \in Nat
    BY DashboardsAssumption DEF DashIInv, DashTyped, DashTypeOK
  <2>3. w \in DashSubs /\ shown.user.id \in Leaders => lastManaged[w][shown.user.id] \in Nat
    BY DEF DashIInv, DashTyped
  <2> QED BY <2>1, <2>2, <2>3 DEF ManagedSince
<1> QED BY <1>1, DashInitHolds, DashInductive, PTL DEF DashSpec

-----------------------------------------------------------------------------
(***************************************************************************)
(* Scheduled reports: the next run is the first moment of its schedule,    *)
(* in any calendar; and while only one scan has a report, it runs it for   *)
(* the time it was due, which no run before it was for.                    *)
(***************************************************************************)

\* Among some months of the calendar there is a first one.
LEMMA FirstMonth ==
  ASSUME NEW n \in Nat, NEW some, some \subseteq 1 .. n, some # {}
  PROVE  \E first \in some : \A m \in some : first <= m
<1> DEFINE all == 1 .. n
           upTo == {1 .. m : m \in some}
<1>1. IsFiniteSet(all) /\ upTo \subseteq SUBSET all /\ upTo # {}
  <2>1. IsFiniteSet(1 .. n)
    BY FS_Interval
  <2>2. \A m \in some : 1 .. m \subseteq 1 .. n
    OBVIOUS
  <2> QED BY <2>1, <2>2
<1> HIDE DEF all, upTo
<1>2. PICK A \in upTo : \A B \in upTo : B \subseteq A => B = A
  BY <1>1, SmallestPart
<1> USE DEF upTo
<1>3. PICK first \in some : A = 1 .. first
  OBVIOUS
<1>4. ASSUME NEW m \in some, m < first PROVE FALSE
  <2>1. 1 .. m \in upTo /\ 1 .. m \subseteq A
    BY <1>3, <1>4
  <2>2. 1 .. m = 1 .. first
    BY <1>2, <1>3, <2>1
  <2>3. first \in 1 .. first /\ first \notin 1 .. m
    BY <1>4
  <2> QED BY <2>2, <2>3
<1>5. \A m \in some : m \in Int /\ first \in Int
  OBVIOUS
<1> QED BY <1>4, <1>5

Months == Len(MonthLengths)

LEMMA MonthsAre ==
  /\ Months \in Nat \ {0} /\ DOMAIN MonthLengths = 1 .. Months
  /\ \A m \in 1 .. Months : MonthLengths[m] \in Nat \ {0}
BY SchedulesAssumption DEF Months

\* The first n months, as MonthStart begins them.
Begins(f, n) ==
  f = [m \in 1 .. n |-> IF m = 1 THEN 0 ELSE f[m - 1] + MonthLengths[m - 1]]

\* The equation of MonthStart has a solution.
LEMMA BeginsExist == \E f : Begins(f, Months)
<1> DEFINE wrong == {n \in 1 .. Months : \A f : ~ Begins(f, n)}
<1> SUFFICES ASSUME wrong # {} PROVE FALSE
  BY SMTT(30), MonthsAre
<1>1. PICK n \in wrong : \A m \in wrong : n <= m
  <2>1. wrong \subseteq 1 .. Months
    OBVIOUS
  <2> HIDE DEF wrong
  <2> QED BY <2>1, MonthsAre, FirstMonth
<1>2. PICK f : n = 1 \/ Begins(f, n - 1)
  <2>1. n \in 1 .. Months /\ n - 1 \notin wrong
    BY <1>1, MonthsAre
  <2> QED BY <2>1, MonthsAre
<1> DEFINE g == [m \in 1 .. n |-> IF m = 1 THEN 0 ELSE
                    IF m < n THEN f[m] ELSE f[n - 1] + MonthLengths[n - 1]]
<1>3. n \in 1 .. Months
  BY <1>1
<1>4. ASSUME NEW m \in 1 .. n, m # 1
      PROVE  g[m] = g[m - 1] + MonthLengths[m - 1]
  <2>1. Begins(f, n - 1) /\ m - 1 \in 1 .. n - 1 /\ n \in Nat /\ m \in Nat
    BY <1>2, <1>3, <1>4, MonthsAre
  <2>2. \A k \in 1 .. n - 1 : f[k] = IF k = 1 THEN 0 ELSE f[k - 1] + MonthLengths[k - 1]
    BY <2>1 DEF Begins
  <2>3. g[m - 1] = f[m - 1]
    BY <2>1, <2>2
  <2>4. CASE m < n
    BY <1>4, <2>1, <2>2, <2>3, <2>4
  <2>5. CASE m = n
    BY <1>4, <2>1, <2>3, <2>5
  <2> QED BY <2>1, <2>4, <2>5
<1>5. 1 \in 1 .. n => g[1] = 0
  BY <1>3
<1>6. Begins(g, n)
  <2>1. g = [m \in 1 .. n |-> g[m]]
    OBVIOUS
  <2> HIDE DEF g
  <2> QED BY <1>4, <1>5, <2>1 DEF Begins
<1> HIDE DEF g
<1> QED BY <1>1, <1>6

\* Every month begins where the one before it ends.
LEMMA MonthStarts ==
  /\ MonthStart[1] = 0
  /\ \A m \in 1 .. Months : MonthStart[m] \in Nat
  /\ \A m \in 1 .. Months : m # 1 => MonthStart[m] = MonthStart[m - 1] + MonthLengths[m - 1]
<1>1. Begins(MonthStart, Months)
  <2>1. MonthStart = CHOOSE f : Begins(f, Months)
    BY DEF MonthStart, Begins, Months
  <2> QED BY <2>1, BeginsExist
<1>2. /\ MonthStart[1] = 0
      /\ \A m \in 1 .. Months : m # 1 => MonthStart[m] = MonthStart[m - 1] + MonthLengths[m - 1]
  BY <1>1, MonthsAre DEF Begins
<1> DEFINE wrong == {m \in 1 .. Months : MonthStart[m] \notin Nat}
<1>3. ASSUME wrong # {} PROVE FALSE
  <2>1. PICK n \in wrong : \A m \in wrong : n <= m
    <3>1. wrong \subseteq 1 .. Months
      OBVIOUS
    <3> HIDE DEF wrong
    <3> QED BY <1>3, <3>1, MonthsAre, FirstMonth
  <2>2. n # 1 /\ n \in 1 .. Months
    BY <1>2
  <2>3. n - 1 \in 1 .. Months /\ n - 1 < n
    BY <2>2, MonthsAre
  <2>4. MonthStart[n - 1] \in Nat
    BY <2>1, <2>3
  <2> QED BY <1>2, <2>2, <2>3, <2>4, MonthsAre
<1> QED BY <1>2, <1>3

\* Months follow each other.
LEMMA MonthsInOrder ==
  ASSUME NEW m \in 1 .. Months, NEW k \in 1 .. Months, m < k
  PROVE  MonthStart[m] + MonthLengths[m] <= MonthStart[k]
<1> DEFINE wrong == {i \in 1 .. Months : m < i /\ ~ (MonthStart[m] + MonthLengths[m] <= MonthStart[i])}
<1> SUFFICES ASSUME wrong # {} PROVE FALSE
  OBVIOUS
<1>1. PICK n \in wrong : \A i \in wrong : n <= i
  <2>1. wrong \subseteq 1 .. Months
    OBVIOUS
  <2> HIDE DEF wrong
  <2> QED BY <2>1, MonthsAre, FirstMonth
<1>2. n - 1 \in 1 .. Months /\ n # 1 /\ n - 1 >= m /\ n \in 1 .. Months /\ ~ (n <= n - 1)
  BY <1>1, MonthsAre
<1>3. n - 1 = m \/ MonthStart[m] + MonthLengths[m] <= MonthStart[n - 1]
  BY <1>1, <1>2, MonthsAre
<1>4. MonthStart[n] = MonthStart[n - 1] + MonthLengths[n - 1]
  BY <1>2, MonthStarts
<1>5. /\ MonthStart[n - 1] \in Nat /\ MonthStart[m] \in Nat
      /\ MonthLengths[n - 1] \in Nat /\ MonthLengths[m] \in Nat
  BY <1>2, MonthStarts, MonthsAre
<1> QED BY <1>1, <1>3, <1>4, <1>5

InMonth(d, m) == MonthStart[m] <= d /\ d < MonthStart[m] + MonthLengths[m]

\* A day is of at most one month.
LEMMA OneMonth ==
  ASSUME NEW d \in Nat, NEW m \in 1 .. Months, NEW k \in 1 .. Months, InMonth(d, m), InMonth(d, k)
  PROVE  m = k
<1>1. /\ MonthStart[k] \in Nat /\ MonthStart[m] \in Nat
      /\ MonthLengths[k] \in Nat /\ MonthLengths[m] \in Nat
  BY MonthStarts, MonthsAre
<1>2. CASE m < k
  BY <1>1, <1>2, MonthsInOrder DEF InMonth
<1>3. CASE k < m
  BY <1>1, <1>3, MonthsInOrder DEF InMonth
<1> QED BY <1>2, <1>3

\* And of one, if the calendar reaches as far.
LEMMA MonthOf ==
  ASSUME NEW d \in Nat, d < MonthStart[Months] + MonthLengths[Months]
  PROVE  monthOf(d) \in 1 .. Months /\ InMonth(d, monthOf(d))
<1> DEFINE later == {m \in 1 .. Months : d < MonthStart[m]}
<1>1. \E m \in 1 .. Months : InMonth(d, m)
  <2>1. CASE later = {}
    <3>1. Months \in 1 .. Months /\ Months \notin later
      BY <2>1, MonthsAre
    <3>2. MonthStart[Months] \in Nat
      BY <3>1, MonthStarts
    <3> QED BY <3>1, <3>2 DEF InMonth
  <2>2. CASE later # {}
    <3>1. PICK n \in later : \A m \in later : n <= m
      <4>1. later \subseteq 1 .. Months
        OBVIOUS
      <4> HIDE DEF later
      <4> QED BY <2>2, <4>1, MonthsAre, FirstMonth
    <3>2. n # 1
      BY MonthStarts
    <3>3. n - 1 \in 1 .. Months /\ n - 1 < n
      BY <3>2, MonthsAre
    <3>4. n - 1 \notin later
      BY <3>1, <3>3
    <3>5. MonthStart[n - 1] \in Nat
      BY <3>3, MonthStarts
    <3> QED BY <3>2, <3>3, <3>4, <3>5, MonthStarts DEF InMonth
  <2> QED BY <2>1, <2>2
<1> QED BY <1>1 DEF monthOf, InMonth, Months

-----------------------------------------------------------------------------
(* The next run *)

\* A schedule's moment of a day, and its days.
At(s, d) == s.time + DayLength * d
FitsDay(s, d) ==
  LET m == monthOf(d)
  IN  /\ s.frequency = "weekly" => weekday(d) = s.day - 1
      /\ s.frequency = "monthly" => d = _monthly_candidate(m, s.day)

LEMMA LeastOf ==
  ASSUME NEW a \in Nat, NEW b \in Nat
  PROVE  Least({a, b}) = IF a <= b THEN a ELSE b
<1> DEFINE c == IF a <= b THEN a ELSE b
<1>1. c \in {a, b} /\ \A y \in {a, b} : c <= y
  OBVIOUS
<1>2. ASSUME NEW x \in {a, b}, \A y \in {a, b} : x <= y PROVE x = c
  BY <1>2
<1> HIDE DEF c
<1>3. (CHOOSE x \in {a, b} : \A y \in {a, b} : x <= y) = c
  BY <1>1, <1>2
<1> QED BY <1>3 DEF Least, c

\* A day of a month that has it, or its last day.
LEMMA CandidateIs ==
  ASSUME NEW m \in 1 .. Months, NEW day \in 1 .. 31
  PROVE  /\ _monthly_candidate(m, day) \in Nat
         /\ InMonth(_monthly_candidate(m, day), m)
         /\ \A d \in Nat : InMonth(d, m) =>
              (d = _monthly_candidate(m, day) <=>
                 \/ d - MonthStart[m] + 1 = day
                 \/ d - MonthStart[m] + 1 = MonthLengths[m] /\ day > MonthLengths[m])
<1>1. MonthStart[m] \in Nat /\ MonthLengths[m] \in Nat \ {0}
  BY MonthStarts, MonthsAre
<1>2. _monthly_candidate(m, day) =
        MonthStart[m] + (IF day <= MonthLengths[m] THEN day ELSE MonthLengths[m]) - 1
  BY <1>1, LeastOf DEF _monthly_candidate
<1> QED BY <1>1, <1>2 DEF InMonth

LEMMA DaysOf ==
  ASSUME NEW t \in Nat
  PROVE  /\ dayOf(t) \in Nat /\ t % DayLength \in 0 .. DayLength - 1
         /\ t = (t % DayLength) + DayLength * dayOf(t)
         /\ DayLength * dayOf(t) <= t /\ t < DayLength * dayOf(t) + DayLength
<1>1. DayLength \in Nat \ {0}
  BY SchedulesAssumption
<1>2. /\ t \div DayLength \in Nat /\ t % DayLength \in 0 .. DayLength - 1
      /\ t = (t % DayLength) + DayLength * (t \div DayLength)
  BY <1>1
<1>3. DayLength * (t \div DayLength) \in Nat
  BY <1>1, <1>2
<1> QED BY <1>1, <1>2, <1>3 DEF dayOf

LEMMA MomentOf ==
  ASSUME NEW s \in Schedule, NEW d \in Nat
  PROVE  /\ At(s, d) \in Nat /\ dayOf(At(s, d)) = d /\ At(s, d) % DayLength = s.time
         /\ DayLength * d <= At(s, d) /\ At(s, d) < DayLength * d + DayLength
<1>1. s.time \in 0 .. DayLength - 1 /\ DayLength \in Nat \ {0}
  BY SchedulesAssumption DEF Schedule
<1>2. /\ s.time + DayLength * d \in Nat
      /\ (s.time + DayLength * d) \div DayLength = d
      /\ (s.time + DayLength * d) % DayLength = s.time
      /\ DayLength * d <= s.time + DayLength * d
      /\ s.time + DayLength * d < DayLength * d + DayLength
  BY <1>1
<1> QED BY <1>2 DEF At, dayOf

LEMMA DaysInOrder ==
  ASSUME NEW d \in Nat, NEW e \in Nat, d < e
  PROVE  DayLength * d + DayLength <= DayLength * e
BY SchedulesAssumption

InCalendar(d) == d \in Nat /\ d < MonthStart[Months] + MonthLengths[Months]

\* A moment of the schedule is its time of a day that fits.
LEMMA ScheduledMeans ==
  ASSUME NEW s \in Schedule, NEW t \in Nat, s.frequency = "monthly" => InCalendar(dayOf(t))
  PROVE  IsScheduled(s, t) <=> t = At(s, dayOf(t)) /\ FitsDay(s, dayOf(t))
<1> DEFINE d == dayOf(t)
           m == monthOf(d)
<1>1. d \in Nat /\ s.day \in 1 .. 31
  BY DaysOf DEF Schedule
<1>2. t % DayLength = s.time <=> t = At(s, d)
  <2>1. t % DayLength = s.time => t = At(s, d)
    BY DaysOf DEF At
  <2>2. t = At(s, d) => t % DayLength = s.time
    BY <1>1, MomentOf
  <2> QED BY <2>1, <2>2
<1>3. ASSUME s.frequency = "monthly"
      PROVE  d = _monthly_candidate(m, s.day) <=>
               \/ d - MonthStart[m] + 1 = s.day
               \/ d - MonthStart[m] + 1 = MonthLengths[m] /\ s.day > MonthLengths[m]
  <2>1. m \in 1 .. Months /\ InMonth(d, m)
    BY <1>1, <1>3, MonthOf DEF InCalendar
  <2> QED BY <1>1, <2>1, CandidateIs
<1>4. IsScheduled(s, t) <=>
        /\ t % DayLength = s.time
        /\ s.frequency = "weekly" => weekday(d) = s.day - 1
        /\ s.frequency = "monthly" =>
             \/ d - MonthStart[m] + 1 = s.day
             \/ d - MonthStart[m] + 1 = MonthLengths[m] /\ s.day > MonthLengths[m]
  BY DEF IsScheduled
<1> HIDE DEF d, m
<1> QED BY <1>2, <1>3, <1>4 DEF FitsDay, d, m

\* The day a schedule tries first, and the one after it.
FirstDay(s, today) ==
  CASE s.frequency = "daily"   -> today
    [] s.frequency = "weekly"  -> today + ((s.day - 1 - weekday(today)) % 7)
    [] s.frequency = "monthly" -> _monthly_candidate(monthOf(today), s.day)
SecondDay(s, today) ==
  CASE s.frequency = "daily"   -> today + 1
    [] s.frequency = "weekly"  -> FirstDay(s, today) + 7
    [] s.frequency = "monthly" -> _monthly_candidate(monthOf(today) + 1, s.day)

LEMMA NextRunIs ==
  ASSUME NEW s \in Schedule, NEW from \in Nat
  PROVE  LET c == FirstDay(s, dayOf(from))
             n == SecondDay(s, dayOf(from))
         IN  _calculate_next_run_at(s, from) = IF At(s, c) <= from THEN At(s, n) ELSE At(s, c)
<1>1. s.frequency \in {"daily", "weekly", "monthly"}
  BY DEF Schedule
<1>2. CASE s.frequency = "daily"
  BY <1>2 DEF _calculate_next_run_at, FirstDay, SecondDay, At
<1>3. CASE s.frequency = "weekly"
  BY <1>3 DEF _calculate_next_run_at, FirstDay, SecondDay, At
<1>4. CASE s.frequency = "monthly"
  BY <1>4 DEF _calculate_next_run_at, FirstDay, SecondDay, At
<1> QED BY <1>1, <1>2, <1>3, <1>4

\* A day of the week comes within a week, and then after seven days.
LEMMA DayOfWeek ==
  ASSUME NEW today \in Nat, NEW day \in 1 .. 7
  PROVE  LET c == today + ((day - 1 - (today % 7)) % 7)
         IN  /\ c \in Nat /\ c >= today /\ c % 7 = day - 1 /\ (c + 7) % 7 = day - 1
             /\ \A e \in Nat : e >= today /\ e < c => e % 7 # day - 1
             /\ \A e \in Nat : e > c /\ e < c + 7 => e % 7 # day - 1
OBVIOUS

WeeklyIsADay(s) == s.frequency = "weekly" => s.day <= 7

\* No day that fits lies between today, these two and each other.
LEMMA FirstDaysFit ==
  ASSUME NEW s \in Schedule, WeeklyIsADay(s), NEW today \in Nat, today < MonthStart[Months]
  PROVE  LET c == FirstDay(s, today)
             n == SecondDay(s, today)
         IN  /\ c \in Nat /\ n \in Nat /\ today < n /\ c < n
             /\ FitsDay(s, c) /\ FitsDay(s, n)
             /\ \A e \in Nat : today <= e /\ e < n /\ e # c => ~ FitsDay(s, e)
             /\ s.frequency = "monthly" => InCalendar(n)
<1> DEFINE c == FirstDay(s, today)
           n == SecondDay(s, today)
<1>0. s.day \in 1 .. 31
  BY DEF Schedule
<1>1. CASE s.frequency = "daily"
  BY <1>1 DEF FirstDay, SecondDay, FitsDay
<1>2. CASE s.frequency = "weekly"
  <2>1. /\ s.day \in 1 .. 7 /\ c = today + ((s.day - 1 - (today % 7)) % 7) /\ n = c + 7
    BY <1>0, <1>2 DEF WeeklyIsADay, FirstDay, SecondDay, weekday
  <2> HIDE DEF c, n
  <2>2. /\ c \in Nat /\ c >= today /\ c % 7 = s.day - 1 /\ (c + 7) % 7 = s.day - 1
        /\ \A e \in Nat : e >= today /\ e < c => e % 7 # s.day - 1
        /\ \A e \in Nat : e > c /\ e < c + 7 => e % 7 # s.day - 1
    BY <2>1, DayOfWeek
  <2>3. /\ c \in Nat /\ n \in Nat /\ today < n /\ c < n
        /\ weekday(c) = s.day - 1 /\ weekday(n) = s.day - 1
        /\ \A e \in Nat : today <= e /\ e < n /\ e # c => weekday(e) # s.day - 1
    <3> DEFINE day == s.day
    <3> HIDE DEF day
    <3>1. day \in Nat /\ n = c + 7
      BY <2>1 DEF day
    <3>2. /\ c \in Nat /\ c >= today /\ c % 7 = day - 1 /\ n % 7 = day - 1
          /\ \A e \in Nat : e >= today /\ e < c => e % 7 # day - 1
          /\ \A e \in Nat : e > c /\ e < n => e % 7 # day - 1
      BY <2>1, <2>2 DEF day
    <3> QED BY <3>1, <3>2 DEF weekday, day
  <2> QED BY <1>2, <2>3 DEF FitsDay, c, n
<1>3. CASE s.frequency = "monthly"
  <2> DEFINE m == monthOf(today)
  <2>1. Months \in 1 .. Months /\ MonthStart[Months] \in Nat /\ MonthLengths[Months] \in Nat \ {0}
    BY MonthsAre, MonthStarts
  <2>2. m \in 1 .. Months /\ InMonth(today, m)
    BY <2>1, MonthOf
  <2>3. m # Months
    BY <2>1, <2>2 DEF InMonth
  <2>4. m + 1 \in 1 .. Months /\ m < m + 1
    BY <2>2, <2>3, MonthsAre
  <2>5. c = _monthly_candidate(m, s.day) /\ n = _monthly_candidate(m + 1, s.day)
    BY <1>3 DEF FirstDay, SecondDay
  <2> HIDE DEF m, c, n
  <2>6. c \in Nat /\ n \in Nat /\ InMonth(c, m) /\ InMonth(n, m + 1)
    BY <1>0, <2>2, <2>4, <2>5, CandidateIs
  <2>7. /\ MonthStart[m] \in Nat /\ MonthStart[m + 1] \in Nat
        /\ MonthLengths[m] \in Nat /\ MonthLengths[m + 1] \in Nat
        /\ MonthStart[m + 1] = MonthStart[m] + MonthLengths[m]
    BY <2>2, <2>4, MonthStarts, MonthsAre
  <2>8. c < n /\ today < n
    BY <2>2, <2>6, <2>7 DEF InMonth
  <2>9. InCalendar(n) /\ InCalendar(c)
    <3>1. m + 1 = Months \/ MonthStart[m + 1] + MonthLengths[m + 1] <= MonthStart[Months]
      BY <2>1, <2>4, MonthsInOrder, MonthsAre
    <3> QED BY <2>1, <2>6, <2>7, <2>8, <3>1 DEF InCalendar, InMonth
  <2>10. monthOf(c) = m /\ monthOf(n) = m + 1
    BY <2>2, <2>4, <2>6, <2>9, MonthOf, OneMonth DEF InCalendar
  <2>11. FitsDay(s, c) /\ FitsDay(s, n)
    BY <1>3, <2>5, <2>10 DEF FitsDay
  <2>12. ASSUME NEW e \in Nat, today <= e, e < n, e # c, FitsDay(s, e)
         PROVE  FALSE
    <3>0. InCalendar(e)
      BY <2>6, <2>9, <2>12, <2>1 DEF InCalendar
    <3>1. InMonth(e, m) \/ InMonth(e, m + 1)
      BY <2>2, <2>6, <2>7, <2>12 DEF InMonth
    <3>2. monthOf(e) \in 1 .. Months /\ InMonth(e, monthOf(e))
      BY <2>12, <3>0, MonthOf DEF InCalendar
    <3>3. monthOf(e) = m \/ monthOf(e) = m + 1
      BY <2>2, <2>4, <3>1, <3>2, OneMonth
    <3>4. e = _monthly_candidate(monthOf(e), s.day)
      BY <1>3, <2>12 DEF FitsDay
    <3> QED BY <2>5, <2>6, <2>12, <3>3, <3>4
  <2> QED BY <2>6, <2>8, <2>9, <2>11, <2>12 DEF c, n
<1> QED BY <1>1, <1>2, <1>3 DEF Schedule

\* The next run is the first moment of the schedule after the one it is
\* counted from.
LEMMA NextRunFirst ==
  ASSUME NEW s \in Schedule, WeeklyIsADay(s), NEW from \in Nat, dayOf(from) < MonthStart[Months]
  PROVE  LET t == _calculate_next_run_at(s, from)
         IN  /\ t \in Nat /\ t > from
             /\ IsScheduled(s, t)
             /\ \A u \in from + 1 .. t - 1 : ~ IsScheduled(s, u)
<1> DEFINE today == dayOf(from)
           c == FirstDay(s, today)
           n == SecondDay(s, today)
           d == IF At(s, c) <= from THEN n ELSE c
           t == At(s, d)
<1>1. /\ today \in Nat /\ DayLength \in Nat
      /\ DayLength * today <= from /\ from < DayLength * today + DayLength
  BY DaysOf, SchedulesAssumption
<1>2. /\ c \in Nat /\ n \in Nat /\ today < n /\ c < n
      /\ FitsDay(s, c) /\ FitsDay(s, n)
      /\ \A e \in Nat : today <= e /\ e < n /\ e # c => ~ FitsDay(s, e)
      /\ s.frequency = "monthly" => InCalendar(n)
  BY <1>1, FirstDaysFit
<1>3. _calculate_next_run_at(s, from) = t
  BY NextRunIs
<1> HIDE DEF today, c, n
<1>4. d \in Nat /\ FitsDay(s, d) /\ d <= n
  BY <1>2
<1>5. t \in Nat /\ t > from
  <2>1. CASE At(s, c) <= from
    <3>1. DayLength * today + DayLength <= DayLength * n /\ DayLength * n <= At(s, n)
      BY <1>1, <1>2, DaysInOrder, MomentOf
    <3>2. At(s, n) \in Nat /\ DayLength * n \in Nat /\ DayLength * today \in Nat
      BY <1>1, <1>2, MomentOf
    <3> QED BY <1>1, <2>1, <3>1, <3>2
  <2>2. CASE ~ (At(s, c) <= from)
    BY <1>2, <2>2, MomentOf
  <2> QED BY <2>1, <2>2
<1>6. ASSUME NEW e \in Nat, s.frequency = "monthly", e <= n PROVE InCalendar(e)
  <2>1. MonthStart[Months] + MonthLengths[Months] \in Nat
    BY MonthsAre, MonthStarts
  <2> QED BY <1>2, <1>6, <2>1 DEF InCalendar
<1>7. IsScheduled(s, t)
  <2>1. dayOf(t) = d
    BY <1>4, MomentOf
  <2> HIDE DEF d
  <2> QED BY <1>4, <1>5, <1>6, <2>1, ScheduledMeans
<1>8. ASSUME NEW u \in from + 1 .. t - 1, IsScheduled(s, u) PROVE FALSE
  <2> DEFINE e == dayOf(u)
  <2>1. u \in Nat /\ from < u /\ u < t
    BY <1>5, <1>8
  <2>2. e \in Nat /\ DayLength * e <= u /\ u < DayLength * e + DayLength
    BY <2>1, DaysOf, SchedulesAssumption
  <2> HIDE DEF e
  <2>3. today <= e
    <3> SUFFICES ASSUME e < today PROVE FALSE
      BY <1>1, <2>2
    <3>1. DayLength * e + DayLength <= DayLength * today
      BY <1>1, <2>2, DaysInOrder
    <3> QED BY <1>1, <2>1, <2>2, <3>1
  <2>4. e <= d
    <3> SUFFICES ASSUME d < e PROVE FALSE
      BY <1>4, <2>2
    <3>1. DayLength * d + DayLength <= DayLength * e
      BY <1>4, <2>2, DaysInOrder
    <3>2. t < DayLength * d + DayLength
      BY <1>4, MomentOf
    <3> HIDE DEF d, t
    <3>3. DayLength * d \in Nat /\ DayLength * e \in Nat
      BY <1>1, <1>4, <2>2
    <3> QED BY <1>1, <1>5, <2>1, <2>2, <3>1, <3>2, <3>3
  <2>5. u = At(s, e) /\ FitsDay(s, e)
    <3>1. s.frequency = "monthly" => InCalendar(dayOf(u))
      BY <1>2, <1>4, <1>6, <2>2, <2>4 DEF e
    <3> QED BY <1>8, <2>1, <3>1, ScheduledMeans DEF e
  <2>6. e # d
    BY <2>1, <2>5, <1>5
  <2>7. e = c
    BY <1>2, <1>4, <2>2, <2>3, <2>4, <2>5, <2>6
  <2>8. At(s, c) <= from
    BY <2>6, <2>7
  <2> QED BY <2>1, <2>5, <2>7, <2>8
<1> HIDE DEF t
<1> QED BY <1>3, <1>5, <1>7, <1>8

-----------------------------------------------------------------------------
(* The scans *)

\* A report is not yet created, or its next run is the first of its schedule.
RowHolds(row) ==
  \/ row = NoReport
  \/ /\ row \in [is_active : BOOLEAN, schedule : ReportSchedules, next_run_at : Nat, from : Nat,
                 run : {"none", "queued", "running", "completed", "failed"}]
     /\ row.next_run_at > row.from
     /\ IsScheduled(row.schedule, row.next_run_at)
     /\ \A t \in row.from + 1 .. row.next_run_at - 1 : ~ IsScheduled(row.schedule, t)

ReportsTyped ==
  /\ report = [r \in Reports |-> report[r]] /\ \A r \in Reports : RowHolds(report[r])
  /\ scan = [w \in ScanWorkers |-> scan[w]]
  /\ executed = [r \in Reports |-> executed[r]]
  /\ reportTick \in 0 .. LastReportTick

ScanRows == [todo : Seq(Reports), at : {"idle", "next", "start", "running", "notify", "fail"},
             attempt : 1 .. ReportAttempts, due : Int]

ListOf(j) == {j.todo[i] : i \in DOMAIN j.todo}

\* A scan runs each report it has listed once; while nobody else has it and
\* no notification has failed, it is still due, for the time the scan has read.
ScanHolds(j) ==
  /\ j \in ScanRows
  /\ j.at = "idle" => j = NoScan
  /\ j.at # "idle" => j.todo # << >>
  /\ \A i, k \in DOMAIN j.todo : i < k => j.todo[i] # j.todo[k]
  /\ \A r \in ListOf(j) : report[r] # NoReport
  /\ \A r \in ListOf(j) \ excused :
       report[r].next_run_at <= reportTick \/ (j.at = "notify" /\ r = Head(j.todo))
  /\ j.at \in {"start", "running", "fail"} /\ Head(j.todo) \notin excused
       => j.due = report[Head(j.todo)].next_run_at

\* Who is listed by two scans at once is excused.
ListedOnce == \A v, w \in ScanWorkers : v # w => ListOf(scan[v]) \cap ListOf(scan[w]) \subseteq excused

\* A due time that was completed is past.
DoneBefore ==
  \A r \in Reports :
    /\ report[r] = NoReport => executed[r] = {}
    /\ r \notin excused => \A t \in executed[r] : t \in Int /\ t < report[r].next_run_at

ReportIInv ==
  /\ ReportsTyped /\ \A w \in ScanWorkers : ScanHolds(scan[w])
  /\ ListedOnce /\ DoneBefore /\ DueTimeRunsOnce

LEMMA DaysReached ==
  ASSUME NEW t \in Nat, t <= LastReportTick + 1
  PROVE  dayOf(t) < MonthStart[Months]
<1>1. LastReportTick + 1 \in Nat
  BY SchedulesAssumption
<1>2. dayOf(LastReportTick + 1) < MonthStart[Months]
  BY SchedulesAssumption DEF Months
<1>3. dayOf(t) \in Nat /\ dayOf(LastReportTick + 1) \in Nat /\ MonthStart[Months] \in Nat
  BY <1>1, DaysOf, MonthStarts, MonthsAre
<1>4. ASSUME dayOf(LastReportTick + 1) < dayOf(t) PROVE FALSE
  <2> DEFINE last == LastReportTick + 1
             a == DayLength * dayOf(last)
             b == DayLength * dayOf(t)
  <2>1. a + DayLength <= b
    BY <1>3, <1>4, DaysInOrder
  <2>2. last < a + DayLength /\ b <= t
    BY <1>1, DaysOf
  <2>3. a \in Nat /\ b \in Nat /\ last \in Nat /\ DayLength \in Nat
    BY <1>1, <1>3, SchedulesAssumption
  <2> HIDE DEF a, b
  <2> QED BY <2>1, <2>2, <2>3
<1> QED BY <1>2, <1>3, <1>4

\* A row that has its next run computed.
LEMMA RowCounted ==
  ASSUME NEW s \in ReportSchedules, NEW from \in Nat, from <= LastReportTick + 1,
         NEW active \in BOOLEAN, NEW run \in {"none", "completed", "failed"}
  PROVE  LET row == [is_active |-> active, schedule |-> s,
                     next_run_at |-> _calculate_next_run_at(s, from), from |-> from, run |-> run]
         IN  RowHolds(row) /\ row # NoReport
<1>1. s \in Schedule /\ WeeklyIsADay(s)
  BY SchedulesAssumption DEF WeeklyIsADay
<1>2. LET t == _calculate_next_run_at(s, from)
      IN  /\ t \in Nat /\ t > from /\ IsScheduled(s, t)
          /\ \A u \in from + 1 .. t - 1 : ~ IsScheduled(s, u)
  BY <1>1, DaysReached, NextRunFirst
<1> DEFINE t == _calculate_next_run_at(s, from)
           row == [is_active |-> active, schedule |-> s, next_run_at |-> t, from |-> from, run |-> run]
<1>3. t \in Nat /\ t > from /\ IsScheduled(s, t) /\ \A u \in from + 1 .. t - 1 : ~ IsScheduled(s, u)
  BY <1>2
<1> HIDE DEF t
<1>4. RowHolds(row)
  BY <1>3 DEF RowHolds
<1>5. row # NoReport
  <2>1. row.next_run_at \in Nat /\ NoReport.next_run_at = -1
    BY <1>3 DEF NoReport
  <2> QED BY <2>1
<1> QED BY <1>4, <1>5 DEF t

LEMMA EndedHolds ==
  ASSUME ReportIInv, NEW r \in Reports, report[r] # NoReport, NEW status \in {"completed", "failed"}
  PROVE  /\ RowHolds(Ended(r, status)) /\ Ended(r, status) # NoReport
         /\ Ended(r, status).next_run_at \in Nat /\ Ended(r, status).next_run_at > reportTick + 1
<1>1. /\ report[r] \in [is_active : BOOLEAN, schedule : ReportSchedules, next_run_at : Nat, from : Nat,
                        run : {"none", "queued", "running", "completed", "failed"}]
  BY DEF ReportIInv, ReportsTyped, RowHolds
<1>2. reportTick + 1 \in Nat /\ reportTick + 1 <= LastReportTick + 1
  BY SchedulesAssumption DEF ReportIInv, ReportsTyped
<1> DEFINE s == report[r].schedule
           t == _calculate_next_run_at(s, reportTick + 1)
           row == [is_active |-> report[r].is_active, schedule |-> s, next_run_at |-> t,
                   from |-> reportTick + 1, run |-> status]
<1>3. RowHolds(row) /\ row # NoReport
  BY <1>1, <1>2, RowCounted
<1>4. Ended(r, status) = row
  <2>1. Ended(r, status) = [report[r] EXCEPT !.run = status, !.from = reportTick + 1, !.next_run_at = t]
    BY DEF Ended, _next_run_at_for_report
  <2> HIDE DEF t
  <2> QED BY <1>1, <2>1
<1>5. t \in Nat /\ t > reportTick + 1
  <2>1. s \in Schedule /\ WeeklyIsADay(s)
    BY <1>1, SchedulesAssumption DEF WeeklyIsADay
  <2> QED BY <1>2, <2>1, DaysReached, NextRunFirst
<1> HIDE DEF t
<1> QED BY <1>3, <1>4, <1>5

\* What a scan is by itself.
ScanShape(j) ==
  /\ j \in ScanRows
  /\ j.at = "idle" => j = NoScan
  /\ j.at # "idle" => j.todo # << >>
  /\ \A i, k \in DOMAIN j.todo : i < k => j.todo[i] # j.todo[k]

LEMMA NoScanShape == ScanShape(NoScan) /\ ListOf(NoScan) = {} /\ NoScan.at = "idle"
<1>1. << >> \in Seq(Reports) /\ 1 \in 1 .. ReportAttempts /\ -1 \in Int
  BY SchedulesAssumption
<1> QED BY <1>1 DEF ScanShape, ScanRows, NoScan, ListOf

LEMMA NoScanHolds == ScanHolds(NoScan)
BY NoScanShape DEF ScanHolds, ScanShape

\* The report a scan is at is one it has listed.
LEMMA HeadListed ==
  ASSUME NEW j, ScanShape(j), j.at # "idle"
  PROVE  /\ Head(j.todo) \in ListOf(j) /\ Head(j.todo) \in Reports
         /\ ListOf(j) \subseteq Reports
<1>1. j.todo \in Seq(Reports) /\ j.todo # << >>
  BY DEF ScanShape, ScanRows
<1>2. DOMAIN j.todo = 1 .. Len(j.todo) /\ Len(j.todo) \in Nat /\ 1 \in DOMAIN j.todo
      /\ Head(j.todo) = j.todo[1] /\ \A i \in DOMAIN j.todo : j.todo[i] \in Reports
  BY <1>1
<1> QED BY <1>2 DEF ListOf

\* The reports after it are others.
LEMMA NextShape ==
  ASSUME NEW j, ScanShape(j), j.at # "idle"
  PROVE  LET p == IF Len(j.todo) = 1 THEN NoScan
                  ELSE [NoScan EXCEPT !.todo = Tail(j.todo), !.at = "next"]
         IN  ScanShape(p) /\ p.at \in {"idle", "next"} /\ ListOf(p) \subseteq ListOf(j) \ {Head(j.todo)}
<1> DEFINE q == [NoScan EXCEPT !.todo = Tail(j.todo), !.at = "next"]
<1>1. j.todo \in Seq(Reports) /\ j.todo # << >>
  BY DEF ScanShape, ScanRows
<1>2. CASE Len(j.todo) = 1
  BY <1>2, NoScanShape
<1>3. CASE Len(j.todo) # 1
  <2> DEFINE u == Tail(j.todo)
  <2>1. /\ u \in Seq(Reports) /\ u # << >> /\ Len(j.todo) \in Nat /\ Len(u) = Len(j.todo) - 1
        /\ DOMAIN u = 1 .. Len(u) /\ DOMAIN j.todo = 1 .. Len(j.todo)
        /\ \A i \in 1 .. Len(u) : u[i] = j.todo[i + 1]
        /\ Head(j.todo) = j.todo[1]
    <3> DEFINE l == j.todo
    <3>1. l \in Seq(Reports) /\ l # << >> /\ Len(l) # 1
      BY <1>1, <1>3
    <3> HIDE DEF l
    <3>2. Len(l) \in Nat /\ Len(l) > 1 /\ DOMAIN l = 1 .. Len(l) /\ Head(l) = l[1]
      BY <3>1
    <3>3. Tail(l) \in Seq(Reports) /\ Len(Tail(l)) = Len(l) - 1
      BY <3>1
    <3>4. DOMAIN Tail(l) = 1 .. Len(Tail(l)) /\ \A i \in 1 .. Len(Tail(l)) : Tail(l)[i] = l[i + 1]
      BY <3>1, <3>3
    <3>5. Tail(l) # << >>
      <4>1. Len(Tail(l)) # 0
        BY <3>2, <3>3
      <4>2. Len(<< >>) = 0
        OBVIOUS
      <4> QED BY <4>1, <4>2
    <3> QED BY <3>2, <3>3, <3>4, <3>5 DEF l
  <2> HIDE DEF u
  <2>3. \A i \in DOMAIN u : i + 1 \in DOMAIN j.todo /\ u[i] = j.todo[i + 1]
    BY <2>1
  <2>4. \A i, k \in DOMAIN u : i < k => u[i] # u[k]
    <3>1. \A i, k \in DOMAIN u : i < k => i + 1 < k + 1
      BY <2>1
    <3> QED BY <2>3, <3>1 DEF ScanShape
  <2>5. \A i \in DOMAIN u : u[i] # Head(j.todo)
    <3>1. 1 \in DOMAIN j.todo /\ \A i \in DOMAIN u : 1 < i + 1
      BY <2>1
    <3> QED BY <2>1, <2>3, <3>1 DEF ScanShape
  <2>6. q \in ScanRows /\ q.todo = u /\ q.at = "next"
    <3>1. NoScan \in ScanRows
      BY NoScanShape DEF ScanShape
    <3> QED BY <2>1, <3>1 DEF ScanRows, u
  <2> HIDE DEF q
  <2>8. ScanShape(q)
    BY <2>1, <2>4, <2>6 DEF ScanShape
  <2>9. ListOf(q) \subseteq ListOf(j) \ {Head(j.todo)}
    BY <2>3, <2>5, <2>6 DEF ListOf
  <2> QED BY <1>3, <2>6, <2>8, <2>9 DEF q
<1> QED BY <1>2, <1>3

LEMMA ScanMeans ==
  ASSUME ReportIInv, NEW w \in ScanWorkers
  PROVE  ScanHolds(scan[w]) /\ ScanShape(scan[w])
BY DEF ReportIInv, ScanHolds, ScanShape

\* A scan that moves on within its list while no next run changes.
LEMMA ScanStep ==
  ASSUME ReportIInv, NEW w \in ScanWorkers,
         scan' = [v \in ScanWorkers |-> IF v = w THEN scan'[w] ELSE scan[v]],
         ScanHolds(scan[w])', ListOf(scan'[w]) \subseteq ListOf(scan[w]),
         report' = [r \in Reports |-> report'[r]],
         \A r \in Reports : /\ RowHolds(report'[r]) /\ (report[r] # NoReport => report'[r] # NoReport)
                            /\ report'[r].next_run_at = report[r].next_run_at,
         excused \subseteq excused', UNCHANGED << executed, reportTick, repeated >>
  PROVE  ReportIInv'
<1>1. ReportsTyped'
  BY DEF ReportIInv, ReportsTyped
<1>2. ASSUME NEW v \in ScanWorkers PROVE ScanHolds(scan[v])'
  <2>1. CASE v = w
    BY <2>1
  <2>2. CASE v # w
    <3>1. scan'[v] = scan[v]
      BY <2>2
    <3>2. /\ scan[v].at # "idle" => ListOf(scan[v]) \subseteq Reports /\ Head(scan[v].todo) \in Reports
          /\ scan[v].at = "idle" => ListOf(scan[v]) = {}
      BY ScanMeans, HeadListed, NoScanShape DEF ScanShape
    <3>3. ScanHolds(scan[v])
      BY ScanMeans
    <3> QED BY <3>1, <3>2, <3>3 DEF ScanHolds
  <2> QED BY <2>1, <2>2
<1>3. ListedOnce'
  BY DEF ReportIInv, ListedOnce
<1>4. DoneBefore'
  BY DEF ReportIInv, DoneBefore
<1>5. DueTimeRunsOnce'
  BY DEF ReportIInv, DueTimeRunsOnce
<1> QED BY <1>1, <1>2, <1>3, <1>4, <1>5 DEF ReportIInv

\* A report ends, in one scan only.
LEMMA EndStep ==
  ASSUME ReportIInv, NEW w \in ScanWorkers, NEW r, r = Current(w), scan[w].at \in {"running", "fail"},
         NEW status \in {"completed", "failed"}, report' = [report EXCEPT ![r] = Ended(r, status)],
         scan' = [v \in ScanWorkers |-> IF v = w THEN scan'[w] ELSE scan[v]],
         ScanShape(scan'[w]), scan'[w].at \in {"idle", "next", "notify"},
         ListOf(scan'[w]) \subseteq ListOf(scan[w]),
         r \in ListOf(scan'[w]) => scan'[w].at = "notify" /\ r = Head(scan'[w].todo),
         \/ UNCHANGED << executed, repeated >>
         \/ /\ executed' = [executed EXCEPT ![r] = @ \cup {scan[w].due}]
            /\ repeated' = IF scan[w].due \in executed[r] THEN repeated \cup {r} ELSE repeated,
         UNCHANGED << reportTick, excused >>
  PROVE  ReportIInv'
<1>1. /\ r \in Reports /\ r \in ListOf(scan[w]) /\ report[r] # NoReport
      /\ ListOf(scan[w]) \subseteq Reports
  BY ScanMeans, HeadListed DEF Current, ScanHolds
<1> DEFINE row == Ended(r, status)
<1>2. /\ RowHolds(row) /\ row # NoReport
      /\ row.next_run_at \in Nat /\ row.next_run_at > reportTick + 1
  BY <1>1, EndedHolds
<1>3. report' = [q \in Reports |-> IF q = r THEN row ELSE report[q]]
  BY <1>1 DEF ReportIInv, ReportsTyped
<1> HIDE DEF row
<1>4. r \notin excused => /\ report[r].next_run_at <= reportTick
                          /\ scan[w].due = report[r].next_run_at
  BY <1>1, ScanMeans DEF ScanHolds, Current
<1>5. /\ \A q \in Reports \ {r} : executed'[q] = executed[q]
      /\ executed' = [q \in Reports |-> executed'[q]]
      /\ executed'[r] \subseteq executed[r] \cup {scan[w].due}
  BY <1>1 DEF ReportIInv, ReportsTyped
<1>6. /\ report[r].next_run_at \in Nat /\ reportTick \in Nat
      /\ r \notin excused => \A t \in executed[r] : t \in Int /\ t < report[r].next_run_at
  BY <1>1, SchedulesAssumption DEF ReportIInv, ReportsTyped, RowHolds, DoneBefore
<1>7. ReportsTyped'
  BY <1>2, <1>3, <1>5 DEF ReportIInv, ReportsTyped
<1>8. ScanHolds(scan[w])'
  <2>1. \A q \in ListOf(scan'[w]) : q \in Reports /\ report'[q] # NoReport
    BY <1>1, <1>2, <1>3, ScanMeans DEF ScanHolds
  <2>2. \A q \in ListOf(scan'[w]) \ excused :
          report'[q].next_run_at <= reportTick \/ (scan'[w].at = "notify" /\ q = Head(scan'[w].todo))
    <3> TAKE q \in ListOf(scan'[w]) \ excused
    <3>1. CASE q = r
      BY <3>1
    <3>2. CASE q # r
      <4>1. q \in Reports /\ q \in ListOf(scan[w]) \ excused /\ report'[q] = report[q]
        BY <1>1, <1>3, <3>2
      <4>2. q # Head(scan[w].todo)
        BY <3>2 DEF Current
      <4> QED BY <4>1, <4>2, ScanMeans DEF ScanHolds
    <3> QED BY <3>1, <3>2
  <2> QED BY <2>1, <2>2 DEF ScanHolds, ScanShape
<1>9. ASSUME NEW v \in ScanWorkers, v # w PROVE ScanHolds(scan[v])'
  <2>1. scan'[v] = scan[v] /\ ScanHolds(scan[v])
    BY <1>9, ScanMeans
  <2>2. r \in ListOf(scan[v]) => r \in excused
    BY <1>1, <1>9 DEF ReportIInv, ListedOnce
  <2>3. /\ scan[v].at # "idle" => /\ ListOf(scan[v]) \subseteq Reports
                                  /\ Head(scan[v].todo) \in ListOf(scan[v])
        /\ scan[v].at = "idle" => ListOf(scan[v]) = {}
    BY ScanMeans, HeadListed, NoScanShape DEF ScanShape
  <2>4. \A q \in ListOf(scan[v]) : report'[q] # NoReport
    BY <1>2, <1>3, <2>1, <2>3 DEF ScanHolds
  <2>5. \A q \in ListOf(scan[v]) \ excused : report'[q] = report[q]
    BY <1>3, <2>2, <2>3
  <2> QED BY <2>1, <2>3, <2>4, <2>5 DEF ScanHolds
<1>10. ListedOnce'
  BY DEF ReportIInv, ListedOnce
<1>11. DoneBefore'
  <2> SUFFICES ASSUME NEW q \in Reports
               PROVE  /\ report'[q] = NoReport => executed'[q] = {}
                      /\ q \notin excused => \A t \in executed'[q] : t \in Int /\ t < report'[q].next_run_at
    BY DEF DoneBefore
  <2>1. CASE q # r
    BY <1>3, <1>5, <2>1 DEF ReportIInv, DoneBefore
  <2>2. CASE q = r
    <3>1. report'[q] = row
      BY <1>3, <2>2
    <3>2. ASSUME r \notin excused, NEW t \in executed'[r]
          PROVE  t \in Int /\ t < row.next_run_at
      <4>1. t \in Int /\ t <= report[r].next_run_at
        BY <1>4, <1>5, <1>6, <3>2
      <4> QED BY <1>2, <1>4, <1>6, <3>2, <4>1
    <3> QED BY <1>2, <2>2, <3>1, <3>2
  <2> QED BY <2>1, <2>2
<1>12. DueTimeRunsOnce'
  <2>1. ASSUME r \notin excused PROVE scan[w].due \notin executed[r]
    BY <1>4, <1>6, <2>1
  <2>2. repeated' \subseteq repeated \cup {r} /\ (r \notin excused => repeated' = repeated)
    BY <2>1
  <2> QED BY <2>2 DEF ReportIInv, DueTimeRunsOnce
<1> QED BY <1>7, <1>8, <1>9, <1>10, <1>11, <1>12 DEF ReportIInv

\* Rows of which only the run or is_active changes.
LEMMA RowKeeps ==
  ASSUME NEW row, RowHolds(row), row # NoReport
  PROVE  /\ \A run \in {"queued", "running"} :
              LET new == [row EXCEPT !.run = run]
              IN  RowHolds(new) /\ new # NoReport /\ new.next_run_at = row.next_run_at
         /\ LET new == [row EXCEPT !.is_active = FALSE]
            IN  RowHolds(new) /\ new # NoReport /\ new.next_run_at = row.next_run_at
<1>1. /\ row \in [is_active : BOOLEAN, schedule : ReportSchedules, next_run_at : Nat, from : Nat,
                  run : {"none", "queued", "running", "completed", "failed"}]
      /\ row.next_run_at > row.from /\ IsScheduled(row.schedule, row.next_run_at)
      /\ \A t \in row.from + 1 .. row.next_run_at - 1 : ~ IsScheduled(row.schedule, t)
  BY DEF RowHolds
<1>2. ASSUME NEW new \in [is_active : BOOLEAN, schedule : ReportSchedules, next_run_at : Nat, from : Nat,
                          run : {"none", "queued", "running", "completed", "failed"}],
             new.next_run_at = row.next_run_at, new.schedule = row.schedule, new.from = row.from
      PROVE  RowHolds(new) /\ new # NoReport /\ new.next_run_at = row.next_run_at
  <2>1. new.next_run_at \in Nat /\ NoReport.next_run_at = -1
    BY DEF NoReport
  <2> QED BY <1>1, <1>2, <2>1 DEF RowHolds
<1> QED BY <1>1, <1>2

LEMMA ReportInitHolds == ReportInit => ReportIInv
<1> SUFFICES ASSUME ReportInit PROVE ReportIInv
  OBVIOUS
<1>1. 0 \in 0 .. LastReportTick
  BY SchedulesAssumption
<1>2. ReportsTyped
  BY <1>1 DEF ReportInit, ReportsTyped, RowHolds
<1>3. \A w \in ScanWorkers : scan[w] = NoScan
  BY DEF ReportInit
<1>4. ListedOnce
  BY <1>3, NoScanShape DEF ListedOnce
<1>5. DoneBefore /\ DueTimeRunsOnce
  BY DEF ReportInit, DoneBefore, DueTimeRunsOnce
<1> QED BY <1>2, <1>3, <1>4, <1>5, NoScanHolds DEF ReportIInv

\* Definitions come, are deleted, and their owners change.
LEMMA DefinitionSteps ==
  ASSUME ReportIInv, NEW r \in Reports,
         \/ \E s \in ReportSchedules : create_report(r, s)
         \/ delete_report(r) \/ ChangeOwner(r)
  PROVE  ReportIInv'
<1>1. UNCHANGED << scan, reportTick, executed, repeated, excused >>
  BY DEF create_report, delete_report, ChangeOwner
<1>2. ASSUME report' = [q \in Reports |-> report'[q]],
             \A q \in Reports : RowHolds(report'[q]),
             \A q \in Reports : report'[q].next_run_at # report[q].next_run_at => report[q] = NoReport,
             \A q \in Reports : report[q] # NoReport => report'[q] # NoReport
      PROVE  ReportIInv'
  <2>1. ReportsTyped'
    BY <1>1, <1>2 DEF ReportIInv, ReportsTyped
  <2>2. ASSUME NEW w \in ScanWorkers PROVE ScanHolds(scan[w])'
    <3>1. /\ scan[w].at # "idle" => ListOf(scan[w]) \subseteq Reports /\ Head(scan[w].todo) \in ListOf(scan[w])
          /\ scan[w].at = "idle" => ListOf(scan[w]) = {}
      BY ScanMeans, HeadListed, NoScanShape DEF ScanShape
    <3> QED BY <1>1, <1>2, <3>1, ScanMeans DEF ScanHolds
  <2>3. ListedOnce' /\ DoneBefore' /\ DueTimeRunsOnce'
    BY <1>1, <1>2 DEF ReportIInv, ListedOnce, DoneBefore, DueTimeRunsOnce
  <2> QED BY <2>1, <2>2, <2>3 DEF ReportIInv
<1>3. ASSUME NEW s \in ReportSchedules, create_report(r, s) PROVE ReportIInv'
  <2> DEFINE row == [is_active |-> TRUE, schedule |-> s,
                     next_run_at |-> _calculate_next_run_at(s, reportTick),
                     from |-> reportTick, run |-> "none"]
  <2>1. reportTick \in Nat /\ reportTick <= LastReportTick + 1
    BY SchedulesAssumption DEF ReportIInv, ReportsTyped
  <2>2. RowHolds(row) /\ row # NoReport
    BY <2>1, RowCounted
  <2>3. /\ report[r] = NoReport
        /\ report' = [report EXCEPT ![r] = [is_active |-> TRUE, schedule |-> s, from |-> reportTick,
              next_run_at |-> _calculate_next_run_at(s, reportTick), run |-> "none"]]
    BY <1>3 DEF create_report
  <2>4. report' = [q \in Reports |-> IF q = r THEN row ELSE report[q]]
    BY <2>3 DEF ReportIInv, ReportsTyped
  <2> HIDE DEF row
  <2> QED BY <1>2, <2>2, <2>3, <2>4 DEF ReportIInv, ReportsTyped
<1>4. CASE delete_report(r)
  <2>1. report[r] # NoReport /\ RowHolds(report[r])
    BY <1>4 DEF delete_report, NoReport, ReportIInv, ReportsTyped
  <2> DEFINE row == [report[r] EXCEPT !.is_active = FALSE]
  <2>2. RowHolds(row) /\ row # NoReport /\ row.next_run_at = report[r].next_run_at
    BY <2>1, RowKeeps
  <2>3. report' = [q \in Reports |-> IF q = r THEN row ELSE report[q]]
    BY <1>4 DEF delete_report, ReportIInv, ReportsTyped
  <2> HIDE DEF row
  <2> QED BY <1>2, <2>2, <2>3 DEF ReportIInv, ReportsTyped
<1>5. CASE ChangeOwner(r)
  <2>1. report' = report
    BY <1>5 DEF ChangeOwner
  <2> QED BY <1>2, <2>1 DEF ReportIInv, ReportsTyped
<1> QED BY <1>3, <1>4, <1>5

\* What a scan lists is due.
LEMMA ListStep ==
  ASSUME ReportIInv, NEW w \in ScanWorkers, ScanList(w)
  PROVE  ReportIInv'
<1> DEFINE due == list_due_scheduled_reports
<1>1. /\ scan[w] = NoScan /\ due # {}
      /\ UNCHANGED << report, executed, repeated, reportTick >>
      /\ excused' = excused \cup {r \in due : \E v \in ScanWorkers \ {w} : r \in ListOf(scan[v])}
  BY DEF ScanList, ScanRest, Listed, ListOf
<1>2. /\ due \subseteq Reports
      /\ \A r \in due : report[r] # NoReport /\ report[r].next_run_at <= reportTick
  BY DEF list_due_scheduled_reports, NoReport
<1>3. Cardinality(due) \in Nat /\ Cardinality(due) # 0
  BY <1>1, <1>2, SchedulesAssumption, FS_Subset, FS_CardinalityType, FS_EmptySet
<1>4. PICK order \in [1 .. Cardinality(due) -> due] :
        /\ \A i, j \in DOMAIN order : i < j => order[i] # order[j]
        /\ scan' = [scan EXCEPT ![w] = [NoScan EXCEPT !.todo = order, !.at = "next"]]
  BY DEF ScanList
<1> HIDE DEF due
<1> DEFINE j == [NoScan EXCEPT !.todo = order, !.at = "next"]
<1>5. order \in Seq(Reports) /\ DOMAIN order = 1 .. Cardinality(due) /\ order # << >>
  <2>1. order \in Seq(due)
    BY <1>3
  <2>2. 1 \in DOMAIN order
    BY <1>3
  <2>3. ASSUME order = << >> PROVE FALSE
    <3>1. DOMAIN << >> = {}
      OBVIOUS
    <3> QED BY <2>2, <2>3, <3>1, Zenon
  <2>4. order # << >>
    BY <2>3
  <2> QED BY <1>2, <2>1, <2>4
<1>6. j \in ScanRows /\ j.todo = order /\ j.at = "next"
  <2>1. NoScan \in ScanRows
    BY NoScanShape DEF ScanShape
  <2> QED BY <1>5, <2>1 DEF ScanRows
<1> HIDE DEF j
<1>7. scan' = [v \in ScanWorkers |-> IF v = w THEN j ELSE scan[v]]
  BY <1>4 DEF ReportIInv, ReportsTyped, j
<1>8. ListOf(j) \subseteq due
  BY <1>6 DEF ListOf
<1>9. ScanHolds(scan[w])'
  <2>1. scan'[w] = j
    BY <1>7
  <2>2. ScanShape(j)
    BY <1>4, <1>5, <1>6 DEF ScanShape
  <2>3. \A r \in ListOf(j) : report'[r] # NoReport /\ report'[r].next_run_at <= reportTick'
    BY <1>1, <1>2, <1>8
  <2> QED BY <1>6, <2>1, <2>2, <2>3 DEF ScanHolds, ScanShape
<1>10. ASSUME NEW v \in ScanWorkers, v # w PROVE ScanHolds(scan[v])'
  <2>1. scan'[v] = scan[v] /\ ScanHolds(scan[v])
    BY <1>7, <1>10, ScanMeans
  <2> QED BY <1>1, <2>1 DEF ScanHolds
<1>11. ListedOnce'
  <2> SUFFICES ASSUME NEW v \in ScanWorkers, NEW u \in ScanWorkers, v # u,
                      NEW r \in ListOf(scan'[v]) \cap ListOf(scan'[u])
               PROVE  r \in excused'
    BY DEF ListedOnce
  <2>1. CASE v = w
    BY <1>1, <1>7, <1>8, <2>1
  <2>2. CASE u = w
    BY <1>1, <1>7, <1>8, <2>2
  <2>3. CASE v # w /\ u # w
    BY <1>1, <1>7, <2>3 DEF ReportIInv, ListedOnce
  <2> QED BY <2>1, <2>2, <2>3
<1>12. ReportsTyped' /\ DoneBefore' /\ DueTimeRunsOnce'
  BY <1>1, <1>7 DEF ReportIInv, ReportsTyped, DoneBefore, DueTimeRunsOnce
<1> QED BY <1>9, <1>10, <1>11, <1>12 DEF ReportIInv

\* A scan moves to its next report.
LEMMA NextHolds ==
  ASSUME ReportIInv, NEW w \in ScanWorkers, scan[w].at # "idle", NextReport(w)
  PROVE  /\ scan' = [v \in ScanWorkers |-> IF v = w THEN scan'[w] ELSE scan[v]]
         /\ ScanShape(scan'[w]) /\ scan'[w].at \in {"idle", "next"}
         /\ ListOf(scan'[w]) \subseteq ListOf(scan[w]) \ {Current(w)}
<1> DEFINE p == IF Len(scan[w].todo) = 1 THEN NoScan
                ELSE [NoScan EXCEPT !.todo = Tail(scan[w].todo), !.at = "next"]
<1>1. scan' = [v \in ScanWorkers |-> IF v = w THEN p ELSE scan[v]]
  BY DEF NextReport, ReportIInv, ReportsTyped
<1>2. ScanShape(p) /\ p.at \in {"idle", "next"} /\ ListOf(p) \subseteq ListOf(scan[w]) \ {Head(scan[w].todo)}
  BY ScanMeans, NextShape
<1> HIDE DEF p
<1> QED BY <1>1, <1>2 DEF Current

\* A scan that keeps its list while it works on the first report.
LEMMA WorkStep ==
  ASSUME ReportIInv, NEW w \in ScanWorkers, scan[w].at \in {"next", "start", "running"},
         NEW j \in ScanRows, j.todo = scan[w].todo, j.at \in {"start", "running", "fail"},
         scan' = [scan EXCEPT ![w] = j],
         Current(w) \notin excused => j.due = report[Current(w)].next_run_at,
         \/ UNCHANGED report
         \/ \E run \in {"queued", "running"} : report' = [report EXCEPT ![Current(w)].run = run],
         UNCHANGED << executed, reportTick, repeated, excused >>
  PROVE  ReportIInv'
<1>1. scan' = [v \in ScanWorkers |-> IF v = w THEN j ELSE scan[v]]
  BY DEF ReportIInv, ReportsTyped
<1>2. Current(w) \in Reports /\ Current(w) \in ListOf(scan[w]) /\ ListOf(scan[w]) \subseteq Reports
  BY ScanMeans, HeadListed DEF Current
<1>3. report[Current(w)] # NoReport /\ RowHolds(report[Current(w)])
  BY <1>2, ScanMeans DEF ScanHolds, ReportIInv, ReportsTyped
<1>4. /\ report' = [r \in Reports |-> report'[r]]
      /\ \A r \in Reports : /\ RowHolds(report'[r]) /\ (report[r] # NoReport => report'[r] # NoReport)
                            /\ report'[r].next_run_at = report[r].next_run_at
  <2>1. CASE UNCHANGED report
    BY <2>1 DEF ReportIInv, ReportsTyped
  <2>2. ASSUME NEW run \in {"queued", "running"}, report' = [report EXCEPT ![Current(w)].run = run]
        PROVE  <1>4!1 /\ <1>4!2
    <3> DEFINE row == [report[Current(w)] EXCEPT !.run = run]
    <3>1. RowHolds(row) /\ row # NoReport /\ row.next_run_at = report[Current(w)].next_run_at
      BY <1>3, RowKeeps
    <3>2. report' = [r \in Reports |-> IF r = Current(w) THEN row ELSE report[r]]
      BY <2>2 DEF ReportIInv, ReportsTyped
    <3> HIDE DEF row
    <3> QED BY <3>1, <3>2 DEF ReportIInv, ReportsTyped
  <2> QED BY <2>1, <2>2
<1>5. ScanHolds(scan[w])'
  <2>1. scan'[w] = j
    BY <1>1
  <2>2. ScanHolds(scan[w]) /\ ListOf(j) = ListOf(scan[w])
    BY ScanMeans DEF ListOf
  <2> QED BY <1>2, <1>4, <2>1, <2>2 DEF ScanHolds, Current
<1>6. ListOf(scan'[w]) = ListOf(scan[w]) /\ scan' = [v \in ScanWorkers |-> IF v = w THEN scan'[w] ELSE scan[v]]
  <2>1. scan'[w] = j
    BY <1>1
  <2>2. ListOf(j) = ListOf(scan[w])
    BY DEF ListOf
  <2> QED BY <1>1, <2>1, <2>2
<1> QED BY <1>4, <1>5, <1>6, ScanStep

\* A scan drops its list.
LEMMA DropStep ==
  ASSUME ReportIInv, NEW w \in ScanWorkers, scan' = [scan EXCEPT ![w] = NoScan],
         UNCHANGED << report, executed, reportTick, repeated, excused >>
  PROVE  ReportIInv'
<1>1. scan' = [v \in ScanWorkers |-> IF v = w THEN NoScan ELSE scan[v]]
  BY DEF ReportIInv, ReportsTyped
<1>2. ScanHolds(scan[w])'
  <2>1. scan'[w] = NoScan
    BY <1>1
  <2> QED BY <2>1, NoScanShape DEF ScanHolds, ScanShape
<1> QED BY <1>1, <1>2, NoScanShape, ScanStep DEF ReportIInv, ReportsTyped

\* The failure of an attempt: another one, or the end of the run.
LEMMA AttemptShape ==
  ASSUME NEW j, ScanShape(j), j.at \in {"running", "notify"}
  PROVE  LET n == [j EXCEPT !.at = IF j.attempt < ReportAttempts THEN "start" ELSE "fail",
                            !.attempt = IF @ < ReportAttempts THEN @ + 1 ELSE @]
         IN  /\ n \in ScanRows /\ n.todo = j.todo /\ n.due = j.due
             /\ n.at \in {"start", "fail"} /\ ScanShape(n)
<1> DEFINE at == IF j.attempt < ReportAttempts THEN "start" ELSE "fail"
           attempt == IF j.attempt < ReportAttempts THEN j.attempt + 1 ELSE j.attempt
           n == [j EXCEPT !.at = at, !.attempt = attempt]
<1>1. /\ j \in [todo : Seq(Reports), at : {"idle", "next", "start", "running", "notify", "fail"},
                attempt : 1 .. ReportAttempts, due : Int]
      /\ j.todo # << >>
  BY DEF ScanShape, ScanRows
<1>2. attempt \in 1 .. ReportAttempts /\ at \in {"start", "fail"}
  BY <1>1, SchedulesAssumption
<1> HIDE DEF at, attempt
<1>3. n \in ScanRows /\ n.todo = j.todo /\ n.due = j.due /\ n.at = at
  BY <1>1, <1>2 DEF ScanRows
<1>4. n = [j EXCEPT !.at = IF j.attempt < ReportAttempts THEN "start" ELSE "fail",
                    !.attempt = IF @ < ReportAttempts THEN @ + 1 ELSE @]
  BY DEF at, attempt
<1> HIDE DEF n
<1>5. ScanShape(n)
  BY <1>1, <1>2, <1>3 DEF ScanShape
<1> QED BY <1>2, <1>3, <1>4, <1>5

LEMMA AttemptFailsIs ==
  ASSUME ReportIInv, NEW w \in ScanWorkers, scan[w].at \in {"running", "notify"}, AttemptFails(w)
  PROVE  \E n \in ScanRows : /\ scan' = [scan EXCEPT ![w] = n] /\ n.todo = scan[w].todo
                             /\ n.due = scan[w].due /\ n.at \in {"start", "fail"} /\ ScanShape(n)
<1> DEFINE j == scan[w]
           n == [j EXCEPT !.at = IF j.attempt < ReportAttempts THEN "start" ELSE "fail",
                          !.attempt = IF @ < ReportAttempts THEN @ + 1 ELSE @]
<1>1. scan' = [scan EXCEPT ![w] = n]
  BY DEF AttemptFails, ReportIInv, ReportsTyped
<1>2. n \in ScanRows /\ n.todo = j.todo /\ n.due = j.due /\ n.at \in {"start", "fail"} /\ ScanShape(n)
  BY ScanMeans, AttemptShape
<1> HIDE DEF n
<1> QED BY <1>1, <1>2

LEMMA RunSteps ==
  ASSUME ReportIInv, NEW w \in ScanWorkers,
         RunQueued(w) \/ RunStarted(w) \/ RunRaises(w)
  PROVE  ReportIInv'
<1>1. UNCHANGED << executed, reportTick, repeated, excused >>
  BY DEF RunQueued, RunStarted, RunRaises, ScanRest
<1>2. /\ scan[w] \in [todo : Seq(Reports), at : {"idle", "next", "start", "running", "notify", "fail"},
                      attempt : 1 .. ReportAttempts, due : Int]
      /\ ScanHolds(scan[w])
  BY ScanMeans DEF ScanShape, ScanRows
<1>3. CASE RunQueued(w)
  <2>1. CASE ~ ownerActive[Current(w)]
    <3>1. scan' = [scan EXCEPT ![w] = NoScan] /\ UNCHANGED report
      BY <1>3, <2>1 DEF RunQueued
    <3> QED BY <1>1, <3>1, DropStep
  <2>2. CASE ownerActive[Current(w)]
    <3> DEFINE due == report[Current(w)].next_run_at
               j == [scan[w] EXCEPT !.at = "start", !.attempt = 1, !.due = due]
    <3>1. /\ scan[w].at = "next" /\ scan' = [scan EXCEPT ![w] = j]
          /\ report' = [report EXCEPT ![Current(w)].run = "queued"]
      BY <1>3, <2>2 DEF RunQueued, ReportIInv, ReportsTyped
    <3>2. Current(w) \in Reports /\ report[Current(w)] # NoReport /\ RowHolds(report[Current(w)])
      BY <3>1, ScanMeans, HeadListed DEF Current, ScanHolds, ReportIInv, ReportsTyped
    <3>3. due \in Int
      BY <3>2 DEF RowHolds
    <3> HIDE DEF due
    <3>4. j \in ScanRows /\ j.todo = scan[w].todo /\ j.at = "start" /\ j.due = due
      <4>1. 1 \in 1 .. ReportAttempts
        BY SchedulesAssumption
      <4> QED BY <1>2, <3>3, <4>1 DEF ScanRows
    <3> HIDE DEF j
    <3> QED BY <1>1, <3>1, <3>4, WorkStep DEF due
  <2> QED BY <2>1, <2>2
<1>4. CASE RunStarted(w)
  <2> DEFINE j == [scan[w] EXCEPT !.at = "running"]
  <2>1. /\ scan[w].at = "start" /\ scan' = [scan EXCEPT ![w] = j]
        /\ report' = [report EXCEPT ![Current(w)].run = "running"]
    BY <1>4 DEF RunStarted, ReportIInv, ReportsTyped
  <2>2. j \in ScanRows /\ j.todo = scan[w].todo /\ j.at = "running" /\ j.due = scan[w].due
    BY <1>2 DEF ScanRows
  <2>3. Current(w) \notin excused => j.due = report[Current(w)].next_run_at
    BY <1>2, <2>1, <2>2 DEF ScanHolds, Current
  <2> HIDE DEF j
  <2> QED BY <1>1, <2>1, <2>2, <2>3, WorkStep
<1>5. CASE RunRaises(w)
  <2>1. scan[w].at = "running" /\ UNCHANGED report /\ AttemptFails(w)
    BY <1>5 DEF RunRaises
  <2>2. PICK n \in ScanRows : /\ scan' = [scan EXCEPT ![w] = n] /\ n.todo = scan[w].todo
                              /\ n.due = scan[w].due /\ n.at \in {"start", "fail"}
    BY <2>1, AttemptFailsIs
  <2>3. Current(w) \notin excused => n.due = report[Current(w)].next_run_at
    BY <1>2, <2>1, <2>2 DEF ScanHolds, Current
  <2> QED BY <1>1, <2>1, <2>2, <2>3, WorkStep
<1> QED BY <1>3, <1>4, <1>5

\* The run is committed; what is left is to notify.
LEMMA CompletedStep ==
  ASSUME ReportIInv, NEW w \in ScanWorkers, RunCompleted(w)
  PROVE  ReportIInv'
<1> DEFINE j == [scan[w] EXCEPT !.at = "notify"]
<1>1. /\ scan[w].at = "running" /\ scan' = [scan EXCEPT ![w] = j]
      /\ report' = [report EXCEPT ![Current(w)] = Ended(Current(w), "completed")]
      /\ executed' = [executed EXCEPT ![Current(w)] = @ \cup {scan[w].due}]
      /\ repeated' = IF scan[w].due \in executed[Current(w)] THEN repeated \cup {Current(w)} ELSE repeated
      /\ UNCHANGED << reportTick, excused >>
  BY DEF RunCompleted, ScanRest, ReportIInv, ReportsTyped
<1>2. /\ scan[w] \in [todo : Seq(Reports), at : {"idle", "next", "start", "running", "notify", "fail"},
                      attempt : 1 .. ReportAttempts, due : Int]
      /\ ScanShape(scan[w])
  BY ScanMeans DEF ScanShape, ScanRows
<1>3. j \in ScanRows /\ j.todo = scan[w].todo /\ j.at = "notify"
  BY <1>2 DEF ScanRows
<1> HIDE DEF j
<1>4. ScanShape(j) /\ ListOf(j) = ListOf(scan[w])
  BY <1>1, <1>2, <1>3 DEF ScanShape, ListOf
<1>5. scan' = [v \in ScanWorkers |-> IF v = w THEN j ELSE scan[v]] /\ scan'[w] = j
  BY <1>1 DEF ReportIInv, ReportsTyped
<1>6. scan' = [v \in ScanWorkers |-> IF v = w THEN scan'[w] ELSE scan[v]]
  BY <1>5
<1>7. Current(w) = Head(scan'[w].todo)
  BY <1>3, <1>5 DEF Current
<1> QED BY <1>1, <1>3, <1>4, <1>5, <1>6, <1>7, EndStep

LEMMA FailedStep ==
  ASSUME ReportIInv, NEW w \in ScanWorkers, _mark_scheduled_run_failed(w)
  PROVE  ReportIInv'
<1>1. /\ scan[w].at = "fail" /\ NextReport(w)
      /\ report' = [report EXCEPT ![Current(w)] = Ended(Current(w), "failed")]
      /\ UNCHANGED << executed, repeated, reportTick, excused >>
  BY DEF _mark_scheduled_run_failed, ScanRest
<1>2. /\ scan' = [v \in ScanWorkers |-> IF v = w THEN scan'[w] ELSE scan[v]]
      /\ ScanShape(scan'[w]) /\ scan'[w].at \in {"idle", "next"}
      /\ ListOf(scan'[w]) \subseteq ListOf(scan[w]) \ {Current(w)}
  BY <1>1, NextHolds
<1> QED BY <1>1, <1>2, EndStep

\* A notification that fails excuses its report; one that does not ends it.
LEMMA NotifySteps ==
  ASSUME ReportIInv, NEW w \in ScanWorkers, NotifyRaises(w) \/ RunNotified(w)
  PROVE  ReportIInv'
<1>1. /\ scan[w].at = "notify" /\ UNCHANGED << report, executed, reportTick, repeated >>
      /\ ScanHolds(scan[w])
  BY ScanMeans DEF NotifyRaises, RunNotified, ScanRest
<1>2. /\ report' = [r \in Reports |-> report'[r]]
      /\ \A r \in Reports : /\ RowHolds(report'[r]) /\ (report[r] # NoReport => report'[r] # NoReport)
                            /\ report'[r].next_run_at = report[r].next_run_at
  BY <1>1 DEF ReportIInv, ReportsTyped
<1>3. CASE NotifyRaises(w)
  <2>1. AttemptFails(w) /\ excused' = excused \cup {Current(w)}
    BY <1>3 DEF NotifyRaises
  <2>2. PICK n \in ScanRows : /\ scan' = [scan EXCEPT ![w] = n] /\ n.todo = scan[w].todo
                              /\ n.due = scan[w].due /\ n.at \in {"start", "fail"} /\ ScanShape(n)
    BY <1>1, <2>1, AttemptFailsIs
  <2>3. scan' = [v \in ScanWorkers |-> IF v = w THEN n ELSE scan[v]] /\ scan'[w] = n
    BY <2>2 DEF ReportIInv, ReportsTyped
  <2>4. scan' = [v \in ScanWorkers |-> IF v = w THEN scan'[w] ELSE scan[v]]
    BY <2>3
  <2>5. ListOf(n) = ListOf(scan[w])
    BY <2>2 DEF ListOf
  <2>6. ScanHolds(scan[w])'
    BY <1>1, <2>1, <2>2, <2>3, <2>5 DEF ScanHolds, ScanShape, Current
  <2> QED BY <1>1, <1>2, <2>1, <2>3, <2>4, <2>5, <2>6, ScanStep
<1>4. CASE RunNotified(w)
  <2>1. NextReport(w) /\ excused' = excused
    BY <1>4 DEF RunNotified
  <2>2. /\ scan' = [v \in ScanWorkers |-> IF v = w THEN scan'[w] ELSE scan[v]]
        /\ ScanShape(scan'[w]) /\ scan'[w].at \in {"idle", "next"}
        /\ ListOf(scan'[w]) \subseteq ListOf(scan[w]) \ {Current(w)}
    BY <1>1, <2>1, NextHolds
  <2>3. ScanHolds(scan[w])'
    BY <1>1, <2>1, <2>2 DEF ScanHolds, ScanShape, Current
  <2> QED BY <1>1, <1>2, <2>1, <2>2, <2>3, ScanStep
<1> QED BY <1>3, <1>4

LEMMA ReportKept == ReportIInv /\ [ReportNext]_reportVars => ReportIInv'
<1> SUFFICES ASSUME ReportIInv, [ReportNext]_reportVars PROVE ReportIInv'
  OBVIOUS
<1>1. ASSUME UNCHANGED << report, scan, executed, repeated, excused >>,
             reportTick' \in 0 .. LastReportTick, reportTick <= reportTick'
      PROVE  ReportIInv'
  <2>1. ASSUME NEW w \in ScanWorkers PROVE ScanHolds(scan[w])'
    <3>1. /\ scan[w].at # "idle" => ListOf(scan[w]) \subseteq Reports
          /\ scan[w].at = "idle" => ListOf(scan[w]) = {}
      BY ScanMeans, HeadListed, NoScanShape DEF ScanShape
    <3>2. \A r \in ListOf(scan[w]) : r \in Reports /\ report[r].next_run_at \in Nat
      <4> TAKE r \in ListOf(scan[w])
      <4>1. r \in Reports /\ report[r] # NoReport
        BY <3>1, ScanMeans DEF ScanHolds
      <4>2. RowHolds(report[r])
        BY <4>1 DEF ReportIInv, ReportsTyped
      <4> QED BY <4>1, <4>2 DEF RowHolds
    <3>3. reportTick \in Nat /\ reportTick' \in Nat
      BY <1>1, SchedulesAssumption DEF ReportIInv, ReportsTyped
    <3> QED BY <1>1, <3>2, <3>3, ScanMeans DEF ScanHolds
  <2> QED BY <1>1, <2>1 DEF ReportIInv, ReportsTyped, ListedOnce, DoneBefore, DueTimeRunsOnce
<1>2. CASE UNCHANGED reportVars
  BY <1>1, <1>2, SchedulesAssumption DEF reportVars, ReportIInv, ReportsTyped
<1>3. CASE ReportClock
  BY <1>1, <1>3, SchedulesAssumption DEF ReportClock, ReportIInv, ReportsTyped
<1>4. ASSUME NEW w \in ScanWorkers, ScanDies(w) PROVE ReportIInv'
  BY <1>4, DropStep DEF ScanDies, ScanRest
<1> QED BY <1>2, <1>3, <1>4, DefinitionSteps, ListStep, RunSteps, CompletedStep, FailedStep, NotifySteps
        DEF ReportNext

LEMMA ReportInductive == ReportSpec => []ReportIInv
BY ReportInitHolds, ReportKept, PTL DEF ReportSpec

\* Type correctness of scheduled reports (ReportTypeOK), for every set of
\* reports, schedules and workers and every calendar.
THEOREM ReportsTypeCorrect == ReportSpec => []ReportTypeOK
<1>1. ReportIInv => ReportTypeOK
  <2> SUFFICES ASSUME ReportIInv PROVE ReportTypeOK
    OBVIOUS
  <2>1. \A w \in ScanWorkers : scan[w].attempt \in 1 .. ReportAttempts
    BY ScanMeans DEF ScanShape, ScanRows
  <2>2. NoReport.run = "none"
    BY DEF NoReport
  <2> QED BY <2>1, <2>2, SchedulesAssumption DEF ReportTypeOK, ReportIInv, ReportsTyped, RowHolds
<1> QED BY <1>1, ReportInductive, PTL

\* The next run of a report is the first time of its schedule after the
\* moment it is counted from (_calculate_next_run_at), in every calendar; and a
\* due time is completed once unless two scans have the report at once or a
\* notification fails after the run (run_due_scheduled_reports).
THEOREM ReportsRunExactly == ReportSpec => []ReportRunsAreExact
<1>1. ReportIInv => ReportRunsAreExact
  BY DEF ReportIInv, ReportsTyped, RowHolds, ReportRunsAreExact, NextRunIsFirst
<1> QED BY <1>1, ReportInductive, PTL

-----------------------------------------------------------------------------
(***************************************************************************)
(* Report tables: a snapshot that no commit has spoiled was read at one    *)
(* moment.                                                                 *)
(***************************************************************************)

\* What TotalPaid adds up.
LEMMA PaidSum ==
    ASSUME NEW ps, IsFiniteSet(ps)
    PROVE  TotalPaid(ps) = SumOver([p \in ps |-> p.amount], ps)
<1> DEFINE F == [p \in ps |-> p.amount]
           It(h) == h = [s \in SUBSET ps |-> IF s = {} THEN 0
                                            ELSE (CHOOSE x \in s : TRUE).amount
                                                 + h[s \ {CHOOSE x \in s : TRUE}]]
<1>1. \A h : It(h) <=> SumsUp(h, F, ps)
  BY PickIsIn DEF SumsUp, Pick
<1>2. TotalPaid(ps) = (CHOOSE h : It(h))[ps]
  BY Zenon DEF TotalPaid, MapThenSumSet, MapThenFoldSet
<1> HIDE DEF It, F
<1>3. \E h : SumsUp(h, F, ps)
  BY SumsExist
<1>4. It(CHOOSE h : It(h)) /\ SumsUp(CHOOSE h : SumsUp(h, F, ps), F, ps)
  BY <1>1, <1>3
<1>5. SumsUp(CHOOSE h : It(h), F, ps)
  BY <1>1, <1>4
<1> QED BY <1>2, <1>4, <1>5, SumsAgree DEF SumOver, F

\* What the totals of the summaries add up.
LEMMA SpentSum ==
    ASSUME NEW f, NEW ms, IsFiniteSet(ms)
    PROVE  MapThenSumSet(LAMBDA m : f[m], ms) = SumOver(f, ms)
<1> DEFINE It(h) == h = [s \in SUBSET ms |-> IF s = {} THEN 0
                                            ELSE f[CHOOSE x \in s : TRUE]
                                                 + h[s \ {CHOOSE x \in s : TRUE}]]
<1>1. \A h : It(h) <=> SumsUp(h, f, ms)
  BY PickIsIn DEF SumsUp, Pick
<1>2. MapThenSumSet(LAMBDA m : f[m], ms) = (CHOOSE h : It(h))[ms]
  BY Zenon DEF MapThenSumSet, MapThenFoldSet
<1> HIDE DEF It
<1>3. \E h : SumsUp(h, f, ms)
  BY SumsExist
<1>4. It(CHOOSE h : It(h)) /\ SumsUp(CHOOSE h : SumsUp(h, f, ms), f, ms)
  BY <1>1, <1>3
<1>5. SumsUp(CHOOSE h : It(h), f, ms)
  BY <1>1, <1>4
<1> QED BY <1>2, <1>4, <1>5, SumsAgree DEF SumOver

LEMMA PaymentTotalSum ==
    ASSUME NEW f, NEW ks, IsFiniteSet(ks)
    PROVE  MapThenSumSet(LAMBDA k : f[k].payment_total, ks)
             = SumOver([k \in ks |-> f[k].payment_total], ks)
<1> DEFINE F == [k \in ks |-> f[k].payment_total]
           It(h) == h = [s \in SUBSET ks |-> IF s = {} THEN 0
                                            ELSE f[CHOOSE x \in s : TRUE].payment_total
                                                 + h[s \ {CHOOSE x \in s : TRUE}]]
<1>1. \A h : It(h) <=> SumsUp(h, F, ks)
  BY PickIsIn DEF SumsUp, Pick
<1>2. MapThenSumSet(LAMBDA k : f[k].payment_total, ks) = (CHOOSE h : It(h))[ks]
  BY Zenon DEF MapThenSumSet, MapThenFoldSet
<1> HIDE DEF It, F
<1>3. \E h : SumsUp(h, F, ks)
  BY SumsExist
<1>4. It(CHOOSE h : It(h)) /\ SumsUp(CHOOSE h : SumsUp(h, F, ks), F, ks)
  BY <1>1, <1>3
<1>5. SumsUp(CHOOSE h : It(h), F, ks)
  BY <1>1, <1>4
<1> QED BY <1>2, <1>4, <1>5, SumsAgree DEF SumOver, F

LEMMA PaymentCountSum ==
    ASSUME NEW f, NEW ks, IsFiniteSet(ks)
    PROVE  MapThenSumSet(LAMBDA k : f[k].payment_count, ks)
             = SumOver([k \in ks |-> f[k].payment_count], ks)
<1> DEFINE F == [k \in ks |-> f[k].payment_count]
           It(h) == h = [s \in SUBSET ks |-> IF s = {} THEN 0
                                            ELSE f[CHOOSE x \in s : TRUE].payment_count
                                                 + h[s \ {CHOOSE x \in s : TRUE}]]
<1>1. \A h : It(h) <=> SumsUp(h, F, ks)
  BY PickIsIn DEF SumsUp, Pick
<1>2. MapThenSumSet(LAMBDA k : f[k].payment_count, ks) = (CHOOSE h : It(h))[ks]
  BY Zenon DEF MapThenSumSet, MapThenFoldSet
<1> HIDE DEF It, F
<1>3. \E h : SumsUp(h, F, ks)
  BY SumsExist
<1>4. It(CHOOSE h : It(h)) /\ SumsUp(CHOOSE h : SumsUp(h, F, ks), F, ks)
  BY <1>1, <1>3
<1>5. SumsUp(CHOOSE h : It(h), F, ks)
  BY <1>1, <1>4
<1> QED BY <1>2, <1>4, <1>5, SumsAgree DEF SumOver, F

\* Payments as they come from the table: finitely many, of sub-projects that
\* exist, dated on a day payments are dated on.
PaymentsOfWorks(ps) ==
    /\ IsFiniteSet(ps)
    /\ \A p \in ps : p.sub \in Works /\ p.amount \in PayAmounts /\ p.day \in PayDays

\* spent_amount of every main project, by these payments.
SpentBy(ps) == [m \in Mains |-> TotalPaid({p \in ps : p.sub.main = m.id})]

\* What a report task has read, and what an unspoiled one still knows.
TableJobHolds(j) ==
    \/ j = NoTable
    \/ /\ j = [at |-> "main", overlapped |-> j.overlapped, closed |-> j.closed, spent |-> j.spent]
       /\ j.overlapped \in BOOLEAN
       /\ ~ j.overlapped => j.spent = SpentBy(paid)
    \/ /\ j = [at |-> "sub", overlapped |-> j.overlapped, closed |-> j.closed, spent |-> j.spent,
               subs |-> j.subs]
       /\ j.overlapped \in BOOLEAN /\ j.subs \subseteq Works
       /\ ~ j.overlapped => j.spent = SpentBy(paid) /\ j.subs = works
    \/ /\ j = [at |-> "loaded", overlapped |-> j.overlapped, closed |-> j.closed, spent |-> j.spent,
               subs |-> j.subs, payments |-> j.payments]
       /\ j.overlapped \in BOOLEAN /\ j.subs \subseteq Works /\ PaymentsOfWorks(j.payments)
       /\ ~ j.overlapped => /\ j.spent = SpentBy(j.payments)
                            /\ \A p \in j.payments : p.sub \in j.subs

TableIInv ==
    /\ closedMains \subseteq Mains /\ works \subseteq Works
    /\ PaymentsOfWorks(paid) /\ \A p \in paid : p.sub \in works
    /\ tableJob = [s \in TableJobs |-> tableJob[s]]
    /\ \A s \in TableJobs : TableJobHolds(tableJob[s])

LEMMA TableInitHolds == TableInit => TableIInv
BY FS_EmptySet DEF TableInit, TableIInv, PaymentsOfWorks, TableJobHolds

\* Every commit spoils what is being read.
LEMMA CommitSpoils ==
    ASSUME TableIInv, Committed, NEW s \in TableJobs
    PROVE  TableJobHolds(tableJob[s])'
<1> DEFINE j == tableJob[s]
           k == tableJob'[s]
<1>1. k = IF j.at \in {"main", "sub"} THEN [j EXCEPT !.overlapped = TRUE] ELSE j
  BY DEF Committed
<1>2. TableJobHolds(j)
  BY DEF TableIInv
<1> HIDE DEF j, k
<1>3. CASE j = NoTable
  BY <1>1, <1>3 DEF NoTable, TableJobHolds, k
<1>4. CASE j.at = "main" /\ j # NoTable
  <2>1. j = [at |-> "main", overlapped |-> j.overlapped, closed |-> j.closed, spent |-> j.spent]
    BY <1>2, <1>4 DEF TableJobHolds
  <2>2. k = [at |-> "main", overlapped |-> TRUE, closed |-> j.closed, spent |-> j.spent]
    BY <1>1, <1>4, <2>1
  <2> QED BY <2>2 DEF TableJobHolds, k
<1>5. CASE j.at = "sub"
  <2>1. /\ j = [at |-> "sub", overlapped |-> j.overlapped, closed |-> j.closed, spent |-> j.spent,
                subs |-> j.subs]
        /\ j.subs \subseteq Works
    BY <1>2, <1>5 DEF TableJobHolds, NoTable
  <2>2. k = [at |-> "sub", overlapped |-> TRUE, closed |-> j.closed, spent |-> j.spent,
             subs |-> j.subs]
    BY <1>1, <1>5, <2>1
  <2> QED BY <2>1, <2>2 DEF TableJobHolds, k
<1>6. CASE j.at = "loaded"
  <2>1. k = j
    BY <1>1, <1>6
  <2> QED BY <1>2, <1>6, <2>1 DEF TableJobHolds, NoTable, k
<1>7. j = NoTable \/ j.at \in {"main", "sub", "loaded"}
  BY <1>2 DEF TableJobHolds
<1> QED BY <1>3, <1>4, <1>5, <1>6, <1>7

\* A statement of one report task.
LEMMA TableStatement ==
    ASSUME TableIInv, NEW s \in TableJobs, NEW j, TableWrite(s, j), TableJobHolds(j)
    PROVE  TableIInv'
<1>1. /\ tableJob' = [t \in TableJobs |-> IF t = s THEN j ELSE tableJob[t]]
      /\ UNCHANGED << closedMains, works, paid >>
  BY DEF TableWrite, TableIInv
<1>2. \A t \in TableJobs : TableJobHolds(tableJob[t])'
  BY <1>1 DEF TableIInv, TableJobHolds
<1> QED BY <1>1, <1>2 DEF TableIInv, PaymentsOfWorks

LEMMA TableKept == TableIInv /\ [TableNext]_tableVars => TableIInv'
<1> SUFFICES ASSUME TableIInv, [TableNext]_tableVars PROVE TableIInv'
  OBVIOUS
<1>1. CASE UNCHANGED tableVars
  BY <1>1 DEF tableVars, TableIInv, TableJobHolds, PaymentsOfWorks
<1>2. ASSUME Committed, closedMains' \subseteq Mains, works' \subseteq Works,
             PaymentsOfWorks(paid)', \A p \in paid' : p.sub \in works'
      PROVE  TableIInv'
  BY <1>2, CommitSpoils DEF TableIInv, Committed
<1>3. ASSUME NEW w \in Works, WorkCreated(w) PROVE TableIInv'
  BY <1>2, <1>3 DEF WorkCreated, TableIInv, PaymentsOfWorks
<1>4. ASSUME NEW w \in Works, NEW a \in PayAmounts, NEW d \in PayDays, PaymentCreated(w, a, d)
      PROVE  TableIInv'
  <2> DEFINE p == [no |-> Cardinality(paid) + 1, sub |-> w, amount |-> a, day |-> d]
  <2>1. /\ paid' = paid \cup {p} /\ w \in works
        /\ Committed /\ UNCHANGED << closedMains, works >>
    BY <1>4 DEF PaymentCreated
  <2>2. IsFiniteSet(paid) /\ p.sub = w /\ p.amount = a /\ p.day = d
    BY DEF TableIInv, PaymentsOfWorks
  <2> HIDE DEF p
  <2>3. IsFiniteSet(paid')
    BY <2>1, <2>2, FS_AddElement
  <2>4. \A q \in paid' : /\ q.sub \in Works /\ q.amount \in PayAmounts /\ q.day \in PayDays
                         /\ q.sub \in works'
    BY <2>1, <2>2 DEF TableIInv, PaymentsOfWorks
  <2> QED BY <1>2, <2>1, <2>3, <2>4 DEF TableIInv, PaymentsOfWorks
<1>5. ASSUME NEW m \in Mains, MainClosed(m) PROVE TableIInv'
  BY <1>2, <1>5 DEF MainClosed, TableIInv, PaymentsOfWorks
<1>6. ASSUME NEW s \in TableJobs, LoadMainProjects(s) PROVE TableIInv'
  <2> DEFINE j == [at |-> "main", overlapped |-> FALSE, closed |-> closedMains,
                   spent |-> [m \in Mains |-> SpentOn(m)]]
  <2>1. TableJobHolds(j)
    BY DEF TableJobHolds, SpentBy, SpentOn
  <2>2. TableWrite(s, j)
    BY <1>6 DEF LoadMainProjects
  <2> QED BY <2>1, <2>2, TableStatement
<1>7. ASSUME NEW s \in TableJobs, LoadSubProjects(s) PROVE TableIInv'
  <2> DEFINE i == tableJob[s]
             j == [at |-> "sub", overlapped |-> i.overlapped, closed |-> i.closed,
                   spent |-> i.spent, subs |-> works]
  <2>1. TableWrite(s, j) /\ i.at = "main"
    BY <1>7 DEF LoadSubProjects
  <2>2. i.overlapped \in BOOLEAN /\ (~ i.overlapped => i.spent = SpentBy(paid)) /\ works \subseteq Works
    BY <2>1 DEF TableIInv, TableJobHolds, NoTable
  <2> HIDE DEF i
  <2>3. TableJobHolds(j)
    BY <2>2 DEF TableJobHolds
  <2> QED BY <2>1, <2>3, TableStatement
<1>8. ASSUME NEW s \in TableJobs, LoadPayments(s) PROVE TableIInv'
  <2> DEFINE i == tableJob[s]
             j == [at |-> "loaded", overlapped |-> i.overlapped, closed |-> i.closed,
                   spent |-> i.spent, subs |-> i.subs, payments |-> paid]
  <2>1. TableWrite(s, j) /\ i.at = "sub"
    BY <1>8 DEF LoadPayments
  <2>2. /\ i.overlapped \in BOOLEAN /\ i.subs \subseteq Works
        /\ ~ i.overlapped => i.spent = SpentBy(paid) /\ i.subs = works
        /\ PaymentsOfWorks(paid) /\ \A p \in paid : p.sub \in works
    BY <2>1 DEF TableIInv, TableJobHolds, NoTable
  <2> HIDE DEF i
  <2>3. TableJobHolds(j)
    BY <2>2 DEF TableJobHolds
  <2> QED BY <2>1, <2>3, TableStatement
<1>9. ASSUME NEW s \in TableJobs, ReportWritten(s) PROVE TableIInv'
  BY <1>9, TableStatement DEF ReportWritten, TableJobHolds
<1> QED BY <1>1, <1>3, <1>4, <1>5, <1>6, <1>7, <1>8, <1>9 DEF TableNext

LEMMA TableInductive == TableSpec => []TableIInv
BY TableInitHolds, TableKept, PTL DEF TableSpec

\* Type correctness of report tables (TableTypeOK), for every set of projects,
\* days, amounts and report tasks.
THEOREM TablesTypeCorrect == TableSpec => []TableTypeOK
<1>1. TableIInv => TableTypeOK
  BY DEF TableIInv, TableTypeOK, TableJobHolds, NoTable, PaymentsOfWorks
<1> QED BY <1>1, TableInductive, PTL

\* What payments add up to, counted key by key.
LEMMA TotalByKey ==
    ASSUME NEW ps, PaymentsOfWorks(ps), NEW key, NEW K, IsFiniteSet(K), \A p \in ps : key[p] \in K,
           NEW G, \A k \in K : G[k] = TotalPaid(Fiber(key, ps, k))
    PROVE  SumOver(G, K) = TotalPaid(ps)
<1> DEFINE F == [p \in ps |-> p.amount]
<1>1. IsFiniteSet(ps) /\ \A p \in ps : F[p] \in Int
  BY TablesAssumption DEF PaymentsOfWorks
<1>2. ASSUME NEW part \in SUBSET ps PROVE TotalPaid(part) = SumOver(F, part)
  <2> DEFINE f == [p \in part |-> p.amount]
  <2>1. IsFiniteSet(part) /\ \A p \in part : f[p] = F[p]
    BY <1>1, FS_Subset
  <2>2. TotalPaid(part) = SumOver(f, part)
    BY <2>1, PaidSum
  <2> HIDE DEF f, F
  <2> QED BY <2>1, <2>2, SumOverSame
<1> HIDE DEF F
<1>3. \A k \in K : Fiber(key, ps, k) \in SUBSET ps
  BY DEF Fiber
<1>4. \A k \in K : G[k] = SumOver(F, Fiber(key, ps, k))
  BY <1>2, <1>3
<1> QED BY <1>1, <1>2, <1>4, SumOfFibers

\* The journals of two parts that share no payment.
LEMMA TotalOfParts ==
    ASSUME NEW ps, PaymentsOfWorks(ps), NEW a, NEW b, ps = a \cup b, a \cap b = {}
    PROVE  TotalPaid(a) + TotalPaid(b) = TotalPaid(ps)
<1> DEFINE F == [p \in ps |-> p.amount]
<1>1. IsFiniteSet(ps) /\ \A p \in ps : F[p] \in Int
  BY TablesAssumption DEF PaymentsOfWorks
<1>2. ASSUME NEW part \in SUBSET ps PROVE TotalPaid(part) = SumOver(F, part)
  <2> DEFINE f == [p \in part |-> p.amount]
  <2>1. IsFiniteSet(part) /\ \A p \in part : f[p] = F[p]
    BY <1>1, FS_Subset
  <2>2. TotalPaid(part) = SumOver(f, part)
    BY <2>1, PaidSum
  <2> HIDE DEF f, F
  <2> QED BY <2>1, <2>2, SumOverSame
<1> HIDE DEF F
<1>3. IsFiniteSet(a) /\ IsFiniteSet(b) /\ a \in SUBSET ps /\ b \in SUBSET ps
  BY <1>1, FS_Subset
<1>4. SumOver(F, a \cup b) = SumOver(F, a) + SumOver(F, b)
  BY <1>1, <1>3, SumOverDisjoint
<1>5. SumOver(F, ps) = SumOver(F, a) + SumOver(F, b)
  BY <1>4, Zenon
<1> QED BY <1>2, <1>3, <1>5

\* Every payment is in one month of the monthly summary.
LEMMA MonthsAddUp ==
    ASSUME NEW sn, PaymentsOfWorks(sn.payments)
    PROVE  LET months == monthly_summary(sn)
           IN  /\ MapThenSumSet(LAMBDA k : months[k].payment_total, DOMAIN months)
                    = TotalPaid(sn.payments)
               /\ MapThenSumSet(LAMBDA k : months[k].payment_count, DOMAIN months)
                    = Cardinality(sn.payments)
<1> DEFINE months == monthly_summary(sn)
           ps == sn.payments
           key == [p \in ps |-> Month(p.day)]
           K == month_keys(sn)
<1>1. IsFiniteSet(K) /\ \A p \in ps : key[p] \in K
  <2> DEFINE ofMain == [m \in Mains |-> m.month]
             first == {ofMain[m] : m \in Mains}
             later == {key[p] : p \in ps}
  <2>1. IsFiniteSet(first) /\ IsFiniteSet(later)
    <3> HIDE DEF ofMain, key, ps
    <3> QED BY FiniteImage, TablesAssumption DEF PaymentsOfWorks, ps
  <2>2. first = {m.month : m \in Mains} /\ later = {Month(p.day) : p \in ps}
    OBVIOUS
  <2>3. K = first \cup later
    BY <2>2 DEF month_keys
  <2>4. \A p \in ps : key[p] \in later
    OBVIOUS
  <2> HIDE DEF first, later, K
  <2> QED BY <2>1, <2>3, <2>4, FS_Union
<1>2. DOMAIN months = K
  BY DEF monthly_summary
<1>3. ASSUME NEW k \in K
      PROVE  /\ Fiber(key, ps, k) = {p \in ps : Month(p.day) = k}
             /\ months[k].payment_total = TotalPaid(Fiber(key, ps, k))
             /\ months[k].payment_count = Cardinality(Fiber(key, ps, k))
  <2>1. Fiber(key, ps, k) = {p \in ps : Month(p.day) = k}
    BY DEF Fiber
  <2>2. /\ months[k].payment_total = TotalPaid({p \in ps : Month(p.day) = k})
        /\ months[k].payment_count = Cardinality({p \in ps : Month(p.day) = k})
    BY DEF monthly_summary
  <2> QED BY <2>1, <2>2
<1> HIDE DEF months, key, K, ps
<1> DEFINE G == [k \in K |-> months[k].payment_total]
           N == [k \in K |-> months[k].payment_count]
           one == [p \in ps |-> 1]
<1>4. SumOver(G, K) = TotalPaid(ps)
  <2>1. \A k \in K : G[k] = TotalPaid(Fiber(key, ps, k))
    BY <1>3
  <2> HIDE DEF G
  <2> QED BY <1>1, <2>1, TotalByKey DEF ps
<1>5. SumOver(N, K) = Cardinality(ps)
  <2>1. IsFiniteSet(ps) /\ \A p \in ps : one[p] \in Int /\ one[p] = 1
    BY DEF PaymentsOfWorks, ps
  <2> HIDE DEF one
  <2>2. ASSUME NEW k \in K PROVE N[k] = SumOver(one, Fiber(key, ps, k))
    <3>1. Fiber(key, ps, k) \in SUBSET ps
      BY DEF Fiber
    <3>2. SumOver(one, Fiber(key, ps, k)) = Cardinality(Fiber(key, ps, k))
      BY <2>1, <3>1, FS_Subset, SumOverOnes
    <3> QED BY <1>3, <3>2
  <2>3. SumOver(one, ps) = Cardinality(ps)
    BY <2>1, SumOverOnes
  <2> HIDE DEF N
  <2>4. SumOver(N, K) = SumOver(one, ps)
    BY <1>1, <2>1, <2>2, SumOfFibers
  <2> QED BY <2>3, <2>4
<1>6. MapThenSumSet(LAMBDA k : months[k].payment_total, K) = SumOver(G, K)
  BY <1>1, PaymentTotalSum
<1>7. MapThenSumSet(LAMBDA k : months[k].payment_count, K) = SumOver(N, K)
  BY <1>1, PaymentCountSum
<1> HIDE DEF G, N
<1>8. /\ MapThenSumSet(LAMBDA k : months[k].payment_total, K) = TotalPaid(ps)
      /\ MapThenSumSet(LAMBDA k : months[k].payment_count, K) = Cardinality(ps)
  BY <1>4, <1>5, <1>6, <1>7
<1>9. /\ MapThenSumSet(LAMBDA k : months[k].payment_total, DOMAIN months) = TotalPaid(ps)
      /\ MapThenSumSet(LAMBDA k : months[k].payment_count, DOMAIN months) = Cardinality(ps)
  BY <1>2, <1>8
<1> QED BY <1>9 DEF months, ps

\* Every sub-project of a snapshot is listed once, with its main project.
LEMMA ListedOnceInProjects ==
    ASSUME NEW sn, sn.subs \subseteq Works, NEW w \in sn.subs
    PROVE  Cardinality({r \in project_list(sn, AnyDept) : r.sub = w}) = 1
<1> DEFINE RowsOf(m) == LET subs == {v \in sn.subs : v.main = m.id}
                      IN  {[main |-> m, spent |-> sn.spent[m], sub |-> v] :
                             v \in IF subs = {} THEN {NoWork} ELSE subs}
           listed == {r \in project_list(sn, AnyDept) : r.sub = w}
<1>1. PICK m \in Mains : m.id = w.main
  BY TablesAssumption
<1> DEFINE row == [main |-> m, spent |-> sn.spent[m], sub |-> w]
<1>2. project_list(sn, AnyDept) = UNION {RowsOf(n) : n \in Mains}
  <2>1. {n \in Mains : MatchesProject(n, AnyDept)} = Mains
    BY DEF MatchesProject
  <2> QED BY <2>1 DEF project_list
<1>3. row \in listed
  <2>1. w \in {v \in sn.subs : v.main = m.id}
    BY <1>1
  <2>2. row \in RowsOf(m)
    BY <2>1
  <2>3. row.sub = w
    OBVIOUS
  <2> HIDE DEF row, RowsOf
  <2> QED BY <1>2, <2>2, <2>3
<1>4. ASSUME NEW r \in listed PROVE r = row
  <2>1. PICK n \in Mains : r \in RowsOf(n)
    BY <1>2
  <2> DEFINE subs == {v \in sn.subs : v.main = n.id}
  <2>2. PICK v \in IF subs = {} THEN {NoWork} ELSE subs :
           r = [main |-> n, spent |-> sn.spent[n], sub |-> v]
    BY <2>1
  <2>3. v = w
    BY <2>2
  <2>4. v # NoWork
    BY <2>3, TablesAssumption
  <2>5. w.main = n.id
    BY <2>2, <2>3, <2>4
  <2>6. n = m
    BY <1>1, <2>5, TablesAssumption
  <2> QED BY <2>2, <2>3, <2>6
<1>5. listed = {row}
  <2> HIDE DEF listed, row
  <2> QED BY <1>3, <1>4
<1> HIDE DEF row
<1> QED BY <1>5, FS_Singleton

\* The journals up to a day and after it have all the payments.
LEMMA JournalsSplit ==
    ASSUME NEW sn, PaymentsOfWorks(sn.payments), \A p \in sn.payments : p.sub \in sn.subs,
           NEW d \in PayDays
    PROVE  TotalPaid(payment_journal(sn, AnyDept, 1, d))
             + TotalPaid(payment_journal(sn, AnyDept, d + 1, Max(PayDays)))
             = TotalPaid(sn.payments)
<1> DEFINE ps == sn.payments
           last == Max(PayDays)
           a == payment_journal(sn, AnyDept, 1, d)
           b == payment_journal(sn, AnyDept, d + 1, last)
<1>1. /\ \A x \in PayDays : x \in Nat /\ 1 <= x /\ x <= last
      /\ last \in PayDays
  <2>1. PayDays \in SUBSET Int /\ \A x \in PayDays : x \in Nat /\ 1 <= x
    BY TablesAssumption
  <2> QED BY <2>1, MaxOfFinite, TablesAssumption
<1>2. ASSUME NEW p \in ps
      PROVE  /\ p \in a <=> p.day <= d
             /\ p \in b <=> d + 1 <= p.day
  <2>1. p.sub \in sn.subs /\ p.day \in PayDays /\ \E m \in Mains : m.id = p.sub.main
    BY TablesAssumption DEF PaymentsOfWorks
  <2>2. \A m : MatchesProject(m, AnyDept)
    BY DEF MatchesProject
  <2>3. 1 <= p.day /\ p.day <= last
    BY <1>1, <2>1
  <2> QED BY <2>1, <2>2, <2>3 DEF payment_journal, MatchesDate
<1>3. a \subseteq ps /\ b \subseteq ps
  BY DEF payment_journal
<1>4. \A p \in ps : p.day \in Nat /\ d \in Nat
  BY <1>1 DEF PaymentsOfWorks
<1> HIDE DEF a, b, last
<1>5. \A p \in ps : (p \in a) <=> ~ (p \in b)
  BY <1>2, <1>4
<1>6. ps = a \cup b /\ a \cap b = {}
  BY <1>3, <1>5
<1>7. TotalPaid(a) + TotalPaid(b) = TotalPaid(ps)
  BY <1>6, TotalOfParts
<1> QED BY <1>7 DEF a, b, last

\* The journal of a department adds up to what its projects have spent.
LEMMA DepartmentsAgree ==
    ASSUME NEW sn, PaymentsOfWorks(sn.payments), \A p \in sn.payments : p.sub \in sn.subs,
           sn.spent = SpentBy(sn.payments), NEW d \in Depts
    PROVE  TotalPaid(payment_journal(sn, d, 1, Max(PayDays))) = dept_summary(sn)[d].spent_amount
<1> DEFINE ps == sn.payments
           last == Max(PayDays)
           journal == payment_journal(sn, d, 1, last)
           projects == {m \in Mains : m.dept = d}
           MainOf(p) == CHOOSE m \in Mains : m.id = p.sub.main
           key == [p \in journal |-> MainOf(p)]
<1>1. \A x \in PayDays : x \in Nat /\ 1 <= x /\ x <= last
  <2>1. PayDays \in SUBSET Int /\ \A x \in PayDays : x \in Nat /\ 1 <= x
    BY TablesAssumption
  <2> QED BY <2>1, MaxOfFinite, TablesAssumption
<1>2. d # AnyDept
  BY TablesAssumption DEF Depts
<1>3. ASSUME NEW p \in ps, NEW m \in Mains, m.id = p.sub.main
      PROVE  p \in journal <=> m \in projects
  <2>1. p.sub \in sn.subs /\ p.day \in PayDays
    BY DEF PaymentsOfWorks
  <2>2. 1 <= p.day /\ p.day <= last
    BY <1>1, <2>1
  <2>3. \A n \in Mains : n.id = p.sub.main => n = m
    BY <1>3, TablesAssumption
  <2>4. MatchesProject(m, d) <=> m.dept = d
    BY <1>2 DEF MatchesProject
  <2> HIDE DEF last
  <2> QED BY <1>3, <2>1, <2>2, <2>3, <2>4 DEF payment_journal, MatchesDate
<1>4. \A p \in ps : MainOf(p) \in Mains /\ MainOf(p).id = p.sub.main
  BY TablesAssumption DEF PaymentsOfWorks
<1>5. journal \subseteq ps
  BY DEF payment_journal
<1>6. IsFiniteSet(projects) /\ PaymentsOfWorks(journal)
  BY <1>5, FS_Subset, TablesAssumption DEF PaymentsOfWorks
<1> HIDE DEF journal, last
<1>7. \A p \in journal : key[p] \in projects
  BY <1>3, <1>4, <1>5
<1>8. ASSUME NEW m \in projects PROVE sn.spent[m] = TotalPaid(Fiber(key, journal, m))
  <2>1. Fiber(key, journal, m) = {p \in ps : p.sub.main = m.id}
    <3>1. ASSUME NEW p \in journal, key[p] = m PROVE p \in ps /\ p.sub.main = m.id
      BY <1>4, <1>5, <3>1
    <3>2. ASSUME NEW p \in ps, p.sub.main = m.id PROVE p \in journal /\ key[p] = m
      <4>1. p \in journal
        BY <1>3, <3>2
      <4>2. MainOf(p) = m
        BY <1>4, <3>2, TablesAssumption
      <4> QED BY <4>1, <4>2
    <3> HIDE DEF key
    <3> QED BY <3>1, <3>2 DEF Fiber
  <2>2. sn.spent[m] = TotalPaid({p \in ps : p.sub.main = m.id})
    BY DEF SpentBy
  <2> QED BY <2>1, <2>2
<1>9. SumOver(sn.spent, projects) = TotalPaid(journal)
  <2> HIDE DEF key, projects
  <2> QED BY <1>6, <1>7, <1>8, TotalByKey
<1>10. MapThenSumSet(LAMBDA m : sn.spent[m], projects) = SumOver(sn.spent, projects)
  <2> DEFINE f == sn.spent
  <2> HIDE DEF f, projects
  <2>1. MapThenSumSet(LAMBDA m : f[m], projects) = SumOver(f, projects)
    BY <1>6, SpentSum
  <2> QED BY <2>1 DEF f
<1>11. dept_summary(sn)[d].spent_amount = MapThenSumSet(LAMBDA m : sn.spent[m], projects)
  BY DEF dept_summary
<1> QED BY <1>9, <1>10, <1>11 DEF journal, last

\* The tables of a snapshot that no commit has spoiled agree, and every
\* snapshot counts each payment in one month and lists each sub-project once
\* (load_snapshot, _build_table).
THEOREM TablesOfASnapshotAgree == TableSpec => []TablesAgree
<1>1. TableIInv => TablesAgree
  <2> SUFFICES ASSUME TableIInv, NEW s \in TableJobs, tableJob[s].at = "loaded"
               PROVE  LET sn == tableJob[s]
                          whole == TotalPaid(sn.payments)
                          months == monthly_summary(sn)
                          summary == dept_summary(sn)
                      IN  /\ MapThenSumSet(LAMBDA k : months[k].payment_total, DOMAIN months) = whole
                          /\ MapThenSumSet(LAMBDA k : months[k].payment_count, DOMAIN months)
                                = Cardinality(sn.payments)
                          /\ \A w \in sn.subs :
                               Cardinality({r \in project_list(sn, AnyDept) : r.sub = w}) = 1
                          /\ ~ sn.overlapped =>
                               /\ \A d \in PayDays :
                                    TotalPaid(payment_journal(sn, AnyDept, 1, d))
                                      + TotalPaid(payment_journal(sn, AnyDept, d + 1, Max(PayDays)))
                                      = whole
                               /\ \A d \in Depts :
                                    TotalPaid(payment_journal(sn, d, 1, Max(PayDays)))
                                      = summary[d].spent_amount
    BY Zenon DEF TablesAgree
  <2> DEFINE sn == tableJob[s]
  <2>1. /\ sn.subs \subseteq Works /\ PaymentsOfWorks(sn.payments)
        /\ ~ sn.overlapped => /\ sn.spent = SpentBy(sn.payments)
                              /\ \A p \in sn.payments : p.sub \in sn.subs
    BY DEF TableIInv, TableJobHolds, NoTable
  <2> HIDE DEF sn
  <2>2. LET months == monthly_summary(sn)
        IN  /\ MapThenSumSet(LAMBDA k : months[k].payment_total, DOMAIN months)
                 = TotalPaid(sn.payments)
            /\ MapThenSumSet(LAMBDA k : months[k].payment_count, DOMAIN months)
                 = Cardinality(sn.payments)
    BY <2>1, MonthsAddUp
  <2>3. \A w \in sn.subs : Cardinality({r \in project_list(sn, AnyDept) : r.sub = w}) = 1
    BY <2>1, ListedOnceInProjects
  <2>4. ASSUME ~ sn.overlapped
        PROVE  /\ \A d \in PayDays : TotalPaid(payment_journal(sn, AnyDept, 1, d))
                     + TotalPaid(payment_journal(sn, AnyDept, d + 1, Max(PayDays)))
                     = TotalPaid(sn.payments)
               /\ \A d \in Depts : TotalPaid(payment_journal(sn, d, 1, Max(PayDays)))
                     = dept_summary(sn)[d].spent_amount
    BY <2>1, <2>4, JournalsSplit, DepartmentsAgree
  <2> QED BY <2>2, <2>3, <2>4 DEF sn
<1> QED BY <1>1, TableInductive, PTL

-----------------------------------------------------------------------------
(***************************************************************************)
(* Report queries: what a query groups it has selected, each row once.     *)
(***************************************************************************)

QueryIInv ==
    /\ typeOf \in [{m.id : m \in AskedMains} -> ProjectTypes \cup {Null}]
    /\ IsFiniteSet(payments) /\ Cardinality(payments) <= MaxPaid
    /\ \A p \in payments : p.sub \in SubIds /\ p.amount \in Int

LEMMA QueryInitHolds == QueryInit => QueryIInv
BY FS_EmptySet, QueriesAssumption DEF QueryInit, QueryIInv

LEMMA QueryKept == QueryIInv /\ [QueryNext]_queryVars => QueryIInv'
<1> SUFFICES ASSUME QueryIInv, [QueryNext]_queryVars PROVE QueryIInv'
  OBVIOUS
<1>1. CASE UNCHANGED << typeOf, payments >>
  BY <1>1 DEF QueryIInv
<1>2. ASSUME NEW w \in AskedSubs, NEW a \in PaidAmounts, Pay(w, a) PROVE QueryIInv'
  <2> DEFINE p == [no |-> Cardinality(payments), sub |-> w.id, amount |-> a]
  <2>1. /\ payments' = payments \cup {p} /\ typeOf' = typeOf
        /\ Cardinality(payments) < MaxPaid
    BY <1>2 DEF Pay
  <2>2. p.sub \in SubIds /\ p.amount \in Int
    BY QueriesAssumption DEF SubIds
  <2> HIDE DEF p
  <2>3. /\ IsFiniteSet(payments') /\ Cardinality(payments) \in Nat
        /\ Cardinality(payments') \in {Cardinality(payments), Cardinality(payments) + 1}
    BY <2>1, FS_AddElement, FS_CardinalityType DEF QueryIInv
  <2>4. Cardinality(payments') <= MaxPaid
    BY <2>1, <2>3, QueriesAssumption DEF QueryIInv
  <2> QED BY <2>1, <2>2, <2>3, <2>4 DEF QueryIInv
<1> QED BY <1>1, <1>2 DEF QueryNext, OwnerChanges, CrewChanges, queryVars

LEMMA QueryInductive == QuerySpec => []QueryIInv
BY QueryInitHolds, QueryKept, PTL DEF QuerySpec

\* Type correctness of report queries (QueryTypeOK), for every set of projects,
\* sub-projects, users and amounts.
THEOREM QueriesTypeCorrect == QuerySpec => []QueryTypeOK
<1>1. QueryIInv => QueryTypeOK
  BY DEF QueryIInv, QueryTypeOK
<1> QED BY <1>1, QueryInductive, PTL

\* What sum adds up.
LEMMA AmountsSum ==
    ASSUME NEW chosen, IsFiniteSet(chosen)
    PROVE  MapThenSumSet(LAMBDA r : r.amount, chosen) = SumOver([r \in chosen |-> r.amount], chosen)
<1> DEFINE F == [r \in chosen |-> r.amount]
           It(h) == h = [s \in SUBSET chosen |-> IF s = {} THEN 0
                                              ELSE (CHOOSE x \in s : TRUE).amount
                                                   + h[s \ {CHOOSE x \in s : TRUE}]]
<1>1. \A h : It(h) <=> SumsUp(h, F, chosen)
  BY PickIsIn DEF SumsUp, Pick
<1>2. MapThenSumSet(LAMBDA r : r.amount, chosen) = (CHOOSE h : It(h))[chosen]
  BY Zenon DEF MapThenSumSet, MapThenFoldSet
<1> HIDE DEF It, F
<1>3. \E h : SumsUp(h, F, chosen)
  BY SumsExist
<1>4. It(CHOOSE h : It(h)) /\ SumsUp(CHOOSE h : SumsUp(h, F, chosen), F, chosen)
  BY <1>1, <1>3
<1>5. SumsUp(CHOOSE h : It(h), F, chosen)
  BY <1>1, <1>4
<1> QED BY <1>2, <1>4, <1>5, SumsAgree DEF SumOver, F

\* What a report adds up over its groups.
LEMMA ValuesSum ==
    ASSUME NEW groups, IsFiniteSet(groups)
    PROVE  MapThenSumSet(LAMBDA g : g.value, groups) = SumOver([g \in groups |-> g.value], groups)
<1> DEFINE F == [g \in groups |-> g.value]
           It(h) == h = [s \in SUBSET groups |-> IF s = {} THEN 0
                                                ELSE (CHOOSE x \in s : TRUE).value
                                                     + h[s \ {CHOOSE x \in s : TRUE}]]
<1>1. \A h : It(h) <=> SumsUp(h, F, groups)
  BY PickIsIn DEF SumsUp, Pick
<1>2. MapThenSumSet(LAMBDA g : g.value, groups) = (CHOOSE h : It(h))[groups]
  BY Zenon DEF MapThenSumSet, MapThenFoldSet
<1> HIDE DEF It, F
<1>3. \E h : SumsUp(h, F, groups)
  BY SumsExist
<1>4. It(CHOOSE h : It(h)) /\ SumsUp(CHOOSE h : SumsUp(h, F, groups), F, groups)
  BY <1>1, <1>3
<1>5. SumsUp(CHOOSE h : It(h), F, groups)
  BY <1>1, <1>4
<1> QED BY <1>2, <1>4, <1>5, SumsAgree DEF SumOver, F

\* There are finitely many rows, with integer amounts.
LEMMA RowsAreFinite ==
    ASSUME QueryIInv, NEW dataset \in {"project_overview", "payment_execution"}, NEW u, NEW filters
    PROVE  /\ IsFiniteSet(Selected(dataset, u, filters))
           /\ \A r \in Selected(dataset, u, filters) : r.amount \in Int
<1>1. IsFiniteSet(Rows(dataset)) /\ \A r \in Rows(dataset) : r.amount \in Int
  <2>1. CASE dataset = "project_overview"
    <3> DEFINE f == [m \in AskedMains |->
                      [id |-> m.id, main |-> m.id, dept_id |-> m.dept, amount |-> m.total_budget,
                       project_type_id |-> typeOf[m.id]]]
    <3>1. Rows(dataset) = {f[m] : m \in AskedMains}
      BY <2>1 DEF Rows
    <3>2. \A m \in AskedMains : f[m].amount \in Int
      BY QueriesAssumption
    <3> HIDE DEF f
    <3>3. IsFiniteSet({f[m] : m \in AskedMains})
      BY FiniteImage, QueriesAssumption
    <3> QED BY <3>1, <3>2, <3>3
  <2>2. CASE dataset = "payment_execution"
    <3> DEFINE f == [p \in payments |->
                      [id |-> p.no, main |-> SubOf(p.sub).main, sub_project_id |-> p.sub,
                       manager_id |-> ownerOf[p.sub], amount |-> p.amount]]
    <3>1. Rows(dataset) = {f[p] : p \in payments}
      BY <2>2 DEF Rows
    <3>2. \A p \in payments : f[p].amount \in Int
      BY DEF QueryIInv
    <3> HIDE DEF f
    <3>3. IsFiniteSet({f[p] : p \in payments})
      BY FiniteImage DEF QueryIInv
    <3> QED BY <3>1, <3>2, <3>3
  <2> QED BY <2>1, <2>2
<1>2. Selected(dataset, u, filters) \in SUBSET Rows(dataset)
  BY DEF Selected
<1> QED BY <1>1, <1>2, FS_Subset

\* The rows of a group.
Alike(chosen, dims, row) == {r \in chosen : \A d \in dims : r[d] = row[d]}

GroupOf(chosen, aggregate, dims, row) ==
    [key |-> [d \in dims |-> row[d]],
     value |-> _metric_expression(aggregate, Alike(chosen, dims, row))]

\* A group has the rows it was made of, and no others.
LEMMA GroupsAre ==
    ASSUME NEW dataset, NEW u, NEW aggregate, NEW dims, dims # {},
           NEW chosen, chosen = Selected(dataset, u, {}), IsFiniteSet(chosen),
           NEW group, group = [r \in chosen |-> GroupOf(chosen, aggregate, dims, r)],
           NEW groups, groups = Grouped(dataset, u, {}, aggregate, dims)
    PROVE  /\ groups = {group[r] : r \in chosen} /\ IsFiniteSet(groups)
           /\ \A g \in groups : /\ Fiber(group, chosen, g) # {}
                                /\ Fiber(group, chosen, g) \in SUBSET chosen
                                /\ g.value = _metric_expression(aggregate, Fiber(group, chosen, g))
<1>1. groups = {GroupOf(chosen, aggregate, dims, r) : r \in chosen}
  <2>1. Grouped(dataset, u, {}, aggregate, dims)
          = {[key |-> [d \in dims |-> row[d]],
              value |-> _metric_expression(aggregate,
                          {r \in Selected(dataset, u, {}) : \A d \in dims : r[d] = row[d]})] :
               row \in Selected(dataset, u, {})}
    BY DEF Grouped
  <2> QED BY <2>1, ZenonT(60) DEF GroupOf, Alike
<1>2. groups = {group[r] : r \in chosen}
  BY <1>1
<1>3. ASSUME NEW r \in chosen
      PROVE  Fiber(group, chosen, group[r]) = Alike(chosen, dims, r)
  <2>1. ASSUME NEW x \in chosen, \A d \in dims : x[d] = r[d] PROVE group[x] = group[r]
    <3>1. [d \in dims |-> x[d]] = [d \in dims |-> r[d]]
      BY <2>1
    <3>2. Alike(chosen, dims, x) = Alike(chosen, dims, r)
      BY <2>1 DEF Alike
    <3> QED BY <3>1, <3>2 DEF GroupOf
  <2>2. ASSUME NEW x \in chosen, group[x] = group[r], NEW d \in dims PROVE x[d] = r[d]
    <3>1. [e \in dims |-> x[e]] = [e \in dims |-> r[e]]
      BY <2>2 DEF GroupOf
    <3>2. [e \in dims |-> x[e]][d] = [e \in dims |-> r[e]][d]
      BY <3>1
    <3> QED BY <3>2
  <2> QED BY <2>1, <2>2 DEF Fiber, Alike
<1>4. \A r \in chosen : /\ r \in Alike(chosen, dims, r)
                      /\ group[r].value = _metric_expression(aggregate, Alike(chosen, dims, r))
  BY DEF Alike, GroupOf
<1>5. IsFiniteSet({group[r] : r \in chosen})
  BY FiniteImage
<1>6. ASSUME NEW g \in groups
      PROVE  /\ Fiber(group, chosen, g) # {}
             /\ Fiber(group, chosen, g) \in SUBSET chosen
             /\ g.value = _metric_expression(aggregate, Fiber(group, chosen, g))
  <2>1. PICK r \in chosen : g = group[r]
    BY <1>2
  <2> QED BY <1>3, <1>4, <2>1 DEF Fiber
<1> QED BY <1>2, <1>5, <1>6

\* The ungrouped figure is that of all rows.
LEMMA UngroupedIs ==
    ASSUME NEW dataset, NEW u, NEW filters, NEW aggregate
    PROVE  Ungrouped(dataset, u, filters, aggregate)
             = _metric_expression(aggregate, Selected(dataset, u, filters))
<1> DEFINE r == [key |-> << >>,
                 value |-> _metric_expression(aggregate, Selected(dataset, u, filters))]
<1>1. Grouped(dataset, u, filters, aggregate, {}) = {r}
  BY DEF Grouped
<1>2. (CHOOSE x \in {r} : TRUE) = r
  <2> HIDE DEF r
  <2> QED OBVIOUS
<1>3. r.value = _metric_expression(aggregate, Selected(dataset, u, filters))
  OBVIOUS
<1> HIDE DEF r
<1> QED BY <1>1, <1>2, <1>3 DEF Ungrouped

\* Counts and sums add up over the groups.
LEMMA GroupsAddUp ==
    ASSUME QueryIInv, NEW dataset \in {"project_overview", "payment_execution"}, NEW u,
           NEW dims, dims # {}, NEW aggregate \in {"count", "sum"},
           Grouped(dataset, u, {}, aggregate, dims) # {}
    PROVE  MapThenSumSet(LAMBDA g : g.value, Grouped(dataset, u, {}, aggregate, dims))
             = Ungrouped(dataset, u, {}, aggregate)
<1> DEFINE chosen == Selected(dataset, u, {})
           group == [r \in chosen |-> GroupOf(chosen, aggregate, dims, r)]
           groups == Grouped(dataset, u, {}, aggregate, dims)
           G == [g \in groups |-> g.value]
           F == [r \in chosen |-> IF aggregate = "count" THEN 1 ELSE r.amount]
<1>1. /\ IsFiniteSet(chosen) /\ \A r \in chosen : F[r] \in Int
  <2>1. IsFiniteSet(chosen) /\ \A r \in chosen : r.amount \in Int
    BY RowsAreFinite
  <2> HIDE DEF chosen
  <2> QED BY <2>1
<1>2. /\ groups = {group[r] : r \in chosen} /\ IsFiniteSet(groups)
      /\ \A g \in groups : /\ Fiber(group, chosen, g) # {} /\ Fiber(group, chosen, g) \in SUBSET chosen
                           /\ g.value = _metric_expression(aggregate, Fiber(group, chosen, g))
  <2>1. /\ chosen = Selected(dataset, u, {})
        /\ group = [r \in chosen |-> GroupOf(chosen, aggregate, dims, r)]
        /\ groups = Grouped(dataset, u, {}, aggregate, dims)
    OBVIOUS
  <2> HIDE DEF chosen, groups, group
  <2> QED BY <1>1, <2>1, GroupsAre
<1>3. ASSUME NEW part \in SUBSET chosen, part # {}
      PROVE  _metric_expression(aggregate, part) = SumOver(F, part)
  <2>1. IsFiniteSet(part)
    BY <1>1, <1>3, FS_Subset
  <2>2. CASE aggregate = "count"
    <3>1. \A r \in part : F[r] = 1
      BY <2>2
    <3> HIDE DEF F
    <3>2. SumOver(F, part) = Cardinality(part)
      BY <2>1, <3>1, SumOverOnes
    <3> QED BY <2>2, <3>2 DEF _metric_expression
  <2>3. CASE aggregate = "sum"
    <3> DEFINE f == [r \in part |-> r.amount]
    <3>1. \A r \in part : f[r] = F[r]
      BY <2>3
    <3>2. MapThenSumSet(LAMBDA r : r.amount, part) = SumOver(f, part)
      BY <2>1, AmountsSum
    <3> HIDE DEF f, F
    <3>3. SumOver(f, part) = SumOver(F, part)
      BY <2>1, <3>1, SumOverSame
    <3>4. _metric_expression(aggregate, part) = MapThenSumSet(LAMBDA r : r.amount, part)
      BY <1>3, <2>3 DEF _metric_expression
    <3> QED BY <3>2, <3>3, <3>4
  <2> QED BY <2>2, <2>3
<1> HIDE DEF F, group
<1>4. \A r \in chosen : group[r] \in groups
  BY <1>2
<1>5. \A g \in groups : G[g] = SumOver(F, Fiber(group, chosen, g))
  BY <1>2, <1>3
<1>6. chosen # {}
  BY <1>2
<1>7. Ungrouped(dataset, u, {}, aggregate) = SumOver(F, chosen)
  <2>1. Ungrouped(dataset, u, {}, aggregate) = _metric_expression(aggregate, chosen)
    BY UngroupedIs
  <2> HIDE DEF chosen
  <2> QED BY <1>3, <1>6, <2>1
<1>8. MapThenSumSet(LAMBDA g : g.value, groups) = SumOver(G, groups)
  <2> HIDE DEF groups
  <2> QED BY <1>2, ValuesSum
<1> HIDE DEF G, chosen
<1>9. SumOver(G, groups) = SumOver(F, chosen)
  <2> HIDE DEF groups
  <2> QED BY <1>1, <1>2, <1>4, <1>5, SumOfFibers
<1> QED BY <1>7, <1>8, <1>9

\* The largest maximum is the maximum.
LEMMA GroupsMax ==
    ASSUME QueryIInv, NEW dataset \in {"project_overview", "payment_execution"}, NEW u,
           NEW dims, dims # {}, NEW agg, agg = "max", Grouped(dataset, u, {}, agg, dims) # {}
    PROVE  Max({g.value : g \in Grouped(dataset, u, {}, agg, dims)})
             = Ungrouped(dataset, u, {}, agg)
<1> DEFINE chosen == Selected(dataset, u, {})
           group == [r \in chosen |-> GroupOf(chosen, agg, dims, r)]
           groups == Grouped(dataset, u, {}, agg, dims)
           Amounts(part) == {r.amount : r \in part}
           maxima == {g.value : g \in groups}
<1>1. IsFiniteSet(chosen) /\ \A r \in chosen : r.amount \in Int
  BY RowsAreFinite
<1>2. /\ groups = {group[r] : r \in chosen} /\ IsFiniteSet(groups)
      /\ \A g \in groups : /\ Fiber(group, chosen, g) # {} /\ Fiber(group, chosen, g) \in SUBSET chosen
                           /\ g.value = _metric_expression(agg, Fiber(group, chosen, g))
  <2>1. /\ chosen = Selected(dataset, u, {})
        /\ group = [r \in chosen |-> GroupOf(chosen, agg, dims, r)]
        /\ groups = Grouped(dataset, u, {}, agg, dims)
    OBVIOUS
  <2> HIDE DEF chosen, groups, group, Amounts, maxima
  <2>2. IsFiniteSet(chosen)
    BY <1>1
  <2> QED BY <2>1, <2>2, GroupsAre
<1> HIDE DEF chosen, group, groups
<1>3. ASSUME NEW part \in SUBSET chosen, part # {}
      PROVE  /\ _metric_expression(agg, part) \in Amounts(part)
             /\ \A r \in part : r.amount <= _metric_expression(agg, part)
  <2> DEFINE f == [r \in part |-> r.amount]
  <2>0. IsFiniteSet(part)
    BY <1>1, <1>3, FS_Subset
  <2>1. IsFiniteSet({f[r] : r \in part})
    <3> HIDE DEF f
    <3> QED BY <2>0, FiniteImage
  <2>2. {f[r] : r \in part} = Amounts(part)
    OBVIOUS
  <2>3. Amounts(part) \in SUBSET Int /\ Amounts(part) # {}
    BY <1>1, <1>3
  <2>4. _metric_expression(agg, part) = Max(Amounts(part))
    BY <1>3 DEF _metric_expression
  <2>5. \A r \in part : r.amount \in Amounts(part)
    OBVIOUS
  <2> HIDE DEF Amounts, f
  <2> QED BY <2>1, <2>2, <2>3, <2>4, <2>5, MaxOfFinite
<1>4. chosen # {}
  <2>1. groups # {}
    BY DEF groups
  <2> QED BY <1>2, <2>1
<1> DEFINE top == _metric_expression(agg, chosen)
<1>5. top \in Int /\ top \in Amounts(chosen) /\ \A r \in chosen : r.amount <= top
  BY <1>1, <1>3, <1>4
<1>6. PICK r \in chosen : r.amount = top
  BY <1>5
<1>7. \A g \in groups : \E x \in chosen : g.value = x.amount
  BY <1>2, <1>3
<1>8. \A v \in maxima : v \in Int /\ v <= top
  BY <1>1, <1>5, <1>7
<1>9. top \in maxima
  <2> DEFINE g == group[r]
             fiber == Fiber(group, chosen, g)
  <2>1. g \in groups /\ r \in fiber
    BY <1>2 DEF Fiber
  <2>2. fiber \in SUBSET chosen /\ g.value = _metric_expression(agg, fiber)
    BY <1>2, <2>1
  <2> HIDE DEF fiber, g
  <2>3. top <= g.value
    BY <1>3, <1>6, <2>1, <2>2
  <2>4. g.value \in maxima
    BY <2>1
  <2> HIDE DEF maxima, top
  <2>5. g.value \in Int /\ g.value <= top /\ top \in Int
    BY <1>5, <1>8, <2>4
  <2>6. g.value = top
    BY <2>3, <2>5
  <2> QED BY <2>4, <2>6
<1> HIDE DEF maxima, top
<1>10. Max(maxima) = top
  <2>1. \A x \in maxima : (\A y \in maxima : x >= y) => x = top
    BY <1>5, <1>8, <1>9
  <2>2. \A y \in maxima : top >= y
    BY <1>5, <1>8
  <2> QED BY <1>9, <2>1, <2>2 DEF Max
<1>11. Ungrouped(dataset, u, {}, agg) = top
  BY UngroupedIs DEF top, chosen
<1> QED BY <1>10, <1>11 DEF maxima, groups

\* A report has finitely many groups.
LEMMA GroupsAreFinite ==
    ASSUME QueryIInv, NEW dataset \in {"project_overview", "payment_execution"}, NEW u,
           NEW dims, dims # {}, NEW aggregate
    PROVE  IsFiniteSet(Grouped(dataset, u, {}, aggregate, dims))
<1> DEFINE chosen == Selected(dataset, u, {})
           group == [r \in chosen |-> GroupOf(chosen, aggregate, dims, r)]
           groups == Grouped(dataset, u, {}, aggregate, dims)
<1>1. IsFiniteSet(chosen)
  BY RowsAreFinite
<1>2. /\ chosen = Selected(dataset, u, {})
      /\ group = [r \in chosen |-> GroupOf(chosen, aggregate, dims, r)]
      /\ groups = Grouped(dataset, u, {}, aggregate, dims)
  OBVIOUS
<1> HIDE DEF chosen, groups, group
<1>3. IsFiniteSet(groups)
  BY <1>1, <1>2, GroupsAre
<1> QED BY <1>3 DEF groups

\* The maxima of the groups are finitely many integers.
LEMMA MaximaAre ==
    ASSUME QueryIInv, NEW dataset \in {"project_overview", "payment_execution"}, NEW u,
           NEW dims, dims # {}, Grouped(dataset, u, {}, "max", dims) # {}
    PROVE  LET maxima == {g.value : g \in Grouped(dataset, u, {}, "max", dims)}
           IN  maxima \in SUBSET Int /\ IsFiniteSet(maxima) /\ maxima # {}
<1> DEFINE chosen == Selected(dataset, u, {})
           group == [r \in chosen |-> GroupOf(chosen, "max", dims, r)]
           groups == Grouped(dataset, u, {}, "max", dims)
           v == [g \in groups |-> g.value]
<1>1. IsFiniteSet(chosen) /\ \A r \in chosen : r.amount \in Int
  BY RowsAreFinite
<1>2. /\ IsFiniteSet(groups)
      /\ \A g \in groups : /\ Fiber(group, chosen, g) # {} /\ Fiber(group, chosen, g) \in SUBSET chosen
                           /\ g.value = _metric_expression("max", Fiber(group, chosen, g))
  <2>1. /\ chosen = Selected(dataset, u, {})
        /\ group = [r \in chosen |-> GroupOf(chosen, "max", dims, r)]
        /\ groups = Grouped(dataset, u, {}, "max", dims)
    OBVIOUS
  <2> HIDE DEF chosen, groups, group, v
  <2>2. IsFiniteSet(chosen)
    BY <1>1
  <2> QED BY <2>1, <2>2, GroupsAre
<1> HIDE DEF chosen, group
<1>3. groups # {}
  BY DEF groups
<1> HIDE DEF groups
<1>4. ASSUME NEW g \in groups PROVE g.value \in Int
  <2> DEFINE part == Fiber(group, chosen, g)
             f == [r \in part |-> r.amount]
             amounts == {r.amount : r \in part}
  <2>1. IsFiniteSet(part) /\ part # {} /\ part \in SUBSET chosen
    BY <1>1, <1>2, FS_Subset
  <2>2. g.value = Max(amounts)
    BY <1>2, <2>1 DEF _metric_expression
  <2> HIDE DEF part
  <2>3. IsFiniteSet({f[r] : r \in part})
    <3> HIDE DEF f
    <3> QED BY <2>1, FiniteImage
  <2>4. {f[r] : r \in part} = amounts
    OBVIOUS
  <2>5. amounts \in SUBSET Int /\ amounts # {}
    BY <1>1, <2>1
  <2> HIDE DEF amounts, f
  <2>6. Max(amounts) \in amounts
    BY <2>3, <2>4, <2>5, MaxOfFinite
  <2> QED BY <2>2, <2>5, <2>6
<1>5. IsFiniteSet({v[g] : g \in groups})
  <2> HIDE DEF v
  <2> QED BY <1>2, FiniteImage
<1>6. {v[g] : g \in groups} = {g.value : g \in groups}
  OBVIOUS
<1> QED BY <1>3, <1>4, <1>5, <1>6 DEF groups

\* The database answers with rows of the query, all of them where the answer
\* is shorter than the limit.
LEMMA AnswersAre ==
    ASSUME NEW dataset, NEW u, NEW filters, NEW aggregate, NEW dims, NEW sort,
           NEW limit \in Nat \ {0},
           NEW groups, groups = Grouped(dataset, u, filters, aggregate, dims), IsFiniteSet(groups),
           NEW answer \in compile(dataset, u, filters, aggregate, dims, sort, limit)
    PROVE  /\ answer \in SUBSET groups /\ IsFiniteSet(answer)
           /\ Cardinality(answer) < limit => answer = groups
           /\ \A row \in answer, other \in groups \ answer : Before(sort, row, other)
<1>1. /\ answer \in SUBSET groups
      /\ Cardinality(answer) = IF Cardinality(groups) <= limit THEN Cardinality(groups) ELSE limit
      /\ \A row \in answer, other \in groups \ answer : Before(sort, row, other)
  BY DEF compile
<1>2. /\ IsFiniteSet(answer)
      /\ Cardinality(answer) = Cardinality(groups) => answer = groups
  BY <1>1, FS_Subset
<1>3. Cardinality(answer) \in Nat /\ Cardinality(groups) \in Nat
  BY <1>2, FS_CardinalityType
<1> QED BY <1>1, <1>2, <1>3

\* The groups of a count are natural numbers.
LEMMA CountsAreNat ==
    ASSUME QueryIInv, NEW dataset \in {"project_overview", "payment_execution"}, NEW u,
           NEW dims, dims # {}
    PROVE  LET groups == Grouped(dataset, u, {}, "count", dims)
           IN  IsFiniteSet(groups) /\ \A g \in groups : g.value \in Nat
<1> DEFINE chosen == Selected(dataset, u, {})
           group == [r \in chosen |-> GroupOf(chosen, "count", dims, r)]
           groups == Grouped(dataset, u, {}, "count", dims)
<1>1. IsFiniteSet(chosen)
  BY RowsAreFinite
<1>2. /\ IsFiniteSet(groups)
      /\ \A g \in groups : /\ Fiber(group, chosen, g) \in SUBSET chosen
                           /\ g.value = _metric_expression("count", Fiber(group, chosen, g))
  <2>1. /\ chosen = Selected(dataset, u, {})
        /\ group = [r \in chosen |-> GroupOf(chosen, "count", dims, r)]
        /\ groups = Grouped(dataset, u, {}, "count", dims)
    OBVIOUS
  <2> HIDE DEF chosen, groups, group
  <2> QED BY <1>1, <2>1, GroupsAre
<1> HIDE DEF chosen, group, groups
<1>3. ASSUME NEW g \in groups PROVE g.value \in Nat
  <2>1. IsFiniteSet(Fiber(group, chosen, g))
    BY <1>1, <1>2, FS_Subset
  <2>2. g.value = Cardinality(Fiber(group, chosen, g))
    BY <1>2 DEF _metric_expression
  <2> QED BY <2>1, <2>2, FS_CardinalityType
<1> QED BY <1>2, <1>3 DEF groups

\* Complete answers add up, and cut ones do not count too much.
LEMMA AnswersAddUp ==
    ASSUME QueryIInv, NEW dataset \in {"project_overview", "payment_execution"}, NEW u,
           NEW dims, dims # {}, NEW aggregate \in {"count", "sum"}, NEW sort,
           NEW limit \in Nat \ {0},
           NEW answer \in compile(dataset, u, {}, aggregate, dims, sort, limit), answer # {}
    PROVE  AddsUp(dataset, u, aggregate, limit, answer)
<1> DEFINE groups == Grouped(dataset, u, {}, aggregate, dims)
<1>1. IsFiniteSet(groups)
  BY GroupsAreFinite
<1>2. /\ answer \in SUBSET groups /\ IsFiniteSet(answer)
      /\ Cardinality(answer) < limit => answer = groups
  BY <1>1, AnswersAre
<1>3. MapThenSumSet(LAMBDA g : g.value, groups) = Ungrouped(dataset, u, {}, aggregate)
  BY <1>2, GroupsAddUp
<1>4. Cardinality(answer) < limit => Total(answer) = Ungrouped(dataset, u, {}, aggregate)
  BY <1>2, <1>3 DEF Total
<1>5. ASSUME aggregate = "count" PROVE Total(answer) <= Ungrouped(dataset, u, {}, aggregate)
  <2> DEFINE G == [g \in groups |-> g.value]
             A == [g \in answer |-> g.value]
  <2>1. \A g \in groups : G[g] \in Nat
    BY <1>5, CountsAreNat
  <2>2. \A g \in answer : A[g] = G[g]
    BY <1>2
  <2>3. Total(answer) = SumOver(A, answer)
    BY <1>2, ValuesSum DEF Total
  <2>4. Ungrouped(dataset, u, {}, aggregate) = SumOver(G, groups)
    <3>1. MapThenSumSet(LAMBDA g : g.value, groups) = SumOver(G, groups)
      <4> HIDE DEF groups
      <4> QED BY <1>1, ValuesSum
    <3> QED BY <1>3, <3>1
  <2> HIDE DEF G, A, groups
  <2>5. SumOver(A, answer) = SumOver(G, answer)
    BY <1>2, <2>2, SumOverSame
  <2>6. SumOver(G, answer) <= SumOver(G, groups)
    BY <1>1, <1>2, <2>1, SumOverPart
  <2> QED BY <2>3, <2>4, <2>5, <2>6
<1> QED BY <1>4, <1>5 DEF AddsUp

\* Complete answers, and those from the largest down, show the maximum.
LEMMA AnswersShowMax ==
    ASSUME QueryIInv, NEW dataset \in {"project_overview", "payment_execution"}, NEW u,
           NEW dims, dims # {}, NEW sort, NEW limit \in Nat \ {0},
           NEW answer \in compile(dataset, u, {}, "max", dims, sort, limit), answer # {}
    PROVE  ShowsMax(dataset, u, sort, limit, answer)
<1> DEFINE groups == Grouped(dataset, u, {}, "max", dims)
           maxima == {g.value : g \in groups}
           cutMaxima == {g.value : g \in answer}
<1>1. IsFiniteSet(groups)
  BY GroupsAreFinite
<1>2. /\ answer \in SUBSET groups
      /\ Cardinality(answer) < limit => answer = groups
      /\ \A row \in answer, other \in groups \ answer : Before(sort, row, other)
  BY <1>1, AnswersAre
<1>3. Max(maxima) = Ungrouped(dataset, u, {}, "max")
  BY <1>2, GroupsMax
<1>4. maxima \in SUBSET Int /\ IsFiniteSet(maxima) /\ maxima # {}
  BY <1>2, MaximaAre
<1>5. CASE sort = "desc"
  <2> DEFINE top == Max(maxima)
  <2>1. top \in maxima /\ \A v \in maxima : v <= top
    BY <1>4, MaxOfFinite
  <2>2. PICK g \in groups : g.value = top
    BY <2>1
  <2> HIDE DEF top
  <2>3. \A row \in answer, other \in groups \ answer : row.value >= other.value
    BY <1>2, <1>5 DEF Before
  <2>4. cutMaxima \in SUBSET maxima
    BY <1>2
  <2>5. top \in cutMaxima
    <3>1. CASE g \in answer
      BY <2>2, <3>1
    <3>2. CASE g \notin answer
      <4>1. PICK row \in answer : TRUE
        OBVIOUS
      <4>2. row.value \in maxima /\ row.value \in cutMaxima
        BY <1>2, <4>1
      <4>3. row.value >= top
        BY <2>2, <2>3, <3>2, <4>1
      <4> HIDE DEF maxima, cutMaxima
      <4>4. row.value <= top /\ row.value \in Int /\ top \in Int
        BY <1>4, <2>1, <4>2
      <4>5. row.value = top
        BY <4>3, <4>4
      <4> QED BY <4>2, <4>5
    <3> QED BY <3>1, <3>2
  <2> HIDE DEF maxima, cutMaxima
  <2>6. Max(cutMaxima) = top
    <3>1. \A x \in cutMaxima : (\A y \in cutMaxima : x >= y) => x = top
      BY <1>4, <2>1, <2>4, <2>5
    <3>2. \A y \in cutMaxima : top >= y
      BY <1>4, <2>1, <2>4
    <3> QED BY <2>5, <3>1, <3>2 DEF Max
  <2> QED BY <1>3, <2>6 DEF ShowsMax, cutMaxima, top
<1>6. CASE Cardinality(answer) < limit
  <2>1. cutMaxima = maxima
    BY <1>2, <1>6
  <2> QED BY <1>3, <2>1 DEF ShowsMax
<1> QED BY <1>5, <1>6 DEF ShowsMax

\* A filter, its opposite and the rows without a value split the projects.
LEMMA FiltersSplit ==
    ASSUME QueryIInv, NEW u, NEW t
    PROVE  LET n(op) == Ungrouped("project_overview", u, {Filter("project_type_id", op, t)}, "count")
           IN  n("eq") + n("ne") + n("is_null") = Ungrouped("project_overview", u, {}, "count")
<1> DEFINE chosen == Selected("project_overview", u, {})
           With(op) == Selected("project_overview", u, {Filter("project_type_id", op, t)})
           Value(r) == r["project_type_id"]
<1>1. \A op : With(op) = {r \in chosen : _filter_expression(Value(r), Filter("project_type_id", op, t))}
  BY DEF Selected, Filter
<1>2. /\ With("eq") = {r \in chosen : Value(r) # Null /\ Value(r) = t}
      /\ With("ne") = {r \in chosen : Value(r) # Null /\ Value(r) # t}
      /\ With("is_null") = {r \in chosen : Value(r) = Null}
  <2>1. /\ \A v : _filter_expression(v, Filter("project_type_id", "eq", t)) <=> v # Null /\ v = t
        /\ \A v : _filter_expression(v, Filter("project_type_id", "ne", t)) <=> v # Null /\ v # t
        /\ \A v : _filter_expression(v, Filter("project_type_id", "is_null", t)) <=> v = Null
    BY DEF _filter_expression, Filter
  <2> HIDE DEF chosen, With, Value
  <2>2. With("eq") = {r \in chosen : Value(r) # Null /\ Value(r) = t}
    BY <1>1, <2>1
  <2>3. With("ne") = {r \in chosen : Value(r) # Null /\ Value(r) # t}
    BY <1>1, <2>1
  <2>4. With("is_null") = {r \in chosen : Value(r) = Null}
    BY <1>1, <2>1
  <2> QED BY <2>2, <2>3, <2>4
<1>3. IsFiniteSet(chosen)
  BY RowsAreFinite
<1> DEFINE a == With("eq")
           b == With("ne")
           c == With("is_null")
<1>4. a \in SUBSET chosen /\ b \in SUBSET chosen /\ c \in SUBSET chosen
  BY <1>2
<1>5. a \cap b = {} /\ (a \cup b) \cap c = {} /\ (a \cup b) \cup c = chosen
  BY <1>2
<1> HIDE DEF a, b, c, chosen
<1>6. IsFiniteSet(a) /\ IsFiniteSet(b) /\ IsFiniteSet(c) /\ IsFiniteSet(a \cup b)
  BY <1>3, <1>4, FS_Subset
<1>7. Cardinality(a \cup b) = Cardinality(a) + Cardinality(b)
  <2>1. Cardinality(a \cup b) = Cardinality(a) + Cardinality(b) - Cardinality(a \cap b)
    BY <1>6, FS_Union
  <2>2. Cardinality(a \cap b) = 0
    BY <1>5, FS_EmptySet
  <2> QED BY <1>6, <2>1, <2>2, FS_CardinalityType
<1>8. Cardinality((a \cup b) \cup c) = Cardinality(a \cup b) + Cardinality(c)
  <2>1. Cardinality((a \cup b) \cup c)
          = Cardinality(a \cup b) + Cardinality(c) - Cardinality((a \cup b) \cap c)
    BY <1>6, FS_Union
  <2>2. Cardinality((a \cup b) \cap c) = 0
    BY <1>5, FS_EmptySet
  <2> QED BY <1>6, <2>1, <2>2, FS_CardinalityType
<1>9. Cardinality(chosen) = Cardinality(a) + Cardinality(b) + Cardinality(c)
  BY <1>5, <1>7, <1>8
<1>10. \A part : _metric_expression("count", part) = Cardinality(part)
  BY DEF _metric_expression
<1>11. /\ Ungrouped("project_overview", u, {Filter("project_type_id", "eq", t)}, "count") = Cardinality(a)
       /\ Ungrouped("project_overview", u, {Filter("project_type_id", "ne", t)}, "count") = Cardinality(b)
       /\ Ungrouped("project_overview", u, {Filter("project_type_id", "is_null", t)}, "count")
            = Cardinality(c)
       /\ Ungrouped("project_overview", u, {}, "count") = Cardinality(chosen)
  BY <1>10, UngroupedIs DEF a, b, c, chosen
<1> QED BY <1>9, <1>11

\* Whoever sees a payment sees its project.
LEMMA PaymentsShowProjects ==
    ASSUME QueryIInv, NEW u, NEW row \in Selected("payment_execution", u, {})
    PROVE  \E r \in Selected("project_overview", u, {}) : r.main = row.main
<1>1. PICK p \in payments :
        row = [id |-> p.no, main |-> SubOf(p.sub).main, sub_project_id |-> p.sub,
                       manager_id |-> ownerOf[p.sub], amount |-> p.amount]
  BY DEF Selected, Rows
<1> DEFINE w == SubOf(p.sub)
<1>2. w \in AskedSubs /\ w.id = p.sub
  <2>1. \E v \in AskedSubs : v.id = p.sub
    BY DEF QueryIInv, SubIds
  <2> QED BY <2>1 DEF SubOf
<1> HIDE DEF w
<1>3. row.main = w.main /\ row.sub_project_id = w.id
  BY <1>1, <1>2 DEF w
<1>4. PICK m \in AskedMains : m.id = w.main
  BY <1>2, QueriesAssumption
<1> DEFINE r == [id |-> m.id, main |-> m.id, dept_id |-> m.dept, amount |-> m.total_budget,
                 project_type_id |-> typeOf[m.id]]
<1>5. r \in Rows("project_overview") /\ r.main = w.main
  BY <1>4 DEF Rows
<1> HIDE DEF r
<1>6. u.role \in GLOBAL_REPORT_ROLES \/ Owns(u, w.id)
  BY <1>3 DEF Selected, _scope_predicate
<1>7. _scope_predicate("project_overview", u, r)
  BY <1>2, <1>5, <1>6 DEF _scope_predicate
<1> QED BY <1>3, <1>5, <1>7 DEF Selected

\* Reports of one user agree within their limits, whatever is selected, however
\* it is grouped and ordered and whoever asks (ReportQueryCompiler).
THEOREM ReportsOfOneUserAgree == QuerySpec => []ReportsOfUserAgree
<1>1. QueryIInv => ReportsOfUserAgree
  <2> SUFFICES ASSUME QueryIInv, NEW u \in Askers
               PROVE
      /\ \A dataset \in {"project_overview", "payment_execution"},
            sort \in {"none", "asc", "desc"}, limit \in Limits :
           \A dims \in (SUBSET Dimensions(dataset)) \ {{}} :
             /\ \A aggregate \in {"count", "sum"} :
                  \A answer \in compile(dataset, u, {}, aggregate, dims, sort, limit) \ {{}} :
                    AddsUp(dataset, u, aggregate, limit, answer)
             /\ \A answer \in compile(dataset, u, {}, "max", dims, sort, limit) \ {{}} :
                  ShowsMax(dataset, u, sort, limit, answer)
      /\ \A t \in ProjectTypes :
           LET n(op) == Ungrouped("project_overview", u, {Filter("project_type_id", op, t)}, "count")
           IN  n("eq") + n("ne") + n("is_null") = Ungrouped("project_overview", u, {}, "count")
      /\ {row.main : row \in Selected("payment_execution", u, {})}
            \subseteq {row.main : row \in Selected("project_overview", u, {})}
    BY Zenon DEF ReportsOfUserAgree
  <2>1. ASSUME NEW dataset \in {"project_overview", "payment_execution"},
               NEW sort \in {"none", "asc", "desc"}, NEW limit \in Limits,
               NEW dims \in (SUBSET Dimensions(dataset)) \ {{}}
        PROVE  /\ \A aggregate \in {"count", "sum"} :
                    \A answer \in compile(dataset, u, {}, aggregate, dims, sort, limit) \ {{}} :
                      AddsUp(dataset, u, aggregate, limit, answer)
               /\ \A answer \in compile(dataset, u, {}, "max", dims, sort, limit) \ {{}} :
                    ShowsMax(dataset, u, sort, limit, answer)
    <3>1. limit \in Nat \ {0} /\ dims # {}
      BY QueriesAssumption
    <3>2. ASSUME NEW aggregate \in {"count", "sum"},
                 NEW answer \in compile(dataset, u, {}, aggregate, dims, sort, limit) \ {{}}
          PROVE  AddsUp(dataset, u, aggregate, limit, answer)
      BY <3>1, AnswersAddUp
    <3>3. ASSUME NEW answer \in compile(dataset, u, {}, "max", dims, sort, limit) \ {{}}
          PROVE  ShowsMax(dataset, u, sort, limit, answer)
      BY <3>1, AnswersShowMax
    <3> QED BY <3>2, <3>3
  <2>2. ASSUME NEW t \in ProjectTypes
        PROVE  LET n(op) == Ungrouped("project_overview", u, {Filter("project_type_id", op, t)}, "count")
               IN  n("eq") + n("ne") + n("is_null") = Ungrouped("project_overview", u, {}, "count")
    BY FiltersSplit
  <2>3. {row.main : row \in Selected("payment_execution", u, {})}
          \subseteq {row.main : row \in Selected("project_overview", u, {})}
    BY PaymentsShowProjects
  <2> QED BY <2>1, <2>2, <2>3
<1> QED BY <1>1, QueryInductive, PTL

-----------------------------------------------------------------------------
(***************************************************************************)
(* Risk and benchmark: every part of the score grows with the fact it is   *)
(* made of, and a percentile lies between two neighbours of the sample.    *)
(***************************************************************************)

LEMMA QuotientGrows ==
    ASSUME NEW a \in Nat, NEW c \in Nat, NEW b \in Nat \ {0}, a <= c
    PROVE  a \div b \in Nat /\ a \div b <= c \div b
OBVIOUS

LEMMA QuotientOfProduct ==
    ASSUME NEW b \in Nat \ {0}
    PROVE  (b * 40) \div b = 40
OBVIOUS

\* A product grows with each of its factors.
LEMMA ProductGrows ==
    ASSUME NEW a \in Nat, NEW b \in Nat, NEW c \in Nat, b <= c
    PROVE  a * b \in Nat /\ a * b <= a * c
OBVIOUS

InsightIInv ==
    /\ facts \in Facts /\ facts.overdue <= facts.tasks
    /\ peers \subseteq Peers

LEMMA InsightInitHolds == InsightInit => InsightIInv
BY InsightAssumption DEF InsightInit, InsightIInv, Facts

LEMMA InsightKept == InsightIInv /\ [InsightNext]_insightVars => InsightIInv'
<1> SUFFICES ASSUME InsightIInv, [InsightNext]_insightVars PROVE InsightIInv'
  OBVIOUS
<1>1. /\ facts \in [delay : 0 .. MaxDelay, spent : 0 .. MaxSpent, tasks : 0 .. MaxTasks,
                    overdue : 0 .. MaxTasks, cycle : Nat, finished : 0 .. MaxPhases, stayed : Nat,
                    dept : {"d1"}, kind : {"k1", "none"}]
      /\ facts.overdue <= facts.tasks /\ peers \subseteq Peers
  BY DEF InsightIInv, Facts
<1>2. CASE UNCHANGED insightVars
  BY <1>2 DEF insightVars, InsightIInv
<1>3. CASE PeerJoins
  BY <1>3 DEF PeerJoins, InsightIInv
<1>4. CASE DaysPass
  <2>1. /\ facts' = [delay |-> facts.delay + DayStep, spent |-> facts.spent, tasks |-> facts.tasks,
                     overdue |-> facts.overdue, cycle |-> facts.cycle + DayStep,
                     finished |-> facts.finished, stayed |-> facts.stayed,
                     dept |-> facts.dept, kind |-> facts.kind]
        /\ facts.delay + DayStep <= MaxDelay /\ peers' = peers
    BY <1>1, <1>4 DEF DaysPass
  <2>2. facts.delay + DayStep \in 0 .. MaxDelay /\ facts.cycle + DayStep \in Nat
    BY <1>1, <2>1, InsightAssumption
  <2> QED BY <1>1, <2>1, <2>2 DEF InsightIInv, Facts
<1>5. CASE MoneySpent
  BY <1>1, <1>5, InsightAssumption DEF MoneySpent, InsightIInv, Facts
<1>6. CASE TaskAdded
  BY <1>1, <1>6, InsightAssumption DEF TaskAdded, InsightIInv, Facts
<1>7. CASE TaskOverdue
  BY <1>1, <1>7, InsightAssumption DEF TaskOverdue, InsightIInv, Facts
<1>8. CASE TaskRecovered
  BY <1>1, <1>8, InsightAssumption DEF TaskRecovered, InsightIInv, Facts
<1>9. CASE PhaseFinished
  <2>1. PICK days \in {0, DayStep} :
          /\ facts' = [facts EXCEPT !.finished = @ + 1, !.stayed = @ + days]
          /\ facts.finished < MaxPhases /\ peers' = peers
    BY <1>9 DEF PhaseFinished
  <2>2. facts.finished + 1 \in 0 .. MaxPhases /\ facts.stayed + days \in Nat
    BY <1>1, <2>1, InsightAssumption
  <2> QED BY <1>1, <2>1, <2>2 DEF InsightIInv, Facts
<1> QED BY <1>2, <1>3, <1>4, <1>5, <1>6, <1>7, <1>8, <1>9 DEF InsightNext

LEMMA InsightInductive == InsightSpec => []InsightIInv
BY InsightInitHolds, InsightKept, PTL DEF InsightSpec

-----------------------------------------------------------------------------
(* The benchmark *)

\* Sorted values of a sample.
SortedValues(v, n) ==
    /\ n \in Nat /\ v \in [1 .. n -> Nat]
    /\ \A i, k \in 1 .. n : i <= k => v[i] <= v[k]

\* The values of a sample can be sorted.
LEMMA ValuesAreSorted ==
    ASSUME peers \subseteq Peers, NEW f, NEW metric \in {"cycle", "stay"}
    PROVE  \E n \in Nat : SortedValues(Values(f, metric), n) /\ Len(Values(f, metric)) = n
<1> DEFINE found == {p \in Sampled(f) : p[metric] # NoStay}
           n == Cardinality(found)
           rank == [p \in found |-> p[metric]]
           InOrder(q) == \A i, k \in DOMAIN q : i < k => q[i][metric] <= q[k][metric]
<1>1. IsFiniteSet(found) /\ \A p \in found : rank[p] \in Nat
  <2>1. found \in SUBSET Peers
    BY DEF Sampled
  <2>2. IsFiniteSet(found)
    <3> HIDE DEF found
    <3> QED BY <2>1, FS_Subset, InsightAssumption
  <2>3. ASSUME NEW p \in found PROVE rank[p] \in Nat
    <3>1. p \in Peers /\ p[metric] # NoStay /\ rank[p] = p[metric]
      BY <2>1
    <3>2. p.cycle \in Nat /\ p.stay \in Nat \cup {NoStay}
      BY <3>1, InsightAssumption
    <3>3. CASE metric = "cycle"
      BY <3>1, <3>2, <3>3
    <3>4. CASE metric = "stay"
      BY <3>1, <3>2, <3>4
    <3> QED BY <3>3, <3>4
  <2> QED BY <2>2, <2>3
<1>2. n \in Nat
  <2> HIDE DEF found
  <2> QED BY <1>1, FS_CardinalityType
<1>3. \E q \in Injection(1 .. n, found) : InOrder(q)
  <2>1. PICK q \in Injection(1 .. n, found) : Ordered(q, rank)
    <3> HIDE DEF found, rank
    <3> QED BY <1>1, OrderExists
  <2>2. q \in [1 .. n -> found]
    BY <2>1 DEF Injection
  <2>3. InOrder(q)
    <3>1. \A i \in 1 .. n : rank[q[i]] = q[i][metric]
      BY <2>2
    <3> HIDE DEF rank, n, found
    <3> QED BY <2>1, <2>2, <3>1 DEF Ordered
  <2> QED BY <2>3
<1> DEFINE order == CHOOSE q \in Injection(1 .. n, found) : InOrder(q)
           v == Values(f, metric)
<1>4. v = [i \in 1 .. n |-> order[i][metric]]
  BY DEF Values
<1>5. order \in Injection(1 .. n, found) /\ InOrder(order)
  BY <1>3
<1> HIDE DEF n, order, v
<1>6. order \in [1 .. n -> found]
  BY <1>5 DEF Injection
<1>7. \A i \in 1 .. n : order[i][metric] \in Nat /\ v[i] = order[i][metric]
  <2>1. \A p \in found : p[metric] \in Nat
    BY <1>1
  <2> HIDE DEF found
  <2> QED BY <1>4, <1>6, <2>1
<1>8. ASSUME NEW i \in 1 .. n, NEW k \in 1 .. n, i <= k PROVE v[i] <= v[k]
  <2>1. CASE i = k
    BY <1>7, <2>1
  <2>2. CASE i # k
    <3>1. i < k
      BY <1>2, <1>8, <2>2
    <3>2. order[i][metric] <= order[k][metric]
      BY <1>5, <1>6, <3>1
    <3> QED BY <1>7, <3>2
  <2> QED BY <2>1, <2>2
<1>9. v \in [1 .. n -> Nat]
  BY <1>4, <1>7
<1>10. Len(v) = n
  BY <1>2, <1>9
<1>11. SortedValues(v, n)
  BY <1>2, <1>8, <1>9 DEF SortedValues
<1> QED BY <1>2, <1>10, <1>11 DEF v

\* Where a percentile is looked for.
Position(n, percent) == (n - 1) * percent
Lower(n, percent) == Position(n, percent) \div 100 + 1
Upper(n, percent) == AtMost(Lower(n, percent) + 1, n)

\* What a percentile is made of.
LEMMA PercentileLies ==
    ASSUME NEW n \in Nat \ {0}, NEW v, SortedValues(v, n), Len(v) = n, NEW percent \in 0 .. 100
    PROVE  LET position == Position(n, percent)
               lower == Lower(n, percent)
               upper == Upper(n, percent)
           IN  /\ position \in Nat /\ lower \in 1 .. n /\ upper \in 1 .. n /\ lower <= upper
               /\ v[lower] \in Nat /\ v[upper] \in Nat /\ v[lower] <= v[upper]
               /\ _percentile(v, percent) \in Nat
               /\ 100 * v[lower] <= _percentile(v, percent)
               /\ _percentile(v, percent) <= 100 * v[upper]
<1> DEFINE position == Position(n, percent)
           lower == Lower(n, percent)
           upper == Upper(n, percent)
<1>1. position \in Nat /\ position <= (n - 1) * 100
  <2>1. n - 1 \in Nat /\ percent \in Nat /\ percent <= 100
    OBVIOUS
  <2> QED BY <2>1, ProductGrows DEF Position
<1>2. lower \in 1 .. n
  <2>1. lower = position \div 100 + 1
    BY DEF Lower
  <2> HIDE DEF position, lower
  <2> QED BY <1>1, <2>1
<1>3. upper \in 1 .. n /\ lower <= upper
  BY <1>2 DEF AtMost, Upper
<1>4. v[lower] \in Nat /\ v[upper] \in Nat /\ v[lower] <= v[upper]
  BY <1>2, <1>3 DEF SortedValues
<1>5. _percentile(v, percent)
        = 100 * v[lower] + (v[upper] - v[lower]) * (position % 100)
  BY DEF _percentile, Position, Lower, Upper
<1> DEFINE a == v[lower]
           b == v[upper]
           r == position % 100
<1>6. r \in Nat /\ r <= 100
  BY <1>1
<1> HIDE DEF position, lower, upper
<1>7. a \in Nat /\ b - a \in Nat
  BY <1>4
<1> HIDE DEF a, b, r
<1>8. (b - a) * r \in Nat /\ (b - a) * r <= (b - a) * 100
  BY <1>6, <1>7, ProductGrows
<1>9. _percentile(v, percent) = 100 * a + (b - a) * r /\ b \in Nat
  BY <1>4, <1>5 DEF a, b, r
<1> DEFINE d == (b - a) * r
<1> HIDE DEF d
<1>10. d \in Nat /\ d <= (b - a) * 100 /\ _percentile(v, percent) = 100 * a + d
  BY <1>8, <1>9 DEF d
<1>11. 100 * a <= 100 * a + d /\ 100 * a + d <= 100 * b /\ 100 * a + d \in Nat
  BY <1>7, <1>9, <1>10
<1> QED BY <1>1, <1>2, <1>3, <1>4, <1>10, <1>11 DEF a, b, position, lower, upper

\* The median is not above the 90th percentile.
LEMMA PercentilesInOrder ==
    ASSUME NEW n \in Nat \ {0}, NEW v, SortedValues(v, n), Len(v) = n
    PROVE  _percentile(v, 50) <= _percentile(v, 90)
<1> DEFINE fifty == 50
           ninety == 90
<1>0. fifty \in 0 .. 100 /\ ninety \in 0 .. 100 /\ fifty = 50 /\ ninety = 90
  OBVIOUS
<1> SUFFICES _percentile(v, fifty) <= _percentile(v, ninety)
  OBVIOUS
<1> HIDE DEF fifty, ninety
<1> DEFINE x == Position(n, fifty)
           y == Position(n, ninety)
           i == Lower(n, fifty)
           k == Lower(n, ninety)
           s == Upper(n, fifty)
           t == Upper(n, ninety)
<1>1. /\ x \in Nat /\ i \in 1 .. n /\ s \in 1 .. n /\ i <= s
      /\ v[i] \in Nat /\ v[s] \in Nat /\ v[i] <= v[s]
      /\ _percentile(v, fifty) \in Nat /\ _percentile(v, fifty) <= 100 * v[s]
  BY ZenonT(60), <1>0, PercentileLies
<1>2. /\ y \in Nat /\ k \in 1 .. n /\ t \in 1 .. n /\ k <= t
      /\ v[k] \in Nat /\ v[t] \in Nat /\ v[k] <= v[t]
      /\ _percentile(v, ninety) \in Nat /\ 100 * v[k] <= _percentile(v, ninety)
  BY ZenonT(60), <1>0, PercentileLies
<1>d. x = (n - 1) * 50 /\ y = (n - 1) * 90 /\ i = x \div 100 + 1 /\ k = y \div 100 + 1
  BY <1>0 DEF Position, Lower
<1>e. s = AtMost(i + 1, n) /\ t = AtMost(k + 1, n)
  BY DEF Upper
<1>f. /\ _percentile(v, fifty) = 100 * v[i] + (v[s] - v[i]) * (x % 100)
      /\ _percentile(v, ninety) = 100 * v[k] + (v[t] - v[k]) * (y % 100)
  BY DEF _percentile, Position, Lower, Upper
<1> HIDE DEF x, y, i, k, s, t
<1>3. x <= y /\ i <= k
  BY <1>d
<1>4. CASE i = k
  <2>1. (x % 100) <= (y % 100) /\ (x % 100) \in Nat /\ (y % 100) \in Nat
    <3>0. x \in Nat /\ y \in Nat /\ x <= y
      BY <1>1, <1>2, <1>3
    <3>1. x \div 100 = y \div 100 /\ x \in Nat /\ y \in Nat /\ x <= y
      <4>1. x \div 100 \in Nat /\ y \div 100 \in Nat /\ x \div 100 + 1 = y \div 100 + 1
        <5>1. x \div 100 \in Nat /\ y \div 100 \in Nat
          BY <3>0
        <5>2. x \div 100 + 1 = y \div 100 + 1
          <6>1. ASSUME NEW e, NEW g, e = g, NEW h, NEW j, e = h + 1, g = j + 1
                PROVE  h + 1 = j + 1
            BY <6>1
          <6> QED BY <1>4, <1>d, <6>1
        <5> QED BY <5>1, <5>2
      <4> DEFINE a == x \div 100
                 b == y \div 100
      <4> HIDE DEF a, b
      <4>2. a = b
        BY <4>1 DEF a, b
      <4> QED BY <3>0, <4>2 DEF a, b
    <3>2. x = 100 * (x \div 100) + (x % 100) /\ y = 100 * (y \div 100) + (y % 100)
      BY <3>1
    <3>3. (x % 100) \in Nat /\ (y % 100) \in Nat /\ x \div 100 \in Nat
      BY <3>1
    <3> DEFINE c == x \div 100
               p == x % 100
               q == y % 100
    <3>4. x = 100 * c + p /\ y = 100 * c + q /\ p \in Nat /\ q \in Nat /\ c \in Nat
      BY <3>1, <3>2, <3>3
    <3> HIDE DEF c, p, q
    <3>5. p <= q
      BY <3>1, <3>4
    <3> QED BY <3>3, <3>5 DEF p, q
  <2>2. s = t
    BY <1>4, <1>e
  <2> DEFINE d == v[s] - v[i]
             p == x % 100
             q == y % 100
  <2>3. d \in Nat
    BY <1>1
  <2> HIDE DEF d, p, q
  <2>4. d * p <= d * q /\ d * p \in Nat /\ d * q \in Nat
    BY <2>1, <2>3, ProductGrows DEF p, q
  <2>5. /\ _percentile(v, fifty) = 100 * v[i] + d * p
        /\ _percentile(v, ninety) = 100 * v[i] + d * q
    BY <1>f, <1>4, <2>2 DEF d, p, q
  <2> DEFINE dp == d * p
             dq == d * q
             low == _percentile(v, fifty)
             high == _percentile(v, ninety)
             c == 100 * v[i]
  <2>6. low = c + dp /\ high = c + dq /\ dp <= dq /\ dp \in Nat /\ dq \in Nat /\ c \in Nat
    BY <1>1, <2>4, <2>5
  <2> HIDE DEF dp, dq, low, high, c
  <2>7. low <= high
    BY <2>6
  <2>8. _percentile(v, fifty) <= _percentile(v, ninety)
    BY ONLY <2>7 DEF low, high
  <2> QED BY ONLY <2>8
<1>5. CASE i # k
  <2>1. s <= k
    BY <1>1, <1>2, <1>3, <1>5, <1>e DEF AtMost
  <2>2. v[s] <= v[k]
    BY <1>1, <1>2, <2>1 DEF SortedValues
  <2> DEFINE a == v[s]
             b == v[k]
             p == _percentile(v, fifty)
             q == _percentile(v, ninety)
  <2>3. /\ a \in Nat /\ b \in Nat /\ p \in Nat /\ q \in Nat
        /\ p <= 100 * a /\ a <= b /\ 100 * b <= q
    BY <1>1, <1>2, <2>2
  <2> HIDE DEF a, b, p, q
  <2>4. p <= q
    BY <2>3
  <2>5. _percentile(v, fifty) <= _percentile(v, ninety)
    BY ONLY <2>4 DEF p, q
  <2> QED BY ONLY <2>5
<1> QED BY ONLY <1>4, <1>5

\* At least half of the values are not above the median, and at least half not
\* below it.
LEMMA MedianSplits ==
    ASSUME NEW n \in Nat \ {0}, NEW v, SortedValues(v, n), Len(v) = n
    PROVE  /\ 2 * Cardinality({j \in 1 .. n : 100 * v[j] <= _percentile(v, 50)}) >= n
           /\ 2 * Cardinality({j \in 1 .. n : 100 * v[j] >= _percentile(v, 50)}) >= n
<1> DEFINE fifty == 50
<1>0. fifty \in 0 .. 100 /\ fifty = 50
  OBVIOUS
<1> HIDE DEF fifty
<1> DEFINE x == Position(n, fifty)
           i == Lower(n, fifty)
           s == Upper(n, fifty)
           p50 == _percentile(v, fifty)
           below == {j \in 1 .. n : 100 * v[j] <= p50}
           above == {j \in 1 .. n : 100 * v[j] >= p50}
<1>1. /\ i \in 1 .. n /\ s \in 1 .. n
      /\ v[i] \in Nat /\ v[s] \in Nat
      /\ p50 \in Nat /\ 100 * v[i] <= p50 /\ p50 <= 100 * v[s]
  BY ZenonT(60), <1>0, PercentileLies
<1>2. \A j \in 1 .. n : v[j] \in Nat
  BY DEF SortedValues
<1> DEFINE first == IF x % 100 = 0 THEN i ELSE s
<1>d. x = (n - 1) * 50 /\ i = x \div 100 + 1 /\ s = AtMost(i + 1, n)
  BY <1>0 DEF Position, Lower, Upper
<1>f. p50 = 100 * v[i] + (v[s] - v[i]) * (x % 100)
  BY DEF _percentile, Position, Lower, Upper
<1> HIDE DEF x, i, s, p50, below, above
<1>3. 2 * i >= n /\ 2 * (n - first + 1) >= n /\ first \in 1 .. n
  <2>1. i \in Nat /\ x \in Nat /\ i \in 1 .. n /\ s \in 1 .. n
    BY <1>1, <1>d
  <2>2. 2 * i >= n
    BY <1>d, <2>1
  <2>3. CASE x % 100 = 0
    <3>1. 2 * i <= n + 1
      BY <1>d, <2>1, <2>3
    <3> QED BY <2>1, <2>2, <2>3, <3>1
  <2>4. CASE x % 100 # 0
    <3>1. 2 * i <= n
      BY <1>d, <2>1, <2>4
    <3>2. first = s /\ s <= i + 1
      BY <1>d, <2>1, <2>4 DEF AtMost
    <3> HIDE DEF first
    <3> QED BY <2>1, <2>2, <3>1, <3>2
  <2> QED BY <2>3, <2>4
<1>4. p50 <= 100 * v[first]
  <2>1. CASE x % 100 = 0
    <3>1. (v[s] - v[i]) * 0 = 0
      BY <1>1
    <3> QED BY <1>1, <1>f, <2>1, <3>1
  <2> QED BY <1>1, <2>1
<1> HIDE DEF first
<1>5. 1 .. i \subseteq below
  <2> SUFFICES ASSUME NEW j \in 1 .. i PROVE j \in below
    OBVIOUS
  <2>1. j \in 1 .. n /\ j <= i
    BY <1>1
  <2>2. v[j] <= v[i]
    BY <1>1, <2>1 DEF SortedValues
  <2> QED BY <1>1, <1>2, <2>1, <2>2 DEF below
<1>6. first .. n \subseteq above
  <2> SUFFICES ASSUME NEW j \in first .. n PROVE j \in above
    OBVIOUS
  <2>1. j \in 1 .. n /\ first <= j
    BY <1>3
  <2>2. v[first] <= v[j]
    BY <1>3, <2>1 DEF SortedValues
  <2> QED BY <1>1, <1>2, <1>3, <1>4, <2>1, <2>2 DEF above
<1>7. IsFiniteSet(1 .. n) /\ below \in SUBSET (1 .. n) /\ above \in SUBSET (1 .. n)
  BY FS_Interval DEF below, above
<1>8. /\ IsFiniteSet(below) /\ IsFiniteSet(above)
      /\ Cardinality(below) \in Nat /\ Cardinality(above) \in Nat
  BY <1>7, FS_Subset, FS_CardinalityType
<1>9. Cardinality(1 .. i) <= Cardinality(below) /\ Cardinality(first .. n) <= Cardinality(above)
  BY <1>5, <1>6, <1>8, FS_Subset
<1>10. Cardinality(1 .. i) = i /\ Cardinality(first .. n) = n - first + 1
  <2>1. i \in Int /\ first \in Int /\ n \in Int /\ ~ (1 > i) /\ ~ (first > n)
    BY <1>1, <1>3
  <2>2. Cardinality(1 .. i) = i - 1 + 1 /\ Cardinality(first .. n) = n - first + 1
    BY <2>1, FS_Interval
  <2> QED BY <2>1, <2>2
<1>11. 2 * Cardinality(below) >= n /\ 2 * Cardinality(above) >= n
  <2>1. i \in Nat /\ first \in Nat
    BY <1>1, <1>3
  <2> QED BY <1>3, <1>8, <1>9, <1>10, <2>1
<1> QED BY <1>11 DEF below, above, p50, fifty

LEMMA ValuesSplit ==
    ASSUME NEW v, NEW n \in Nat \ {0}, SortedValues(v, n), Len(v) = n
    PROVE  Splits(v)
<1>1. /\ 2 * Cardinality({j \in 1 .. n : 100 * v[j] <= _percentile(v, 50)}) >= n
      /\ 2 * Cardinality({j \in 1 .. n : 100 * v[j] >= _percentile(v, 50)}) >= n
  BY MedianSplits
<1>2. _percentile(v, 50) <= _percentile(v, 90)
  BY PercentilesInOrder
<1>3. \A j \in 1 .. n : v[j] \in Nat /\ v[1] <= v[j] /\ v[j] <= v[n]
  BY DEF SortedValues
<1>4. 100 * v[1] <= _percentile(v, 50)
  <2> DEFINE i == Lower(n, 50)
  <2>0. 50 \in 0 .. 100
    OBVIOUS
  <2>1. i \in 1 .. n /\ 100 * v[i] <= _percentile(v, 50) /\ _percentile(v, 50) \in Nat
    BY ZenonT(60), <2>0, PercentileLies
  <2> HIDE DEF i
  <2>2. v[1] \in Nat /\ v[i] \in Nat /\ v[1] <= v[i]
    BY <1>3, <2>1
  <2> QED BY <2>1, <2>2
<1>5. _percentile(v, 90) <= 100 * v[n]
  <2> DEFINE i == Upper(n, 90)
  <2>0. 90 \in 0 .. 100
    OBVIOUS
  <2>1. i \in 1 .. n /\ _percentile(v, 90) <= 100 * v[i] /\ _percentile(v, 90) \in Nat
    BY ZenonT(60), <2>0, PercentileLies
  <2> HIDE DEF i
  <2>2. v[n] \in Nat /\ v[i] \in Nat /\ v[i] <= v[n]
    BY <1>3, <2>1
  <2> QED BY <2>1, <2>2
<1> QED BY <1>1, <1>2, <1>4, <1>5 DEF Splits

LEMMA BenchmarkSplits ==
    ASSUME peers \subseteq Peers
    PROVE  PercentilesSplitTheSample
<1> SUFFICES ASSUME NEW metric \in {"cycle", "stay"}, Values(facts, metric) # << >>
             PROVE  Splits(Values(facts, metric))
  BY DEF PercentilesSplitTheSample
<1> DEFINE v == Values(facts, metric)
<1>1. PICK n \in Nat : SortedValues(v, n) /\ Len(v) = n
  BY ValuesAreSorted
<1>2. v # << >>
  OBVIOUS
<1> HIDE DEF v
<1>3. n # 0
  BY <1>1, <1>2 DEF SortedValues
<1>4. Splits(v)
  BY <1>1, <1>3, ValuesSplit
<1> QED BY <1>4 DEF v

-----------------------------------------------------------------------------
(* The risk *)

LEMMA DelayGrows ==
    ASSUME NEW f, NEW g, f.delay \in Nat, g.delay \in Nat, f.delay <= g.delay
    PROVE  DelayScore(f) \in 0 .. 30 /\ DelayScore(f) <= DelayScore(g)
BY DEF DelayScore, AtMost

LEMMA BudgetGrows ==
    ASSUME NEW f, NEW g, f.spent \in Nat, g.spent \in Nat, f.spent <= g.spent
    PROVE  BudgetScore(f) \in 0 .. 25 /\ BudgetScore(f) <= BudgetScore(g)
<1>1. CASE TotalBudget = 0
  BY <1>1 DEF BudgetScore
<1>2. CASE TotalBudget # 0
  <2> DEFINE a == (f.spent - TotalBudget) * 100 - 10 * TotalBudget
             c == (g.spent - TotalBudget) * 100 - 10 * TotalBudget
             d == 2 * TotalBudget
             p == a \div d
             q == c \div d
  <2>1. a \in Int /\ c \in Int /\ a <= c /\ d \in Nat \ {0}
    BY <1>2, InsightAssumption
  <2>2. /\ BudgetScore(f) = IF a <= 0 THEN 0 ELSE AtMost(25, 10 + p)
        /\ BudgetScore(g) = IF c <= 0 THEN 0 ELSE AtMost(25, 10 + q)
    <3>1. TotalBudget \in Nat /\ TotalBudget # 0 /\ f.spent \in Nat /\ g.spent \in Nat
      BY <1>2, InsightAssumption
    <3>2. /\ (f.spent - TotalBudget) * 100 <= 10 * TotalBudget <=> a <= 0
          /\ (g.spent - TotalBudget) * 100 <= 10 * TotalBudget <=> c <= 0
      BY <3>1
    <3> QED BY <3>1, <3>2 DEF BudgetScore
  <2> HIDE DEF a, c, d
  <2>3. a > 0 => p \in Nat /\ p <= q /\ c > 0
    <3> SUFFICES ASSUME a > 0 PROVE p \in Nat /\ p <= q /\ c > 0
      OBVIOUS
    <3>1. a \in Nat /\ c \in Nat /\ c > 0
      BY <2>1
    <3> QED BY <2>1, <3>1, QuotientGrows
  <2>4. c > 0 => q \in Nat
    <3> SUFFICES ASSUME c > 0 PROVE q \in Nat
      OBVIOUS
    <3>1. c \in Nat
      BY <2>1
    <3> QED BY <2>1, <3>1, QuotientGrows
  <2> HIDE DEF p, q
  <2> QED BY <2>1, <2>2, <2>3, <2>4 DEF AtMost
<1> QED BY <1>1, <1>2

LEMMA OverdueGrows ==
    ASSUME NEW f, NEW g, f.overdue \in Nat, g.overdue \in Nat, f.tasks \in Nat,
           g.tasks = f.tasks, f.overdue <= g.overdue
    PROVE  /\ OverdueScore(f) \in 0 .. 25 /\ OverdueScore(f) <= OverdueScore(g)
           /\ f.overdue = f.tasks /\ f.tasks > 0 => OverdueScore(f) = 25
<1>1. CASE f.tasks = 0
  BY <1>1 DEF OverdueScore
<1>2. CASE f.tasks # 0
  <2> DEFINE a == f.overdue * 40
             c == g.overdue * 40
             d == f.tasks
             p == a \div d
             q == c \div d
  <2>1. a \in Nat /\ c \in Nat /\ a <= c /\ d \in Nat \ {0}
    BY <1>2
  <2>2. /\ OverdueScore(f) = IF f.overdue = 0 THEN 0 ELSE AtMost(25, AtLeast(5, p))
        /\ OverdueScore(g) = IF g.overdue = 0 THEN 0 ELSE AtMost(25, AtLeast(5, q))
    BY <1>2 DEF OverdueScore
  <2>3. f.overdue = f.tasks => p = 40
    BY <2>1, QuotientOfProduct
  <2> HIDE DEF a, c, d
  <2>4. p \in Nat /\ p <= q /\ q \in Nat
    <3>1. p \in Nat /\ p <= q
      BY <2>1, QuotientGrows
    <3>2. q \in Nat
      BY <2>1, QuotientGrows
    <3> QED BY <3>1, <3>2
  <2> HIDE DEF p, q
  <2> QED BY <1>2, <2>2, <2>3, <2>4 DEF AtMost, AtLeast
<1> QED BY <1>1, <1>2

\* A percentile of a sample with values is a number.
LEMMA LimitIsNumber ==
    ASSUME peers \subseteq Peers, NEW f, NEW metric \in {"cycle", "stay"},
           Values(f, metric) # << >>
    PROVE  _percentile(Values(f, metric), 90) \in Nat
<1> DEFINE v == Values(f, metric)
<1>1. PICK n \in Nat : SortedValues(v, n) /\ Len(v) = n
  BY ValuesAreSorted
<1>2. v # << >>
  OBVIOUS
<1> HIDE DEF v
<1>3. n # 0
  BY <1>1, <1>2 DEF SortedValues
<1>4. _percentile(v, 90) \in Nat
  BY <1>1, <1>3, PercentileLies
<1> QED BY <1>4 DEF v

\* A larger sum of as many days stays above the limit.
LEMMA AboveGrows ==
    ASSUME peers \subseteq Peers, NEW f, NEW g, g.dept = f.dept, g.kind = f.kind,
           NEW metric \in {"cycle", "stay"}, NEW sum \in Nat, NEW more \in Nat, sum <= more,
           NEW number \in Nat, AboveP90(f, metric, sum, number)
    PROVE  AboveP90(g, metric, more, number)
<1> DEFINE limit == _percentile(Values(f, metric), 90)
<1>1. Sampled(g) = Sampled(f)
  BY DEF Sampled, Sample
<1>2. Values(g, metric) = Values(f, metric) /\ (Ready(g) <=> Ready(f))
  BY <1>1 DEF Values, Ready
<1>3. /\ number > 0 /\ Ready(f) /\ Values(f, metric) # << >>
      /\ sum * 100 > number * limit
  BY DEF AboveP90
<1>4. limit \in Nat
  BY <1>3, LimitIsNumber
<1> HIDE DEF limit
<1>5. number * limit \in Nat
  BY <1>4, ProductGrows
<1> DEFINE product == number * limit
<1> HIDE DEF product
<1>6. more * 100 > product
  <2>1. product \in Nat /\ sum * 100 > product
    BY <1>3, <1>5 DEF product
  <2> QED BY <2>1
<1> QED BY <1>2, <1>3, <1>6 DEF AboveP90, limit, product

LEMMA CycleGrows ==
    ASSUME peers \subseteq Peers,
           NEW f, NEW g, f.cycle \in Nat, g.cycle \in Nat, f.cycle <= g.cycle,
           g.dept = f.dept, g.kind = f.kind
    PROVE  CycleScore(f) \in 0 .. 10 /\ CycleScore(f) <= CycleScore(g)
<1>1. AboveP90(f, "cycle", f.cycle, 1) => AboveP90(g, "cycle", g.cycle, 1)
  BY AboveGrows
<1> QED BY <1>1 DEF CycleScore

LEMMA StayGrows ==
    ASSUME peers \subseteq Peers,
           NEW f, NEW g, f.stayed \in Nat, g.stayed \in Nat, f.stayed <= g.stayed,
           f.finished \in Nat, g.finished = f.finished,
           g.dept = f.dept, g.kind = f.kind
    PROVE  StayScore(f) \in 0 .. 10 /\ StayScore(f) <= StayScore(g)
<1>1. AboveP90(f, "stay", f.stayed, f.finished) => AboveP90(g, "stay", g.stayed, f.finished)
  BY AboveGrows
<1> QED BY <1>1 DEF StayScore

\* The score of facts that are no better.
LEMMA ScoreGrows ==
    ASSUME peers \subseteq Peers,
           NEW f, NEW g,
           f.delay \in Nat, f.spent \in Nat, f.overdue \in Nat, f.tasks \in Nat, f.cycle \in Nat,
           f.finished \in Nat, f.stayed \in Nat, g.stayed \in Nat, f.stayed <= g.stayed,
           g.finished = f.finished,
           g.delay \in Nat, g.spent \in Nat, g.overdue \in Nat, g.cycle \in Nat,
           f.delay <= g.delay, f.spent <= g.spent, f.overdue <= g.overdue, f.cycle <= g.cycle,
           g.tasks = f.tasks, g.dept = f.dept, g.kind = f.kind
    PROVE  /\ score(f) \in 0 .. 100
           /\ score(g) >= score(f) /\ _level(score(g)) >= _level(score(f))
<1>1. DelayScore(f) \in 0 .. 30 /\ DelayScore(g) \in 0 .. 30 /\ DelayScore(f) <= DelayScore(g)
  BY DelayGrows
<1>2. BudgetScore(f) \in 0 .. 25 /\ BudgetScore(g) \in 0 .. 25 /\ BudgetScore(f) <= BudgetScore(g)
  BY BudgetGrows
<1>3. /\ OverdueScore(f) \in 0 .. 25 /\ OverdueScore(g) \in 0 .. 25
      /\ OverdueScore(f) <= OverdueScore(g)
  BY OverdueGrows
<1>4. CycleScore(f) \in 0 .. 10 /\ CycleScore(g) \in 0 .. 10 /\ CycleScore(f) <= CycleScore(g)
  <2>1. CycleScore(f) \in 0 .. 10 /\ CycleScore(f) <= CycleScore(g)
    BY CycleGrows
  <2>2. CycleScore(g) \in 0 .. 10
    <3>1. g.cycle <= g.cycle
      OBVIOUS
    <3> QED BY <3>1, CycleGrows
  <2> QED BY <2>1, <2>2
<1>s. StayScore(f) \in 0 .. 10 /\ StayScore(g) \in 0 .. 10 /\ StayScore(f) <= StayScore(g)
  <2>1. StayScore(f) \in 0 .. 10 /\ StayScore(f) <= StayScore(g)
    BY StayGrows
  <2>2. StayScore(g) \in 0 .. 10
    BY DEF StayScore
  <2> QED BY <2>1, <2>2
<1>5. score(f) \in 0 .. 100 /\ score(g) \in 0 .. 100 /\ score(f) <= score(g)
  <2> DEFINE x == DelayScore(f) + BudgetScore(f) + OverdueScore(f) + CycleScore(f) + StayScore(f)
             y == DelayScore(g) + BudgetScore(g) + OverdueScore(g) + CycleScore(g) + StayScore(g)
  <2>1. x \in Nat /\ y \in Nat /\ x <= y
    <3>1. ASSUME NEW a \in Nat, NEW b \in Nat, NEW c \in Nat, NEW d \in Nat,
                 NEW i \in Nat, NEW k \in Nat, NEW m \in Nat, NEW n \in Nat,
                 NEW e \in Nat, NEW o \in Nat, a <= i, b <= k, c <= m, d <= n, e <= o
          PROVE  /\ a + b + c + d + e \in Nat /\ i + k + m + n + o \in Nat
                 /\ a + b + c + d + e <= i + k + m + n + o
      BY <3>1
    <3>2. /\ DelayScore(f) \in Nat /\ BudgetScore(f) \in Nat
          /\ OverdueScore(f) \in Nat /\ CycleScore(f) \in Nat
          /\ StayScore(f) \in Nat /\ StayScore(g) \in Nat
          /\ DelayScore(g) \in Nat /\ BudgetScore(g) \in Nat
          /\ OverdueScore(g) \in Nat /\ CycleScore(g) \in Nat
      BY <1>1, <1>2, <1>3, <1>4, <1>s
    <3> QED BY ONLY <1>1, <1>2, <1>3, <1>4, <1>s, <3>1, <3>2
  <2>2. score(f) = AtMost(100, x) /\ score(g) = AtMost(100, y)
    BY DEF score
  <2> HIDE DEF x, y
  <2> QED BY <2>1, <2>2 DEF AtMost
<1>6. _level(score(g)) >= _level(score(f))
  <2> DEFINE x == score(f)
             y == score(g)
  <2> HIDE DEF x, y
  <2>1. x \in Nat /\ y \in Nat /\ x <= y
    BY <1>5 DEF x, y
  <2>2. \A points \in Nat :
          /\ points >= 80 => _level(points) = 3
          /\ points >= 60 /\ points < 80 => _level(points) = 2
          /\ points >= 30 /\ points < 60 => _level(points) = 1
          /\ points < 30 => _level(points) = 0
    BY DEF _level
  <2>3. _level(y) >= _level(x)
    BY <2>1, <2>2
  <2> QED BY <2>3 DEF x, y
<1> QED BY <1>5, <1>6

LEMMA RiskGrows ==
    ASSUME InsightIInv
    PROVE  RiskIsMonotone /\ score(facts) \in 0 .. 100
<1>1. /\ facts \in [delay : 0 .. MaxDelay, spent : 0 .. MaxSpent, tasks : 0 .. MaxTasks,
                    overdue : 0 .. MaxTasks, cycle : Nat, finished : 0 .. MaxPhases, stayed : Nat,
                    dept : {"d1"}, kind : {"k1", "none"}]
      /\ peers \subseteq Peers
  BY DEF InsightIInv, Facts
<1>2. /\ facts.delay \in Nat /\ facts.spent \in Nat /\ facts.overdue \in Nat
      /\ facts.tasks \in Nat /\ facts.cycle \in Nat
      /\ facts.finished \in Nat /\ facts.stayed \in Nat
  BY <1>1, InsightAssumption
<1>3. score(facts) \in 0 .. 100
  <2>1. /\ facts.delay <= facts.delay /\ facts.spent <= facts.spent
        /\ facts.overdue <= facts.overdue /\ facts.cycle <= facts.cycle
        /\ facts.stayed <= facts.stayed
    BY <1>2
  <2> QED BY <1>1, <1>2, <2>1, ScoreGrows
<1>4. ASSUME NEW worse \in WorseFacts
      PROVE  score(worse) >= score(facts) /\ _level(score(worse)) >= _level(score(facts))
  <2>1. /\ worse.delay \in Nat /\ worse.spent \in Nat /\ worse.overdue \in Nat /\ worse.cycle \in Nat
        /\ facts.delay <= worse.delay /\ facts.spent <= worse.spent
        /\ facts.overdue <= worse.overdue /\ facts.cycle <= worse.cycle
        /\ worse.stayed \in Nat /\ facts.stayed <= worse.stayed
        /\ worse.finished = facts.finished
        /\ worse.tasks = facts.tasks /\ worse.dept = facts.dept /\ worse.kind = facts.kind
    <3>1. \/ worse = [facts EXCEPT !.delay = @ + DayStep, !.cycle = @ + DayStep]
          \/ worse = [facts EXCEPT !.spent = @ + MoneyStep]
          \/ worse = [facts EXCEPT !.overdue = @ + 1]
          \/ worse = [facts EXCEPT !.stayed = @ + DayStep]
      BY <1>4 DEF WorseFacts
    <3>2. CASE worse = [facts EXCEPT !.delay = @ + DayStep, !.cycle = @ + DayStep]
      BY <1>1, <1>2, <3>2, InsightAssumption
    <3>3. CASE worse = [facts EXCEPT !.spent = @ + MoneyStep]
      BY <1>1, <1>2, <3>3, InsightAssumption
    <3>4. CASE worse = [facts EXCEPT !.overdue = @ + 1]
      BY <1>1, <1>2, <3>4, InsightAssumption
    <3>5. CASE worse = [facts EXCEPT !.stayed = @ + DayStep]
      BY <1>1, <1>2, <3>5, InsightAssumption
    <3> QED BY <3>1, <3>2, <3>3, <3>4, <3>5
  <2> QED BY <1>1, <1>2, <2>1, ScoreGrows
<1>5. facts.overdue = facts.tasks /\ facts.tasks > 0 => OverdueScore(facts) = 25
  <2>1. facts.overdue <= facts.overdue
    BY <1>2
  <2> QED BY <1>2, <2>1, OverdueGrows
<1> QED BY <1>3, <1>4, <1>5 DEF RiskIsMonotone

\* Every variable keeps to its type, and the score is one of 0 to 100
\* (project_risk.py).
THEOREM InsightTypeCorrect == InsightSpec => []InsightTypeOK
<1>1. InsightIInv => InsightTypeOK
  BY RiskGrows DEF InsightIInv, InsightTypeOK
<1> QED BY <1>1, InsightInductive, PTL

\* Days, payments, overdue tasks and slow phases never lower the score or the level, and
\* the percentiles of the benchmark split the sample as they should
\* (project_risk.py, project_benchmarks.py).
THEOREM InsightSound == InsightSpec => []InsightIsSound
<1>1. InsightIInv => InsightIsSound
  BY RiskGrows, BenchmarkSplits DEF InsightIInv, InsightIsSound
<1> QED BY <1>1, InsightInductive, PTL

-----------------------------------------------------------------------------
(***************************************************************************)
(* The components side by side: each of them takes its own steps or rests, *)
(* so what is proved of its specification holds in all of the system.      *)
(***************************************************************************)

LEMMA UsersNotify == UsersSpec => NotifySpec
<1>1. UsersInit => NotifyInit
  BY DEF UsersInit
<1>2. [UsersNext]_usersVars => [NotifyNext]_notifyVars
  BY DEF UsersNext, OthersRest, usersVars
<1> QED BY <1>1, <1>2, PTL DEF UsersSpec, NotifySpec

LEMMA UsersDelivery == UsersSpec => DeliverySpec
<1>1. UsersInit => DeliveryInit
  BY DEF UsersInit
<1>2. [UsersNext]_usersVars => [DeliveryNext]_deliveryVars
  BY DEF UsersNext, OthersRest, usersVars
<1> QED BY <1>1, <1>2, PTL DEF UsersSpec, DeliverySpec

LEMMA UsersAccount == UsersSpec => AccountSpec
<1>1. UsersInit => AccountInit
  BY DEF UsersInit
<1>2. [UsersNext]_usersVars => [AccountNext]_accountVars
  BY DEF UsersNext, OthersRest, usersVars
<1> QED BY <1>1, <1>2, PTL DEF UsersSpec, AccountSpec

LEMMA UsersPermission == UsersSpec => PermissionSpec
<1>1. UsersInit => PermissionInit
  BY DEF UsersInit
<1>2. [UsersNext]_usersVars => [PermissionNext]_permissionVars
  BY DEF UsersNext, OthersRest, usersVars
<1> QED BY <1>1, <1>2, PTL DEF UsersSpec, PermissionSpec

LEMMA UsersKey == UsersSpec => KeySpec
<1>1. UsersInit => KeyInit
  BY DEF UsersInit
<1>2. [UsersNext]_usersVars => [KeyNext]_keyVars
  BY DEF UsersNext, OthersRest, usersVars
<1> QED BY <1>1, <1>2, PTL DEF UsersSpec, KeySpec

LEMMA UsersDept == UsersSpec => DeptSpec
<1>1. UsersInit => DeptInit
  BY DEF UsersInit
<1>2. [UsersNext]_usersVars => [DeptNext]_deptVars
  BY DEF UsersNext, OthersRest, usersVars
<1> QED BY <1>1, <1>2, PTL DEF UsersSpec, DeptSpec

\* NotifiedAsPromised: notifications, digests and deliveries of the running system.
THEOREM UsersAreNotifiedAsPromised == UsersSpec => []NotifiedAsPromised
BY UsersNotify, UsersDelivery, DigestsListWhatTheyMark, OneSessionSendsOutside,
   DeadLettersAreEarned, PTL DEF NotifiedAsPromised

\* AdministrationHolds: roles, API keys and departments of the running system.
THEOREM UsersAreAdministered == UsersSpec => []AdministrationHolds
BY UsersPermission, UsersKey, UsersDept, RolesHaveWhatWasAsked, DeadKeysLetNobodyIn,
   OnlyLateJoinersAreStranded, PTL DEF AdministrationHolds

\* AccessEndsAndReturns: accounts and tokens of the running system.
THEOREM UsersAccessIsRightlyEnded == UsersSpec => []AccessEndsAndReturns
BY UsersAccount, AccessIsRightlyEnded, PTL

LEMMA UsersOAuth == UsersSpec => OAuthSpec
<1>1. UsersInit => OAuthInit
  BY DEF UsersInit
<1>2. [UsersNext]_usersVars => [OAuthNext]_oauthVars
  BY DEF UsersNext, OthersRest, usersVars
<1> QED BY <1>1, <1>2, PTL DEF UsersSpec, OAuthSpec

LEMMA UsersDash == UsersSpec => DashSpec
<1>1. UsersInit => DashInit
  BY DEF UsersInit
<1>2. [UsersNext]_usersVars => [DashNext]_dashVars
  BY DEF UsersNext, OthersRest, usersVars
<1> QED BY <1>1, <1>2, PTL DEF UsersSpec, DashSpec

LEMMA UsersReport == UsersSpec => ReportSpec
<1>1. UsersInit => ReportInit
  BY DEF UsersInit
<1>2. [UsersNext]_usersVars => [ReportNext]_reportVars
  BY DEF UsersNext, OthersRest, usersVars
<1> QED BY <1>1, <1>2, PTL DEF UsersSpec, ReportSpec

\* ReportRunsAreExact: scheduled reports of the running system.
THEOREM UsersReportsRunExactly == UsersSpec => []ReportRunsAreExact
BY UsersReport, ReportsRunExactly, PTL

\* SignedInAsOwner: sign-ins of the running system.
THEOREM UsersSignInAsOwners == UsersSpec => SignedInAsOwner
BY UsersOAuth, SignInsBindTheirIdentity, PTL

\* HandedOverDisappears: dashboards of the running system.
THEOREM UsersDashboardsForget == UsersSpec => []HandedOverDisappears
BY UsersDash, DashboardsForget, PTL

LEMMA UsersTable == UsersSpec => TableSpec
<1>1. UsersInit => TableInit
  BY DEF UsersInit
<1>2. [UsersNext]_usersVars => [TableNext]_tableVars
  BY DEF UsersNext, OthersRest, usersVars
<1> QED BY <1>1, <1>2, PTL DEF UsersSpec, TableSpec

LEMMA UsersQuery == UsersSpec => QuerySpec
<1>1. UsersInit => QueryInit
  BY DEF UsersInit
<1>2. [UsersNext]_usersVars => [QueryNext]_queryVars
  BY DEF UsersNext, OthersRest, usersVars
<1> QED BY <1>1, <1>2, PTL DEF UsersSpec, QuerySpec

LEMMA UsersInsight == UsersSpec => InsightSpec
<1>1. UsersInit => InsightInit
  BY DEF UsersInit
<1>2. [UsersNext]_usersVars => [InsightNext]_insightVars
  BY DEF UsersNext, OthersRest, usersVars
<1> QED BY <1>1, <1>2, PTL DEF UsersSpec, InsightSpec

\* ReportsAgree: the tables of a snapshot (reports.py) and the queries of one
\* user (report_query_compiler.py), in the running system.
THEOREM UsersReportsAgree == UsersSpec => []ReportsAgree
BY UsersTable, UsersQuery, TablesOfASnapshotAgree, ReportsOfOneUserAgree, PTL DEF ReportsAgree

\* InsightIsSound: scores and benchmarks of the running system.
THEOREM UsersInsightIsSound == UsersSpec => []InsightIsSound
BY UsersInsight, InsightSound, PTL

\* UsersTypeOK: every variable of every component of the running system keeps
\* to its type.
THEOREM UsersTypeCorrect == UsersSpec => []UsersTypeOK
<1>1. UsersSpec => [](NotifyTypeOK /\ DeliveryTypeOK /\ AccountTypeOK /\ OAuthTypeOK)
  BY UsersNotify, UsersDelivery, UsersAccount, UsersOAuth, NotificationsTypeCorrect,
     DeliveriesTypeCorrect, AccountsTypeCorrect, BindingsStayUnique, PTL
<1>2. UsersSpec => [](PermissionTypeOK /\ KeyTypeOK /\ DeptTypeOK /\ ReportTypeOK)
  BY UsersPermission, UsersKey, UsersDept, UsersReport, PermissionsTypeCorrect,
     KeysTypeCorrect, DepartmentsTypeCorrect, ReportsTypeCorrect, PTL
<1>3. UsersSpec => [](TableTypeOK /\ QueryTypeOK /\ DashTypeOK /\ InsightTypeOK)
  BY UsersTable, UsersQuery, UsersDash, UsersInsight, TablesTypeCorrect,
     QueriesTypeCorrect, DashboardsTypeCorrect, InsightTypeCorrect, PTL
<1>4. /\ NotifyTypeOK /\ DeliveryTypeOK /\ AccountTypeOK /\ OAuthTypeOK
      /\ PermissionTypeOK /\ KeyTypeOK /\ DeptTypeOK /\ ReportTypeOK
      /\ TableTypeOK /\ QueryTypeOK /\ DashTypeOK /\ InsightTypeOK
      => UsersTypeOK
  BY DEF UsersTypeOK
<1> QED BY <1>1, <1>2, <1>3, <1>4, PTL

=============================================================================
