------------------------------ MODULE ApiKeys ------------------------------
(***************************************************************************)
(* API keys of the external interface (services/api_keys.py,               *)
(* api/external/v1/deps.py).  Using a key and revoking it both take the    *)
(* row FOR UPDATE and read the clock while they hold it.                   *)
(***************************************************************************)
EXTENDS Integers

CONSTANTS
    ApiKeyIds,    \* keys that may be created
    KeyJobs,      \* sessions
    LastKeyTick,  \* bound: last tick of the clock
    KeyLifetimes, \* ticks to expires_at an administrator chooses
    NoKeyTick     \* NULL

ASSUME ApiKeysAssumption ==
    LastKeyTick \in Nat /\ KeyLifetimes \subseteq Int /\ NoKeyTick \notin Int

VARIABLES
    apiKey,    \* [created keys -> ApiKeyRow]
    keyLock,   \* [keys locked -> session that holds the row]
    keyJob,
    keyClock

keyVars == <<apiKey, keyLock, keyJob, keyClock>>

KeyTicks == 0..LastKeyTick
ApiKeyRow == [expires_at : Int \cup {NoKeyTick}, last_used_at : KeyTicks \cup {NoKeyTick},
              revoked_at : KeyTicks \cup {NoKeyTick}]

NoKeyJob == [op |-> "idle"]

KeyIsLocked(k) == k \in DOMAIN keyLock
Unlocked(k) == [l \in DOMAIN keyLock \ {k} |-> keyLock[l]]
Locked(k, s) == [l \in DOMAIN keyLock \cup {k} |-> IF l = k THEN s ELSE keyLock[l]]

\* create_key; with a lifetime, or without.
create_key(k, life) ==
    /\ k \notin DOMAIN apiKey
    /\ apiKey' = [l \in DOMAIN apiKey \cup {k} |->
          IF l = k THEN [expires_at |-> IF life = NoKeyTick THEN life ELSE keyClock + life,
                         last_used_at |-> NoKeyTick, revoked_at |-> NoKeyTick]
          ELSE apiKey[l]]
    /\ UNCHANGED <<keyLock, keyJob, keyClock>>

\* get_by_hash_for_update and get_by_id_for_update: the row as it is once
\* the lock is granted.
KeyWithoutLock(s, k, op) ==
    /\ keyJob[s] = NoKeyJob
    /\ k \in DOMAIN apiKey
    /\ keyJob' = [keyJob EXCEPT ![s] = [op |-> op, key |-> k, row |-> apiKey[k]]]
    /\ UNCHANGED <<apiKey, keyLock, keyClock>>

get_for_update(s, k, op) ==
    /\ keyJob[s] = NoKeyJob
    /\ k \in DOMAIN apiKey /\ ~KeyIsLocked(k)
    /\ keyLock' = Locked(k, s)
    /\ keyJob' = [keyJob EXCEPT ![s] = [op |-> op, key |-> k, row |-> apiKey[k]]]
    /\ UNCHANGED <<apiKey, keyClock>>

\* authenticate: refuse a revoked or expired key, else note the use.
authenticate(s) ==
    LET j == keyJob[s]
        usable == /\ j.row.revoked_at = NoKeyTick
                  /\ j.row.expires_at = NoKeyTick \/ j.row.expires_at > keyClock
    IN  /\ j.op = "use"
        /\ apiKey' = IF usable THEN [apiKey EXCEPT ![j.key].last_used_at = keyClock] ELSE apiKey
        /\ keyLock' = Unlocked(j.key)
        /\ keyJob' = [keyJob EXCEPT ![s] = NoKeyJob]
        /\ UNCHANGED keyClock

\* revoke_key: the first revocation counts.
revoke_key(s) ==
    LET j == keyJob[s]
    IN  /\ j.op = "revoke"
        /\ apiKey' = IF j.row.revoked_at = NoKeyTick
                     THEN [apiKey EXCEPT ![j.key].revoked_at = keyClock] ELSE apiKey
        /\ keyLock' = Unlocked(j.key)
        /\ keyJob' = [keyJob EXCEPT ![s] = NoKeyJob]
        /\ UNCHANGED keyClock

KeyTick ==
    /\ keyClock < LastKeyTick
    /\ keyClock' = keyClock + 1
    /\ UNCHANGED <<apiKey, keyLock, keyJob>>

KeyInit ==
    /\ apiKey = [k \in {} |-> NoKeyTick]
    /\ keyLock = [k \in {} |-> NoKeyTick]
    /\ keyJob = [s \in KeyJobs |-> NoKeyJob]
    /\ keyClock = 0

KeyNext ==
    \/ \E k \in ApiKeyIds, life \in KeyLifetimes \cup {NoKeyTick} : create_key(k, life)
    \/ \E s \in KeyJobs :
          \/ \E k \in ApiKeyIds, op \in {"use", "revoke"} : get_for_update(s, k, op)
          \/ authenticate(s) \/ revoke_key(s)
    \/ KeyTick

KeySpec == KeyInit /\ [][KeyNext]_keyVars

-----------------------------------------------------------------------------
(* Properties *)

\* Every variable keeps to its type.
KeyTypeOK ==
    /\ DOMAIN apiKey \subseteq ApiKeyIds
    /\ \A k \in DOMAIN apiKey : apiKey[k] \in ApiKeyRow
    /\ DOMAIN keyLock \subseteq DOMAIN apiKey
    /\ keyClock \in KeyTicks

\* No call is let in by a key after its revocation or from its expiry on,
\* however the two calls interleave.
NotUsedWhenDead ==
    \A k \in DOMAIN apiKey :
        apiKey[k].last_used_at # NoKeyTick =>
            /\ apiKey[k].revoked_at = NoKeyTick \/ apiKey[k].last_used_at <= apiKey[k].revoked_at
            /\ apiKey[k].expires_at = NoKeyTick \/ apiKey[k].last_used_at < apiKey[k].expires_at
=============================================================================
