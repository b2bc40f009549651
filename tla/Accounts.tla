------------------------------ MODULE Accounts ------------------------------
(***************************************************************************)
(* One account, its tokens and its failed logins: services/auth.py,        *)
(* services/users.py, core/deps.py and the routers over them.  Accounts do *)
(* not interact, so one is enough.                                         *)
(*                                                                         *)
(* The clock counts seconds.  Redis holds the revocation mark and the      *)
(* counter of failures, each with an expiry; PostgreSQL holds the row.  A  *)
(* key set with a TTL at second t is gone from second t + TTL on, while    *)
(* the JWT library still takes a token in the second of its exp.           *)
(***************************************************************************)
EXTENDS Integers, FiniteSets

CONSTANTS
    AccountJobs,          \* sessions
    AccessTTL,            \* jwt_access_token_expire_minutes
    RefreshTTL,           \* jwt_refresh_token_expire_days
    AUTH_FAILURE_LIMIT,
    AUTH_FAILURE_TTL,     \* AUTH_FAILURE_TTL_SECONDS
    LastSecond,           \* bound: last second of the clock
    MaxTokens             \* bound: tokens issued

ASSUME AccountsAssumption ==
    /\ AccessTTL \in Nat \ {0} /\ RefreshTTL \in Nat /\ AccessTTL <= RefreshTTL
    /\ AUTH_FAILURE_LIMIT \in Nat \ {0} /\ AUTH_FAILURE_TTL \in Nat \ {0}
    /\ LastSecond \in Nat /\ MaxTokens \in Nat /\ IsFiniteSet(AccountJobs)

VARIABLES
    account,     \* the row of users: status, sso_required
    revokeMark,  \* auth:user_revoked_after: [at, until], NoMark without one
    failures,    \* auth:fail: [count, until]; until = NoExpiry: no TTL
    tokens,      \* every token handed out
    blacklist,   \* auth:blacklist: tokens logged out
    accountJob,  \* what each session is doing, with what it has read
    second,
    lastRevoked, \* history: latest second a mark was written for, -1 before
    orphaned     \* history: a session died between INCR and EXPIRE

accountVars == <<account, revokeMark, failures, tokens, blacklist, accountJob,
                 second, lastRevoked, orphaned>>

UserStatus == {"active", "disabled", "password_reset_required"}
LOGIN_ALLOWED_STATUSES == {"active", "password_reset_required"}

NoMark == [at |-> -1, until |-> -1]
NoExpiry == -1
NoJobAccount == [op |-> "idle"]

\* The claims of create_jwt_token: iat and exp in whole seconds.
Token == [kind : {"access", "refresh"}, iat : 0..LastSecond,
          exp : 0..LastSecond + RefreshTTL, jti : 1..MaxTokens]

create_jwt_token(kind, jti) ==
    [kind |-> kind, iat |-> second, jti |-> jti,
     exp |-> second + IF kind = "access" THEN AccessTTL ELSE RefreshTTL]

create_auth_tokens ==
    LET n == Cardinality(tokens)
    IN  {create_jwt_token("access", n + 1), create_jwt_token("refresh", n + 2)}

get_user_revoked_after == IF second < revokeMark.until THEN revokeMark.at ELSE -1

get_fail_count ==
    IF failures.until = NoExpiry \/ second < failures.until THEN failures.count ELSE 0

\* decode_jwt_token refuses an expired token, the blacklist one that was
\* logged out, the mark every token issued up to its second.
validate_token_claims(tk, kind) ==
    /\ second <= tk.exp
    /\ tk.kind = kind
    /\ tk \notin blacklist
    /\ tk.iat > get_user_revoked_after

get_active_user == account.status \in LOGIN_ALLOWED_STATUSES

\* get_current_token_context, before every call of the API.
get_current_token_context(tk) == validate_token_claims(tk, "access") /\ get_active_user

Free(s) == accountJob[s] = NoJobAccount
Begin(s, j) == accountJob' = [accountJob EXCEPT ![s] = j]
Done(s) == accountJob' = [accountJob EXCEPT ![s] = NoJobAccount]

-----------------------------------------------------------------------------
(* Logging in and out *)

\* Mutant of LoginCheck: the counter is not asked.
LoginCheckUncounted(s, right) ==
    /\ Free(s)
    /\ get_active_user /\ ~account.sso
    /\ Begin(s, [op |-> IF right THEN "succeed" ELSE "fail"])
    /\ UNCHANGED <<account, revokeMark, failures, tokens, blacklist, second,
                   lastRevoked, orphaned>>

\* authenticate_user up to the password check, whose outcome is right.
LoginCheck(s, right) ==
    /\ Free(s)
    /\ get_active_user /\ ~account.sso
    /\ get_fail_count < AUTH_FAILURE_LIMIT
    /\ Begin(s, [op |-> IF right THEN "succeed" ELSE "fail"])
    /\ UNCHANGED <<account, revokeMark, failures, tokens, blacklist, second,
                   lastRevoked, orphaned>>

\* INCR of the counter; the first failure goes on to give it a TTL.
increment_fail_count(s) ==
    /\ accountJob[s].op = "fail"
    /\ failures' = [count |-> get_fail_count + 1,
                    until |-> IF get_fail_count = 0 THEN NoExpiry ELSE failures.until]
    /\ IF get_fail_count = 0 THEN Begin(s, [op |-> "expire"]) ELSE Done(s)
    /\ UNCHANGED <<account, revokeMark, tokens, blacklist, second, lastRevoked, orphaned>>

\* EXPIRE, on a key another session may have deleted meanwhile.
ExpireFailures(s) ==
    /\ accountJob[s].op = "expire"
    /\ failures' = IF get_fail_count > 0
                   THEN [failures EXCEPT !.until = second + AUTH_FAILURE_TTL] ELSE failures
    /\ Done(s)
    /\ UNCHANGED <<account, revokeMark, tokens, blacklist, second, lastRevoked, orphaned>>

\* reset_fail_count, then the tokens.
LoginSucceeds(s) ==
    /\ accountJob[s].op = "succeed"
    /\ Cardinality(tokens) + 2 <= MaxTokens
    /\ failures' = [count |-> 0, until |-> NoExpiry]
    /\ tokens' = tokens \cup create_auth_tokens
    /\ Done(s)
    /\ UNCHANGED <<account, revokeMark, blacklist, second, lastRevoked, orphaned>>

\* POST /auth/refresh up to the check of the user, and the new access token.
RefreshCheck(s, tk) ==
    /\ Free(s)
    /\ validate_token_claims(tk, "refresh") /\ get_active_user
    /\ Begin(s, [op |-> "refresh"])
    /\ UNCHANGED <<account, revokeMark, failures, tokens, blacklist, second,
                   lastRevoked, orphaned>>

create_access_token(s) ==
    /\ accountJob[s].op = "refresh"
    /\ Cardinality(tokens) < MaxTokens
    /\ tokens' = tokens \cup {create_jwt_token("access", Cardinality(tokens) + 1)}
    /\ Done(s)
    /\ UNCHANGED <<account, revokeMark, failures, blacklist, second, lastRevoked, orphaned>>

\* POST /auth/logout: the access token is blacklisted for what is left of its
\* life; with nothing left blacklist_jti writes nothing.
logout(tk) ==
    /\ get_current_token_context(tk)
    /\ tk.exp > second
    /\ blacklist' = blacklist \cup {tk}
    /\ UNCHANGED <<account, revokeMark, failures, tokens, accountJob, second,
                   lastRevoked, orphaned>>

-----------------------------------------------------------------------------
(* Users: a status is assigned, the tokens revoked in redis, then the commit *)

\* An assignment of the value just read writes no column.
Assign(s, from, to) ==
    Begin(s, [op |-> "revoke", to |-> IF from = to THEN "unchanged" ELSE to])

disable_user(s) ==
    /\ Free(s)
    /\ Assign(s, account.status, "disabled")
    /\ UNCHANGED <<account, revokeMark, failures, tokens, blacklist, second,
                   lastRevoked, orphaned>>

reset_password(s) ==
    /\ Free(s)
    /\ Assign(s, account.status, "password_reset_required")
    /\ UNCHANGED <<account, revokeMark, failures, tokens, blacklist, second,
                   lastRevoked, orphaned>>

change_own_password(s, tk) ==
    /\ Free(s)
    /\ get_current_token_context(tk)
    /\ Assign(s, account.status, "active")
    /\ UNCHANGED <<account, revokeMark, failures, tokens, blacklist, second,
                   lastRevoked, orphaned>>

\* _revoke_user_tokens: the clock is read for the mark.
ReadClock(s) ==
    LET j == accountJob[s]
    IN  /\ j.op = "revoke"
        /\ Begin(s, [op |-> "setex", to |-> j.to, at |-> second])
        /\ UNCHANGED <<account, revokeMark, failures, tokens, blacklist, second,
                       lastRevoked, orphaned>>

\* SETEX of the mark; its time to live starts now.
SetMark(s, ttl) ==
    LET j == accountJob[s]
    IN  /\ j.op = "setex"
        /\ revokeMark' = [at |-> j.at, until |-> second + ttl]
        /\ lastRevoked' = IF j.at > lastRevoked THEN j.at ELSE lastRevoked
        /\ Begin(s, [op |-> "commit", to |-> j.to])
        /\ UNCHANGED <<account, failures, tokens, blacklist, second, orphaned>>

\* Mutant of revoke_user_tokens: the mark lives as long as an access token.
RevokeForAccessTime(s) == SetMark(s, AccessTTL)

\* With the TTL of get_token_revoke_ttl_seconds.
revoke_user_tokens(s) == SetMark(s, RefreshTTL)

CommitStatus(s) ==
    LET j == accountJob[s]
    IN  /\ j.op = "commit"
        /\ account' = IF j.to = "unchanged" THEN account ELSE [account EXCEPT !.status = j.to]
        /\ Done(s)
        /\ UNCHANGED <<revokeMark, failures, tokens, blacklist, second, lastRevoked, orphaned>>

\* update_user, the sso_required column of it.
update_user(sso) ==
    /\ account.sso # sso
    /\ account' = [account EXCEPT !.sso = sso]
    /\ UNCHANGED <<revokeMark, failures, tokens, blacklist, accountJob, second,
                   lastRevoked, orphaned>>

-----------------------------------------------------------------------------

\* The process of a session dies; what redis has is kept.
AccountJobDies(s) ==
    /\ ~Free(s)
    /\ Done(s)
    /\ orphaned' = (orphaned \/ accountJob[s].op = "expire")
    /\ UNCHANGED <<account, revokeMark, failures, tokens, blacklist, second, lastRevoked>>

NextSecond ==
    /\ second < LastSecond
    /\ second' = second + 1
    /\ UNCHANGED <<account, revokeMark, failures, tokens, blacklist, accountJob,
                   lastRevoked, orphaned>>

AccountInit ==
    /\ account = [status |-> "active", sso |-> FALSE]
    /\ revokeMark = NoMark
    /\ failures = [count |-> 0, until |-> NoExpiry]
    /\ tokens = {} /\ blacklist = {}
    /\ accountJob = [s \in AccountJobs |-> NoJobAccount]
    /\ second = 0
    /\ lastRevoked = -1 /\ orphaned = FALSE

AccountNext ==
    \/ \E s \in AccountJobs :
          \/ \E right \in BOOLEAN : LoginCheck(s, right)
          \/ increment_fail_count(s) \/ ExpireFailures(s) \/ LoginSucceeds(s)
          \/ \E tk \in tokens : RefreshCheck(s, tk) \/ change_own_password(s, tk)
          \/ create_access_token(s)
          \/ disable_user(s) \/ reset_password(s)
          \/ ReadClock(s) \/ revoke_user_tokens(s) \/ CommitStatus(s)
          \/ AccountJobDies(s)
    \/ \E tk \in tokens : logout(tk)
    \/ \E sso \in BOOLEAN : update_user(sso)
    \/ NextSecond

AccountSpec == AccountInit /\ [][AccountNext]_accountVars

-----------------------------------------------------------------------------
(* Properties *)

\* Every variable keeps to its type.
AccountTypeOK ==
    /\ account \in [status : UserStatus, sso : BOOLEAN]
    /\ failures.count \in 0..AUTH_FAILURE_LIMIT + Cardinality(AccountJobs)
    /\ tokens \subseteq Token /\ blacklist \subseteq tokens
    /\ lastRevoked \in -1..LastSecond /\ orphaned \in BOOLEAN

\* The mark was written by a revocation that had read the clock before
\* another one did whose mark it has replaced.
MarkIsOutdated == revokeMark.at < lastRevoked

\* A token issued in an earlier second than a revocation is never taken
\* again, neither while the mark stands nor after redis has dropped it: the
\* mark outlives every token it is about, however late it was written.  Two
\* revocations at once may write their marks in the wrong order; until the
\* next one the tokens issued between their two seconds are then taken again.
RevokedStaysRevoked ==
    \A tk \in tokens :
        tk.iat < lastRevoked => MarkIsOutdated \/ ~validate_token_claims(tk, tk.kind)

\* A lockout ends: a counter without a TTL is about to get one, unless the
\* process that made it died between INCR and EXPIRE.
LockoutEnds ==
    get_fail_count > 0 /\ failures.until = NoExpiry =>
        orphaned \/ \E s \in AccountJobs : accountJob[s].op = "expire"

\* Access that was taken away stays away, access that was only suspended
\* comes back.
AccessEndsAndReturns == RevokedStaysRevoked /\ LockoutEnds

=============================================================================
