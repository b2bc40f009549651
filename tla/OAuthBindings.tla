--------------------------- MODULE OAuthBindings ---------------------------
(***************************************************************************)
(* Signing in through an external provider and binding its identities to   *)
(* accounts (services/oauth.py, api/v1/oauth.py), for one provider.        *)
(*                                                                         *)
(* A request reads the binding of its identity when the provider answers,  *)
(* keeps the user it names and reads the rows again before it writes       *)
(* (nothing holds the first object by then).  A flush writes the columns   *)
(* whose new value differs from the one read.                              *)
(***************************************************************************)
EXTENDS FiniteSets

CONSTANTS
    OAuthUsers,   \* local accounts
    Identities,   \* external ids
    OAuthJobs,    \* sessions
    Nobody        \* no user, no identity

ASSUME OAuthAssumption == Nobody \notin OAuthUsers \cup Identities

VARIABLES
    binding,      \* [OAuthUsers -> Identities or Nobody], the table
    stateKey,     \* is the state of the login in redis?
    oauthAllowed, \* users whose status is in OAUTH_LOGIN_ALLOWED_STATUSES
    oauthJob,
    signedIn,     \* history: last sign-in of a session, <<identity, user>>
    overtaken     \* history: sessions that read rows another one has changed since

oauthVars == <<binding, stateKey, oauthAllowed, oauthJob, signedIn, overtaken>>

NoOAuthJob == [op |-> "idle"]
OAuthBusy(s) == oauthJob[s] # NoOAuthJob

get_by_provider_external_id(e) ==
    IF \E u \in OAuthUsers : binding[u] = e
    THEN CHOOSE u \in OAuthUsers : binding[u] = e ELSE Nobody

\* Every other session under way has been overtaken by a change of s.
Overtakes(s) == overtaken' = overtaken \cup {o \in OAuthJobs \ {s} : OAuthBusy(o)}

-----------------------------------------------------------------------------

\* start_login stores the state; it expires by itself.
start_login ==
    /\ ~stateKey /\ stateKey' = TRUE
    /\ UNCHANGED <<binding, oauthAllowed, oauthJob, signedIn, overtaken>>

StateExpires ==
    /\ stateKey /\ stateKey' = FALSE
    /\ UNCHANGED <<binding, oauthAllowed, oauthJob, signedIn, overtaken>>

\* pop_state is a GET and then a DELETE: two callbacks may both get it.  The
\* request signs in (for = Nobody) or binds an identity to the user for.
PopGet(s, for) ==
    /\ ~OAuthBusy(s) /\ stateKey
    /\ for \in oauthAllowed \cup {Nobody}
    /\ oauthJob' = [oauthJob EXCEPT ![s] = [op |-> "delete", for |-> for]]
    /\ signedIn' = [signedIn EXCEPT ![s] = <<>>]
    /\ UNCHANGED <<binding, stateKey, oauthAllowed, overtaken>>

PopDelete(s) ==
    /\ oauthJob[s].op = "delete"
    /\ stateKey' = FALSE
    /\ oauthJob' = [oauthJob EXCEPT ![s].op = "provider"]
    /\ UNCHANGED <<binding, oauthAllowed, signedIn, overtaken>>

\* handle_callback: the provider answers with an identity, and a verified
\* email of user m (Nobody: no email, not verified, or of no user), or
\* fails; the binding of the identity is read.
handle_callback(s, e, m) ==
    /\ oauthJob[s].op = "provider"
    /\ oauthJob' = [oauthJob EXCEPT ![s] =
          [op |-> "resolve", for |-> oauthJob[s].for, id |-> e, email |-> m,
           bound |-> get_by_provider_external_id(e)]]
    /\ UNCHANGED <<binding, stateKey, oauthAllowed, signedIn, overtaken>>

ProviderFails(s) ==
    /\ oauthJob[s].op = "provider"
    /\ oauthJob' = [oauthJob EXCEPT ![s] = NoOAuthJob]
    /\ UNCHANGED <<binding, stateKey, oauthAllowed, signedIn, overtaken>>

\* _resolve_existing_or_verified_email_user, or the user who binds.
Resolved(j) ==
    IF j.for # Nobody
    THEN IF j.bound \in {Nobody, j.for} THEN j.for ELSE Nobody
    ELSE IF j.bound # Nobody THEN j.bound ELSE j.email

\* resolve_login_user and bind_identity up to the queries of upsert_binding:
\* the row of the identity, then the row of the user, and the identity it has.
ResolveUser(s) ==
    LET j == oauthJob[s]
        u == Resolved(j)
        refused == u \notin oauthAllowed \/ get_by_provider_external_id(j.id) \notin {u, Nobody}
    IN  /\ j.op = "resolve"
        /\ oauthJob' = [oauthJob EXCEPT ![s] =
              IF refused THEN NoOAuthJob
              ELSE [op |-> "flush", for |-> j.for, id |-> j.id, user |-> u,
                    row |-> binding[u] # Nobody, held |-> binding[u]]]
        /\ overtaken' = overtaken \ {s}
        /\ UNCHANGED <<binding, stateKey, oauthAllowed, signedIn>>

\* Mutant of upsert_binding: a binding that exists is kept.
KeepOldIdentity(s) ==
    LET j == oauthJob[s]
    IN  /\ j.op = "flush"
        /\ oauthJob' = [oauthJob EXCEPT ![s] = NoOAuthJob]
        /\ binding' = IF binding[j.user] = Nobody
                      THEN [binding EXCEPT ![j.user] = j.id] ELSE binding
        /\ Overtakes(s)
        /\ signedIn' = [signedIn EXCEPT ![s] = <<j.id, j.user>>]
        /\ UNCHANGED <<stateKey, oauthAllowed>>

\* upsert_binding's write and the commit.  It fails when a unique key
\* (identity, or user) is taken by now, or the row to update is gone.
upsert_binding(s) ==
    LET j == oauthJob[s]
        writes == j.held # j.id
        fails == \/ ~j.row /\ binding[j.user] # Nobody
                 \/ j.row /\ binding[j.user] = Nobody
                 \/ writes /\ get_by_provider_external_id(j.id) \notin {j.user, Nobody}
    IN  /\ j.op = "flush"
        /\ oauthJob' = [oauthJob EXCEPT ![s] = NoOAuthJob]
        /\ \/ /\ fails
              /\ UNCHANGED <<binding, signedIn, overtaken>>
           \/ /\ ~fails
              /\ binding' = IF writes THEN [binding EXCEPT ![j.user] = j.id] ELSE binding
              /\ Overtakes(s)
              /\ signedIn' = [signedIn EXCEPT ![s] = <<j.id, j.user>>]
        /\ UNCHANGED <<stateKey, oauthAllowed>>

\* delete_user_binding; the row read is deleted in the same breath.
delete_user_binding(u) ==
    /\ binding[u] # Nobody
    /\ binding' = [binding EXCEPT ![u] = Nobody]
    /\ overtaken' = overtaken \cup {s \in OAuthJobs : OAuthBusy(s)}
    /\ signedIn' = [s \in OAuthJobs |-> <<>>]
    /\ UNCHANGED <<stateKey, oauthAllowed, oauthJob>>

\* disable_user (module Accounts).
DisableOAuthUser(u) ==
    /\ u \in oauthAllowed
    /\ oauthAllowed' = oauthAllowed \ {u}
    /\ UNCHANGED <<binding, stateKey, oauthJob, signedIn, overtaken>>

OAuthInit ==
    /\ binding \in [OAuthUsers -> Identities \cup {Nobody}]
    /\ \A u, v \in OAuthUsers : binding[u] = binding[v] /\ u # v => binding[u] = Nobody
    /\ stateKey = FALSE
    /\ oauthAllowed = OAuthUsers
    /\ oauthJob = [s \in OAuthJobs |-> NoOAuthJob]
    /\ signedIn = [s \in OAuthJobs |-> <<>>] /\ overtaken = {}

OAuthNext ==
    \/ start_login \/ StateExpires
    \/ \E s \in OAuthJobs :
          \/ \E for \in OAuthUsers \cup {Nobody} : PopGet(s, for)
          \/ PopDelete(s)
          \/ \E e \in Identities, m \in OAuthUsers \cup {Nobody} : handle_callback(s, e, m)
          \/ ProviderFails(s) \/ ResolveUser(s) \/ upsert_binding(s)
    \/ \E u \in OAuthUsers : delete_user_binding(u) \/ DisableOAuthUser(u)

OAuthSpec == OAuthInit /\ [][OAuthNext]_oauthVars

-----------------------------------------------------------------------------
(* Properties *)

\* Every variable keeps to its type.
OAuthTypeOK ==
    /\ binding \in [OAuthUsers -> Identities \cup {Nobody}]
    /\ \A u, v \in OAuthUsers : u # v => binding[u] # binding[v] \/ binding[u] = Nobody
    /\ stateKey \in BOOLEAN /\ oauthAllowed \subseteq OAuthUsers

\* A sign-in leaves its identity bound to the account it signed in to, also
\* when the account was found by email and had another identity, or was found
\* by a binding that has been changed or deleted since the provider's answer,
\* unless another session changed bindings between the queries of the upsert
\* and its commit.
SignedInAsOwner ==
    [][\A s \in OAuthJobs :
          signedIn'[s] # signedIn[s] /\ signedIn'[s] # <<>> /\ s \notin overtaken
             => binding'[signedIn'[s][2]] = signedIn'[s][1]]_oauthVars
=============================================================================
