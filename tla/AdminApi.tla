------------------------------ MODULE AdminApi ------------------------------
(***************************************************************************)
(* The admin handlers of EnabledServices behind their authorisation: the   *)
(* session map, logins and logouts, expiry, and restarts of the            *)
(* controller, which lose the map and the handlers but neither tables nor  *)
(* the pages of dashboards.  There is one account: a token belongs to a    *)
(* login, several are valid at once, and a request may carry any of them   *)
(* or the password.                                                        *)
(***************************************************************************)
EXTENDS EnabledServices, FiniteSetsExt

CONSTANTS
  Tokens,        \* random, so that a login gets one that is not in use
  Password,      \* what scripts send instead of a token
  Configured,    \* api.session_ttl_seconds
  MinTTL         \* the least lifetime of a session

ASSUME SessionAssumption ==
  /\ Password \notin Tokens
  /\ Configured \in Nat
  /\ MinTTL \in Nat \ {0}

VARIABLES
  sessions,      \* SessionStore: the tokens in the map
  left,          \* the time until they expire
  since          \* history: time since a login that still counts

sessionVars == <<sessions, left, since>>
apiVars == <<vars, sessionVars>>

Bearers == Tokens \union {Password}
SessionTTL == Max({Configured, MinTTL})
Ended == SessionTTL

SessionsTypeOK ==
  /\ TypeOK
  /\ sessions \subseteq Tokens
  /\ {left, since} \subseteq [Tokens -> 0..SessionTTL]

ApiInit ==
  /\ Init
  /\ sessions = {}
  /\ left = [t \in Tokens |-> 0]
  /\ since = [t \in Tokens |-> Ended]

-----------------------------------------------------------------------------
(* SessionStore.                                                           *)

\* The entries that stay; each login and each check looks at all.
purge_locked == {t \in sessions : left[t] > 0}

\* Mutant of valid: a token in the map is valid.
ValidIfPresent(t) == t \in sessions

\* Expiry is looked at for all entries, and for the one that is found.
valid(t) == t \in purge_locked /\ left[t] > 0

create(t) ==
  /\ sessions' = purge_locked \union {t}
  /\ left' = [left EXCEPT ![t] = SessionTTL]

revoke(t) ==
  /\ sessions' = sessions \ {t}
  /\ left' = [left EXCEPT ![t] = 0]

admin_authorized(b) == valid(b) \/ b = Password

-----------------------------------------------------------------------------
(* Handlers.                                                               *)

admin_login(t) ==
  /\ t \notin purge_locked
  /\ create(t)
  /\ since' = [since EXCEPT ![t] = 0]
  /\ UNCHANGED vars

\* The token that is sent is revoked, and no other.
admin_logout(t) ==
  /\ t \in sessions
  /\ revoke(t)
  /\ since' = [since EXCEPT ![t] = Ended]
  /\ UNCHANGED vars

\* check_admin, once, when the handler begins.
handle(u, b) ==
  /\ admin_authorized(b)
  /\ sessions' = purge_locked
  /\ Begin(u)
  /\ UNCHANGED <<left, since>>

\* A request without a valid token only purges the map.
unauthorized(b) ==
  /\ ~admin_authorized(b)
  /\ sessions' = purge_locked
  /\ UNCHANGED <<vars, left, since>>

Restart ==
  /\ sessions' = {}
  /\ left' = [t \in Tokens |-> 0]
  /\ since' = [t \in Tokens |-> Ended]
  /\ pc' = [u \in Admins |-> "idle"]
  /\ job' = [u \in Admins |-> NoJob]
  /\ UNCHANGED <<rows, snaps, nextId, page, reply>>

Tick ==
  /\ left' = [t \in Tokens |-> Max({0, left[t] - 1})]
  /\ since' = [t \in Tokens |-> Min({Ended, since[t] + 1})]
  /\ UNCHANGED <<vars, sessions>>

-----------------------------------------------------------------------------

ApiNext ==
  \/ Report /\ UNCHANGED sessionVars
  \/ \E u \in Admins :
       \/ \E b \in Bearers : handle(u, b)
       \/ Continue(u) /\ UNCHANGED sessionVars
  \/ \E t \in Tokens : admin_login(t) \/ admin_logout(t)
  \/ \E b \in Bearers : unauthorized(b)
  \/ Restart
  \/ Tick

ApiSpec == ApiInit /\ [][ApiNext]_apiVars

-----------------------------------------------------------------------------
(* Properties.                                                             *)

\* A token is accepted exactly as long as it should be: until the end of its
\* lifetime, its logout or a restart, and not an instant longer; and no other
\* request ends it before, neither the logout of another login nor any of
\* those that purge the map (sessions.rs, valid, revoke and purge_locked).
SessionsExact == \A t \in Tokens : valid(t) <=> since[t] < SessionTTL

\* The expiry the map has for a login agrees with the time since it.
LeftExact ==
  \A t \in Tokens :
    left[t] = SessionTTL - since[t] /\ (left[t] > 0 => t \in sessions)

\* In every state sessions are exact, every enabled service has an id of its
\* own, and what the handlers behind the sessions have read holds (check_admin,
\* SessionStore, admin_enable_service, admin_discovery).
AdminInv ==
  /\ SessionsTypeOK
  /\ SessionsExact
  /\ LeftExact
  /\ IdsSound
  /\ JobsSound

=============================================================================
