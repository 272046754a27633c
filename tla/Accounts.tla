-------------------------------- MODULE Accounts --------------------------------
(***************************************************************************)
(* Accounts and how people get into them: login with its rate limit and     *)
(* lockout, reset links, and what Admins do to accounts                     *)
(* (src/server/auth, src/server/users, src/server/security/rate-limit.ts).  *)
(* A request is suspended where it awaits Postgres or Redis; what it read   *)
(* before, it keeps.  Sessions are left out: every request reads the roles  *)
(* of its user afresh.                                                      *)
(***************************************************************************)
EXTENDS Naturals, Sequences, FiniteSets

CONSTANTS
  Request,       \* slots for requests that run at the same time
  User,          \* email addresses; an account is known by its own
  Password, NoPassword,
  NoUser,        \* no row
  Limit,         \* Limit[key]: what checkRateLimit() allows in a window, for one address
  MAX_FAILED_LOGIN_ATTEMPTS,
  MaxAttempts    \* bound: no login of an account starts beyond so many failures

ASSUME AccountsOK ==
  /\ NoPassword \notin Password
  /\ DOMAIN Limit = {"login", "password-reset"} /\ \A k \in DOMAIN Limit : Limit[k] \in Nat \ {0}
  /\ MAX_FAILED_LOGIN_ATTEMPTS \in Nat \ {0} /\ MaxAttempts \in Nat
  /\ NoUser \notin User

VARIABLES
  request,       \* where each request is, and its locals
  users,         \* users with user_roles, by email
  resets,        \* password_reset_tokens in insertion order
  window,        \* Redis: the count of the address's window, and whether it will expire
  crashes

accountVars == <<request, users, resets, window, crashes>>

STAFF_ROLE_NAMES == {"FOCAL", "HOD", "DEAN", "ADMIN"}

RateKey == DOMAIN Limit

\* A new row of users: no password until a link or an import sets one.
FreshAccount(roles) ==
  [password |-> NoPassword, version |-> 0, attempts |-> 0, lock |-> "never",
   disabled |-> FALSE, roles |-> roles]

\* lock: locked_until is null, ahead, or past.
Account == [password : Password \cup {NoPassword}, version : Nat, attempts : Nat,
            lock : {"never", "locked", "past"}, disabled : BOOLEAN,
            roles : SUBSET (STAFF_ROLE_NAMES \cup {"STUDENT"})]

Registered(u) == users[u] # NoUser

Idle == [at |-> "idle"]
At(r, label) == request[r].at = label
Goto(r, f) == request' = [request EXCEPT ![r] = f]
Respond(r) == Goto(r, Idle)

-----------------------------------------------------------------------------
(* checkRateLimit(): INCR, then EXPIRE when this call opened the window.    *)

CallFrom(r, key, next) ==
  LET count == window[key].count + 1 IN
  /\ At(r, "idle")
  /\ window' = [window EXCEPT ![key].count = count]
  /\ CASE count = 1 -> Goto(r, [at |-> "expire", key |-> key, next |-> next])
       [] count \in 2..Limit[key] -> Goto(r, next)
       [] OTHER -> Respond(r)

ExpireOnlyAtLimit(r) ==
  /\ At(r, "expire")
  /\ window' = [window EXCEPT ![request[r].key].expires =
                  window[request[r].key].count = Limit[request[r].key]]
  /\ Goto(r, request[r].next)
  /\ UNCHANGED <<users, resets, crashes>>
Expire(r) ==
  /\ At(r, "expire")
  /\ window' = [window EXCEPT ![request[r].key].expires = TRUE]
  /\ Goto(r, request[r].next)
  /\ UNCHANGED <<users, resets, crashes>>

\* Redis drops the key.
WindowEnds(key) ==
  /\ window[key].expires
  /\ window' = [window EXCEPT ![key] = [count |-> 0, expires |-> FALSE]]
  /\ UNCHANGED <<request, users, resets, crashes>>

-----------------------------------------------------------------------------
(* authorizeCredentials().                                                  *)

Login(r, u, p) ==
  /\ Registered(u) => users[u].attempts < MaxAttempts
  /\ CallFrom(r, "login", [at |-> "login:read", user |-> u, password |-> p])
  /\ UNCHANGED <<users, resets, crashes>>

LoginRead(r) ==
  LET f == request[r] IN
  /\ At(r, "login:read")
  /\ IF /\ Registered(f.user)
        /\ users[f.user].password # NoPassword
        /\ ~users[f.user].disabled
        /\ users[f.user].lock # "locked"
     THEN Goto(r, [at |-> "login:verify", user |-> f.user, password |-> f.password,
                   row |-> users[f.user]])
     ELSE Respond(r)
  /\ UNCHANGED <<users, resets, window, crashes>>

\* argon2 has judged the password by the hash that was read; the counter is
\* incremented, or cleared, where it stands now.
LoginVerifyByRowRead(r) ==
  LET f == request[r]  u == f.user IN
  /\ At(r, "login:verify")
  /\ IF f.password = f.row.password
     THEN /\ users' = [users EXCEPT ![u].attempts = 0, ![u].lock = "never"]
          /\ Respond(r)
     ELSE /\ users' = [users EXCEPT ![u].attempts = @ + 1]
          /\ IF f.row.attempts + 1 >= MAX_FAILED_LOGIN_ATTEMPTS
             THEN Goto(r, [at |-> "login:lock", user |-> u])
             ELSE Respond(r)
  /\ UNCHANGED <<resets, window, crashes>>
LoginVerify(r) ==
  LET f == request[r]  u == f.user IN
  /\ At(r, "login:verify")
  /\ IF f.password = f.row.password
     THEN /\ users' = [users EXCEPT ![u].attempts = 0, ![u].lock = "never"]
          /\ Respond(r)
     ELSE /\ users' = [users EXCEPT ![u].attempts = @ + 1]
          /\ IF users'[u].attempts >= MAX_FAILED_LOGIN_ATTEMPTS
             THEN Goto(r, [at |-> "login:lock", user |-> u])
             ELSE Respond(r)
  /\ UNCHANGED <<resets, window, crashes>>

LoginLock(r) ==
  /\ At(r, "login:lock")
  /\ users' = [users EXCEPT ![request[r].user].lock = "locked"]
  /\ Respond(r)
  /\ UNCHANGED <<resets, window, crashes>>

\* LOCKOUT_DURATION_MINUTES pass.  Nothing clears the counter.
LockExpires(u) ==
  /\ Registered(u) /\ users[u].lock = "locked"
  /\ users' = [users EXCEPT ![u].lock = "past"]
  /\ UNCHANGED <<request, resets, window, crashes>>

-----------------------------------------------------------------------------
(* Reset links.                                                             *)

\* usedAt, revokedAt and expiresAt are columns of their own.
ResetLink == [user : User, used : BOOLEAN, revoked : BOOLEAN, expired : BOOLEAN]

LiveLinks(u) == {i \in DOMAIN resets : resets[i].user = u /\ ~resets[i].used /\ ~resets[i].revoked}

ForgotPassword(r, u) ==
  /\ CallFrom(r, "password-reset", [at |-> "forgot:read", user |-> u])
  /\ UNCHANGED <<users, resets, crashes>>

ForgotRead(r) ==
  LET u == request[r].user IN
  /\ At(r, "forgot:read")
  /\ IF Registered(u) /\ ~users[u].disabled THEN Goto(r, [at |-> "issue:revoke", user |-> u])
                                            ELSE Respond(r)
  /\ UNCHANGED <<users, resets, window, crashes>>

\* issuePasswordResetToken(), one transaction: its UPDATE sees the live rows,
IssueRevoke(r) ==
  LET u == request[r].user IN
  /\ At(r, "issue:revoke")
  /\ Goto(r, [at |-> "issue:create", user |-> u, seen |-> LiveLinks(u)])
  /\ UNCHANGED <<users, resets, window, crashes>>

\* its INSERT is refused, and all of it rolled back, when there is by now a live
\* row it has not seen (password_reset_tokens_one_live_per_user).  A mail that
\* fails changes nothing.
IssueCreate(r) ==
  LET f == request[r] IN
  /\ At(r, "issue:create")
  /\ resets' = IF LiveLinks(f.user) \subseteq f.seen
               THEN Append([i \in DOMAIN resets |->
                              IF i \in LiveLinks(f.user)
                              THEN [resets[i] EXCEPT !.revoked = TRUE] ELSE resets[i]],
                           [user |-> f.user, used |-> FALSE, revoked |-> FALSE,
                            expired |-> FALSE])
               ELSE resets
  /\ Respond(r)
  /\ UNCHANGED <<users, window, crashes>>

LinkExpires(i) ==
  /\ ~resets[i].expired
  /\ resets' = [resets EXCEPT ![i].expired = TRUE]
  /\ UNCHANGED <<request, users, window, crashes>>

\* redeemPasswordResetToken(): the link is judged, the password hashed,
RedeemLink(r, i, p) ==
  /\ At(r, "idle")
  /\ i \in LiveLinks(resets[i].user) /\ ~resets[i].expired
  /\ Goto(r, [at |-> "redeem", link |-> i, password |-> p])
  /\ UNCHANGED <<users, resets, window, crashes>>

\* and one transaction uses the link and changes the account.
RedeemSameVersion(r) ==
  LET f == request[r]  u == resets[f.link].user IN
  /\ At(r, "redeem")
  /\ resets' = [resets EXCEPT ![f.link].used = TRUE]
  /\ users' = [users EXCEPT ![u].password = f.password, ![u].attempts = 0, ![u].lock = "never"]
  /\ Respond(r)
  /\ UNCHANGED <<window, crashes>>
Redeem(r) ==
  LET f == request[r]  u == resets[f.link].user IN
  /\ At(r, "redeem")
  /\ resets' = [resets EXCEPT ![f.link].used = TRUE]
  /\ users' = [users EXCEPT ![u].password = f.password, ![u].version = @ + 1,
                            ![u].attempts = 0, ![u].lock = "never"]
  /\ Respond(r)
  /\ UNCHANGED <<window, crashes>>

-----------------------------------------------------------------------------
(* What Admins do.                                                          *)

CreateStaffUser(r, u, roles) ==
  /\ At(r, "idle") /\ ~Registered(u)
  /\ Goto(r, [at |-> "staff:create", user |-> u, roles |-> roles])
  /\ UNCHANGED <<users, resets, window, crashes>>

\* users.email is unique: an import may have come first.
StaffCreate(r) ==
  LET f == request[r] IN
  /\ At(r, "staff:create")
  /\ IF Registered(f.user)
     THEN Respond(r) /\ UNCHANGED users
     ELSE /\ users' = [users EXCEPT ![f.user] = FreshAccount(f.roles)]
          /\ Goto(r, [at |-> "issue:revoke", user |-> f.user])
  /\ UNCHANGED <<resets, window, crashes>>

DeactivateUser(u) ==
  /\ Registered(u)
  /\ users' = [users EXCEPT ![u].disabled = TRUE]
  /\ UNCHANGED <<request, resets, window, crashes>>

ReactivateUser(u) ==
  /\ Registered(u)
  /\ users' = [users EXCEPT ![u].disabled = FALSE]
  /\ UNCHANGED <<request, resets, window, crashes>>

\* setUserRoles(), one transaction: its DELETE sees the staff roles of the user,
SetUserRoles(r, u, roles) ==
  /\ At(r, "idle") /\ Registered(u)
  /\ Goto(r, [at |-> "roles:create", user |-> u, roles |-> roles,
              seen |-> users[u].roles \cap STAFF_ROLE_NAMES])
  /\ UNCHANGED <<users, resets, window, crashes>>

\* its INSERT fails, and all of it is rolled back, on a role the user has by a
\* row the DELETE did not see.  Of the rows another call's DELETE has seen, those
\* this one leaves are still there; those it inserts, no other has seen.
RolesCreateReplaceAll(r) ==
  LET f == request[r] IN
  /\ At(r, "roles:create")
  /\ users' = [users EXCEPT ![f.user].roles = f.roles]
  /\ Respond(r)
  /\ UNCHANGED <<resets, window, crashes>>
RolesCreate(r) ==
  LET f == request[r]  kept == users[f.user].roles \ f.seen IN
  /\ At(r, "roles:create")
  /\ IF kept \cap f.roles # {}
     THEN Respond(r) /\ UNCHANGED users
     ELSE /\ users' = [users EXCEPT ![f.user].roles = kept \cup f.roles]
          /\ request' = [q \in Request |->
                           CASE q = r -> Idle
                             [] q # r /\ At(q, "roles:create") /\ request[q].user = f.user
                                  -> [request[q] EXCEPT !.seen = @ \cap kept]
                             [] OTHER -> request[q]]
  /\ UNCHANGED <<resets, window, crashes>>

-----------------------------------------------------------------------------

\* The web process dies, with its requests, and is restarted.
WebDies ==
  /\ \E r \in Request : ~At(r, "idle")
  /\ crashes' = crashes + 1
  /\ request' = [r \in Request |-> Idle]
  /\ UNCHANGED <<users, resets, window>>

\* What the server does next in a request it has accepted.
AccountStep(r) ==
  \/ Expire(r) \/ LoginRead(r) \/ LoginVerify(r) \/ LoginLock(r)
  \/ ForgotRead(r) \/ IssueRevoke(r) \/ IssueCreate(r) \/ Redeem(r)
  \/ StaffCreate(r) \/ RolesCreate(r)

-----------------------------------------------------------------------------
(* Properties.                                                             *)

\* login-attempts.ts, "locks the account once the threshold is reached": while
\* no process dies, an account at the threshold is locked, has been, or is about
\* to be, however failures, successes and resets overlap between the increment
\* and the lock.
ThresholdLocks ==
  crashes = 0 => \A u \in User :
    Registered(u) /\ users[u].attempts >= MAX_FAILED_LOGIN_ATTEMPTS =>
      \/ users[u].lock # "never"
      \/ \E r \in Request : At(r, "login:lock") /\ request[r].user = u

\* password-reset.ts: an account has at most one live link, whoever asks for one
\* at the same time; and tokenVersion has moved for every link that was used,
\* two uses of one link included.
ResetLinksAgree ==
  \A u \in User :
    /\ Cardinality(LiveLinks(u)) <= 1
    /\ LET used == {i \in DOMAIN resets : resets[i].user = u /\ resets[i].used} IN
       used # {} => Registered(u) /\ users[u].version >= Cardinality(used)

\* password-reset.ts, "a one-time link": tokenVersion has not moved more often than
\* links were used.  The code does not keep this: two requests that both judged the
\* link live both use it.
LinkIsUsedOnce ==
  \A u \in User :
    Registered(u) =>
      users[u].version <= Cardinality({i \in DOMAIN resets : resets[i].user = u /\ resets[i].used})

\* rate-limit.ts, a fixed window: while no process dies between INCR and EXPIRE,
\* an address that is refused is let in again.
RefusalEnds ==
  \A key \in RateKey :
    window[key].count > Limit[key] /\ crashes = 0
      ~> window[key].count <= Limit[key] \/ crashes > 0
================================================================================
