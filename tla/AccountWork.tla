------------------------------- MODULE AccountWork -------------------------------
(***************************************************************************)
(* Accounts, roster import and retention in one web process: what people    *)
(* and Admins ask for, and what the process does next.                     *)
(***************************************************************************)
EXTENDS RosterImport, Retention

\* Where a behaviour begins, [users, stored], and its bounds: kinds, the requests
\* people make in it; people, the addresses they give; secrets, the passwords they
\* choose; calls, how far a rate-limit window counts; links and crashes, how many.
CONSTANT Starts

\* An account is below the threshold, or has been locked.
ASSUME StartsOK ==
  /\ NoUser \notin Account
  /\ \A s \in Starts :
       /\ s.users \in [User -> Account \cup {NoUser}]
       /\ s.people \subseteq User /\ s.secrets \subseteq Password
       /\ {s.calls, s.links, s.crashes} \subseteq Nat
       /\ \A u \in User : /\ s.users[u] # NoUser
                          /\ s.users[u].attempts >= MAX_FAILED_LOGIN_ATTEMPTS
                          => s.users[u].lock # "never"

VARIABLE bounds

workVars == <<accountVars, students, retentionVars, bounds>>

AccountInit ==
  /\ \E s \in Starts : /\ bounds = [kinds |-> s.kinds, people |-> s.people, secrets |-> s.secrets,
                                    calls |-> s.calls, links |-> s.links, crashes |-> s.crashes]
                       /\ users = s.users
                       /\ docs = [d \in Doc |-> [NoDoc EXCEPT !.file = d \in s.stored]]
  /\ request = [r \in Request |-> Idle]
  /\ resets = <<>>
  /\ window = [k \in RateKey |-> [count |-> 0, expires |-> FALSE]]
  /\ crashes = 0
  /\ students = [n \in RegistrationNumber |-> NoUser]
  /\ archives = <<>>

\* The bound on links counts those about to be issued.
Issuing == {r \in Request :
              \/ request[r].at \in {"forgot:read", "staff:create", "issue:revoke", "issue:create"}
              \/ At(r, "expire") /\ request[r].key = "password-reset"}
RoomForLink == Len(resets) + Cardinality(Issuing) < bounds.links

\* Requests: nobody has to make one.
LoginRequests(r) ==
  /\ "login" \in bounds.kinds /\ window["login"].count < bounds.calls
  /\ \E u \in bounds.people, p \in bounds.secrets : Login(r, u, p)
  /\ UNCHANGED <<students, retentionVars, bounds>>

LinkRequests(r) ==
  /\ "link" \in bounds.kinds
  /\ \/ /\ window["password-reset"].count < bounds.calls /\ RoomForLink
        /\ \E u \in bounds.people : ForgotPassword(r, u)
     \/ \E i \in DOMAIN resets, p \in bounds.secrets : RedeemLink(r, i, p)
  /\ UNCHANGED <<students, retentionVars, bounds>>

PostStaffUser(r) ==
  /\ "admin" \in bounds.kinds /\ RoomForLink
  /\ \E u \in bounds.people, roles \in {{"FOCAL"}, {"FOCAL", "HOD"}} : CreateStaffUser(r, u, roles)
  /\ UNCHANGED <<students, retentionVars, bounds>>

PostRoles(r) ==
  /\ "admin" \in bounds.kinds
  /\ \E u \in bounds.people, roles \in {{"FOCAL"}, {"FOCAL", "HOD"}} : SetUserRoles(r, u, roles)
  /\ UNCHANGED <<students, retentionVars, bounds>>

ImportRequests(r) ==
  /\ "import" \in bounds.kinds
  /\ \E file \in Files : ImportRoster(r, file)
  /\ UNCHANGED <<retentionVars, bounds>>

RetentionRequests(r) ==
  /\ "retention" \in bounds.kinds
  /\ \/ CreateDocumentArchive(r)
     \/ \E a \in DOMAIN archives : ConfirmArchivePurge(r, a)
  /\ UNCHANGED <<students, bounds>>

\* Requests that are one update.
PostDeactivate ==
  /\ "disable" \in bounds.kinds
  /\ \E u \in User : DeactivateUser(u)
  /\ UNCHANGED <<students, retentionVars, bounds>>

PostReactivate ==
  /\ "disable" \in bounds.kinds
  /\ \E u \in User : ReactivateUser(u)
  /\ UNCHANGED <<students, retentionVars, bounds>>

TimePasses ==
  /\ (\E u \in User : LockExpires(u)) \/ (\E i \in DOMAIN resets : LinkExpires(i))
  /\ UNCHANGED <<students, retentionVars, bounds>>

ServerStep(r) ==
  /\ \/ AccountStep(r) /\ UNCHANGED <<students, retentionVars>>
     \/ ImportStep(r, bounds.secrets) /\ UNCHANGED retentionVars
     \/ RetentionStep(r) /\ UNCHANGED students
  /\ UNCHANGED bounds

RedisStep(key) == WindowEnds(key) /\ UNCHANGED <<students, retentionVars, bounds>>

AccountNext ==
  \/ \E r \in Request : \/ LoginRequests(r) \/ LinkRequests(r)
                        \/ PostStaffUser(r) \/ PostRoles(r) \/ ImportRequests(r)
                        \/ RetentionRequests(r) \/ ServerStep(r)
  \/ PostDeactivate \/ PostReactivate \/ TimePasses
  \/ \E key \in RateKey : RedisStep(key)
  \/ "retention" \in bounds.kinds /\ (\E d \in Doc : StoreDoc(d)) /\ UNCHANGED <<students, bounds>>
  \/ crashes < bounds.crashes /\ WebDies /\ UNCHANGED <<students, retentionVars, bounds>>

\* Node keeps running the requests it has accepted, and Redis drops keys in time.
AccountSpec ==
  /\ AccountInit /\ [][AccountNext]_workVars
  /\ \A r \in Request : WF_workVars(ServerStep(r))
  /\ \A key \in RateKey : WF_workVars(RedisStep(key))

-----------------------------------------------------------------------------
(* Properties.                                                             *)

\* Every table keeps its type, a student is somebody's, and whatever a suspended
\* request will write to is still there.
AccountsTypeOK ==
  /\ users \in [User -> Account \cup {NoUser}]
  /\ resets \in Seq(ResetLink)
  /\ window \in [RateKey -> [count : 0..bounds.calls, expires : BOOLEAN]]
  /\ students \in [RegistrationNumber -> User \cup {NoUser}]
  /\ \A m, n \in RegistrationNumber : m # n /\ students[m] # NoUser => students[m] # students[n]
  /\ docs \in [Doc -> [archive : 0..Len(archives), purged : BOOLEAN, file : BOOLEAN]]
  /\ archives \in Seq(BOOLEAN)
  /\ \A r \in Request :
       /\ "user" \in DOMAIN request[r] =>
            request[r].at \in {"login:read", "forgot:read", "staff:create"} \/ Registered(request[r].user)
       /\ At(r, "redeem") => Registered(resets[request[r].link].user)
================================================================================
