------------------------------ MODULE AccountProofs ------------------------------
(***************************************************************************)
(* Theorems about accounts, roster import and retention: the tables keep    *)
(* their types, the threshold locks, reset links agree with tokenVersion,   *)
(* imported students can sign in, and a confirmed archive has been purged.  *)
(* What a suspended request will write to is still there: accounts and      *)
(* links only ever gain what the requests rely on, so each step is judged   *)
(* by what it does to one row and by where it leaves its own request.       *)
(***************************************************************************)
EXTENDS AccountWork, SequenceTheorems, FiniteSetTheorems, WellFoundedInduction, TLAPS

-----------------------------------------------------------------------------
(* What a request looks like at each of its labels.                        *)

LoginAsked == [at : {"login:read"}, user : User, password : Password]
ForgotAsked == [at : {"forgot:read"}, user : User]
Expiring == [at : {"expire"}, key : RateKey, next : LoginAsked \cup ForgotAsked]
OfUser == [at : {"login:lock", "issue:revoke"}, user : User]
Verifying == [at : {"login:verify"}, user : User, password : Password, row : Account]
Issued == [at : {"issue:create"}, user : User, seen : SUBSET Nat]
Redeeming == [at : {"redeem"}, link : Nat, password : Password]
Hiring == [at : {"staff:create"}, user : User, roles : SUBSET STAFF_ROLE_NAMES]
EditingRoles == [at : {"roles:create"}, user : User, roles : SUBSET STAFF_ROLE_NAMES,
                 seen : SUBSET STAFF_ROLE_NAMES]
Importing == [at : {"import:row", "import:password", "import:student", "import:role"},
              file : Files, todo : SUBSET Nat]
Archiving == [at : {"archive:create"}, eligible : SUBSET Doc]
Purging == [at : {"purge"}, archive : Nat, todo : SUBSET Doc]
Stamping == [at : {"purge:stamp"}, archive : Nat, todo : SUBSET Doc, doc : Doc]

Shape == {Idle} \cup LoginAsked \cup ForgotAsked \cup Expiring \cup OfUser \cup Verifying
         \cup Issued \cup Redeeming \cup Hiring \cup EditingRoles \cup Importing
         \cup Archiving \cup Purging \cup Stamping

-----------------------------------------------------------------------------
(* What a suspended request relies on.                                     *)

AccountThere(f) ==
  /\ f.at \in {"login:verify", "login:lock", "issue:revoke", "issue:create", "roles:create"}
       => Registered(f.user)
  /\ f.at = "redeem" => f.link \in DOMAIN resets

\* An import is at a row of its file, whose account it has found or made, and
\* given a password before it makes the student.
RowThere(f) ==
  /\ f.at \in {"import:row", "import:password", "import:student", "import:role"}
       => f.todo \subseteq DOMAIN f.file
  /\ f.at \in {"import:password", "import:student", "import:role"}
       => f.todo # {} /\ Registered(RowOf(f).email)
  /\ f.at \in {"import:student", "import:role"} => users[RowOf(f).email].password # NoPassword

\* A purge still lists every document its archive has and that is not purged.
PurgeThere(f) ==
  /\ f.at \in {"purge", "purge:stamp"} =>
       /\ f.archive \in DOMAIN archives
       /\ \A d \in Doc : docs[d].archive = f.archive /\ ~docs[d].purged => d \in f.todo
       /\ \A d \in f.todo : docs[d].archive # 0
  /\ f.at = "purge:stamp" => f.doc \in f.todo /\ ~docs[f.doc].file

-----------------------------------------------------------------------------
(* The invariant.                                                          *)

BoundsOK == /\ bounds.people \subseteq User /\ bounds.secrets \subseteq Password
            /\ bounds.calls \in Nat

TablesOK ==
  /\ users \in [User -> Account \cup {NoUser}]
  /\ resets \in Seq(ResetLink)
  /\ window \in [RateKey -> [count : 0..bounds.calls, expires : BOOLEAN]]
  /\ students \in [RegistrationNumber -> User \cup {NoUser}]
  /\ docs \in [Doc -> [archive : 0..Len(archives), purged : BOOLEAN, file : BOOLEAN]]
  /\ archives \in Seq(BOOLEAN)
  /\ crashes \in Nat

RequestsOK == request \in [Request -> Shape]

StudentsApart ==
  \A m, n \in RegistrationNumber : m # n /\ students[m] # NoUser => students[m] # students[n]

\* No two live links of an account; and one version at least for each used one.
LinksOK ==
  /\ \A i \in DOMAIN resets : Registered(resets[i].user)
  /\ \A u \in User : \A i, j \in LiveLinks(u) : i = j
  /\ \A u \in User : Registered(u) =>
       users[u].version >= Cardinality({i \in DOMAIN resets : resets[i].user = u /\ resets[i].used})

AccountsInv ==
  /\ BoundsOK /\ TablesOK /\ RequestsOK
  /\ \A r \in Request : AccountThere(request[r]) /\ RowThere(request[r]) /\ PurgeThere(request[r])
  /\ StudentsApart /\ LinksOK
  /\ ThresholdLocks /\ StudentCanSignIn /\ ConfirmedArchiveIsPurged

-----------------------------------------------------------------------------
(* Lemmas about the operators.                                             *)

\* The shape of a request follows from its label.
LEMMA ByLabel ==
  ASSUME NEW f \in Shape
  PROVE  /\ f.at = "login:read" => f \in LoginAsked
         /\ f.at = "forgot:read" => f \in ForgotAsked
         /\ f.at = "expire" => f \in Expiring
         /\ f.at \in {"login:lock", "issue:revoke"} => f \in OfUser
         /\ f.at = "login:verify" => f \in Verifying
         /\ f.at = "issue:create" => f \in Issued
         /\ f.at = "redeem" => f \in Redeeming
         /\ f.at = "staff:create" => f \in Hiring
         /\ f.at = "roles:create" => f \in EditingRoles
         /\ f.at \in {"import:row", "import:password", "import:student", "import:role"}
              => f \in Importing
         /\ f.at = "archive:create" => f \in Archiving
         /\ f.at = "purge" => f \in Purging
         /\ f.at = "purge:stamp" => f \in Stamping
BY DEF Shape, Idle, LoginAsked, ForgotAsked, Expiring, OfUser, Verifying, Issued, Redeeming,
       Hiring, EditingRoles, Importing, Archiving, Purging, Stamping

\* Only these have a user.
LEMMA HasUser ==
  ASSUME NEW f \in Shape, "user" \in DOMAIN f
  PROVE  /\ f.user \in User
         /\ f.at \in {"login:read", "forgot:read", "staff:create", "login:verify", "login:lock",
                      "issue:revoke", "issue:create", "roles:create"}
BY DEF Shape, Idle, LoginAsked, ForgotAsked, Expiring, OfUser, Verifying, Issued, Redeeming,
       Hiring, EditingRoles, Importing, Archiving, Purging, Stamping

\* A set of row numbers that is not empty has a first.
LEMMA FirstRow ==
  ASSUME NEW T \in SUBSET Nat, T # {}
  PROVE  (CHOOSE i \in T : \A j \in T : i <= j) \in T
<1>1. IsWellFoundedOn(OpToRel(<, Nat), Nat)
  BY NatLessThanWellFounded
<1>2. PICK x \in T : \A y \in T : <<y, x>> \notin OpToRel(<, Nat)
  BY <1>1, WFMin, Zenon
<1>3. \A y \in T : ~(y < x)
  BY <1>2, Zenon DEF OpToRel
<1>4. \A y \in T : x <= y
  BY <1>3
<1> QED
  BY <1>4

\* The row an import is at is a row of its file.
LEMMA RowOfFile ==
  ASSUME NEW f \in Importing, f.todo # {}, f.todo \subseteq DOMAIN f.file
  PROVE  /\ RowOf(f).reg \in RegistrationNumber
         /\ RowOf(f).email \in User
<1>1. f.todo \in SUBSET Nat /\ f.file \in Files
  BY DEF Importing
<1>2. (CHOOSE i \in f.todo : \A j \in f.todo : i <= j) \in DOMAIN f.file
  BY <1>1, FirstRow
<1>3. f.file \in Seq([reg : RegistrationNumber, email : User, complete : BOOLEAN])
  BY <1>1, FilesOK
<1>4. \A i \in DOMAIN f.file :
        f.file[i] \in [reg : RegistrationNumber, email : User, complete : BOOLEAN]
  BY <1>3, LenProperties, Zenon
<1>5. RowOf(f) \in [reg : RegistrationNumber, email : User, complete : BOOLEAN]
  BY <1>2, <1>4, Zenon DEF RowOf
<1> QED
  BY <1>5

\* parseRosterCsv() gives rows of the file.
LEMMA ParsedRows ==
  ASSUME NEW file \in Files
  PROVE  parseRosterCsv(file) \in SUBSET Nat /\ parseRosterCsv(file) \subseteq DOMAIN file
<1>1. file \in Seq([reg : RegistrationNumber, email : User, complete : BOOLEAN])
  BY FilesOK
<1> QED
  BY <1>1 DEF parseRosterCsv

-----------------------------------------------------------------------------
(* What no step takes from a suspended request.                            *)

UsersKept ==
  \A u \in User : Registered(u) =>
    /\ users'[u] # NoUser
    /\ users[u].password # NoPassword => users'[u].password # NoPassword

LinksKept == DOMAIN resets \subseteq DOMAIN resets'

DocsKept ==
  /\ DOMAIN archives \subseteq DOMAIN archives'
  /\ \A d \in Doc :
       /\ docs'[d].archive \in DOMAIN archives /\ ~docs'[d].purged
            => docs'[d].archive = docs[d].archive /\ ~docs[d].purged
       /\ docs[d].archive # 0 => docs'[d].archive # 0 /\ (docs'[d].file => docs[d].file)

\* Request q is where it was; a role edit may have lost some of what it has seen.
Stays(q) ==
  \/ request'[q] = request[q]
  \/ request[q] \in EditingRoles /\ \E k : request'[q] = [request[q] EXCEPT !.seen = @ \cap k]

There(q) == AccountThere(request[q]) /\ RowThere(request[q]) /\ PurgeThere(request[q])

\* A request that stays finds what it relies on where it was.
LEMMA StillThere ==
  ASSUME RequestsOK, NEW q \in Request, There(q), Stays(q),
         UsersKept, LinksKept, DocsKept
  PROVE  request'[q] \in Shape /\ There(q)'
<1>1. request[q] \in Shape
  BY DEF RequestsOK
<1>2. CASE request'[q] = request[q]
  <2>1. AccountThere(request[q])'
    BY <1>1, <1>2, ByLabel DEF There, AccountThere, UsersKept, LinksKept, Registered,
       OfUser, Verifying, Issued, EditingRoles
  <2>2. RowThere(request[q])'
    <3>1. CASE request[q].at \in {"import:row", "import:password", "import:student", "import:role"}
      <4>1. request[q] \in Importing
        BY <1>1, <3>1, ByLabel
      <4>2. request[q].todo # {} => RowOf(request[q]).email \in User
        BY <3>1, <4>1, RowOfFile DEF There, RowThere
      <4>3. RowOf(request[q])' = RowOf(request[q])
        BY <1>2 DEF RowOf
      <4> QED
        BY <1>2, <4>2, <4>3 DEF There, RowThere, UsersKept, Registered
    <3> QED
      BY <1>2, <3>1 DEF RowThere
  <2>3. PurgeThere(request[q])'
    BY <1>1, <1>2, ByLabel DEF There, PurgeThere, DocsKept, Purging, Stamping
  <2> QED
    BY <1>1, <1>2, <2>1, <2>2, <2>3 DEF There
<1>3. CASE request[q] \in EditingRoles /\ \E k : request'[q] = [request[q] EXCEPT !.seen = @ \cap k]
  <2>1. /\ request'[q] \in EditingRoles
        /\ request'[q].at = "roles:create" /\ request[q].at = "roles:create"
        /\ request'[q].user = request[q].user /\ request[q].user \in User
    BY <1>3 DEF EditingRoles
  <2>2. users'[request[q].user] # NoUser
    BY <2>1 DEF There, AccountThere, UsersKept, Registered
  <2> QED
    BY <2>1, <2>2 DEF There, AccountThere, RowThere, PurgeThere, Registered, Shape
<1> QED
  BY <1>2, <1>3 DEF Stays

\* An account owes a lock; a student's account waits for its role.
Owing(u) == /\ Registered(u)
            /\ users[u].attempts >= MAX_FAILED_LOGIN_ATTEMPTS /\ users[u].lock = "never"
Locking(u) == \E r \in Request : At(r, "login:lock") /\ request[r].user = u
Enrolling(u) == \E r \in Request : At(r, "import:role") /\ RowOf(request[r]).email = u

\* The threshold, by the accounts that owe a lock.
LEMMA ThresholdByDebt == ThresholdLocks <=> (crashes = 0 => \A u \in User : Owing(u) => Locking(u))
BY DEF ThresholdLocks, Owing, Locking

-----------------------------------------------------------------------------
(* Steps that write no table.                                              *)

Rows == <<users, resets, students, docs, archives, crashes, bounds>>

\* A request moves from where nobody counts on it, and finds what it will need.
LEMMA JustMoves ==
  ASSUME AccountsInv, NEW r \in Request, NEW g \in Shape, Goto(r, g),
         ~At(r, "login:lock"), ~At(r, "import:role"),
         AccountThere(g), RowThere(g), PurgeThere(g),
         UNCHANGED Rows, window' \in [RateKey -> [count : 0..bounds.calls, expires : BOOLEAN]]
  PROVE  AccountsInv'
<1>1. /\ request' \in [Request -> Shape] /\ request'[r] = g
      /\ \A q \in Request \ {r} : request'[q] = request[q]
  BY DEF AccountsInv, RequestsOK, Goto
<1>2. UsersKept /\ LinksKept /\ DocsKept
  BY DEF Rows, UsersKept, LinksKept, DocsKept, Registered
<1>3. \A q \in Request : There(q)'
  <2>1. There(r)'
    BY <1>1 DEF Rows, There, AccountThere, RowThere, PurgeThere, Registered, RowOf
  <2>2. ASSUME NEW q \in Request \ {r} PROVE There(q)'
    BY <1>1, <1>2, <2>2, StillThere DEF AccountsInv, There, Stays
  <2> QED
    BY <2>1, <2>2
<1>4. BoundsOK' /\ TablesOK' /\ RequestsOK' /\ StudentsApart' /\ LinksOK' /\ ConfirmedArchiveIsPurged'
  BY <1>1 DEF AccountsInv, Rows, BoundsOK, TablesOK, RequestsOK, StudentsApart, LinksOK,
     LiveLinks, Registered, ConfirmedArchiveIsPurged
<1>5. \A u \in User : (Locking(u) => Locking(u)') /\ (Enrolling(u) => Enrolling(u)')
  BY <1>1 DEF Locking, Enrolling, At, RowOf
<1>6. ThresholdLocks'
  BY <1>5, ThresholdByDebt DEF AccountsInv, Rows, ThresholdLocks, Locking, Registered
<1>7. StudentCanSignIn'
  BY <1>5 DEF AccountsInv, TablesOK, Rows, StudentCanSignIn, Enrolling, Registered
<1> QED
  BY <1>3, <1>4, <1>6, <1>7 DEF AccountsInv, There

\* checkRateLimit() lets a request through, turns it away, or owes an EXPIRE.
LEMMA CallIsCounted ==
  ASSUME AccountsInv, NEW r \in Request, NEW key \in RateKey,
         NEW next \in LoginAsked \cup ForgotAsked, CallFrom(r, key, next),
         window[key].count < bounds.calls, UNCHANGED Rows
  PROVE  AccountsInv'
<1> DEFINE owed == [at |-> "expire", key |-> key, next |-> next]
<1>1. window' \in [RateKey -> [count : 0..bounds.calls, expires : BOOLEAN]]
  <2>1. /\ window \in [RateKey -> [count : 0..bounds.calls, expires : BOOLEAN]]
        /\ bounds.calls \in Nat
    BY DEF AccountsInv, TablesOK, BoundsOK
  <2>2. window' = [window EXCEPT ![key].count = window[key].count + 1]
    BY DEF CallFrom
  <2>3. window[key].count + 1 \in 0..bounds.calls
    BY <2>1
  <2> QED
    BY <2>1, <2>2, <2>3
<1>2. Goto(r, owed) \/ Goto(r, next) \/ Goto(r, Idle)
  BY DEF CallFrom, Respond
<1>3. owed \in Expiring /\ owed.at = "expire" /\ Idle.at = "idle"
  BY DEF Expiring, Idle
<1>4. owed \in Shape /\ next \in Shape /\ Idle \in Shape /\ next.at \in {"login:read", "forgot:read"}
  BY <1>3 DEF Shape, LoginAsked, ForgotAsked
<1>5. \A g \in {owed, next, Idle} : AccountThere(g) /\ RowThere(g) /\ PurgeThere(g)
  BY <1>3, <1>4 DEF AccountThere, RowThere, PurgeThere
<1>6. ~At(r, "login:lock") /\ ~At(r, "import:role")
  BY DEF CallFrom, At
<1> HIDE DEF owed
<1> QED
  BY <1>1, <1>2, <1>4, <1>5, <1>6, JustMoves

\* A label nobody counts on.
Quiet(g) == g.at \in {"idle", "login:read", "forgot:read", "staff:create", "archive:create"}

LEMMA QuietIsThere ==
  ASSUME NEW g, Quiet(g)
  PROVE  AccountThere(g) /\ RowThere(g) /\ PurgeThere(g)
BY DEF Quiet, AccountThere, RowThere, PurgeThere

LEMMA IdleIsQuiet == Idle \in Shape /\ Quiet(Idle)
BY DEF Idle, Shape, Quiet

\* A request is turned away, or goes on to ask for a row.
LEMMA QuietMove ==
  ASSUME AccountsInv, NEW r \in Request, NEW g \in Shape, Goto(r, g), Quiet(g),
         ~At(r, "login:lock"), ~At(r, "import:role"), UNCHANGED <<Rows, window>>
  PROVE  AccountsInv'
<1>1. window' \in [RateKey -> [count : 0..bounds.calls, expires : BOOLEAN]]
  BY DEF AccountsInv, TablesOK
<1> QED
  BY <1>1, QuietIsThere, JustMoves

LEMMA LoginArrives ==
  ASSUME AccountsInv, NEW r \in Request, LoginRequests(r)
  PROVE  AccountsInv'
<1>1. PICK u \in bounds.people, p \in bounds.secrets : Login(r, u, p)
  BY DEF LoginRequests
<1> DEFINE asked == [at |-> "login:read", user |-> u, password |-> p]
<1>2. asked \in LoginAsked
  BY DEF AccountsInv, BoundsOK, LoginAsked
<1>3. "login" \in RateKey
  BY AccountsOK DEF RateKey
<1>4. CallFrom(r, "login", asked) /\ window["login"].count < bounds.calls /\ UNCHANGED Rows
  BY <1>1 DEF LoginRequests, Login, Rows, retentionVars
<1> HIDE DEF asked
<1> QED
  BY <1>2, <1>3, <1>4, CallIsCounted

LEMMA LinkRequestArrives ==
  ASSUME AccountsInv, NEW r \in Request, LinkRequests(r)
  PROVE  AccountsInv'
<1>1. ASSUME NEW u \in bounds.people, ForgotPassword(r, u), UNCHANGED <<students, retentionVars, bounds>>,
             window["password-reset"].count < bounds.calls
      PROVE  AccountsInv'
  <2> DEFINE asked == [at |-> "forgot:read", user |-> u]
  <2>1. asked \in ForgotAsked
    BY DEF AccountsInv, BoundsOK, ForgotAsked
  <2>2. "password-reset" \in RateKey
    BY AccountsOK DEF RateKey
  <2>3. CallFrom(r, "password-reset", asked) /\ UNCHANGED Rows
    BY <1>1 DEF ForgotPassword, Rows, retentionVars
  <2> HIDE DEF asked
  <2> QED
    BY <1>1, <2>1, <2>2, <2>3, CallIsCounted
<1>2. ASSUME NEW i \in DOMAIN resets, NEW p \in bounds.secrets, RedeemLink(r, i, p),
             UNCHANGED <<students, retentionVars, bounds>>
      PROVE  AccountsInv'
  <2> DEFINE g == [at |-> "redeem", link |-> i, password |-> p]
  <2>1. i \in Nat /\ p \in Password
    BY DEF AccountsInv, TablesOK, BoundsOK
  <2>2. g \in Redeeming /\ g.at = "redeem" /\ g.link = i
    BY <2>1 DEF Redeeming
  <2>3. g \in Shape /\ AccountThere(g) /\ RowThere(g) /\ PurgeThere(g)
    BY <2>2 DEF Shape, AccountThere, RowThere, PurgeThere
  <2>4. /\ Goto(r, g) /\ ~At(r, "login:lock") /\ ~At(r, "import:role")
        /\ UNCHANGED <<Rows, window>>
    BY <1>2 DEF RedeemLink, At, Rows, retentionVars
  <2>5. window' \in [RateKey -> [count : 0..bounds.calls, expires : BOOLEAN]]
    BY <2>4 DEF AccountsInv, TablesOK
  <2> HIDE DEF g
  <2> QED
    BY <2>3, <2>4, <2>5, JustMoves
<1> QED
  BY <1>1, <1>2 DEF LinkRequests

LEMMA StaffPostArrives ==
  ASSUME AccountsInv, NEW r \in Request, PostStaffUser(r)
  PROVE  AccountsInv'
<1>1. PICK u \in bounds.people, roles \in {{"FOCAL"}, {"FOCAL", "HOD"}} : CreateStaffUser(r, u, roles)
  BY DEF PostStaffUser
<1> DEFINE g == [at |-> "staff:create", user |-> u, roles |-> roles]
<1>2. g \in Hiring /\ Quiet(g)
  BY DEF AccountsInv, BoundsOK, Hiring, STAFF_ROLE_NAMES, Quiet
<1>3. g \in Shape
  BY <1>2 DEF Shape
<1>4. /\ Goto(r, g) /\ ~At(r, "login:lock") /\ ~At(r, "import:role")
      /\ UNCHANGED <<Rows, window>>
  BY <1>1 DEF PostStaffUser, CreateStaffUser, At, Rows, retentionVars
<1> HIDE DEF g
<1> QED
  BY <1>2, <1>3, <1>4, QuietMove

LEMMA RolesPostArrives ==
  ASSUME AccountsInv, NEW r \in Request, PostRoles(r)
  PROVE  AccountsInv'
<1>1. PICK u \in bounds.people, roles \in {{"FOCAL"}, {"FOCAL", "HOD"}} : SetUserRoles(r, u, roles)
  BY DEF PostRoles
<1> DEFINE g == [at |-> "roles:create", user |-> u, roles |-> roles,
                 seen |-> users[u].roles \cap STAFF_ROLE_NAMES]
<1>2. g \in EditingRoles /\ g.at = "roles:create" /\ g.user = u
  BY DEF AccountsInv, BoundsOK, EditingRoles, STAFF_ROLE_NAMES
<1>3. Registered(u)
  BY <1>1 DEF SetUserRoles
<1>4. g \in Shape /\ AccountThere(g) /\ RowThere(g) /\ PurgeThere(g)
  BY <1>2, <1>3 DEF Shape, AccountThere, RowThere, PurgeThere
<1>5. /\ Goto(r, g) /\ ~At(r, "login:lock") /\ ~At(r, "import:role")
      /\ UNCHANGED <<Rows, window>>
  BY <1>1 DEF PostRoles, SetUserRoles, At, Rows, retentionVars
<1>6. window' \in [RateKey -> [count : 0..bounds.calls, expires : BOOLEAN]]
  BY <1>5 DEF AccountsInv, TablesOK
<1> HIDE DEF g
<1> QED
  BY <1>4, <1>5, <1>6, JustMoves

LEMMA ImportArrives ==
  ASSUME AccountsInv, NEW r \in Request, ImportRequests(r)
  PROVE  AccountsInv'
<1>1. PICK file \in Files : ImportRoster(r, file)
  BY DEF ImportRequests
<1> DEFINE g == [at |-> "import:row", file |-> file, todo |-> parseRosterCsv(file)]
<1>2. g \in Importing /\ g.at = "import:row" /\ g.todo \subseteq DOMAIN g.file
  BY ParsedRows DEF Importing
<1>3. g \in Shape /\ AccountThere(g) /\ RowThere(g) /\ PurgeThere(g)
  BY <1>2 DEF Shape, AccountThere, RowThere, PurgeThere
<1>4. /\ Goto(r, g) /\ ~At(r, "login:lock") /\ ~At(r, "import:role")
      /\ UNCHANGED <<Rows, window>>
  BY <1>1 DEF ImportRequests, ImportRoster, At, Rows, retentionVars
<1>5. window' \in [RateKey -> [count : 0..bounds.calls, expires : BOOLEAN]]
  BY <1>4 DEF AccountsInv, TablesOK
<1> HIDE DEF g
<1> QED
  BY <1>3, <1>4, <1>5, JustMoves

LEMMA RetentionRequestArrives ==
  ASSUME AccountsInv, NEW r \in Request, RetentionRequests(r)
  PROVE  AccountsInv'
<1>1. CASE CreateDocumentArchive(r)
  <2> DEFINE g == [at |-> "archive:create", eligible |-> Unarchived]
  <2>1. g \in Archiving /\ Quiet(g)
    BY DEF Archiving, Unarchived, Quiet
  <2>2. g \in Shape
    BY <2>1 DEF Shape
  <2>3. /\ Goto(r, g) /\ ~At(r, "login:lock") /\ ~At(r, "import:role")
        /\ UNCHANGED <<Rows, window>>
    BY <1>1 DEF RetentionRequests, CreateDocumentArchive, At, Rows, retentionVars
  <2> HIDE DEF g
  <2> QED
    BY <2>1, <2>2, <2>3, QuietMove
<1>2. ASSUME NEW a \in DOMAIN archives, ConfirmArchivePurge(r, a) PROVE AccountsInv'
  <2> DEFINE g == [at |-> "purge", archive |-> a,
                   todo |-> {d \in Doc : docs[d].archive = a /\ ~docs[d].purged}]
  <2>1. a \in Nat /\ a # 0
    BY DEF AccountsInv, TablesOK
  <2>2. /\ g \in Purging /\ g.at = "purge" /\ g.archive = a
        /\ g.todo = {d \in Doc : docs[d].archive = a /\ ~docs[d].purged}
    BY <2>1 DEF Purging
  <2>3. g \in Shape /\ AccountThere(g) /\ RowThere(g) /\ PurgeThere(g)
    BY <2>1, <2>2 DEF Shape, AccountThere, RowThere, PurgeThere
  <2>4. /\ Goto(r, g) /\ ~At(r, "login:lock") /\ ~At(r, "import:role")
        /\ UNCHANGED <<Rows, window>>
    BY <1>2 DEF RetentionRequests, ConfirmArchivePurge, At, Rows, retentionVars
  <2>5. window' \in [RateKey -> [count : 0..bounds.calls, expires : BOOLEAN]]
    BY <2>4 DEF AccountsInv, TablesOK
  <2> HIDE DEF g
  <2> QED
    BY <2>3, <2>4, <2>5, JustMoves
<1> QED
  BY <1>1, <1>2 DEF RetentionRequests

\* A request that goes on to an account's own label finds the account.
LEMMA AccountMove ==
  ASSUME AccountsInv, NEW r \in Request, NEW g \in OfUser \cup Verifying \cup Issued,
         Goto(r, g), Registered(g.user),
         ~At(r, "login:lock"), ~At(r, "import:role"), UNCHANGED <<Rows, window>>
  PROVE  AccountsInv'
<1>1. g \in Shape /\ g.at \in {"login:lock", "issue:revoke", "login:verify", "issue:create"}
  BY DEF Shape, OfUser, Verifying, Issued
<1>2. AccountThere(g) /\ RowThere(g) /\ PurgeThere(g)
  BY <1>1 DEF AccountThere, RowThere, PurgeThere
<1>3. window' \in [RateKey -> [count : 0..bounds.calls, expires : BOOLEAN]]
  BY DEF AccountsInv, TablesOK
<1> QED
  BY <1>1, <1>2, <1>3, JustMoves

LEMMA ExpireKeeps ==
  ASSUME AccountsInv, NEW r \in Request, Expire(r), UNCHANGED Rows
  PROVE  AccountsInv'
<1>1. request[r] \in Expiring
  BY ByLabel DEF AccountsInv, RequestsOK, Expire, At
<1> DEFINE g == request[r].next
<1>2. g \in Shape /\ Quiet(g)
  BY <1>1 DEF Expiring, LoginAsked, ForgotAsked, Shape, Quiet
<1>3. AccountThere(g) /\ RowThere(g) /\ PurgeThere(g)
  BY <1>2, QuietIsThere
<1>4. request[r].key \in RateKey
  BY <1>1 DEF Expiring
<1>5. window' \in [RateKey -> [count : 0..bounds.calls, expires : BOOLEAN]]
  BY <1>4 DEF AccountsInv, TablesOK, Expire
<1>6. Goto(r, g) /\ ~At(r, "login:lock") /\ ~At(r, "import:role")
  BY DEF Expire, At
<1> HIDE DEF g
<1> QED
  BY <1>2, <1>3, <1>5, <1>6, JustMoves

LEMMA LoginReadKeeps ==
  ASSUME AccountsInv, NEW r \in Request, LoginRead(r), UNCHANGED <<Rows, window>>
  PROVE  AccountsInv'
<1> DEFINE f == request[r]
           g == [at |-> "login:verify", user |-> f.user, password |-> f.password,
                 row |-> users[f.user]]
<1>1. f \in LoginAsked
  BY ByLabel DEF AccountsInv, RequestsOK, LoginRead, At
<1>2. ~At(r, "login:lock") /\ ~At(r, "import:role")
  BY DEF LoginRead, At
<1>3. CASE Goto(r, Idle)
  BY <1>2, <1>3, IdleIsQuiet, QuietMove
<1>4. CASE Registered(f.user) /\ Goto(r, g)
  <2>1. users[f.user] \in Account
    BY <1>1, <1>4 DEF AccountsInv, TablesOK, LoginAsked, Registered
  <2>2. g \in Verifying /\ g.user = f.user
    BY <1>1, <2>1 DEF LoginAsked, Verifying
  <2> QED
    BY <1>2, <1>4, <2>2, AccountMove
<1> QED
  BY <1>3, <1>4 DEF LoginRead, Respond

LEMMA ForgotReadKeeps ==
  ASSUME AccountsInv, NEW r \in Request, ForgotRead(r), UNCHANGED <<Rows, window>>
  PROVE  AccountsInv'
<1> DEFINE u == request[r].user
           g == [at |-> "issue:revoke", user |-> u]
<1>1. request[r] \in ForgotAsked
  BY ByLabel DEF AccountsInv, RequestsOK, ForgotRead, At
<1>2. ~At(r, "login:lock") /\ ~At(r, "import:role")
  BY DEF ForgotRead, At
<1>3. CASE Goto(r, Idle)
  BY <1>2, <1>3, IdleIsQuiet, QuietMove
<1>4. CASE Registered(u) /\ Goto(r, g)
  <2>1. g \in OfUser /\ g.user = u
    BY <1>1 DEF ForgotAsked, OfUser
  <2> QED
    BY <1>2, <1>4, <2>1, AccountMove
<1> QED
  BY <1>3, <1>4 DEF ForgotRead, Respond

LEMMA IssueRevokeKeeps ==
  ASSUME AccountsInv, NEW r \in Request, IssueRevoke(r), UNCHANGED <<Rows, window>>
  PROVE  AccountsInv'
<1> DEFINE u == request[r].user
           g == [at |-> "issue:create", user |-> u, seen |-> LiveLinks(u)]
<1>1. request[r] \in OfUser
  BY ByLabel DEF AccountsInv, RequestsOK, IssueRevoke, At
<1>2. Registered(u) /\ ~At(r, "login:lock") /\ ~At(r, "import:role") /\ Goto(r, g)
  BY DEF AccountsInv, AccountThere, IssueRevoke, At
<1>3. LiveLinks(u) \subseteq Nat
  BY DEF AccountsInv, TablesOK, LiveLinks
<1>4. g \in Issued /\ g.user = u
  BY <1>1, <1>3 DEF OfUser, Issued
<1> HIDE DEF g
<1> QED
  BY <1>2, <1>4, AccountMove

LEMMA ImportDoneKeeps ==
  ASSUME AccountsInv, NEW r \in Request, ImportDone(r), UNCHANGED <<Rows, window>>
  PROVE  AccountsInv'
<1>1. Goto(r, Idle) /\ ~At(r, "login:lock") /\ ~At(r, "import:role")
  BY DEF ImportDone, Respond, At
<1> QED
  BY <1>1, IdleIsQuiet, QuietMove

\* The next row of an import has the shape of one, and relies on nothing yet.
LEMMA NextRowIsThere ==
  ASSUME NEW f \in Importing, f.todo \subseteq DOMAIN f.file, NEW i,
         NEW g, g = [at |-> "import:row", file |-> f.file, todo |-> f.todo \ {i}]
  PROVE  g \in Shape /\ AccountThere(g) /\ RowThere(g) /\ PurgeThere(g)
<1>1. g \in Importing /\ g.at = "import:row" /\ g.todo \subseteq DOMAIN g.file
  BY DEF Importing
<1> QED
  BY <1>1 DEF Shape, AccountThere, RowThere, PurgeThere

LEMMA RowReported ==
  ASSUME AccountsInv, NEW r \in Request, request[r].at \in {"import:row", "import:student"},
         NextRow(r), UNCHANGED <<Rows, window>>
  PROVE  AccountsInv'
<1> DEFINE f == request[r]
           i == CHOOSE i \in f.todo : \A j \in f.todo : i <= j
           g == [at |-> "import:row", file |-> f.file, todo |-> f.todo \ {i}]
<1>1. f \in Importing
  BY ByLabel DEF AccountsInv, RequestsOK
<1>2. f.todo \subseteq DOMAIN f.file
  BY DEF AccountsInv, RowThere
<1>3. Goto(r, g) /\ ~At(r, "login:lock") /\ ~At(r, "import:role")
  BY DEF NextRow, At
<1>4. window' \in [RateKey -> [count : 0..bounds.calls, expires : BOOLEAN]]
  BY DEF AccountsInv, TablesOK
<1> HIDE DEF i
<1>5. g \in Shape /\ AccountThere(g) /\ RowThere(g) /\ PurgeThere(g)
  BY <1>1, <1>2, NextRowIsThere
<1> HIDE DEF g
<1> QED
  BY <1>3, <1>4, <1>5, JustMoves

-----------------------------------------------------------------------------
(* Steps of no request that write no table of the invariants.              *)

LEMMA RedisKeeps ==
  ASSUME AccountsInv, NEW key \in RateKey, RedisStep(key)
  PROVE  AccountsInv'
<1>1. window' \in [RateKey -> [count : 0..bounds.calls, expires : BOOLEAN]]
  <2>1. /\ window \in [RateKey -> [count : 0..bounds.calls, expires : BOOLEAN]]
        /\ 0 \in 0..bounds.calls
    BY DEF AccountsInv, TablesOK, BoundsOK
  <2>2. window' = [window EXCEPT ![key] = [count |-> 0, expires |-> FALSE]]
    BY DEF RedisStep, WindowEnds
  <2> QED
    BY <2>1, <2>2
<1>2. UNCHANGED <<Rows, request>>
  BY DEF RedisStep, WindowEnds, Rows, retentionVars
<1>3. BoundsOK' /\ TablesOK' /\ RequestsOK' /\ StudentsApart' /\ LinksOK' /\ ConfirmedArchiveIsPurged'
  BY <1>1, <1>2 DEF AccountsInv, Rows, BoundsOK, TablesOK, RequestsOK, StudentsApart, LinksOK,
     LiveLinks, Registered, ConfirmedArchiveIsPurged
<1>4. ASSUME NEW r \in Request
      PROVE  (AccountThere(request[r]) /\ RowThere(request[r]) /\ PurgeThere(request[r]))'
  <2>1. UsersKept /\ LinksKept /\ DocsKept /\ Stays(r)
    BY <1>2 DEF Rows, UsersKept, LinksKept, DocsKept, Registered, Stays
  <2> QED
    BY <2>1, StillThere DEF AccountsInv, There
<1>5. \A u \in User : (Locking(u) => Locking(u)') /\ (Enrolling(u) => Enrolling(u)')
  BY <1>2 DEF Locking, Enrolling, At, RowOf
<1>6. ThresholdLocks'
  BY <1>2, <1>5 DEF AccountsInv, Rows, ThresholdLocks, Locking, Registered
<1>7. StudentCanSignIn'
  BY <1>2, <1>5 DEF AccountsInv, TablesOK, Rows, StudentCanSignIn, Enrolling, Registered
<1> QED
  BY <1>3, <1>4, <1>6, <1>7 DEF AccountsInv

\* A dead process leaves no request, and its rows where they were.
LEMMA WebDiesKeeps ==
  ASSUME AccountsInv, WebDies, UNCHANGED <<students, retentionVars, bounds>>
  PROVE  AccountsInv'
<1>1. crashes' \in Nat /\ crashes' # 0
  BY DEF AccountsInv, TablesOK, WebDies
<1>2. request' \in [Request -> Shape] /\ \A r \in Request : request'[r] = Idle
  BY IdleIsQuiet DEF WebDies
<1>3. \A r \in Request : (AccountThere(request[r]) /\ RowThere(request[r]) /\ PurgeThere(request[r]))'
  BY <1>2 DEF Idle, AccountThere, RowThere, PurgeThere
<1>4. UNCHANGED <<users, resets, window, students, docs, archives, bounds>>
  BY DEF WebDies, retentionVars
<1>5. BoundsOK' /\ TablesOK' /\ RequestsOK' /\ StudentsApart' /\ LinksOK' /\ ConfirmedArchiveIsPurged'
  BY <1>1, <1>2, <1>4 DEF AccountsInv, BoundsOK, TablesOK, RequestsOK, StudentsApart, LinksOK,
     LiveLinks, Registered, ConfirmedArchiveIsPurged
<1>6. ThresholdLocks' /\ StudentCanSignIn'
  BY <1>1 DEF ThresholdLocks, StudentCanSignIn
<1> QED
  BY <1>3, <1>5, <1>6 DEF AccountsInv

-----------------------------------------------------------------------------
(* Steps that write a row of users.                                        *)

LEMMA LinkTyped ==
  ASSUME TablesOK
  PROVE  /\ Len(resets) \in Nat /\ DOMAIN resets = 1..Len(resets)
         /\ \A i \in DOMAIN resets : resets[i] \in ResetLink
<1>1. resets \in Seq(ResetLink)
  BY DEF TablesOK
<1>2. /\ Len(resets) \in Nat /\ DOMAIN resets = 1..Len(resets)
      /\ resets \in [1..Len(resets) -> ResetLink]
  BY <1>1, LenProperties
<1> QED
  BY <1>2

Used(u) == {i \in DOMAIN resets : resets[i].user = u /\ resets[i].used}

LEMMA UsedIsCounted ==
  ASSUME TablesOK, NEW u
  PROVE  IsFiniteSet(Used(u)) /\ Cardinality(Used(u)) \in Nat
<1>1. DOMAIN resets = 1..Len(resets) /\ Len(resets) \in Nat
  BY LenProperties DEF TablesOK
<1>2. IsFiniteSet(DOMAIN resets)
  BY <1>1, FS_Interval
<1>3. Used(u) \subseteq DOMAIN resets
  BY DEF Used
<1> QED
  BY <1>2, <1>3, FS_Subset, FS_CardinalityType

\* Row a takes nothing from account u that a request, a link or a student relies on.
Keeps(u, a) ==
  Registered(u) => /\ users[u].password # NoPassword => a.password # NoPassword
                   /\ a.version >= users[u].version
                   /\ "STUDENT" \in users[u].roles => "STUDENT" \in a.roles

LEMMA RowKeepsUsers ==
  ASSUME TablesOK, NEW u \in User, NEW a \in Account, users' = [users EXCEPT ![u] = a], Keeps(u, a)
  PROVE  UsersKept
<1>1. a # NoUser
  BY StartsOK
<1> QED
  BY <1>1 DEF TablesOK, UsersKept, Keeps, Registered

\* While no link changes, the links agree with the new row.
LEMMA RowKeepsLinks ==
  ASSUME AccountsInv, NEW u \in User, NEW a \in Account, users' = [users EXCEPT ![u] = a],
         Keeps(u, a), UNCHANGED resets
  PROVE  LinksOK'
<1>1. TablesOK /\ LinksOK /\ UsersKept
  BY RowKeepsUsers DEF AccountsInv
<1>2. \A i \in DOMAIN resets' : Registered(resets[i].user)'
  <2>1. \A i \in DOMAIN resets : resets[i].user \in User
    BY <1>1, LinkTyped DEF ResetLink
  <2> QED
    BY <1>1, <2>1 DEF LinksOK, Registered, UsersKept
<1>3. \A v \in User : \A i, j \in LiveLinks(v)' : i = j
  BY <1>1 DEF LinksOK, LiveLinks
<1>4. ASSUME NEW v \in User, Registered(v)' PROVE users'[v].version >= Cardinality(Used(v)')
  <2>1. Used(v)' = Used(v) /\ Cardinality(Used(v)) \in Nat
    BY <1>1, UsedIsCounted DEF Used
  <2>2. CASE v = u /\ ~Registered(u)
    <3>1. Used(v) = {}
      BY <1>1, <2>2 DEF LinksOK, Used
    <3>2. Cardinality(Used(v)) = 0
      BY <3>1, FS_EmptySet
    <3>3. users'[v].version \in Nat
      BY <1>1, <2>2 DEF TablesOK, Account
    <3> QED
      BY <2>1, <3>2, <3>3
  <2>3. CASE v = u /\ Registered(u)
    <3>1. users[u].version \in Nat /\ a.version \in Nat /\ a.version >= users[u].version
      BY <1>1, <2>3 DEF TablesOK, Registered, Account, Keeps
    <3>2. users[u].version >= Cardinality(Used(u))
      BY <1>1, <2>3 DEF LinksOK, Used
    <3>3. users'[v] = a
      BY <1>1, <2>3 DEF TablesOK
    <3> QED
      BY <2>1, <2>3, <3>1, <3>2, <3>3
  <2>4. CASE v # u
    <3>1. users'[v] = users[v]
      BY <1>1, <2>4 DEF TablesOK
    <3>2. users[v].version >= Cardinality(Used(v))
      BY <1>1, <1>4, <3>1 DEF LinksOK, Used, Registered
    <3> QED
      BY <2>1, <3>1, <3>2
  <2> QED
    BY <2>2, <2>3, <2>4
<1> QED
  BY <1>2, <1>3, <1>4 DEF LinksOK, Used

\* One row of users changes, and each request stays or finds what it relies on.
LEMMA RowChanges ==
  ASSUME AccountsInv, NEW u \in User, NEW a \in Account, users' = [users EXCEPT ![u] = a],
         Keeps(u, a), LinksKept, LinksOK', resets' \in Seq(ResetLink),
         UNCHANGED <<window, students, docs, archives, crashes, bounds>>,
         RequestsOK', \A q \in Request : Stays(q) \/ There(q)',
         \A q \in Request : At(q, "import:role") =>
           \/ request'[q] = request[q]
           \/ RowOf(request[q]).email = u /\ "STUDENT" \in a.roles,
         \A q \in Request : At(q, "login:lock") => request'[q] = request[q] \/ request[q].user = u,
         crashes = 0 /\ Owing(u)' => Locking(u)'
  PROVE  AccountsInv'
<1>1. TablesOK /\ UsersKept /\ DocsKept
  BY RowKeepsUsers DEF AccountsInv, DocsKept
<1>2. ASSUME NEW q \in Request PROVE There(q)'
  BY <1>1, StillThere DEF AccountsInv, There
<1>3. BoundsOK' /\ TablesOK' /\ StudentsApart' /\ ConfirmedArchiveIsPurged'
  BY DEF AccountsInv, BoundsOK, TablesOK, StudentsApart, ConfirmedArchiveIsPurged
<1>4. \A v \in User \ {u} : users'[v] = users[v]
  BY <1>1 DEF TablesOK
<1>5. ThresholdLocks'
  <2>1. ASSUME NEW v \in User \ {u}, crashes = 0, Owing(v)' PROVE Locking(v)'
    <3>1. Owing(v)
      BY <1>4, <2>1 DEF Owing, Registered
    <3>2. Locking(v)
      BY <2>1, <3>1, ThresholdByDebt DEF AccountsInv
    <3> QED
      BY <2>1, <3>2 DEF Locking, At
  <2>2. \A v \in User : crashes' = 0 /\ Owing(v)' => Locking(v)'
    BY <2>1
  <2> QED
    BY <2>2 DEF ThresholdLocks, Owing, Locking
<1>6. ASSUME crashes = 0, NEW n \in RegistrationNumber, students[n] # NoUser
      PROVE  LET v == students[n] IN
             /\ Registered(v)' /\ users'[v].password # NoPassword
             /\ "STUDENT" \in users'[v].roles \/ Enrolling(v)'
  <2> DEFINE v == students[n]
  <2>1. /\ v \in User /\ Registered(v) /\ users[v].password # NoPassword
        /\ "STUDENT" \in users[v].roles \/ Enrolling(v)
    BY <1>1, <1>6 DEF AccountsInv, TablesOK, StudentCanSignIn, Enrolling
  <2>2. Registered(v)' /\ users'[v].password # NoPassword
    BY <1>1, <2>1 DEF UsersKept, Registered
  <2>3. "STUDENT" \in users[v].roles => "STUDENT" \in users'[v].roles
    BY <1>1, <1>4, <2>1 DEF TablesOK, Keeps, Registered
  <2>4. Enrolling(v) => Enrolling(v)' \/ "STUDENT" \in users'[v].roles
    <3>1. SUFFICES ASSUME NEW q \in Request, At(q, "import:role"), RowOf(request[q]).email = v
                   PROVE  Enrolling(v)' \/ "STUDENT" \in users'[v].roles
      BY DEF Enrolling
    <3>2. CASE request'[q] = request[q]
      BY <3>1, <3>2 DEF Enrolling, At, RowOf
    <3>3. CASE v = u /\ "STUDENT" \in a.roles
      BY <1>1, <2>1, <3>3 DEF TablesOK
    <3> QED
      BY <3>1, <3>2, <3>3
  <2> QED
    BY <2>1, <2>2, <2>3, <2>4
<1>7. StudentCanSignIn'
  BY <1>6 DEF StudentCanSignIn, Enrolling
<1> QED
  BY <1>2, <1>3, <1>5, <1>7 DEF AccountsInv, There

\* A debt that was there has its request, unless that request moved.
LEMMA DebtStays ==
  ASSUME AccountsInv, NEW u \in User, Owing(u)' => Owing(u),
         \A q \in Request : At(q, "login:lock") => request'[q] = request[q]
  PROVE  crashes = 0 /\ Owing(u)' => Locking(u)'
<1>1. crashes = 0 /\ Owing(u)' => Locking(u)
  BY ThresholdByDebt DEF AccountsInv
<1>2. Locking(u) => Locking(u)'
  BY DEF Locking, At
<1> QED
  BY <1>1, <1>2

\* One row of users changes, and one request moves.
LEMMA RowAndMove ==
  ASSUME AccountsInv, NEW r \in Request, NEW u \in User, NEW a \in Account,
         users' = [users EXCEPT ![u] = a], Keeps(u, a), NEW g \in Shape, Goto(r, g),
         AccountThere(g)', RowThere(g)', PurgeThere(g)',
         UNCHANGED <<resets, window, students, docs, archives, crashes, bounds>>,
         At(r, "import:role") => RowOf(request[r]).email = u /\ "STUDENT" \in a.roles,
         At(r, "login:lock") => request[r].user = u,
         crashes = 0 /\ Owing(u)' => Locking(u)'
  PROVE  AccountsInv'
<1>1. /\ request' \in [Request -> Shape] /\ request'[r] = g
      /\ \A q \in Request \ {r} : request'[q] = request[q]
  BY DEF AccountsInv, RequestsOK, Goto
<1>2. There(r)'
  BY <1>1 DEF There, AccountThere, RowThere, PurgeThere, RowOf
<1>3. \A q \in Request : Stays(q) \/ There(q)'
  BY <1>1, <1>2 DEF Stays
<1>4. LinksOK' /\ LinksKept /\ resets' \in Seq(ResetLink)
  BY RowKeepsLinks DEF LinksKept, AccountsInv, TablesOK
<1>5. RequestsOK'
  BY <1>1 DEF RequestsOK
<1>6. /\ \A q \in Request : At(q, "import:role") =>
           request'[q] = request[q] \/ (RowOf(request[q]).email = u /\ "STUDENT" \in a.roles)
      /\ \A q \in Request : At(q, "login:lock") => request'[q] = request[q] \/ request[q].user = u
  BY <1>1
<1> QED
  BY <1>3, <1>4, <1>5, <1>6, RowChanges

\* One row of users changes, and no request moves.
LEMMA RowAlone ==
  ASSUME AccountsInv, NEW u \in User, NEW a \in Account, users' = [users EXCEPT ![u] = a],
         Keeps(u, a), Owing(u)' => Owing(u),
         UNCHANGED <<request, resets, window, students, docs, archives, crashes, bounds>>
  PROVE  AccountsInv'
<1>1. LinksOK' /\ LinksKept /\ resets' \in Seq(ResetLink)
  BY RowKeepsLinks DEF LinksKept, AccountsInv, TablesOK
<1>2. RequestsOK'
  BY DEF RequestsOK, AccountsInv
<1>3. \A q \in Request : request'[q] = request[q] /\ Stays(q)
  BY DEF Stays
<1>4. crashes = 0 /\ Owing(u)' => Locking(u)'
  BY <1>3, DebtStays
<1> QED
  BY <1>1, <1>2, <1>3, <1>4, RowChanges

\* The row of an account that is there.
LEMMA RowIsAccount ==
  ASSUME AccountsInv, NEW u \in User, Registered(u)
  PROVE  users[u] \in Account /\ users \in [User -> Account \cup {NoUser}]
BY DEF AccountsInv, TablesOK, Registered

LEMMA LockExpiresKeeps ==
  ASSUME AccountsInv, NEW u \in User, LockExpires(u), UNCHANGED <<students, retentionVars, bounds>>
  PROVE  AccountsInv'
<1> DEFINE a == [users[u] EXCEPT !.lock = "past"]
<1>1. Registered(u) /\ users[u] \in Account /\ users \in [User -> Account \cup {NoUser}]
  BY RowIsAccount DEF LockExpires
<1>2. a \in Account /\ Keeps(u, a) /\ a.lock = "past"
  BY <1>1 DEF Account, Keeps
<1>3. users' = [users EXCEPT ![u] = a]
  BY <1>1 DEF LockExpires
<1>4. ~Owing(u)'
  BY <1>1, <1>2, <1>3 DEF Owing
<1>5. UNCHANGED <<request, resets, window, students, docs, archives, crashes, bounds>>
  BY DEF LockExpires, retentionVars
<1> QED
  BY <1>2, <1>3, <1>4, <1>5, RowAlone

LEMMA DisablingKeeps ==
  ASSUME AccountsInv, PostDeactivate \/ PostReactivate
  PROVE  AccountsInv'
<1>1. PICK u \in User : DeactivateUser(u) \/ ReactivateUser(u)
  BY DEF PostDeactivate, PostReactivate
<1>2. PICK b \in BOOLEAN : users' = [users EXCEPT ![u].disabled = b]
  BY <1>1 DEF DeactivateUser, ReactivateUser
<1> DEFINE a == [users[u] EXCEPT !.disabled = b]
<1>3. Registered(u) /\ users[u] \in Account /\ users \in [User -> Account \cup {NoUser}]
  BY <1>1, RowIsAccount DEF DeactivateUser, ReactivateUser
<1>4. a \in Account /\ Keeps(u, a) /\ a.lock = users[u].lock /\ a.attempts = users[u].attempts
  BY <1>3 DEF Account, Keeps
<1>5. users' = [users EXCEPT ![u] = a]
  BY <1>2, <1>3
<1>6. Owing(u)' => Owing(u)
  BY <1>3, <1>4, <1>5 DEF Owing
<1>7. UNCHANGED <<request, resets, window, students, docs, archives, crashes, bounds>>
  BY <1>1 DEF PostDeactivate, PostReactivate, DeactivateUser, ReactivateUser, retentionVars
<1> QED
  BY <1>4, <1>5, <1>6, <1>7, RowAlone

-----------------------------------------------------------------------------
(* The steps of a login.                                                   *)

LEMMA LoginVerifyKeeps ==
  ASSUME AccountsInv, NEW r \in Request, LoginVerify(r), UNCHANGED <<students, retentionVars, bounds>>
  PROVE  AccountsInv'
<1>0. PICK u \in User : request[r] \in Verifying /\ u = request[r].user
  BY ByLabel DEF AccountsInv, RequestsOK, LoginVerify, At, Verifying
<1> DEFINE Cleared == [users[u] EXCEPT !.attempts = 0, !.lock = "never"]
           Failed == [users[u] EXCEPT !.attempts = @ + 1]
           owed == [at |-> "login:lock", user |-> u]
<1>2. Registered(u) /\ ~At(r, "login:lock") /\ ~At(r, "import:role")
  BY <1>0 DEF AccountsInv, AccountThere, LoginVerify, At
<1>3. users[u] \in Account /\ users \in [User -> Account \cup {NoUser}]
  BY <1>2, RowIsAccount
<1>4. UNCHANGED <<resets, window, students, docs, archives, crashes, bounds>>
  BY DEF LoginVerify, retentionVars
<1>5. CASE users' = [users EXCEPT ![u].attempts = 0, ![u].lock = "never"] /\ Goto(r, Idle)
  <2>1. Cleared \in Account /\ Keeps(u, Cleared) /\ Cleared.attempts = 0
    <3>1. Cleared \in Account
      BY <1>3 DEF Account
    <3>2. /\ Cleared.attempts = 0 /\ Cleared.password = users[u].password
          /\ Cleared.version = users[u].version /\ Cleared.roles = users[u].roles
      BY <1>3 DEF Account
    <3>3. users[u].version \in Nat
      BY <1>3 DEF Account
    <3> HIDE DEF Cleared
    <3> QED
      BY <3>1, <3>2, <3>3 DEF Keeps
  <2>2. users' = [users EXCEPT ![u] = Cleared]
    BY <1>3, <1>5
  <2>3. ~Owing(u)'
    BY <1>3, <2>1, <2>2, AccountsOK DEF Owing
  <2>4. Idle \in Shape /\ AccountThere(Idle)' /\ RowThere(Idle)' /\ PurgeThere(Idle)'
    BY IdleIsQuiet DEF Idle, AccountThere, RowThere, PurgeThere
  <2> HIDE DEF Cleared
  <2> QED
    BY <1>2, <1>4, <1>5, <2>1, <2>2, <2>3, <2>4, RowAndMove
<1>6. CASE /\ users' = [users EXCEPT ![u].attempts = @ + 1]
           /\ IF users'[u].attempts >= MAX_FAILED_LOGIN_ATTEMPTS THEN Goto(r, owed) ELSE Goto(r, Idle)
  <2>1. Failed \in Account /\ Keeps(u, Failed)
    BY <1>3 DEF Account, Keeps
  <2>2. users' = [users EXCEPT ![u] = Failed]
    BY <1>3, <1>6
  <2>3. CASE users'[u].attempts >= MAX_FAILED_LOGIN_ATTEMPTS /\ Goto(r, owed)
    <3>1. owed \in OfUser /\ owed.at = "login:lock" /\ owed.user = u
      BY DEF OfUser
    <3>2. Registered(u)'
      BY <1>3, <2>1, <2>2, StartsOK DEF Registered
    <3>3. owed \in Shape /\ AccountThere(owed)' /\ RowThere(owed)' /\ PurgeThere(owed)'
      BY <3>1, <3>2 DEF Shape, AccountThere, RowThere, PurgeThere, Registered
    <3>4. request'[r] = owed
      BY <2>3 DEF Goto, AccountsInv, RequestsOK
    <3>5. Locking(u)'
      BY <3>1, <3>4 DEF Locking, At
    <3> HIDE DEF Failed, owed
    <3> QED
      BY <1>2, <1>4, <2>1, <2>2, <2>3, <3>3, <3>5, RowAndMove
  <2>4. CASE ~(users'[u].attempts >= MAX_FAILED_LOGIN_ATTEMPTS) /\ Goto(r, Idle)
    <3>1. ~Owing(u)'
      BY <2>4 DEF Owing
    <3>2. Idle \in Shape /\ AccountThere(Idle)' /\ RowThere(Idle)' /\ PurgeThere(Idle)'
      BY IdleIsQuiet DEF Idle, AccountThere, RowThere, PurgeThere
    <3> HIDE DEF Failed
    <3> QED
      BY <1>2, <1>4, <2>1, <2>2, <2>4, <3>1, <3>2, RowAndMove
  <2> QED
    BY <1>6, <2>3, <2>4
<1> QED
  BY <1>0, <1>5, <1>6 DEF LoginVerify, Respond

LEMMA LoginLockKeeps ==
  ASSUME AccountsInv, NEW r \in Request, LoginLock(r), UNCHANGED <<students, retentionVars, bounds>>
  PROVE  AccountsInv'
<1>1. PICK u \in User : request[r] \in OfUser /\ u = request[r].user
  BY ByLabel DEF AccountsInv, RequestsOK, LoginLock, At, OfUser
<1> DEFINE a == [users[u] EXCEPT !.lock = "locked"]
<1>2. Registered(u) /\ ~At(r, "import:role") /\ Goto(r, Idle)
  BY <1>1 DEF AccountsInv, AccountThere, LoginLock, At, Respond
<1>3. users[u] \in Account /\ users \in [User -> Account \cup {NoUser}]
  BY <1>1, <1>2, RowIsAccount
<1>4. UNCHANGED <<resets, window, students, docs, archives, crashes, bounds>>
  BY DEF LoginLock, retentionVars
<1>5. a \in Account /\ Keeps(u, a) /\ a.lock = "locked"
  BY <1>3 DEF Account, Keeps
<1>6. users' = [users EXCEPT ![u] = a]
  BY <1>1, <1>3 DEF LoginLock
<1>7. ~Owing(u)'
  BY <1>1, <1>3, <1>5, <1>6 DEF Owing
<1>8. Idle \in Shape /\ AccountThere(Idle)' /\ RowThere(Idle)' /\ PurgeThere(Idle)'
  BY IdleIsQuiet DEF Idle, AccountThere, RowThere, PurgeThere
<1>9. At(r, "login:lock") => request[r].user = u
  BY <1>1
<1> HIDE DEF a
<1> QED
  BY <1>1, <1>2, <1>4, <1>5, <1>6, <1>7, <1>8, <1>9, RowAndMove

-----------------------------------------------------------------------------
(* The steps of an Admin's edits.                                          *)

\* A fresh row is a row, and owes no lock.
LEMMA FreshIsAccount ==
  ASSUME NEW roles \in SUBSET (STAFF_ROLE_NAMES \cup {"STUDENT"})
  PROVE  /\ FreshAccount(roles) \in Account
         /\ FreshAccount(roles).attempts = 0 /\ FreshAccount(roles).password = NoPassword
BY DEF FreshAccount, Account

LEMMA StaffCreateKeeps ==
  ASSUME AccountsInv, NEW r \in Request, StaffCreate(r), UNCHANGED <<students, retentionVars, bounds>>
  PROVE  AccountsInv'
<1>1. PICK u \in User, roles \in SUBSET STAFF_ROLE_NAMES :
        request[r] \in Hiring /\ u = request[r].user /\ roles = request[r].roles
  BY ByLabel DEF AccountsInv, RequestsOK, StaffCreate, At, Hiring
<1>2. ~At(r, "login:lock") /\ ~At(r, "import:role")
  BY DEF StaffCreate, At
<1>3. UNCHANGED <<resets, window, students, docs, archives, crashes, bounds>>
  BY DEF StaffCreate, retentionVars
<1>4. CASE Goto(r, Idle) /\ UNCHANGED users
  BY <1>2, <1>3, <1>4, IdleIsQuiet, QuietMove DEF Rows
<1> DEFINE a == FreshAccount(roles)
           g == [at |-> "issue:revoke", user |-> u]
<1>5. CASE ~Registered(u) /\ users' = [users EXCEPT ![u] = a] /\ Goto(r, g)
  <2>1. a \in Account /\ a.attempts = 0 /\ Keeps(u, a)
    BY <1>5, FreshIsAccount DEF Keeps
  <2>2. users'[u] = a
    BY <1>5 DEF AccountsInv, TablesOK
  <2>3. ~Owing(u)'
    BY <2>1, <2>2, AccountsOK DEF Owing
  <2>4. g \in OfUser /\ g.at = "issue:revoke" /\ g.user = u
    BY DEF OfUser
  <2>5. users'[u] # NoUser
    BY <2>1, <2>2, StartsOK
  <2>6. g \in Shape /\ AccountThere(g)' /\ RowThere(g)' /\ PurgeThere(g)'
    BY <2>4, <2>5 DEF Shape, AccountThere, RowThere, PurgeThere, Registered
  <2> HIDE DEF a, g
  <2> QED
    BY <1>2, <1>3, <1>5, <2>1, <2>3, <2>6, RowAndMove
<1> QED
  BY <1>1, <1>4, <1>5 DEF StaffCreate, Respond

LEMMA RolesCreateKeeps ==
  ASSUME AccountsInv, NEW r \in Request, RolesCreate(r), UNCHANGED <<students, retentionVars, bounds>>
  PROVE  AccountsInv'
<1>1. PICK u \in User : request[r] \in EditingRoles /\ u = request[r].user
  BY ByLabel DEF AccountsInv, RequestsOK, RolesCreate, At, EditingRoles
<1>2. ~At(r, "login:lock") /\ ~At(r, "import:role") /\ Registered(u)
  BY <1>1 DEF AccountsInv, AccountThere, RolesCreate, At
<1>3. UNCHANGED <<resets, window, students, docs, archives, crashes, bounds>>
  BY DEF RolesCreate, retentionVars
<1>4. CASE Goto(r, Idle) /\ UNCHANGED users
  BY <1>2, <1>3, <1>4, IdleIsQuiet, QuietMove DEF Rows
<1> DEFINE kept == users[u].roles \ request[r].seen
           a == [users[u] EXCEPT !.roles = kept \cup request[r].roles]
<1>5. CASE /\ users' = [users EXCEPT ![u].roles = kept \cup request[r].roles]
           /\ request' = [q \in Request |->
                            CASE q = r -> Idle
                              [] q # r /\ At(q, "roles:create") /\ request[q].user = u
                                   -> [request[q] EXCEPT !.seen = @ \cap kept]
                              [] OTHER -> request[q]]
  <2>1. users[u] \in Account /\ users \in [User -> Account \cup {NoUser}]
    BY <1>2, RowIsAccount
  <2>2. request[r].seen \subseteq STAFF_ROLE_NAMES /\ request[r].roles \subseteq STAFF_ROLE_NAMES
    BY <1>1 DEF EditingRoles
  <2>3. a \in Account /\ a.lock = users[u].lock /\ a.attempts = users[u].attempts
    BY <2>1, <2>2 DEF Account
  <2>4. Keeps(u, a)
    BY <2>1, <2>2 DEF Account, Keeps, STAFF_ROLE_NAMES
  <2>5. users' = [users EXCEPT ![u] = a]
    BY <1>5, <2>1
  <2>6. Owing(u)' => Owing(u)
    BY <2>1, <2>3, <2>5, <1>2 DEF Owing
  <2>7. request'[r] = Idle
    BY <1>5
  <2>8. ASSUME NEW q \in Request \ {r} PROVE Stays(q) /\ request'[q] \in Shape
    <3>1. request[q] \in Shape
      BY DEF AccountsInv, RequestsOK
    <3>2. CASE At(q, "roles:create") /\ request[q].user = u
      <4>1. request'[q] = [request[q] EXCEPT !.seen = @ \cap kept]
        BY <1>5, <3>2
      <4>2. request[q] \in EditingRoles
        BY <3>1, <3>2, ByLabel DEF At
      <4>3. request'[q] \in EditingRoles
        BY <4>1, <4>2 DEF EditingRoles
      <4> QED
        BY <4>1, <4>2, <4>3 DEF Stays, Shape
    <3>3. CASE ~(At(q, "roles:create") /\ request[q].user = u)
      <4>1. request'[q] = request[q]
        BY <1>5, <3>3
      <4> QED
        BY <3>1, <4>1 DEF Stays
    <3> QED
      BY <3>2, <3>3
  <2>9. There(r)'
    BY <2>7 DEF Idle, There, AccountThere, RowThere, PurgeThere
  <2>10. \A q \in Request : At(q, "import:role") \/ At(q, "login:lock") => request'[q] = request[q]
    BY <1>2, <1>5 DEF At
  <2>11. RequestsOK'
    BY <1>5, <2>7, <2>8, IdleIsQuiet DEF RequestsOK
  <2>12. LinksOK' /\ LinksKept /\ resets' \in Seq(ResetLink)
    BY <1>3, <2>3, <2>4, <2>5, RowKeepsLinks DEF LinksKept, AccountsInv, TablesOK
  <2>13. crashes = 0 /\ Owing(u)' => Locking(u)'
    BY <2>6, <2>10, DebtStays
  <2>14. \A q \in Request : Stays(q) \/ There(q)'
    BY <2>8, <2>9
  <2> HIDE DEF a
  <2> QED
    BY <1>3, <2>3, <2>4, <2>5, <2>10, <2>11, <2>12, <2>13, <2>14, RowChanges
<1> QED
  BY <1>1, <1>4, <1>5 DEF RolesCreate, Respond

-----------------------------------------------------------------------------
(* The steps of an import.                                                 *)

\* What an import finds at a row that it has not left.
LEMMA AtRow ==
  ASSUME AccountsInv, NEW r \in Request,
         request[r].at \in {"import:row", "import:password", "import:student", "import:role"},
         request[r].todo # {}
  PROVE  /\ request[r] \in Importing
         /\ request[r].todo \subseteq DOMAIN request[r].file
         /\ RowOf(request[r]).reg \in RegistrationNumber
         /\ RowOf(request[r]).email \in User
<1>1. request[r] \in Importing
  BY ByLabel DEF AccountsInv, RequestsOK
<1>2. request[r].todo \subseteq DOMAIN request[r].file
  BY DEF AccountsInv, RowThere
<1> QED
  BY <1>1, <1>2, RowOfFile

\* An import that goes on with its row.
LEMMA SameRow ==
  ASSUME NEW f \in Importing, NEW at \in {"import:password", "import:student", "import:role"},
         NEW g, g = [f EXCEPT !.at = at]
  PROVE  /\ g \in Importing /\ g \in Shape /\ g.at = at
         /\ g.todo = f.todo /\ g.file = f.file /\ RowOf(g) = RowOf(f)
<1>1. g \in Importing /\ g.at = at /\ g.todo = f.todo /\ g.file = f.file
  BY DEF Importing
<1> QED
  BY <1>1 DEF Shape, RowOf

LEMMA ImportAccountKeeps ==
  ASSUME AccountsInv, NEW r \in Request, ImportAccount(r), UNCHANGED <<retentionVars, bounds>>
  PROVE  AccountsInv'
<1>1. UNCHANGED <<resets, window, students, docs, archives, crashes, bounds>>
  BY DEF ImportAccount, retentionVars
<1>2. CASE NextRow(r) /\ UNCHANGED users
  BY <1>1, <1>2, RowReported DEF ImportAccount, At, Rows
<1>3. CASE /\ users' = IF Registered(RowOf(request[r]).email) THEN users
                       ELSE [users EXCEPT ![RowOf(request[r]).email] = FreshAccount({})]
           /\ Goto(r, [request[r] EXCEPT !.at = IF users'[RowOf(request[r]).email].password = NoPassword
                                                THEN "import:password" ELSE "import:student"])
  <2>1. PICK f \in Importing, u \in User :
          /\ f = request[r] /\ u = RowOf(f).email
          /\ f.todo # {} /\ f.todo \subseteq DOMAIN f.file
    BY AtRow DEF ImportAccount, At
  <2>2. PICK at \in {"import:password", "import:student"} :
          /\ Goto(r, [f EXCEPT !.at = at])
          /\ at = "import:student" => users'[u].password # NoPassword
    BY <1>3, <2>1
  <2> DEFINE g == [f EXCEPT !.at = at]
  <2>3. g \in Shape /\ g.at = at /\ g.todo = f.todo /\ g.file = f.file /\ RowOf(g) = RowOf(f)
    BY <2>1, <2>2, SameRow
  <2>4. ~At(r, "login:lock") /\ ~At(r, "import:role")
    BY DEF ImportAccount, At
  <2>5. CASE Registered(u)
    <3>1. UNCHANGED users
      BY <1>3, <2>1, <2>5
    <3>2. AccountThere(g) /\ RowThere(g) /\ PurgeThere(g)
      BY <2>1, <2>2, <2>3, <2>5, <3>1 DEF AccountThere, RowThere, PurgeThere
    <3>3. window' \in [RateKey -> [count : 0..bounds.calls, expires : BOOLEAN]]
      BY <1>1 DEF AccountsInv, TablesOK
    <3> HIDE DEF g
    <3>4. Goto(r, g)
      BY <2>2 DEF g
    <3> QED
      BY <1>1, <2>3, <2>4, <3>1, <3>2, <3>3, <3>4, JustMoves DEF Rows
  <2>6. CASE ~Registered(u)
    <3> DEFINE a == FreshAccount({})
    <3>1. a \in Account /\ a.attempts = 0 /\ Keeps(u, a)
      BY <2>6, FreshIsAccount DEF Keeps
    <3>2. users' = [users EXCEPT ![u] = a] /\ users'[u] = a
      BY <1>3, <2>1, <2>6 DEF AccountsInv, TablesOK
    <3>3. users'[u] # NoUser
      BY <3>1, <3>2, StartsOK
    <3>4. ~Owing(u)'
      BY <3>1, <3>2, AccountsOK DEF Owing
    <3>5. RowOf(g)' = RowOf(g)
      BY DEF RowOf
    <3>6. AccountThere(g)' /\ RowThere(g)' /\ PurgeThere(g)'
      BY <2>1, <2>2, <2>3, <3>3, <3>5 DEF AccountThere, RowThere, PurgeThere, Registered
    <3> HIDE DEF g, a
    <3>7. Goto(r, g)
      BY <2>2 DEF g
    <3> QED
      BY <1>1, <2>3, <2>4, <3>1, <3>2, <3>4, <3>6, <3>7, RowAndMove
  <2> QED
    BY <2>5, <2>6
<1> QED
  BY <1>2, <1>3 DEF ImportAccount

LEMMA ImportPasswordKeeps ==
  ASSUME AccountsInv, NEW r \in Request, ImportPassword(r, bounds.secrets),
         UNCHANGED <<retentionVars, bounds>>
  PROVE  AccountsInv'
<1>1. UNCHANGED <<resets, window, students, docs, archives, crashes, bounds>>
  BY DEF ImportPassword, retentionVars
<1>2. request[r].todo # {} /\ Registered(RowOf(request[r]).email)
  BY DEF AccountsInv, RowThere, ImportPassword, At
<1>3. PICK f \in Importing, u \in User :
        /\ f = request[r] /\ u = RowOf(f).email /\ Registered(u)
        /\ f.todo # {} /\ f.todo \subseteq DOMAIN f.file
  BY <1>2, AtRow DEF ImportPassword, At
<1>4. PICK p \in Password : users' = [users EXCEPT ![u].password = p]
  BY <1>3 DEF AccountsInv, BoundsOK, ImportPassword
<1> DEFINE a == [users[u] EXCEPT !.password = p]
           g == [f EXCEPT !.at = "import:student"]
<1>5. users[u] \in Account /\ users \in [User -> Account \cup {NoUser}]
  BY <1>3, RowIsAccount
<1>6. p # NoPassword
  BY AccountsOK
<1>7. /\ a \in Account /\ Keeps(u, a) /\ a.password # NoPassword
      /\ a.lock = users[u].lock /\ a.attempts = users[u].attempts
  BY <1>5, <1>6 DEF Account, Keeps
<1>8. users' = [users EXCEPT ![u] = a] /\ users'[u] = a
  BY <1>4, <1>5
<1>9. Owing(u)' => Owing(u)
  BY <1>3, <1>7, <1>8 DEF Owing
<1>10. /\ Goto(r, g) /\ ~At(r, "login:lock") /\ ~At(r, "import:role")
       /\ \A q \in Request \ {r} : request'[q] = request[q]
  BY <1>3 DEF ImportPassword, At, Goto, AccountsInv, RequestsOK
<1>11. crashes = 0 /\ Owing(u)' => Locking(u)'
  BY <1>9, <1>10, DebtStays
<1>12. g \in Shape /\ g.at = "import:student" /\ g.todo = f.todo /\ g.file = f.file /\ RowOf(g) = RowOf(f)
  BY SameRow
<1>13. users'[u] # NoUser /\ RowOf(g)' = RowOf(g)
  BY <1>7, <1>8, StartsOK DEF RowOf
<1>14. AccountThere(g)' /\ RowThere(g)' /\ PurgeThere(g)'
  BY <1>3, <1>7, <1>8, <1>12, <1>13 DEF AccountThere, RowThere, PurgeThere, Registered
<1> HIDE DEF a, g
<1> QED
  BY <1>1, <1>7, <1>8, <1>10, <1>11, <1>12, <1>14, RowAndMove

LEMMA ImportRoleKeeps ==
  ASSUME AccountsInv, NEW r \in Request, ImportRole(r), UNCHANGED <<retentionVars, bounds>>
  PROVE  AccountsInv'
<1>1. UNCHANGED <<resets, window, students, docs, archives, crashes, bounds>>
  BY DEF ImportRole, retentionVars
<1>2. request[r].todo # {} /\ Registered(RowOf(request[r]).email)
  BY DEF AccountsInv, RowThere, ImportRole, At
<1>3. PICK f \in Importing, u \in User :
        /\ f = request[r] /\ u = RowOf(f).email /\ Registered(u)
        /\ f.todo # {} /\ f.todo \subseteq DOMAIN f.file
  BY <1>2, AtRow DEF ImportRole, At
<1> DEFINE a == [users[u] EXCEPT !.roles = @ \cup {"STUDENT"}]
<1>4. users[u] \in Account /\ users \in [User -> Account \cup {NoUser}]
  BY <1>3, RowIsAccount
<1>5. /\ a \in Account /\ Keeps(u, a) /\ "STUDENT" \in a.roles
      /\ a.lock = users[u].lock /\ a.attempts = users[u].attempts
  BY <1>4 DEF Account, Keeps
<1>6. users' = [users EXCEPT ![u] = a] /\ users'[u] = a
  BY <1>3, <1>4 DEF ImportRole
<1>7. Owing(u)' => Owing(u)
  BY <1>3, <1>5, <1>6 DEF Owing
<1>8. PICK i : i = CHOOSE k \in f.todo : \A j \in f.todo : k <= j
  OBVIOUS
<1> DEFINE g == [at |-> "import:row", file |-> f.file, todo |-> f.todo \ {i}]
<1>9. /\ Goto(r, g) /\ ~At(r, "login:lock")
      /\ \A q \in Request \ {r} : request'[q] = request[q]
  BY <1>3, <1>8 DEF ImportRole, NextRow, At, Goto, AccountsInv, RequestsOK
<1>10. crashes = 0 /\ Owing(u)' => Locking(u)'
  BY <1>7, <1>9, DebtStays
<1>11. g \in Shape /\ g.at = "import:row" /\ g.todo \subseteq DOMAIN g.file
  BY <1>3, NextRowIsThere
<1>12. AccountThere(g)' /\ RowThere(g)' /\ PurgeThere(g)'
  BY <1>11 DEF AccountThere, RowThere, PurgeThere
<1>13. At(r, "import:role") => RowOf(request[r]).email = u /\ "STUDENT" \in a.roles
  BY <1>3, <1>5
<1> HIDE DEF a, g
<1> QED
  BY <1>1, <1>5, <1>6, <1>9, <1>10, <1>11, <1>12, <1>13, RowAndMove

\* A student's row changes hands: only its registration number gets the account.
LEMMA ImportStudentKeeps ==
  ASSUME AccountsInv, NEW r \in Request, ImportStudent(r), UNCHANGED <<retentionVars, bounds>>
  PROVE  AccountsInv'
<1>1. UNCHANGED <<users, resets, window, docs, archives, crashes, bounds>>
  BY DEF ImportStudent, retentionVars
<1>2. /\ request[r].todo # {} /\ Registered(RowOf(request[r]).email)
      /\ users[RowOf(request[r]).email].password # NoPassword
      /\ ~At(r, "login:lock") /\ ~At(r, "import:role")
  BY DEF AccountsInv, RowThere, ImportStudent, At
<1>3. PICK f \in Importing, u \in User, n \in RegistrationNumber :
        /\ f = request[r] /\ u = RowOf(f).email /\ n = RowOf(f).reg /\ Registered(u)
        /\ users[u].password # NoPassword
        /\ f.todo # {} /\ f.todo \subseteq DOMAIN f.file
  BY <1>2, AtRow DEF ImportStudent, At
<1>4. CASE NextRow(r) /\ UNCHANGED students
  BY <1>1, <1>4, RowReported DEF ImportStudent, At, Rows
<1> DEFINE g == [f EXCEPT !.at = "import:role"]
<1>5. CASE /\ ~\E m \in RegistrationNumber \ {n} : students[m] = u
           /\ students' = [students EXCEPT ![n] = u] /\ Goto(r, g)
  <2>1. g \in Shape /\ g.at = "import:role" /\ g.todo = f.todo /\ g.file = f.file /\ RowOf(g) = RowOf(f)
    BY SameRow
  <2>2. /\ students \in [RegistrationNumber -> User \cup {NoUser}]
        /\ students' \in [RegistrationNumber -> User \cup {NoUser}]
        /\ students'[n] = u /\ \A m \in RegistrationNumber \ {n} : students'[m] = students[m]
    BY <1>5 DEF AccountsInv, TablesOK
  <2> HIDE DEF g
  <2>3. /\ request' \in [Request -> Shape] /\ request'[r] = g
        /\ \A q \in Request \ {r} : request'[q] = request[q]
    BY <1>5, <2>1 DEF AccountsInv, RequestsOK, Goto
  <2>4. UsersKept /\ LinksKept /\ DocsKept
    BY <1>1 DEF UsersKept, LinksKept, DocsKept, Registered
  <2>5. There(r)'
    <3>1. RowOf(request[r])' = RowOf(g)
      BY <2>3 DEF RowOf
    <3> QED
      BY <1>1, <1>3, <2>1, <2>3, <3>1 DEF There, AccountThere, RowThere, PurgeThere, Registered
  <2>6. ASSUME NEW q \in Request \ {r} PROVE There(q)'
    BY <2>3, <2>4, StillThere DEF AccountsInv, There, Stays
  <2>7. StudentsApart'
    BY <1>5, <2>2 DEF AccountsInv, StudentsApart
  <2>8. BoundsOK' /\ TablesOK' /\ RequestsOK' /\ LinksOK' /\ ConfirmedArchiveIsPurged'
    BY <1>1, <2>2, <2>3 DEF AccountsInv, BoundsOK, TablesOK, RequestsOK, LinksOK, LiveLinks,
       Registered, ConfirmedArchiveIsPurged
  <2>9. \A v \in User : (Locking(v) => Locking(v)') /\ (Enrolling(v) => Enrolling(v)')
    BY <1>2, <2>3 DEF Locking, Enrolling, At, RowOf
  <2>10. ThresholdLocks'
    BY <1>1, <2>9 DEF AccountsInv, ThresholdLocks, Locking, Registered
  <2>11. Enrolling(u)'
    <3>1. RowOf(request'[r]).email = u
      BY <1>3, <2>1, <2>3
    <3> QED
      BY <2>1, <2>3, <3>1 DEF Enrolling, At, RowOf
  <2>12. StudentCanSignIn'
    <3>1. ASSUME crashes = 0, NEW m \in RegistrationNumber, NEW v \in User, v = students'[m]
          PROVE  /\ users[v] # NoUser /\ users[v].password # NoPassword
                 /\ "STUDENT" \in users[v].roles \/ Enrolling(v)'
      <4>1. CASE m = n
        <5>1. v = u
          BY <2>2, <3>1, <4>1
        <5> QED
          BY <1>3, <2>11, <5>1 DEF Registered
      <4>2. CASE m # n
        <5>1. students[m] = v /\ v # NoUser
          BY <2>2, <3>1, <4>2, AccountsOK
        <5>2. /\ users[v] # NoUser /\ users[v].password # NoPassword
              /\ "STUDENT" \in users[v].roles \/ Enrolling(v)
          BY <3>1, <5>1 DEF AccountsInv, StudentCanSignIn, Enrolling, Registered
        <5> QED
          BY <2>9, <5>2
      <4> QED
        BY <4>1, <4>2
    <3>2. \A m \in RegistrationNumber : students'[m] # NoUser => students'[m] \in User
      BY <2>2
    <3>3. crashes' = 0 => \A m \in RegistrationNumber : \A v \in User : v = students'[m] =>
            /\ users'[v] # NoUser /\ users'[v].password # NoPassword
            /\ "STUDENT" \in users'[v].roles \/ Enrolling(v)'
      BY <1>1, <3>1
    <3> QED
      BY <3>2, <3>3 DEF StudentCanSignIn, Enrolling, Registered
  <2> QED
    BY <2>5, <2>6, <2>7, <2>8, <2>10, <2>12 DEF AccountsInv, There
<1> QED
  BY <1>3, <1>4, <1>5 DEF ImportStudent

-----------------------------------------------------------------------------
(* Steps that write reset links.                                           *)

\* Links change alone: a request that moves is done.
LEMMA LinksChange ==
  ASSUME AccountsInv, resets' \in Seq(ResetLink), LinksKept, LinksOK',
         UNCHANGED <<users, window, students, docs, archives, crashes, bounds>>,
         RequestsOK',
         \A q \in Request :
           \/ request'[q] = request[q]
           \/ request'[q] = Idle /\ ~At(q, "login:lock") /\ ~At(q, "import:role")
  PROVE  AccountsInv'
<1>1. UsersKept /\ DocsKept
  BY DEF UsersKept, DocsKept, Registered
<1>2. ASSUME NEW q \in Request PROVE There(q)'
  <2>1. CASE request'[q] = request[q]
    BY <1>1, <2>1, StillThere DEF AccountsInv, There, Stays
  <2>2. CASE request'[q] = Idle
    BY <2>2 DEF Idle, There, AccountThere, RowThere, PurgeThere
  <2> QED
    BY <2>1, <2>2
<1>3. BoundsOK' /\ TablesOK' /\ StudentsApart' /\ ConfirmedArchiveIsPurged'
  BY DEF AccountsInv, BoundsOK, TablesOK, StudentsApart, ConfirmedArchiveIsPurged
<1>4. \A v \in User : (Locking(v) => Locking(v)') /\ (Enrolling(v) => Enrolling(v)')
  BY DEF Locking, Enrolling, At, RowOf
<1>5. ThresholdLocks'
  BY <1>4 DEF AccountsInv, ThresholdLocks, Locking, Registered
<1>6. StudentCanSignIn'
  BY <1>4 DEF AccountsInv, TablesOK, StudentCanSignIn, Enrolling, Registered
<1> QED
  BY <1>2, <1>3, <1>5, <1>6 DEF AccountsInv, There

\* One link is written, and keeps its user.
LEMMA LinkRewritten ==
  ASSUME TablesOK, NEW i \in DOMAIN resets, NEW link \in ResetLink, link.user = resets[i].user,
         resets' = [resets EXCEPT ![i] = link]
  PROVE  /\ resets' \in Seq(ResetLink) /\ DOMAIN resets' = DOMAIN resets
         /\ resets'[i] = link /\ \A j \in DOMAIN resets \ {i} : resets'[j] = resets[j]
         /\ \A j \in DOMAIN resets : resets'[j].user = resets[j].user
<1>1. resets \in [1..Len(resets) -> ResetLink] /\ Len(resets) \in Nat
  BY LenProperties DEF TablesOK
<1>2. resets' \in [1..Len(resets) -> ResetLink]
  BY <1>1
<1>3. resets' \in Seq(ResetLink)
  BY <1>1, <1>2, SeqDef
<1> QED
  BY <1>1, <1>2, <1>3

LEMMA LinkExpiresKeeps ==
  ASSUME AccountsInv, NEW i \in DOMAIN resets, LinkExpires(i),
         UNCHANGED <<students, retentionVars, bounds>>
  PROVE  AccountsInv'
<1> DEFINE link == [resets[i] EXCEPT !.expired = TRUE]
<1>1. TablesOK /\ resets[i] \in ResetLink
  BY LinkTyped DEF AccountsInv
<1>2. /\ link \in ResetLink /\ link.user = resets[i].user
      /\ link.used = resets[i].used /\ link.revoked = resets[i].revoked
  BY <1>1 DEF ResetLink
<1>3. resets' = [resets EXCEPT ![i] = link]
  BY DEF LinkExpires
<1> HIDE DEF link
<1>4. /\ resets' \in Seq(ResetLink) /\ DOMAIN resets' = DOMAIN resets
      /\ resets'[i] = link /\ \A j \in DOMAIN resets \ {i} : resets'[j] = resets[j]
      /\ \A j \in DOMAIN resets : resets'[j].user = resets[j].user
  BY <1>1, <1>2, <1>3, LinkRewritten
<1>5. \A j \in DOMAIN resets :
        resets'[j].used = resets[j].used /\ resets'[j].revoked = resets[j].revoked
  BY <1>2, <1>4
<1>6. \A v \in User : LiveLinks(v)' = LiveLinks(v) /\ Used(v)' = Used(v)
  BY <1>4, <1>5 DEF LiveLinks, Used
<1>7. UNCHANGED <<request, users, window, students, docs, archives, crashes, bounds>>
  BY DEF LinkExpires, retentionVars
<1>8. LinksOK'
  BY <1>4, <1>6, <1>7 DEF AccountsInv, LinksOK, Used, Registered
<1>9. LinksKept /\ RequestsOK'
  BY <1>4, <1>7 DEF LinksKept, RequestsOK, AccountsInv
<1> QED
  BY <1>4, <1>7, <1>8, <1>9, LinksChange

LEMMA IssueCreateKeeps ==
  ASSUME AccountsInv, NEW r \in Request, IssueCreate(r), UNCHANGED <<students, retentionVars, bounds>>
  PROVE  AccountsInv'
<1>1. PICK u \in User : request[r] \in Issued /\ u = request[r].user
  BY ByLabel DEF AccountsInv, RequestsOK, IssueCreate, At, Issued
<1>2. Registered(u) /\ ~At(r, "login:lock") /\ ~At(r, "import:role")
  BY <1>1 DEF AccountsInv, AccountThere, IssueCreate, At
<1>3. UNCHANGED <<users, window, students, docs, archives, crashes, bounds>>
  BY DEF IssueCreate, retentionVars
<1>4. /\ request' \in [Request -> Shape] /\ request'[r] = Idle
      /\ \A q \in Request \ {r} : request'[q] = request[q]
  BY IdleIsQuiet DEF AccountsInv, RequestsOK, IssueCreate, Respond, Goto
<1>5. CASE resets' = resets
  BY <1>2, <1>3, <1>5, IdleIsQuiet, QuietMove DEF IssueCreate, Respond, Rows
<1> DEFINE n == Len(resets)
           Old == [i \in DOMAIN resets |-> IF i \in LiveLinks(u)
                                           THEN [resets[i] EXCEPT !.revoked = TRUE] ELSE resets[i]]
           new == [user |-> u, used |-> FALSE, revoked |-> FALSE, expired |-> FALSE]
<1>6. CASE resets' = Append(Old, new)
  <2>1. /\ TablesOK /\ n \in Nat /\ DOMAIN resets = 1..n
        /\ \A i \in 1..n : resets[i] \in ResetLink
    BY LinkTyped DEF AccountsInv
  <2>2. new \in ResetLink /\ new.user = u /\ ~new.used
    BY DEF ResetLink
  <2>3. ASSUME NEW i \in 1..n
        PROVE  /\ Old[i] \in ResetLink
               /\ Old[i].user = resets[i].user /\ Old[i].used = resets[i].used
               /\ i \notin LiveLinks(u) => Old[i].revoked = resets[i].revoked
               /\ i \in LiveLinks(u) => Old[i].revoked
    BY <2>1 DEF ResetLink
  <2>4. DOMAIN Old = 1..n /\ Old \in [1..n -> ResetLink]
    BY <2>1, <2>3
  <2>5. Old \in Seq(ResetLink) /\ Len(Old) = n
    BY <2>1, <2>4, SeqDef, LenProperties
  <2> HIDE DEF Old, new, n
  <2>6. /\ resets' \in Seq(ResetLink) /\ DOMAIN resets' = 1..(n + 1)
        /\ \A i \in 1..n : resets'[i] = Old[i]
        /\ resets'[n + 1] = new
    BY <1>6, <2>1, <2>2, <2>4, <2>5, AppendProperties
  <2>7. \A i \in 1..(n + 1) : i \in 1..n \/ i = n + 1
    BY <2>1
  <2>8. \A i \in DOMAIN resets' : Registered(resets[i].user)'
    <3>1. \A i \in 1..n : users'[resets'[i].user] # NoUser
      BY <1>3, <2>1, <2>3, <2>6 DEF AccountsInv, LinksOK, Registered
    <3>2. users'[resets'[n + 1].user] # NoUser
      BY <1>2, <1>3, <2>2, <2>6 DEF Registered
    <3> QED
      BY <2>6, <2>7, <3>1, <3>2 DEF Registered
  <2>9. ASSUME NEW v \in User PROVE \A i, j \in LiveLinks(v)' : i = j
    <3>1. CASE v = u
      <4>1. \A i \in 1..n : i \notin LiveLinks(v)'
        BY <2>1, <2>3, <2>6, <3>1 DEF LiveLinks
      <4> QED
        BY <2>6, <2>7, <4>1 DEF LiveLinks
    <3>2. CASE v # u
      <4>1. \A i \in LiveLinks(v)' : i \in LiveLinks(v)
        BY <2>1, <2>2, <2>3, <2>6, <2>7, <3>2 DEF LiveLinks
      <4> QED
        BY <4>1 DEF AccountsInv, LinksOK
    <3> QED
      BY <3>1, <3>2
  <2>10. \A v \in User : Used(v)' = Used(v)
    <3>1. \A v \in User : \A i \in 1..n : i \in Used(v)' <=> i \in Used(v)
      BY <2>1, <2>3, <2>6 DEF Used
    <3>2. \A v \in User : n + 1 \notin Used(v)' /\ Used(v)' \subseteq 1..(n + 1) /\ Used(v) \subseteq 1..n
      BY <2>1, <2>2, <2>6 DEF Used
    <3> QED
      BY <2>7, <3>1, <3>2
  <2>11. LinksOK'
    BY <1>3, <2>8, <2>9, <2>10 DEF AccountsInv, LinksOK, Used, Registered
  <2>12. LinksKept
    BY <2>1, <2>6 DEF LinksKept
  <2>13. RequestsOK'
    BY <1>4 DEF RequestsOK
  <2> QED
    BY <1>2, <1>3, <1>4, <2>6, <2>11, <2>12, <2>13, LinksChange
<1> QED
  BY <1>1, <1>5, <1>6 DEF IssueCreate

LEMMA RedeemKeeps ==
  ASSUME AccountsInv, NEW r \in Request, Redeem(r), UNCHANGED <<students, retentionVars, bounds>>
  PROVE  AccountsInv'
<1>1. PICK k \in DOMAIN resets, p \in Password : k = request[r].link /\ p = request[r].password
  <2>1. request[r] \in Redeeming /\ request[r].link \in DOMAIN resets
    BY ByLabel DEF AccountsInv, RequestsOK, AccountThere, Redeem, At
  <2> QED
    BY <2>1 DEF Redeeming
<1>2. TablesOK /\ resets[k] \in ResetLink
  BY LinkTyped DEF AccountsInv
<1>3. PICK u \in User : u = resets[k].user
  BY <1>2 DEF ResetLink
<1>4. Registered(u) /\ ~At(r, "login:lock") /\ ~At(r, "import:role") /\ Goto(r, Idle)
  BY <1>3 DEF AccountsInv, LinksOK, Redeem, Respond, At
<1>5. UNCHANGED <<window, students, docs, archives, crashes, bounds>>
  BY DEF Redeem, retentionVars
<1>6. users[u] \in Account /\ users \in [User -> Account \cup {NoUser}]
  BY <1>4, RowIsAccount
<1> DEFINE a == [users[u] EXCEPT !.password = p, !.version = @ + 1, !.attempts = 0, !.lock = "never"]
           link == [resets[k] EXCEPT !.used = TRUE]
<1>7. /\ users' = [users EXCEPT ![u] = a]
      /\ resets' = [resets EXCEPT ![k] = link]
  BY <1>1, <1>3, <1>6 DEF Redeem
<1>8. /\ a \in Account /\ a.version = users[u].version + 1 /\ a.password = p /\ a.attempts = 0
      /\ a.roles = users[u].roles /\ users[u].version \in Nat
  <2>1. users[u].version \in Nat
    BY <1>6 DEF Account
  <2>2. a \in Account
    <3> DEFINE b == [users[u] EXCEPT !.password = p]
               c == [b EXCEPT !.version = @ + 1]
    <3>1. b \in Account
      BY <1>6 DEF Account
    <3>2. c \in Account
      <4> HIDE DEF b
      <4> QED
        BY <3>1 DEF Account
    <3>3. a = [c EXCEPT !.attempts = 0, !.lock = "never"]
      OBVIOUS
    <3> HIDE DEF a, b, c
    <3> QED
      BY <3>2, <3>3 DEF Account
  <2>3. /\ a.version = users[u].version + 1 /\ a.password = p /\ a.attempts = 0
        /\ a.roles = users[u].roles
    BY <1>6 DEF Account
  <2> QED
    BY <2>1, <2>2, <2>3
<1>9. /\ link \in ResetLink /\ link.user = resets[k].user
      /\ link.used /\ link.revoked = resets[k].revoked
  BY <1>2 DEF ResetLink
<1> HIDE DEF a, link
<1>10. Keeps(u, a)
  BY <1>8, AccountsOK DEF Keeps
<1>11. /\ resets' \in Seq(ResetLink) /\ DOMAIN resets' = DOMAIN resets
       /\ resets'[k] = link /\ \A j \in DOMAIN resets \ {k} : resets'[j] = resets[j]
       /\ \A j \in DOMAIN resets : resets'[j].user = resets[j].user
  BY <1>2, <1>7, <1>9, LinkRewritten
<1>12. UsersKept
  BY <1>2, <1>7, <1>8, <1>10, RowKeepsUsers
<1>13. \A i \in DOMAIN resets' : Registered(resets[i].user)'
  <2>1. \A i \in DOMAIN resets : resets[i].user \in User
    BY <1>2, LinkTyped DEF ResetLink
  <2> QED
    BY <1>11, <1>12, <2>1 DEF AccountsInv, LinksOK, Registered, UsersKept
<1>14. \A v \in User : \A i, j \in LiveLinks(v)' : i = j
  <2>1. \A v \in User : LiveLinks(v)' \subseteq LiveLinks(v)
    BY <1>9, <1>11 DEF LiveLinks
  <2> QED
    BY <2>1 DEF AccountsInv, LinksOK
<1>15. ASSUME NEW v \in User, Registered(v)' PROVE users'[v].version >= Cardinality(Used(v)')
  <2>1. CASE v = u
    <3>1. Used(u)' = Used(u) \cup {k}
      BY <1>3, <1>9, <1>11 DEF Used
    <3>2. IsFiniteSet(Used(u)) /\ Cardinality(Used(u)) \in Nat
      BY <1>2, UsedIsCounted
    <3>3. \/ Cardinality(Used(u) \cup {k}) = Cardinality(Used(u))
          \/ Cardinality(Used(u) \cup {k}) = Cardinality(Used(u)) + 1
      BY <3>2, FS_AddElement
    <3>4. users[u].version >= Cardinality(Used(u))
      BY <1>4 DEF AccountsInv, LinksOK, Used
    <3>5. users'[u].version = users[u].version + 1
      BY <1>6, <1>7, <1>8
    <3> QED
      BY <1>8, <2>1, <3>1, <3>2, <3>3, <3>4, <3>5
  <2>2. CASE v # u
    <3>1. Used(v)' = Used(v)
      BY <1>3, <1>11, <2>2 DEF Used
    <3>2. users'[v] = users[v]
      BY <1>6, <1>7, <2>2
    <3>3. users[v].version >= Cardinality(Used(v))
      BY <1>15, <3>2 DEF AccountsInv, LinksOK, Used, Registered
    <3> QED
      BY <3>1, <3>2, <3>3
  <2> QED
    BY <2>1, <2>2
<1>16. LinksOK'
  BY <1>13, <1>14, <1>15 DEF LinksOK, Used
<1>17. /\ request' \in [Request -> Shape] /\ request'[r] = Idle
       /\ \A q \in Request \ {r} : request'[q] = request[q]
  BY <1>4, IdleIsQuiet DEF AccountsInv, RequestsOK, Goto
<1>18. There(r)'
  BY <1>17 DEF Idle, There, AccountThere, RowThere, PurgeThere
<1>19. /\ RequestsOK' /\ LinksKept
       /\ \A q \in Request : Stays(q) \/ There(q)'
       /\ \A q \in Request : At(q, "import:role") \/ At(q, "login:lock") => request'[q] = request[q]
  BY <1>4, <1>11, <1>17, <1>18 DEF RequestsOK, LinksKept, Stays
<1>20. ~Owing(u)'
  BY <1>6, <1>7, <1>8, AccountsOK DEF Owing
<1> QED
  BY <1>5, <1>7, <1>8, <1>10, <1>11, <1>16, <1>19, <1>20, RowChanges

-----------------------------------------------------------------------------
(* Steps that write documents and archives.                                *)

DocRow(n) == [archive : 0..n, purged : BOOLEAN, file : BOOLEAN]

LEMMA ArchivesTyped ==
  ASSUME TablesOK
  PROVE  /\ Len(archives) \in Nat /\ DOMAIN archives = 1..Len(archives)
         /\ archives \in [1..Len(archives) -> BOOLEAN]
         /\ docs \in [Doc -> DocRow(Len(archives))]
<1>1. archives \in Seq(BOOLEAN) /\ docs \in [Doc -> DocRow(Len(archives))]
  BY DEF TablesOK, DocRow
<1> QED
  BY <1>1, LenProperties

\* Documents change alone: a request that moves finds what it relies on.
LEMMA DocsChange ==
  ASSUME AccountsInv, DocsKept, archives' \in Seq(BOOLEAN), docs' \in [Doc -> DocRow(Len(archives'))],
         ConfirmedArchiveIsPurged', RequestsOK',
         UNCHANGED <<users, resets, window, students, crashes, bounds>>,
         \A q \in Request : \/ request'[q] = request[q]
                            \/ There(q)' /\ ~At(q, "login:lock") /\ ~At(q, "import:role")
  PROVE  AccountsInv'
<1>1. UsersKept /\ LinksKept
  BY DEF UsersKept, LinksKept, Registered
<1>2. ASSUME NEW q \in Request PROVE There(q)'
  BY <1>1, StillThere DEF AccountsInv, There, Stays
<1>3. BoundsOK' /\ TablesOK' /\ StudentsApart' /\ LinksOK'
  BY DEF AccountsInv, BoundsOK, TablesOK, DocRow, StudentsApart, LinksOK, LiveLinks, Registered
<1>4. \A v \in User : (Locking(v) => Locking(v)') /\ (Enrolling(v) => Enrolling(v)')
  BY DEF Locking, Enrolling, At, RowOf
<1>5. ThresholdLocks'
  BY <1>4 DEF AccountsInv, ThresholdLocks, Locking, Registered
<1>6. StudentCanSignIn'
  <2>1. StudentCanSignIn /\ \A n \in RegistrationNumber : students[n] \in User \cup {NoUser}
    BY DEF AccountsInv, TablesOK
  <2> QED
    BY <1>4, <2>1 DEF StudentCanSignIn, Enrolling, Registered
<1> QED
  BY <1>2, <1>3, <1>5, <1>6 DEF AccountsInv, There

\* The same, where one request moves to g.
LEMMA DocsAndMove ==
  ASSUME AccountsInv, NEW r \in Request, NEW g \in Shape, Goto(r, g), PurgeThere(g)',
         g.at \in {"idle", "purge", "purge:stamp"},
         ~At(r, "login:lock"), ~At(r, "import:role"),
         DocsKept, archives' \in Seq(BOOLEAN), docs' \in [Doc -> DocRow(Len(archives'))],
         ConfirmedArchiveIsPurged', UNCHANGED <<users, resets, window, students, crashes, bounds>>
  PROVE  AccountsInv'
<1>1. /\ request' \in [Request -> Shape] /\ request'[r] = g
      /\ \A q \in Request \ {r} : request'[q] = request[q]
  BY DEF AccountsInv, RequestsOK, Goto
<1>2. There(r)'
  BY <1>1 DEF There, AccountThere, RowThere, PurgeThere
<1>3. RequestsOK'
  BY <1>1 DEF RequestsOK
<1> QED
  BY <1>1, <1>2, <1>3, DocsChange

LEMMA StoreDocKeeps ==
  ASSUME AccountsInv, NEW d \in Doc, StoreDoc(d), UNCHANGED <<students, bounds>>
  PROVE  AccountsInv'
<1>1. /\ TablesOK /\ Len(archives) \in Nat /\ DOMAIN archives = 1..Len(archives)
      /\ docs \in [Doc -> DocRow(Len(archives))]
  BY ArchivesTyped DEF AccountsInv
<1>2. UNCHANGED <<archives, request, users, resets, window, students, crashes, bounds>>
  BY DEF StoreDoc, accountVars
<1>3. docs[d].archive = 0 /\ ~docs[d].purged /\ docs' = [docs EXCEPT ![d].file = TRUE]
  BY DEF StoreDoc, NoDoc
<1>4. docs' \in [Doc -> DocRow(Len(archives))]
  BY <1>1, <1>3 DEF DocRow
<1>5. /\ docs'[d].archive = 0 /\ ~docs'[d].purged
      /\ \A e \in Doc \ {d} : docs'[e] = docs[e]
  BY <1>1, <1>3 DEF DocRow
<1>6. DocsKept
  BY <1>1, <1>2, <1>3, <1>5 DEF DocsKept
<1>7. ConfirmedArchiveIsPurged'
  BY <1>2, <1>5 DEF AccountsInv, ConfirmedArchiveIsPurged
<1>8. RequestsOK' /\ archives' \in Seq(BOOLEAN)
  BY <1>1, <1>2 DEF AccountsInv, RequestsOK, TablesOK
<1> QED
  BY <1>2, <1>4, <1>6, <1>7, <1>8, DocsChange

LEMMA ArchiveCreateKeeps ==
  ASSUME AccountsInv, NEW r \in Request, ArchiveCreate(r), UNCHANGED <<students, bounds>>
  PROVE  AccountsInv'
<1> DEFINE n == Len(archives)
<1>1. /\ TablesOK /\ n \in Nat /\ DOMAIN archives = 1..n
      /\ archives \in [1..n -> BOOLEAN] /\ docs \in [Doc -> DocRow(n)]
  BY ArchivesTyped DEF AccountsInv
<1>2. UNCHANGED <<users, resets, window, students, crashes, bounds>>
  BY DEF ArchiveCreate
<1>3. Goto(r, Idle) /\ ~At(r, "login:lock") /\ ~At(r, "import:role")
  BY DEF ArchiveCreate, Respond, At
<1>4. archives \in Seq(BOOLEAN) /\ archives' = Append(archives, FALSE)
  BY DEF ArchiveCreate, AccountsInv, TablesOK
<1>5. /\ archives' \in Seq(BOOLEAN) /\ Len(archives') = n + 1 /\ archives'[n + 1] = FALSE
      /\ DOMAIN archives' = 1..(n + 1) /\ \A i \in 1..n : archives'[i] = archives[i]
  BY <1>4, AppendProperties, LenProperties
<1> HIDE DEF n
<1>6. ASSUME NEW d \in Doc
      PROVE  /\ docs'[d] \in DocRow(n + 1)
             /\ docs'[d].file = docs[d].file /\ docs'[d].purged = docs[d].purged
             /\ docs'[d].archive = n + 1 \/ docs'[d].archive = docs[d].archive
  <2>1. docs'[d] = IF d \in request[r].eligible THEN [docs[d] EXCEPT !.archive = n + 1] ELSE docs[d]
    BY <1>5 DEF ArchiveCreate
  <2>2. docs[d] \in DocRow(n)
    BY <1>1
  <2> QED
    BY <1>1, <2>1, <2>2 DEF DocRow
<1>7. docs' \in [Doc -> DocRow(Len(archives'))]
  <2>1. DOMAIN docs' = Doc /\ docs' = [d \in Doc |-> docs'[d]]
    BY DEF ArchiveCreate
  <2> QED
    BY <1>5, <1>6, <2>1
<1>8. \A d \in Doc : docs[d].archive \in 0..n
  BY <1>1 DEF DocRow
<1>9. DocsKept
  BY <1>1, <1>5, <1>6, <1>8 DEF DocsKept
<1>10. ConfirmedArchiveIsPurged'
  <2>1. ASSUME NEW d \in Doc
        PROVE  /\ docs'[d].purged => ~docs'[d].file /\ docs'[d].archive # 0
               /\ docs'[d].archive # 0 /\ archives'[docs'[d].archive] => docs'[d].purged
    <3>1. /\ docs[d].purged => ~docs[d].file /\ docs[d].archive # 0
          /\ docs[d].archive # 0 /\ archives[docs[d].archive] => docs[d].purged
      BY DEF AccountsInv, ConfirmedArchiveIsPurged
    <3>2. CASE docs'[d].archive = n + 1
      BY <1>1, <1>5, <1>6, <3>1, <3>2
    <3>3. CASE docs'[d].archive = docs[d].archive
      <4>1. docs[d].archive # 0 => archives'[docs[d].archive] = archives[docs[d].archive]
        BY <1>1, <1>5, <1>8
      <4> QED
        BY <1>6, <3>1, <3>3, <4>1
    <3> QED
      BY <1>6, <3>2, <3>3
  <2> QED
    BY <2>1 DEF ConfirmedArchiveIsPurged
<1>11. Idle \in Shape /\ Idle.at = "idle" /\ PurgeThere(Idle)'
  BY IdleIsQuiet DEF Idle, PurgeThere
<1> QED
  BY <1>2, <1>3, <1>5, <1>7, <1>9, <1>10, <1>11, DocsAndMove

LEMMA PurgeUnlinkKeeps ==
  ASSUME AccountsInv, NEW r \in Request, PurgeUnlink(r), UNCHANGED <<students, bounds>>
  PROVE  AccountsInv'
<1>1. PICK f \in Purging : f = request[r]
  BY ByLabel DEF AccountsInv, RequestsOK, PurgeUnlink, At
<1>2. PICK d \in f.todo :
        \/ /\ docs' = [docs EXCEPT ![d].file = FALSE]
           /\ Goto(r, [at |-> "purge:stamp", archive |-> f.archive, todo |-> f.todo, doc |-> d])
        \/ Goto(r, Idle) /\ UNCHANGED docs
  BY <1>1 DEF PurgeUnlink, Respond
<1>3. /\ UNCHANGED <<users, resets, window, students, crashes, bounds, archives>>
      /\ ~At(r, "login:lock") /\ ~At(r, "import:role")
  BY DEF PurgeUnlink, At
<1>4. CASE Goto(r, Idle) /\ UNCHANGED docs
  BY <1>3, <1>4, IdleIsQuiet, QuietMove DEF Rows
<1> DEFINE g == [at |-> "purge:stamp", archive |-> f.archive, todo |-> f.todo, doc |-> d]
<1>5. CASE docs' = [docs EXCEPT ![d].file = FALSE] /\ Goto(r, g)
  <2>1. /\ TablesOK /\ Len(archives) \in Nat /\ DOMAIN archives = 1..Len(archives)
        /\ docs \in [Doc -> DocRow(Len(archives))] /\ archives \in Seq(BOOLEAN)
    BY ArchivesTyped DEF AccountsInv, TablesOK
  <2>2. /\ f.archive \in DOMAIN archives
        /\ \A e \in Doc : docs[e].archive = f.archive /\ ~docs[e].purged => e \in f.todo
        /\ \A e \in f.todo : docs[e].archive # 0
    BY <1>1 DEF AccountsInv, PurgeThere, PurgeUnlink, At
  <2>3. d \in Doc /\ f.todo \subseteq Doc
    BY DEF Purging
  <2>4. docs' \in [Doc -> DocRow(Len(archives))]
    BY <1>5, <2>1 DEF DocRow
  <2>5. /\ docs'[d].archive = docs[d].archive /\ docs'[d].purged = docs[d].purged /\ ~docs'[d].file
        /\ \A e \in Doc \ {d} : docs'[e] = docs[e]
    BY <1>5, <2>1, <2>3 DEF DocRow
  <2>6. DocsKept
    BY <1>3, <2>5 DEF DocsKept
  <2>7. ConfirmedArchiveIsPurged'
    BY <1>3, <2>5 DEF AccountsInv, ConfirmedArchiveIsPurged
  <2>8. /\ g \in Stamping /\ g.at = "purge:stamp" /\ g.archive = f.archive
        /\ g.todo = f.todo /\ g.doc = d
    BY <2>3 DEF Purging, Stamping
  <2> HIDE DEF g
  <2>9. PurgeThere(g)'
    BY <1>3, <2>2, <2>3, <2>5, <2>8 DEF PurgeThere
  <2>10. g \in Shape
    BY <2>8 DEF Shape
  <2> QED
    BY <1>3, <1>5, <2>1, <2>4, <2>6, <2>7, <2>8, <2>9, <2>10, DocsAndMove
<1> QED
  BY <1>2, <1>4, <1>5

LEMMA PurgeStampKeeps ==
  ASSUME AccountsInv, NEW r \in Request, PurgeStamp(r), UNCHANGED <<students, bounds>>
  PROVE  AccountsInv'
<1>1. PICK f \in Stamping : f = request[r]
  BY ByLabel DEF AccountsInv, RequestsOK, PurgeStamp, At
<1>2. PICK d \in Doc : d = f.doc
  BY DEF Stamping
<1> DEFINE g == [at |-> "purge", archive |-> f.archive, todo |-> f.todo \ {d}]
<1>3. /\ UNCHANGED <<users, resets, window, students, crashes, bounds, archives>>
      /\ ~At(r, "login:lock") /\ ~At(r, "import:role")
      /\ docs' = [docs EXCEPT ![d].purged = TRUE] /\ Goto(r, g)
  BY <1>1, <1>2 DEF PurgeStamp, At
<1>4. /\ TablesOK /\ Len(archives) \in Nat /\ DOMAIN archives = 1..Len(archives)
      /\ docs \in [Doc -> DocRow(Len(archives))] /\ archives \in Seq(BOOLEAN)
  BY ArchivesTyped DEF AccountsInv, TablesOK
<1>5. /\ f.archive \in DOMAIN archives
      /\ \A e \in Doc : docs[e].archive = f.archive /\ ~docs[e].purged => e \in f.todo
      /\ \A e \in f.todo : docs[e].archive # 0
      /\ d \in f.todo /\ ~docs[d].file
  BY <1>1, <1>2 DEF AccountsInv, PurgeThere, PurgeStamp, At
<1>6. f.todo \subseteq Doc /\ f.archive \in Nat
  BY DEF Stamping
<1>7. docs' \in [Doc -> DocRow(Len(archives))]
  BY <1>3, <1>4 DEF DocRow
<1>8. /\ docs'[d].archive = docs[d].archive /\ docs'[d].purged /\ docs'[d].file = docs[d].file
      /\ \A e \in Doc \ {d} : docs'[e] = docs[e]
  BY <1>3, <1>4 DEF DocRow
<1>9. DocsKept
  BY <1>3, <1>8 DEF DocsKept
<1>10. ConfirmedArchiveIsPurged'
  BY <1>3, <1>5, <1>8 DEF AccountsInv, ConfirmedArchiveIsPurged
<1>11. g \in Purging /\ g.at = "purge" /\ g.archive = f.archive /\ g.todo = f.todo \ {d}
  BY <1>6 DEF Purging
<1> HIDE DEF g
<1>12. PurgeThere(g)'
  BY <1>3, <1>5, <1>6, <1>8, <1>11 DEF PurgeThere
<1>13. g \in Shape
  BY <1>11 DEF Shape
<1> QED
  BY <1>3, <1>4, <1>7, <1>9, <1>10, <1>11, <1>12, <1>13, DocsAndMove

LEMMA PurgeConfirmKeeps ==
  ASSUME AccountsInv, NEW r \in Request, PurgeConfirm(r), UNCHANGED <<students, bounds>>
  PROVE  AccountsInv'
<1>1. PICK f \in Purging : f = request[r]
  BY ByLabel DEF AccountsInv, RequestsOK, PurgeConfirm, At
<1>2. /\ f.archive \in DOMAIN archives /\ f.todo = {}
      /\ \A e \in Doc : docs[e].archive = f.archive /\ ~docs[e].purged => e \in f.todo
  BY <1>1 DEF AccountsInv, PurgeThere, PurgeConfirm, At
<1>3. /\ TablesOK /\ Len(archives) \in Nat /\ DOMAIN archives = 1..Len(archives)
      /\ docs \in [Doc -> DocRow(Len(archives))] /\ archives \in [1..Len(archives) -> BOOLEAN]
  BY ArchivesTyped DEF AccountsInv
<1>4. /\ UNCHANGED <<users, resets, window, students, crashes, bounds, docs>>
      /\ ~At(r, "login:lock") /\ ~At(r, "import:role") /\ Goto(r, Idle)
      /\ archives' = [archives EXCEPT ![f.archive] = TRUE]
  BY <1>1 DEF PurgeConfirm, At, Respond
<1>5. archives' \in [1..Len(archives) -> BOOLEAN]
  BY <1>3, <1>4
<1>6. archives' \in Seq(BOOLEAN) /\ Len(archives') = Len(archives)
  <2>1. archives' \in Seq(BOOLEAN) /\ DOMAIN archives' = 1..Len(archives)
    BY <1>3, <1>5, SeqDef
  <2> QED
    BY <1>3, <2>1, LenProperties
<1>7. docs' \in [Doc -> DocRow(Len(archives'))]
  BY <1>3, <1>4, <1>6
<1>8. DocsKept
  BY <1>3, <1>4, <1>5 DEF DocsKept
<1>9. ConfirmedArchiveIsPurged'
  BY <1>2, <1>3, <1>4 DEF AccountsInv, ConfirmedArchiveIsPurged, DocRow
<1>10. Idle \in Shape /\ Idle.at = "idle" /\ PurgeThere(Idle)'
  BY IdleIsQuiet DEF Idle, PurgeThere
<1> QED
  BY <1>4, <1>6, <1>7, <1>8, <1>9, <1>10, DocsAndMove

-----------------------------------------------------------------------------
(* The invariant holds.                                                    *)

LEMMA InvInit ==
  ASSUME AccountInit
  PROVE  AccountsInv
<1>1. PICK s \in Starts :
        /\ bounds = [kinds |-> s.kinds, people |-> s.people, secrets |-> s.secrets,
                     calls |-> s.calls, links |-> s.links, crashes |-> s.crashes]
        /\ users = s.users
        /\ docs = [d \in Doc |-> [NoDoc EXCEPT !.file = d \in s.stored]]
  BY DEF AccountInit
<1>2. /\ users \in [User -> Account \cup {NoUser}]
      /\ bounds.people \subseteq User /\ bounds.secrets \subseteq Password /\ bounds.calls \in Nat
      /\ \A u \in User : /\ users[u] # NoUser
                         /\ users[u].attempts >= MAX_FAILED_LOGIN_ATTEMPTS
                         => users[u].lock # "never"
  BY <1>1, StartsOK
<1>3. /\ request = [r \in Request |-> Idle] /\ resets = <<>> /\ archives = <<>> /\ crashes = 0
      /\ window = [k \in RateKey |-> [count |-> 0, expires |-> FALSE]]
      /\ students = [n \in RegistrationNumber |-> NoUser]
  BY DEF AccountInit
<1>4. \A d \in Doc : docs[d] \in [archive : 0..0, purged : BOOLEAN, file : BOOLEAN]
                     /\ docs[d].archive = 0 /\ ~docs[d].purged
  <2>1. NoDoc \in DocRow(0) /\ ~NoDoc.purged
    BY DEF NoDoc, DocRow
  <2>2. \A b \in BOOLEAN : /\ [NoDoc EXCEPT !.file = b] \in DocRow(0)
                           /\ ~[NoDoc EXCEPT !.file = b].purged
    BY <2>1 DEF DocRow
  <2>3. ASSUME NEW d \in Doc PROVE docs[d] \in DocRow(0) /\ ~docs[d].purged
    <3>1. docs[d] = [NoDoc EXCEPT !.file = d \in s.stored]
      BY <1>1, Zenon
    <3>2. (d \in s.stored) \in BOOLEAN
      OBVIOUS
    <3> QED
      BY <2>2, <3>1, <3>2, Zenon
  <2> QED
    BY <2>3 DEF DocRow
<1>5. Len(archives) = 0 /\ DOMAIN resets = {} /\ DOMAIN archives = {}
  BY <1>3
<1>6. docs = [d \in Doc |-> docs[d]]
  BY <1>1
<1>7. TablesOK
  <2>1. resets \in Seq(ResetLink) /\ archives \in Seq(BOOLEAN)
    BY <1>3
  <2>2. docs \in [Doc -> [archive : 0..Len(archives), purged : BOOLEAN, file : BOOLEAN]]
    BY <1>4, <1>5, <1>6
  <2>3. window \in [RateKey -> [count : 0..bounds.calls, expires : BOOLEAN]]
    BY <1>2, <1>3
  <2>4. students \in [RegistrationNumber -> User \cup {NoUser}] /\ crashes \in Nat
    BY <1>3
  <2> QED
    BY <1>2, <2>1, <2>2, <2>3, <2>4 DEF TablesOK
<1>8. RequestsOK
  BY <1>3, IdleIsQuiet DEF RequestsOK
<1>9. \A r \in Request : AccountThere(request[r]) /\ RowThere(request[r]) /\ PurgeThere(request[r])
  BY <1>3 DEF Idle, AccountThere, RowThere, PurgeThere
<1>10. LinksOK
  <2>1. ASSUME NEW u \in User, Registered(u)
        PROVE  users[u].version >= Cardinality(Used(u))
    <3>1. Used(u) = {}
      BY <1>5 DEF Used
    <3>2. users[u].version \in Nat
      BY <1>2, <2>1 DEF Registered, Account
    <3> QED
      BY <3>1, <3>2, FS_EmptySet
  <2>2. \A u \in User : LiveLinks(u) = {}
    BY <1>5 DEF LiveLinks
  <2> QED
    BY <1>5, <2>1, <2>2 DEF LinksOK, Used
<1>11. StudentsApart /\ StudentCanSignIn
  BY <1>3 DEF StudentsApart, StudentCanSignIn
<1>12. ThresholdLocks /\ ConfirmedArchiveIsPurged
  BY <1>2, <1>4 DEF ThresholdLocks, Registered, ConfirmedArchiveIsPurged
<1> QED
  BY <1>2, <1>7, <1>8, <1>9, <1>10, <1>11, <1>12 DEF AccountsInv, BoundsOK

LEMMA ServerStepKeeps ==
  ASSUME AccountsInv, NEW r \in Request, ServerStep(r)
  PROVE  AccountsInv'
<1>1. CASE AccountStep(r) /\ UNCHANGED <<students, retentionVars, bounds>>
  <2>1. CASE Expire(r)
    BY <1>1, <2>1, ExpireKeeps DEF Expire, Rows, retentionVars
  <2>2. CASE LoginRead(r)
    BY <1>1, <2>2, LoginReadKeeps DEF LoginRead, Rows, retentionVars
  <2>3. CASE ForgotRead(r)
    BY <1>1, <2>3, ForgotReadKeeps DEF ForgotRead, Rows, retentionVars
  <2>4. CASE IssueRevoke(r)
    BY <1>1, <2>4, IssueRevokeKeeps DEF IssueRevoke, Rows, retentionVars
  <2> QED
    BY <1>1, <2>1, <2>2, <2>3, <2>4, LoginVerifyKeeps, LoginLockKeeps, IssueCreateKeeps,
       RedeemKeeps, StaffCreateKeeps, RolesCreateKeeps DEF AccountStep
<1>2. CASE ImportStep(r, bounds.secrets) /\ UNCHANGED <<retentionVars, bounds>>
  <2>1. CASE ImportDone(r)
    BY <1>2, <2>1, ImportDoneKeeps DEF ImportDone, Rows, retentionVars
  <2> QED
    BY <1>2, <2>1, ImportAccountKeeps, ImportPasswordKeeps, ImportStudentKeeps, ImportRoleKeeps
    DEF ImportStep
<1>3. CASE RetentionStep(r) /\ UNCHANGED <<students, bounds>>
  BY <1>3, ArchiveCreateKeeps, PurgeUnlinkKeeps, PurgeStampKeeps, PurgeConfirmKeeps
  DEF RetentionStep
<1> QED
  BY <1>1, <1>2, <1>3 DEF ServerStep

LEMMA InvNext ==
  ASSUME AccountsInv, [AccountNext]_workVars
  PROVE  AccountsInv'
<1>1. ASSUME NEW r \in Request,
             \/ LoginRequests(r) \/ LinkRequests(r) \/ PostStaffUser(r) \/ PostRoles(r)
             \/ ImportRequests(r) \/ RetentionRequests(r) \/ ServerStep(r)
      PROVE  AccountsInv'
  BY <1>1, LoginArrives, LinkRequestArrives, StaffPostArrives, RolesPostArrives, ImportArrives,
     RetentionRequestArrives, ServerStepKeeps
<1>2. CASE TimePasses
  BY <1>2, LockExpiresKeeps, LinkExpiresKeeps DEF TimePasses
<1>3. ASSUME NEW d \in Doc, StoreDoc(d), UNCHANGED <<students, bounds>>
      PROVE  AccountsInv'
  BY <1>3, StoreDocKeeps
<1>4. CASE WebDies /\ UNCHANGED <<students, retentionVars, bounds>>
  BY <1>4, WebDiesKeeps
<1>5. CASE UNCHANGED workVars
  <2>1. UNCHANGED <<request, users, resets, window, crashes, students, docs, archives, bounds>>
    BY <1>5 DEF workVars, accountVars, retentionVars
  <2>2. TablesOK /\ RequestsOK /\ LinksOK /\ ConfirmedArchiveIsPurged
    BY DEF AccountsInv
  <2>3. DocsKept /\ archives' \in Seq(BOOLEAN) /\ docs' \in [Doc -> DocRow(Len(archives'))]
    BY <2>1, <2>2, ArchivesTyped DEF DocsKept, TablesOK
  <2>4. RequestsOK' /\ ConfirmedArchiveIsPurged'
    BY <2>1, <2>2 DEF RequestsOK, ConfirmedArchiveIsPurged
  <2> QED
    BY <2>1, <2>3, <2>4, DocsChange
<1> QED
  BY <1>1, <1>2, <1>3, <1>4, <1>5, DisablingKeeps, RedisKeeps DEF AccountNext

\* Accounts, links, imports and archives agree in every state of every
\* behaviour, whatever the sets of requests, people and files.
THEOREM AccountsAreSafe == AccountSpec => []AccountsInv
<1>1. AccountInit => AccountsInv
  BY InvInit
<1>2. AccountsInv /\ [AccountNext]_workVars => AccountsInv'
  BY InvNext
<1> QED
  BY <1>1, <1>2, PTL DEF AccountSpec

\* Type correctness: every table keeps its type, no two registration numbers
\* share an account, and what a suspended request will write to is there.
THEOREM AccountTypes == AccountSpec => []AccountsTypeOK
<1>1. AccountsInv => AccountsTypeOK
  <2>1. SUFFICES ASSUME AccountsInv PROVE AccountsTypeOK
    OBVIOUS
  <2>2. ASSUME NEW r \in Request
        PROVE  /\ "user" \in DOMAIN request[r] =>
                    request[r].at \in {"login:read", "forgot:read", "staff:create"} \/ Registered(request[r].user)
               /\ At(r, "redeem") => Registered(resets[request[r].link].user)
    <3>1. request[r] \in Shape /\ AccountThere(request[r])
      BY <2>1 DEF AccountsInv, RequestsOK
    <3>2. At(r, "redeem") => Registered(resets[request[r].link].user)
      BY <2>1, <3>1 DEF AccountsInv, AccountThere, LinksOK, At
    <3>3. "user" \in DOMAIN request[r] =>
            request[r].at \in {"login:read", "forgot:read", "staff:create"} \/ Registered(request[r].user)
      BY <3>1, HasUser DEF AccountThere
    <3> QED
      BY <3>2, <3>3
  <2> QED
    BY <2>1, <2>2 DEF AccountsInv, TablesOK, StudentsApart, AccountsTypeOK
<1> QED
  BY <1>1, AccountsAreSafe, PTL

\* login-attempts.ts: while no process dies, an account at the threshold is
\* locked, has been, or has a request that is about to lock it.
THEOREM LockIsNeverMissed == AccountSpec => []ThresholdLocks
<1>1. AccountsInv => ThresholdLocks
  BY DEF AccountsInv
<1> QED
  BY <1>1, AccountsAreSafe, PTL

\* password-reset.ts: at most one live link of an account, and tokenVersion has
\* moved for every link that was used.
THEOREM OneLiveLink == AccountSpec => []ResetLinksAgree
<1>1. AccountsInv => ResetLinksAgree
  <2>1. SUFFICES ASSUME AccountsInv, NEW u \in User
                 PROVE  /\ Cardinality(LiveLinks(u)) <= 1
                        /\ Used(u) # {} => Registered(u) /\ users[u].version >= Cardinality(Used(u))
    BY DEF ResetLinksAgree, Used
  <2>2. Cardinality(LiveLinks(u)) <= 1
    <3>1. CASE LiveLinks(u) = {}
      BY <3>1, FS_EmptySet
    <3>2. CASE LiveLinks(u) # {}
      <4>1. PICK i \in LiveLinks(u) : TRUE
        BY <3>2
      <4>2. LiveLinks(u) = {i}
        BY <2>1, <4>1 DEF AccountsInv, LinksOK
      <4> QED
        BY <4>2, FS_Singleton
    <3> QED
      BY <3>1, <3>2
  <2>3. Used(u) # {} => Registered(u)
    BY <2>1 DEF AccountsInv, LinksOK, Used
  <2>4. Registered(u) => users[u].version >= Cardinality(Used(u))
    BY <2>1 DEF AccountsInv, LinksOK, Used
  <2> QED
    BY <2>2, <2>3, <2>4
<1> QED
  BY <1>1, AccountsAreSafe, PTL

\* csv-import.ts: while no process dies, an account behind a student has a
\* password, and the STUDENT role or an import that is about to give it.
THEOREM ImportedStudentsSignIn == AccountSpec => []StudentCanSignIn
<1>1. AccountsInv => StudentCanSignIn
  BY DEF AccountsInv
<1> QED
  BY <1>1, AccountsAreSafe, PTL

\* retention.ts: a row that says purged has no file and an archive, and every
\* document of a confirmed archive has been purged.
THEOREM ConfirmedMeansPurged == AccountSpec => []ConfirmedArchiveIsPurged
<1>1. AccountsInv => ConfirmedArchiveIsPurged
  BY DEF AccountsInv
<1> QED
  BY <1>1, AccountsAreSafe, PTL
================================================================================
