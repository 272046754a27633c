------------------------------ MODULE RosterImport ------------------------------
(***************************************************************************)
(* Roster import, src/server/roster/csv-import.ts: a file is parsed, then   *)
(* each row makes an account, a password if the account has none, a student *)
(* and the STUDENT role, one write after the other and in no transaction.   *)
(* A row that fails is reported and the next one taken.                     *)
(***************************************************************************)
EXTENDS Accounts

CONSTANTS RegistrationNumber,
          Files    \* the files Admins import: sequences of rows [reg, email, complete]

ASSUME FilesOK ==
  Files \subseteq Seq([reg : RegistrationNumber, email : User, complete : BOOLEAN])

VARIABLE students    \* students[n].userId by registration number, NoUser: no row

\* parseRosterCsv(): the complete rows, the first of each registration number.
\* complete: no required column is missing or malformed.
parseRosterCsv(file) ==
  {i \in DOMAIN file : /\ file[i].complete
                       /\ \A j \in 1..(i - 1) : file[j].complete => file[j].reg # file[i].reg}

ImportRoster(r, file) ==
  /\ At(r, "idle")
  /\ Goto(r, [at |-> "import:row", file |-> file, todo |-> parseRosterCsv(file)])
  /\ UNCHANGED <<users, resets, window, crashes, students>>

RowOf(f) == f.file[CHOOSE i \in f.todo : \A j \in f.todo : i <= j]

\* The row is done, or reported.
NextRow(r) ==
  LET f == request[r] IN
  Goto(r, [at |-> "import:row", file |-> f.file,
           todo |-> f.todo \ {CHOOSE i \in f.todo : \A j \in f.todo : i <= j}])

\* Without its semester a row is reported.  prisma.user.upsert() returns the
\* account; whether it has a password is judged by what it returned.
ImportAccount(r) ==
  LET f == request[r]  u == RowOf(f).email IN
  /\ At(r, "import:row") /\ f.todo # {}
  /\ \/ NextRow(r) /\ UNCHANGED users
     \/ /\ users' = IF Registered(u) THEN users ELSE [users EXCEPT ![u] = FreshAccount({})]
        /\ Goto(r, [f EXCEPT !.at = IF users'[u].password = NoPassword THEN "import:password"
                                                                       ELSE "import:student"])
  /\ UNCHANGED <<resets, window, crashes, students>>

\* A random password, whatever the account has by now.
ImportPassword(r, random) ==
  LET f == request[r] IN
  /\ At(r, "import:password")
  /\ \E p \in random : users' = [users EXCEPT ![RowOf(f).email].password = p]
  /\ Goto(r, [f EXCEPT !.at = "import:student"])
  /\ UNCHANGED <<resets, window, crashes, students>>

\* students.user_id is unique: an account that is another registration number's
\* makes the row fail.
ImportStudentUnindexed(r) ==
  LET f == request[r]  row == RowOf(f) IN
  /\ At(r, "import:student")
  /\ students' = [students EXCEPT ![row.reg] = row.email]
  /\ Goto(r, [f EXCEPT !.at = "import:role"])
  /\ UNCHANGED <<users, resets, window, crashes>>
ImportStudent(r) ==
  LET f == request[r]  row == RowOf(f) IN
  /\ At(r, "import:student")
  /\ IF \E n \in RegistrationNumber \ {row.reg} : students[n] = row.email
     THEN NextRow(r) /\ UNCHANGED students
     ELSE /\ students' = [students EXCEPT ![row.reg] = row.email]
          /\ Goto(r, [f EXCEPT !.at = "import:role"])
  /\ UNCHANGED <<users, resets, window, crashes>>

ImportRole(r) ==
  LET u == RowOf(request[r]).email IN
  /\ At(r, "import:role")
  /\ users' = [users EXCEPT ![u].roles = @ \cup {"STUDENT"}]
  /\ NextRow(r)
  /\ UNCHANGED <<resets, window, crashes, students>>

\* The roster_imports row, which nothing reads back.
ImportDone(r) ==
  /\ At(r, "import:row") /\ request[r].todo = {}
  /\ Respond(r)
  /\ UNCHANGED <<users, resets, window, crashes, students>>

ImportStep(r, random) ==
  \/ ImportAccount(r) \/ ImportPassword(r, random) \/ ImportStudent(r) \/ ImportRole(r) \/ ImportDone(r)

-----------------------------------------------------------------------------
(* Properties.                                                             *)

\* csv-import.ts and setUserRoles(), "must never lose it": while no process dies,
\* an account behind a student has a password, and the STUDENT role or an import
\* about to give it, however imports of overlapping files, role edits, new staff
\* accounts and reset links interleave.
StudentCanSignIn ==
  crashes = 0 => \A n \in RegistrationNumber :
    students[n] # NoUser =>
      LET u == students[n] IN
      /\ Registered(u) /\ users[u].password # NoPassword
      /\ \/ "STUDENT" \in users[u].roles
         \/ \E r \in Request : At(r, "import:role") /\ RowOf(request[r]).email = u

\* csv-import.ts on the random password, "never a re-import of an existing student
\* overwriting a password that's already in real use": no import sets the password
\* of an account whose owner has set one through a link.  The code does not keep
\* this: whether there is a password was read before the new one was hashed.
ImportKeepsPasswords ==
  [][\A r \in Request :
       At(r, "import:password") /\ At(r, "import:student")'
         => users[RowOf(request[r]).email].version = 0]_<<accountVars, students>>
================================================================================
