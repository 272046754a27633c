--------------------------------- MODULE Roster ---------------------------------
(***************************************************************************)
(* Semesters, what they make of a student, and the two sweeps that follow   *)
(* them (src/server/roster): auto-enrolment (BR-02) and the document        *)
(* deadline (BR-05).  Eligibility is never stored: it is counted from the   *)
(* closed semesters each time, and an Admin may open a closed one again.    *)
(***************************************************************************)
EXTENDS Notifications

CONSTANTS
  Semester,                 \* sequence numbers a semester can get; unique, never changed
  AdmissionOf,              \* AdmissionOf[s]: the semester student s was admitted in
  AUTO_ENROLL_BOUNDARY_SEMESTERS,
  NoDeadline

ASSUME RosterOK == /\ Semester \subseteq Nat /\ AUTO_ENROLL_BOUNDARY_SEMESTERS \in Nat
                   /\ NoDeadline \notin 0..MaxTime

VARIABLE semesters    \* semesters[n]: the semester with sequence number n

NoSemester == [status |-> "NONE", deadline |-> NoDeadline]

SemesterRow == [status : {"UPCOMING", "OPEN", "CLOSED"}, deadline : 0..MaxTime \cup {NoDeadline}]

Created(n) == semesters[n] # NoSemester

Open == {n \in Semester : semesters[n].status = "OPEN"}

Student == {OwnerOf[c] : c \in Case}

-----------------------------------------------------------------------------
(* Requests of an Admin.                                                   *)

\* Without an explicit number the next one after the last is taken.
NextSequenceNumber(n) == \A m \in Semester : Created(m) => m < n

CreateSemester(n, deadline) ==
  /\ ~Created(n)
  /\ semesters' = [semesters EXCEPT ![n] = [status |-> "UPCOMING", deadline |-> deadline]]

CloseSemester(n) ==
  /\ Created(n)
  /\ semesters' = [semesters EXCEPT ![n].status = "CLOSED"]

SetDeadlineOfAny(n, deadline) ==
  semesters' = [semesters EXCEPT ![n].deadline = deadline]
SetSemesterDeadline(n, deadline) ==
  /\ Created(n)
  /\ semesters' = [semesters EXCEPT ![n].deadline = deadline]

\* openSemester(): the transaction's first UPDATE sees and locks the open rows,
OpenSemester(w, n) ==
  /\ At(w, "idle") /\ Created(n)
  /\ job' = [job EXCEPT ![w] = [at |-> "open", semester |-> n, seen |-> Open]]
  /\ UNCHANGED <<registered, bounds, clock, crashes>>

\* its second one opens n, unless a row it did not see is open by then
\* (semesters_at_most_one_open): the transaction is rolled back.
OpenCommitUnchecked(w) ==
  /\ At(w, "open")
  /\ semesters' = [n \in Semester |->
                     IF n = job[w].semester THEN [semesters[n] EXCEPT !.status = "OPEN"]
                     ELSE IF n \in job[w].seen THEN [semesters[n] EXCEPT !.status = "CLOSED"]
                     ELSE semesters[n]]
  /\ End(w)
  /\ UNCHANGED <<registered, bounds, clock, crashes>>
OpenCommit(w) ==
  /\ At(w, "open")
  /\ semesters' = IF Open \subseteq job[w].seen \cup {job[w].semester}
                  THEN [n \in Semester |->
                          IF n = job[w].semester THEN [semesters[n] EXCEPT !.status = "OPEN"]
                          ELSE IF n \in job[w].seen THEN [semesters[n] EXCEPT !.status = "CLOSED"]
                          ELSE semesters[n]]
                  ELSE semesters
  /\ End(w)
  /\ UNCHANGED <<registered, bounds, clock, crashes>>

-----------------------------------------------------------------------------
(* runAutoEnrollmentSweep(), hourly in the worker and on demand in the web  *)
(* process.                                                                *)

\* computeEligibility().
semestersCompleted(s) ==
  Cardinality({n \in Semester : n >= AdmissionOf[s] /\ semesters[n].status = "CLOSED"})

isPastAutoEnrollBoundary(s) == semestersCompleted(s) >= AUTO_ENROLL_BOUNDARY_SEMESTERS

HasCase(s) == \E c \in Case : OwnerOf[c] = s /\ status[c] # NoCase

toEnroll == {s \in Student : ~HasCase(s) /\ isPastAutoEnrollBoundary(s)}

StartAutoEnrollmentOnDemand(q) ==
  /\ q \in WebTask
  /\ Begin(q, toEnroll)
StartAutoEnrollment(q) ==
  /\ q \in registered \cup WebTask
  /\ Begin(q, toEnroll)

\* One student, one transaction.  A student who has an active case by now makes
\* it fail, and the error ends the sweep.
EnrollStudent(q) ==
  /\ At(q, "next")
  /\ \E s \in job[q].todo :
       \/ \E c \in Case : /\ OwnerOf[c] = s /\ status[c] = NoCase
                          /\ Enter(c, "ELIGIBLE") /\ OneActivePerStudent'
                          /\ Skip(q, s)
       \/ /\ \E c \in Case : OwnerOf[c] = s /\ Active(c)
          /\ End(q) /\ UNCHANGED vars
  /\ UNCHANGED <<registered, bounds, clock, crashes>>

-----------------------------------------------------------------------------
(* runDeadlineSweep().                                                     *)

PRE_VERIFICATION_STATES ==
  {"ELIGIBILITY_PENDING", "ELIGIBLE", "OFFER_SUBMITTED", "OFFER_UNDER_REVIEW",
   "OFFER_REJECTED", "APPROVED", "IN_PROGRESS", "DOCS_PENDING"}

isPastDocumentDeadline(deadline, now) == deadline # NoDeadline /\ now >= deadline

\* With the deadline they missed, which the rows of the real list do not carry.
findDeadlineMissedCases(now) ==
  {<<c, semesters[n].deadline>> : c \in {d \in Case : status[d] \in PRE_VERIFICATION_STATES},
     n \in {m \in Open : isPastDocumentDeadline(semesters[m].deadline, now)}}

StartDeadlineSweep ==
  /\ "deadline-sweep" \in registered
  /\ Begin("deadline-sweep", findDeadlineMissedCases(clock))

\* The code takes five cases at a time; they read and write rows of their own.
DeadlineCheck(q) ==
  /\ At(q, "next")
  /\ \E item \in job[q].todo :
       LET c == item[1] IN
       IF Told("deadline-missed", c) # {} THEN Skip(q, item)
       ELSE Send(q, item, "deadline-missed", c, item[2])
  /\ UNCHANGED <<registered, bounds, clock, crashes>>

-----------------------------------------------------------------------------
(* Properties.                                                             *)

\* semesters.ts: the partial unique index, not the transaction, keeps at most
\* one semester open under concurrency, so that "the open semester" whose
\* deadline governs every case is one.
OneOpenSemester == Cardinality(Open) <= 1

\* BR-02: a student without a case who is past the boundary gets one, whether or
\* not they log in, although another sweep or the student's own request makes a
\* sweep fail half-way, and although the worker dies.
BoundaryStudentGetsCase ==
  \A s \in Student :
    s \in toEnroll /\ "roster-sweep" \in registered ~> s \notin toEnroll

\* deadline-sweep.ts, "has a notification already gone out for this case since the
\* deadline in question, not "ever for this case," since a case can miss more than
\* one semester's deadline": a case with k rows before deadline d that misses d gets
\* another one.  The code does not keep this: any earlier row is enough for it.
Missed(c, d) == <<c, d>> \in findDeadlineMissedCases(clock)
Flags(c) == Len(notifications["deadline-missed"][c])
MissedDeadlineIsFlagged ==
  \A c \in Case, d \in 0..MaxTime, k \in 0..Cardinality(User) :
    [](clock < d /\ Flags(c) = k =>
         (/\ Missed(c, d) /\ "deadline-sweep" \in registered
          /\ resolveRecipients("deadline-missed", c) # {}
          ~> ~Missed(c, d) \/ Flags(c) > k))
================================================================================
