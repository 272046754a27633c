------------------------------- MODULE WaiverPath -------------------------------
(***************************************************************************)
(* The waiver path, src/server/waivers/service.ts and its routes: a Focal  *)
(* Person initiates a waiver for a student, a HoD counter-signs, a Dean     *)
(* grants, and either may refuse.  Initiating inserts a case, then stores   *)
(* the evidence, then inserts the waiver; every decision moves the case,    *)
(* then updates the waiver.  A waiver has no case_id: each decision looks   *)
(* for a case of the student that is still in the waiver states.           *)
(***************************************************************************)
EXTENDS StaffScope, DocumentStore

ASSUME WaiverLabelsOK ==
  {"waiver:create", "waiver:evidence", "waiver:undo", "waiver:record", "waiver:decide",
   "waiver:sign"} \subseteq Label

VARIABLE waivers    \* waivers by student_id, which is unique

NoWaiver == [outcome |-> "NONE", signers |-> {}]

\* signers: hod_signer_id and dean_signer_id, as the roles that have signed.
Waiver == [outcome : {"PENDING", "GRANTED", "DENIED"}, signers : SUBSET {"HOD", "DEAN"}]

WAIVER_IN_PROGRESS_STATES == {"WAIVER_REQUESTED", "WAIVER_COUNTERSIGNED"}

caseForWaiver(s) == {c \in Case : StudentOf(c) = s /\ state[c] \in WAIVER_IN_PROGRESS_STATES}

Students == {StudentOf(c) : c \in Case}

-----------------------------------------------------------------------------
(* initiateWaiver().                                                       *)

InitiateWaiver(r, s, u) ==
  /\ pc[r] = "idle" /\ CanStore
  /\ MayAct(u, "FOCAL", s)
  /\ waivers[s] = NoWaiver
  /\ ~HasActiveCase(s)
  /\ \E c \in Case : Fresh(c) /\ StudentOf(c) = s     \* bound: an id is left
  /\ Await(r, "waiver:create", [kase |-> NoCase, student |-> s])
  /\ UNCHANGED <<state, history, documents, waivers>>

WaiverCreateCase(r) ==
  LET s == frame[r].student IN
  /\ At(r, "waiver:create")
  /\ \/ \E c \in Case : /\ Fresh(c) /\ StudentOf(c) = s
                        /\ InsertCase(c, "WAIVER_REQUESTED")
                        /\ Await(r, "waiver:evidence", [frame[r] EXCEPT !.kase = c])
     \/ /\ HasActiveCase(s)
        /\ Respond(r)
        /\ UNCHANGED state
  /\ UNCHANGED <<history, documents, waivers>>

\* The evidence is stored, or refused by a check of the upload or the scan.
WaiverStoreEvidence(r) ==
  /\ At(r, "waiver:evidence")
  /\ \/ /\ CommitStore(frame[r].kase, "SUPPORTING_EVIDENCE", {})
        /\ Await(r, "waiver:record", frame[r])
     \/ /\ Await(r, "waiver:undo", frame[r])
        /\ UNCHANGED documents
  /\ UNCHANGED <<state, history, waivers>>

\* The compensating delete; case_events refer to the row of a case that has
\* moved, and the delete fails.
WaiverUndo(r) ==
  LET c == frame[r].kase IN
  /\ At(r, "waiver:undo")
  /\ state' = IF history[c] = <<>> THEN [state EXCEPT ![c] = NoCase] ELSE state
  /\ Respond(r)
  /\ UNCHANGED <<history, documents, waivers>>

\* waivers_student_id_key refuses a second row; the case stays.
WaiverRecord(r) ==
  LET s == frame[r].student IN
  /\ At(r, "waiver:record")
  /\ waivers' = IF waivers[s] = NoWaiver
                THEN [waivers EXCEPT ![s] = [outcome |-> "PENDING", signers |-> {}]]
                ELSE waivers
  /\ Respond(r)
  /\ UNCHANGED <<state, history, documents>>

-----------------------------------------------------------------------------
(* The four decisions: who takes them, where they move the case, and the   *)
(* outcome they write ("PENDING": none).                                   *)

countersignWaiver == [role |-> "HOD", to |-> "WAIVER_COUNTERSIGNED", outcome |-> "PENDING"]
denyWaiverAtHod == [role |-> "HOD", to |-> "WAIVER_DENIED", outcome |-> "DENIED"]
approveWaiver == [role |-> "DEAN", to |-> "WAIVER_GRANTED", outcome |-> "GRANTED"]
denyWaiverAtDean == [role |-> "DEAN", to |-> "WAIVER_DENIED", outcome |-> "DENIED"]

\* The waiver and its case are read, then the executor is called.
DecideWaiver(r, s, u, decision) ==
  /\ pc[r] = "idle"
  /\ waivers[s] # NoWaiver
  /\ \E c \in caseForWaiver(s) :
       Accepts(r, c) /\ Await(r, "waiver:decide", [kase |-> c, student |-> s, user |-> u,
                                                   decision |-> decision])
  /\ UNCHANGED <<state, history, documents, waivers>>

\* The routes.  The Dean's two ask for no department.
PostCountersign(r, s, u) == MayAct(u, "HOD", s) /\ DecideWaiver(r, s, u, countersignWaiver)
PostHodDeny(r, s, u) == MayAct(u, "HOD", s) /\ DecideWaiver(r, s, u, denyWaiverAtHod)
PostApprove(r, s, u) == Holds(u, "DEAN") /\ DecideWaiver(r, s, u, approveWaiver)
PostDeanDeny(r, s, u) == Holds(u, "DEAN") /\ DecideWaiver(r, s, u, denyWaiverAtDean)

WaiverDecide(r) ==
  LET f == frame[r] IN
  /\ At(r, "waiver:decide")
  /\ TransitionOrFail(r, f.kase, f.decision.to, f.user, TRUE, {}, "waiver:sign")
  /\ UNCHANGED <<documents, waivers>>

WaiverSignOnlyRefusals(r) ==
  LET f == frame[r] IN
  /\ At(r, "waiver:sign")
  /\ waivers' = IF f.decision.outcome = "DENIED"
                THEN [waivers EXCEPT ![f.student] =
                        [outcome |-> "DENIED", signers |-> @.signers \cup {f.decision.role}]]
                ELSE waivers
  /\ Respond(r)
  /\ UNCHANGED <<state, history, documents>>
WaiverSign(r) ==
  LET f == frame[r] IN
  /\ At(r, "waiver:sign")
  /\ waivers' = [waivers EXCEPT ![f.student] =
                   [outcome |-> IF f.decision.outcome = "PENDING" THEN @.outcome
                                                                 ELSE f.decision.outcome,
                    signers |-> @.signers \cup {f.decision.role}]]
  /\ Respond(r)
  /\ UNCHANGED <<state, history, documents>>

-----------------------------------------------------------------------------

\* What people start; nobody has to.
WaiverRequests(r) ==
  \E s \in Students, u \in User :
    \/ InitiateWaiver(r, s, u)
    \/ PostCountersign(r, s, u) \/ PostHodDeny(r, s, u)
    \/ PostApprove(r, s, u) \/ PostDeanDeny(r, s, u)

\* What the server does next in a request it has accepted.
WaiverStep(r) ==
  \/ WaiverCreateCase(r) \/ WaiverStoreEvidence(r) \/ WaiverUndo(r) \/ WaiverRecord(r)
  \/ WaiverDecide(r) \/ WaiverSign(r)

WaiverInit == waivers = [s \in Students |-> NoWaiver]

\* isGraduationEligible() (BR-03).
isGraduationEligible(s) ==
  \/ \E c \in Case : StudentOf(c) = s /\ state[c] = "CLOSED_PASS"
  \/ waivers[s].outcome = "GRANTED"

-----------------------------------------------------------------------------
(* Properties.                                                             *)

\* The table keeps its type.
WaiverTypeOK == DocumentsOK /\ waivers \in [Students -> Waiver \cup {NoWaiver}]

SignedBy(c, to, role) ==
  \E i \in DOMAIN history[c] :
    history[c][i].to = to /\ history[c][i].actor \in User /\ Holds(history[c][i].actor, role)

\* BR-03 and BR-21: who may graduate has passed, or has one case that a HoD
\* counter-signed and a Dean granted, whichever decisions overlap on the case
\* and on the waiver, which are written apart.
GraduationIsEarned ==
  \A s \in Students : isGraduationEligible(s) =>
    \E c \in Case :
      /\ StudentOf(c) = s
      /\ \/ state[c] = "CLOSED_PASS"
         \/ /\ SignedBy(c, "WAIVER_COUNTERSIGNED", "HOD")
            /\ SignedBy(c, "WAIVER_GRANTED", "DEAN")

Reached(s, stage) == \E c \in Case : StudentOf(c) = s /\ stage \in Entered(c)

\* The states a decision moves a waiver's case to, and what its row shows then.
DecidedState == {"WAIVER_COUNTERSIGNED", "WAIVER_GRANTED", "WAIVER_DENIED"}

Shows(s, to) ==
  /\ to = "WAIVER_COUNTERSIGNED" => "HOD" \in waivers[s].signers
  /\ to = "WAIVER_GRANTED" => "DEAN" \in waivers[s].signers
  /\ to \in {"WAIVER_GRANTED", "WAIVER_DENIED"} => waivers[s].outcome \in {"GRANTED", "DENIED"}

\* Request r has moved the case of s and is about to sign its waiver.
IsSigning(r, s, to) ==
  /\ At(r, "waiver:sign") \/ (pc[r] = "committed" /\ tx[r].next = "waiver:sign")
  /\ frame[r].student = s
  /\ frame[r].decision.to = to

\* The case moves before the waiver is signed, and decisions overlap: while no
\* process dies, what has moved the case shows in the waiver or is on its way.
WaiversAreBeingSigned ==
  \A s \in Students, to \in DecidedState :
    Reached(s, to) => Shows(s, to) \/ \E r \in Request : IsSigning(r, s, to)

\* While no process dies, again and again the waiver shows every decision that
\* has moved its case: the HoD's signature, the Dean's, an outcome.
WaiverDecisionIsRecorded ==
  \A s \in Students : []<>(\A to \in DecidedState : Reached(s, to) => Shows(s, to))
================================================================================
