------------------------------ MODULE RestartGate ------------------------------
(***************************************************************************)
(* The restart gate, src/server/restart/service.ts and its routes: a Focal *)
(* Person asks for a failed case to be restarted, a HoD counter-signs or    *)
(* denies, a Dean may rule on a denial.  The request row and the state of   *)
(* the case are written one after the other, and an authorised restart adds *)
(* a new case that points back at the failed one.                          *)
(***************************************************************************)
EXTENDS StaffScope, FiniteSets

CONSTANTS
  RestartCap,     \* restartCap(): restarts a student may be granted (BR-19)
  MaxRestarts     \* bound on the rows of restart_requests

ASSUME RestartOK == RestartCap \in Nat /\ MaxRestarts \in Nat /\ NoCase \notin Case

ASSUME RestartLabelsOK ==
  {"restart:decide", "restart:pending", "restart:refused", "countersign:decide",
   "countersign:restart", "deny:decide", "deny:record", "escalate:create"} \subseteq Label

VARIABLES
  restarts,       \* restart_requests in insertion order; index i is the request's id
  previousCase,   \* cases.previous_case_id
  escalated       \* the cases with a row of escalations about their denied restart

restartVars == <<restarts, previousCase, escalated>>

\* matchCompany(): the new company is another one, similar enough to be
\* flagged (G1 asks the HoD), or exactly the failed case's by name or number.
CompanyMatch == {"different", "similar", "exact"}

RestartRequest == [kase : Case, focal : User, flagged : BOOLEAN,
                   outcome : {"PENDING", "AUTHORIZED", "DENIED"}]

countAuthorizedRestarts(s) ==
  Cardinality({i \in DOMAIN restarts :
                 restarts[i].outcome = "AUTHORIZED" /\ StudentOf(restarts[i].kase) = s})

-----------------------------------------------------------------------------
(* requestRestart().  The facts are read first; whether a semester remains  *)
(* is the roster's.                                                         *)

RestartGuards == {"differentOrganization", "timeRemains", "belowRestartCap"}

\* The row of TRANSITIONS asks for all three guards, so a context that fails
\* one of them is as good as one that fails them all.
restartContext(c, match, timeRemains) ==
  IF match # "exact" /\ timeRemains /\ countAuthorizedRestarts(StudentOf(c)) < RestartCap
  THEN RestartGuards ELSE {}

RequestRestart(r, c, u, match, timeRemains) ==
  /\ Accepts(r, c) /\ Len(restarts) < MaxRestarts
  /\ MayAct(u, "FOCAL", StudentOf(c))
  /\ Await(r, "restart:decide",
           [kase |-> c, user |-> u, flagged |-> match = "similar",
            guards |-> restartContext(c, match, timeRemains)])
  /\ UNCHANGED <<state, history, restartVars>>

\* TransitionGuardError, the one error requestRestart() catches: the actor may
\* make this move, and a guard says no.
GuardsFail(c, to, actor, ctx) ==
  /\ Exists(c)
  /\ Admits(c, to, actor, TRUE, GuardName)
  /\ ~Admits(c, to, actor, TRUE, ctx)

RestartDecide(r) ==
  LET f == frame[r] IN
  /\ At(r, "restart:decide")
  /\ \/ /\ GuardsFail(f.kase, "RESTART_REQUESTED", f.user, f.guards)
        /\ Await(r, "restart:refused", [f EXCEPT !.guards = {}])
        /\ UNCHANGED <<state, history>>
     \/ /\ ~GuardsFail(f.kase, "RESTART_REQUESTED", f.user, f.guards)
        /\ TransitionOrFail(r, f.kase, "RESTART_REQUESTED", f.user, TRUE, f.guards,
                            "restart:pending")
  /\ UNCHANGED restartVars

\* The request row, after the transition went through or its guards refused.
RestartRecordOnlyRefusals(r) ==
  LET f == frame[r] IN
  /\ pc[r] \in {"restart:pending", "restart:refused"}
  /\ restarts' = IF pc[r] = "restart:pending" THEN restarts ELSE
                 Append(restarts, [kase |-> f.kase, focal |-> f.user,
                                   flagged |-> f.flagged, outcome |-> "DENIED"])
  /\ Respond(r)
  /\ UNCHANGED <<state, history, previousCase, escalated>>
RestartRecord(r) ==
  LET f == frame[r] IN
  /\ pc[r] \in {"restart:pending", "restart:refused"}
  /\ restarts' = Append(restarts, [kase |-> f.kase, focal |-> f.user, flagged |-> f.flagged,
                                   outcome |-> IF At(r, "restart:pending") THEN "PENDING"
                                                                           ELSE "DENIED"])
  /\ Respond(r)
  /\ UNCHANGED <<state, history, previousCase, escalated>>

-----------------------------------------------------------------------------
(* countersignRestart(): RESTART_AUTHORIZED, then one transaction for the  *)
(* request's outcome and the new case.                                     *)

CountersignRestart(r, i, u, acknowledged) ==
  /\ i \in DOMAIN restarts
  /\ Accepts(r, restarts[i].kase)
  /\ MayAct(u, "HOD", StudentOf(restarts[i].kase))
  /\ restarts[i].outcome = "PENDING"
  /\ restarts[i].flagged => acknowledged
  /\ Await(r, "countersign:decide", [kase |-> restarts[i].kase, user |-> u, request |-> i])
  /\ UNCHANGED <<state, history, restartVars>>

CountersignDecideAnySigner(r) ==
  LET f == frame[r] IN
  /\ At(r, "countersign:decide")
  /\ TransitionOrFail(r, f.kase, "RESTART_AUTHORIZED", f.user, TRUE, {"distinctSigners"},
                      "countersign:restart")
  /\ UNCHANGED restartVars
CountersignDecide(r) ==
  LET f == frame[r] IN
  /\ At(r, "countersign:decide")
  /\ TransitionOrFail(r, f.kase, "RESTART_AUTHORIZED", f.user, TRUE,
                      IF restarts[f.request].focal # f.user THEN {"distinctSigners"} ELSE {},
                      "countersign:restart")
  /\ UNCHANGED restartVars

\* The new case is refused when its student has got an active case meanwhile,
\* and the outcome is rolled back with it.
CountersignRestartsSeparately(r) ==
  LET f == frame[r] IN
  /\ At(r, "countersign:restart")
  /\ restarts' = [restarts EXCEPT ![f.request].outcome = "AUTHORIZED"]
  /\ \/ \E d \in Case : /\ Fresh(d) /\ StudentOf(d) = StudentOf(f.kase)
                        /\ InsertCase(d, "ELIGIBLE")
                        /\ previousCase' = [previousCase EXCEPT ![d] = f.kase]
     \/ /\ HasActiveCase(StudentOf(f.kase))
        /\ UNCHANGED <<state, previousCase>>
  /\ Respond(r)
  /\ UNCHANGED <<history, escalated>>
CountersignCreatesCase(r) ==
  LET f == frame[r] IN
  /\ At(r, "countersign:restart")
  /\ \/ /\ \E d \in Case : /\ Fresh(d) /\ StudentOf(d) = StudentOf(f.kase)
                           /\ InsertCase(d, "ELIGIBLE")
                           /\ previousCase' = [previousCase EXCEPT ![d] = f.kase]
        /\ restarts' = [restarts EXCEPT ![f.request].outcome = "AUTHORIZED"]
     \/ /\ HasActiveCase(StudentOf(f.kase))
        /\ UNCHANGED <<state, previousCase, restarts>>
  /\ Respond(r)
  /\ UNCHANGED <<history, escalated>>

-----------------------------------------------------------------------------
(* denyRestart() and escalateRestart().                                    *)

DenyRestart(r, i, u) ==
  /\ i \in DOMAIN restarts
  /\ Accepts(r, restarts[i].kase)
  /\ MayAct(u, "HOD", StudentOf(restarts[i].kase))
  /\ restarts[i].outcome = "PENDING"
  /\ Await(r, "deny:decide", [kase |-> restarts[i].kase, user |-> u, request |-> i])
  /\ UNCHANGED <<state, history, restartVars>>

DenyDecide(r) ==
  /\ At(r, "deny:decide")
  /\ TransitionOrFail(r, frame[r].kase, "RESTART_DENIED", frame[r].user, TRUE, {}, "deny:record")
  /\ UNCHANGED restartVars

\* The CHECK restart_requests_focal_not_hod refuses the requester's own denial.
DenyRecord(r) ==
  LET f == frame[r] IN
  /\ At(r, "deny:record")
  /\ restarts' = IF restarts[f.request].focal # f.user
                 THEN [restarts EXCEPT ![f.request].outcome = "DENIED"] ELSE restarts
  /\ Respond(r)
  /\ UNCHANGED <<state, history, previousCase, escalated>>

\* The Dean's ruling: no scope, no state change, and a look before the insert.
EscalateRestart(r, i, u) ==
  /\ i \in DOMAIN restarts
  /\ Accepts(r, restarts[i].kase)
  /\ Holds(u, "DEAN")
  /\ restarts[i].outcome = "DENIED"
  /\ restarts[i].kase \notin escalated
  /\ Await(r, "escalate:create", [kase |-> restarts[i].kase])
  /\ UNCHANGED <<state, history, restartVars>>

EscalateCreate(r) ==
  /\ At(r, "escalate:create")
  /\ escalated' = escalated \cup {frame[r].kase}
  /\ Respond(r)
  /\ UNCHANGED <<state, history, restarts, previousCase>>

-----------------------------------------------------------------------------

\* What people start; nobody has to.
RestartRequests(r) ==
  \/ \E c \in Case, u \in User, match \in CompanyMatch, remains \in BOOLEAN :
       RequestRestart(r, c, u, match, remains)
  \/ \E i \in DOMAIN restarts, u \in User :
       \/ \E acknowledged \in BOOLEAN : CountersignRestart(r, i, u, acknowledged)
       \/ DenyRestart(r, i, u)
       \/ EscalateRestart(r, i, u)

\* What the server does next in a request it has accepted.
RestartStep(r) ==
  \/ RestartDecide(r) \/ RestartRecord(r)
  \/ CountersignDecide(r) \/ CountersignCreatesCase(r)
  \/ DenyDecide(r) \/ DenyRecord(r) \/ EscalateCreate(r)

RestartInit == /\ restarts = <<>>
               /\ previousCase = [c \in Case |-> NoCase]
               /\ escalated = {}

-----------------------------------------------------------------------------
(* Properties.                                                             *)

\* Every table keeps its type, and a case points back at a case that exists.
RestartTypeOK ==
  /\ restarts \in Seq(RestartRequest)
  /\ previousCase \in [Case -> Case \cup {NoCase}]
  /\ \A c \in Case : previousCase[c] # NoCase => Exists(c) /\ Exists(previousCase[c])
  /\ escalated \subseteq Case

Events(c) == {history[c][i] : i \in DOMAIN history[c]}

\* BR-17 (two signatures) and BR-20: an authorised restart was asked for by a
\* Focal Person of the student's department and signed by a HoD of it, two
\* accounts, whichever requests, signatures and denials overlap; and a new
\* case hangs only from a failed one so authorised.
RestartHasTwoSigners ==
  \A c \in Case :
    /\ \A e \in Events(c) : e.to = "RESTART_AUTHORIZED" =>
         /\ MayAct(e.actor, "HOD", StudentOf(c))
         /\ \E i \in DOMAIN restarts :
              /\ restarts[i].kase = c
              /\ restarts[i].focal # e.actor
              /\ MayAct(restarts[i].focal, "FOCAL", StudentOf(c))
    /\ previousCase[c] # NoCase =>
         {"CLOSED_INCOMPLETE", "RESTART_AUTHORIZED"} \subseteq Entered(previousCase[c])

\* BR-19 counts AUTHORIZED requests: each one has given its student a new case,
\* although the state of the failed case moves before, on its own.
AuthorizedRequestHasNewCase ==
  \A i \in DOMAIN restarts : restarts[i].outcome = "AUTHORIZED" =>
    \E d \in Case : previousCase[d] = restarts[i].kase

\* Request r has moved c to RESTART_REQUESTED and is about to write its request.
IsRecording(r, c) ==
  /\ At(r, "restart:pending") \/ (pc[r] = "committed" /\ tx[r].next = "restart:pending")
  /\ frame[r].kase = c

\* requestRestart() moves the case first and writes the request that HoDs find it
\* by after: while no process dies, the request is there or on its way.
RestartsAreBeingRecorded ==
  \A c \in Case : "RESTART_REQUESTED" \in Entered(c) =>
    \/ \E i \in DOMAIN restarts : restarts[i].kase = c
    \/ \E r \in Request : IsRecording(r, c)

\* requestRestart(), "Always produces a" request row: while no process dies,
\* again and again every case that has been moved to RESTART_REQUESTED has a
\* request, so that none waits for a counter-signature nobody can give.
RestartIsRecorded ==
  []<>(\A c \in Case : "RESTART_REQUESTED" \in Entered(c) =>
         \E i \in DOMAIN restarts : restarts[i].kase = c)
================================================================================
