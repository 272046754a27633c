------------------------------- MODULE OfferPath -------------------------------
(***************************************************************************)
(* The first arc of the normal path, src/server/offers/service.ts and its  *)
(* routes: open a case, submit an offer, review it, withdraw.  Each service *)
(* writes its own data and then calls the executor, in transactions of      *)
(* their own; nothing undoes the first when the second is denied.           *)
(***************************************************************************)
EXTENDS DocumentStore

CONSTANTS
  Company,      \* companies students name in their offers
  NoCompany,
  Plans         \* the approval forms Focal Persons send

\* An approval form: planned dates within BR-08's weeks or not, relevance
\* confirmed or not.  (An end before the start is refused by a CHECK.)
Plan == [inBounds : BOOLEAN, relevant : BOOLEAN]
NoPlan == [inBounds |-> FALSE]

ASSUME OffersOK ==
  /\ NoCompany \notin Company
  /\ Plans \subseteq Plan

ASSUME OfferLabelsOK ==
  {"open:create", "open:confirm", "offer:store", "offer:details", "offer:submit",
   "offer:queue", "approve:decide", "approve:start"} \subseteq Label

VARIABLES
  company,    \* cases.company_id (work_description goes with it)
  plan        \* cases.planned_start/planned_end and relevance_confirmed

offerVars == <<company, plan>>

CasesOf(u) == {c \in Case : OwnerOf[c] = u /\ Exists(c)}

-----------------------------------------------------------------------------
(* openCase().  The student is eligible (the roster decides, see Roster);  *)
(* one who is not is refused before anything is written.                   *)

OpenCase(r, u) ==
  /\ pc[r] = "idle"
  /\ Holds(u, "STUDENT")
  /\ \A c \in CasesOf(u) : state[c] = "WITHDRAWN"
  /\ \E c \in Case : OwnerOf[c] = u /\ ~Exists(c)     \* bound: an id is left
  /\ Await(r, "open:create", [kase |-> NoCase, user |-> u])
  /\ UNCHANGED <<state, history, documents, offerVars>>

OpenCreate(r) ==
  /\ At(r, "open:create")
  /\ \/ \E c \in Case :
          /\ OwnerOf[c] = frame[r].user
          /\ InsertCase(c, "ELIGIBILITY_PENDING")
          /\ Await(r, "open:confirm", [frame[r] EXCEPT !.kase = c])
     \/ /\ \A c \in Case : OwnerOf[c] = frame[r].user =>
             Exists(c) \/ ~IndexAccepts(c, "ELIGIBILITY_PENDING")
        /\ Respond(r)
        /\ UNCHANGED state
  /\ UNCHANGED <<history, documents, offerVars>>

OpenConfirm(r) ==
  /\ At(r, "open:confirm")
  /\ TransitionOrFail(r, frame[r].kase, "ELIGIBLE", System, FALSE,
                      {"eligibilityConfirmed"}, "idle")
  /\ UNCHANGED <<documents, offerVars>>

\* withdrawCase(): the executor alone decides from which states.
WithdrawCase(r, c) ==
  /\ Accepts(r, c)
  /\ BeginTransition(r, c, "WITHDRAWN", StudentOf(c), FALSE, {}, "idle")
  /\ UNCHANGED <<frame, documents, offerVars>>

-----------------------------------------------------------------------------
(* submitOffer(): company, offer letter, case fields, OFFER_SUBMITTED,     *)
(* OFFER_UNDER_REVIEW.  The route checks the owner, not the state.         *)

SubmitOffer(r, c, k) ==
  /\ Accepts(r, c) /\ CanStore
  /\ Holds(StudentOf(c), "STUDENT")
  /\ Await(r, "offer:store",
           [kase |-> c, company |-> k, replaced |-> ActiveDocuments(c, "OFFER_LETTER")])
  /\ UNCHANGED <<state, history, documents, offerVars>>

OfferStore(r) ==
  /\ At(r, "offer:store")
  /\ CommitStore(frame[r].kase, "OFFER_LETTER", frame[r].replaced)
  /\ Await(r, "offer:details", [kase |-> frame[r].kase, company |-> frame[r].company])
  /\ UNCHANGED <<state, history, offerVars>>

OfferDetails(r) ==
  /\ At(r, "offer:details")
  /\ company' = [company EXCEPT ![frame[r].kase] = frame[r].company]
  /\ Await(r, "offer:submit", [kase |-> frame[r].kase])
  /\ UNCHANGED <<state, history, documents, plan>>

OfferSubmitUnqueued(r) ==
  /\ At(r, "offer:submit")
  /\ TransitionOrFail(r, frame[r].kase, "OFFER_SUBMITTED", StudentOf(frame[r].kase), FALSE,
                      {"offerComplete"}, "idle")
  /\ UNCHANGED <<documents, offerVars>>
OfferSubmit(r) ==
  /\ At(r, "offer:submit")
  /\ TransitionOrFail(r, frame[r].kase, "OFFER_SUBMITTED", StudentOf(frame[r].kase), FALSE,
                      {"offerComplete"}, "offer:queue")
  /\ UNCHANGED <<documents, offerVars>>

OfferQueue(r) ==
  /\ At(r, "offer:queue")
  /\ TransitionOrFail(r, frame[r].kase, "OFFER_UNDER_REVIEW", System, FALSE, {}, "idle")
  /\ UNCHANGED <<documents, offerVars>>

-----------------------------------------------------------------------------
(* approveOffer() writes the planned dates and the relevance judgement     *)
(* BEFORE the transition that judges them; rejectOffer() only moves.        *)

ApproveOffer(r, c, u, p) ==
  /\ Accepts(r, c)
  /\ Holds(u, "FOCAL")
  /\ plan' = [plan EXCEPT ![c] = p]
  /\ Await(r, "approve:decide", [kase |-> c, user |-> u, plan |-> p])
  /\ UNCHANGED <<state, history, documents, company>>

PlanGuards(p) == (IF p.inBounds THEN {"durationWithinBounds"} ELSE {})
                 \cup (IF p.relevant THEN {"relevanceConfirmed"} ELSE {})

ApproveDecide(r) ==
  /\ At(r, "approve:decide")
  /\ TransitionOrFail(r, frame[r].kase, "APPROVED", frame[r].user, TRUE,
                      PlanGuards(frame[r].plan), "approve:start")
  /\ UNCHANGED <<documents, offerVars>>

ApproveStart(r) ==
  /\ At(r, "approve:start")
  /\ TransitionOrFail(r, frame[r].kase, "IN_PROGRESS", System, FALSE, {}, "idle")
  /\ UNCHANGED <<documents, offerVars>>

RejectOffer(r, c, u) ==
  /\ Accepts(r, c)
  /\ Holds(u, "FOCAL")
  /\ BeginTransition(r, c, "OFFER_REJECTED", u, TRUE, {}, "idle")
  /\ UNCHANGED <<frame, documents, offerVars>>

-----------------------------------------------------------------------------

\* What people start; nobody has to.
OfferRequest(r) ==
  \/ \E u \in User : OpenCase(r, u)
  \/ \E c \in Case : WithdrawCase(r, c)
  \/ \E c \in Case, k \in Company : SubmitOffer(r, c, k)
  \/ \E c \in Case, u \in User, p \in Plans : ApproveOffer(r, c, u, p)
  \/ \E c \in Case, u \in User : RejectOffer(r, c, u)

\* What the server does next in a request it has accepted.
OfferStep(r) ==
  \/ OpenCreate(r) \/ OpenConfirm(r)
  \/ OfferStore(r) \/ OfferDetails(r) \/ OfferSubmit(r) \/ OfferQueue(r)
  \/ ApproveDecide(r) \/ ApproveStart(r)

OfferInit == /\ company = [c \in Case |-> NoCompany]
             /\ plan = [c \in Case |-> NoPlan]

OfferPathInit == CoreInit /\ DocumentsInit /\ OfferInit

offerPathVars == <<coreVars, documents, offerVars>>

OfferServer(r) ==
  \/ OfferStep(r)
  \/ ExecutorStep(r) /\ UNCHANGED <<documents, offerVars>>

OfferNext ==
  \E r \in Request :
    \/ OfferRequest(r)
    \/ OfferServer(r)

\* Node keeps running the continuations of a request it has accepted.
OfferSpec == /\ OfferPathInit
             /\ [][OfferNext]_offerPathVars
             /\ \A r \in Request : WF_offerPathVars(OfferServer(r))

-----------------------------------------------------------------------------
(* Properties.                                                             *)

\* Every table keeps its type.
OfferTypeOK ==
  /\ TypeOK
  /\ DocumentsOK
  /\ company \in [Case -> Company \cup {NoCompany}]
  /\ plan \in [Case -> Plan \cup {NoPlan}]

\* BR-07: a case that was ever submitted has an offer letter on file, and still
\* has one however many submissions supersede one another.
OfferLetterOnFile ==
  \A c \in Case : "OFFER_SUBMITTED" \in Entered(c) =>
    HasActive(c, "OFFER_LETTER") /\ company[c] # NoCompany

\* The states a request passes through on its own: nobody but that request can
\* take the case on (a student may withdraw from two of them).
TransientState == {"ELIGIBILITY_PENDING", "OFFER_SUBMITTED", "APPROVED"}

\* Where the request that took a case to such a state goes on, and the state it
\* takes the case to next.
ChainedStep ==
  {[state |-> "ELIGIBILITY_PENDING", label |-> "open:confirm", to |-> "ELIGIBLE"],
   [state |-> "OFFER_SUBMITTED", label |-> "offer:queue", to |-> "OFFER_UNDER_REVIEW"],
   [state |-> "APPROVED", label |-> "approve:start", to |-> "IN_PROGRESS"]}

\* Request r is about to take c on: it has yet to ask, or its commit is waiting.
MovesOn(r, c) ==
  \E m \in ChainedStep :
    /\ m.state = state[c]
    /\ \/ At(r, m.label) /\ frame[r].kase = c
       \/ pc[r] = "committed" /\ tx[r].next = m.label /\ frame[r].kase = c
       \/ pc[r] = "commit" /\ tx[r].kase = c /\ tx[r].to = m.to

\* The second call of submitOffer() and of approveOffer() is never dropped: while
\* no process dies, some request still holds a case that is in such a state, even
\* one that another request overwrote.
TransientCasesMoveOn ==
  \A c \in Case : state[c] \in TransientState => \E r \in Request : MovesOn(r, c)

\* docs/modules/M05.md, "automatically inside the same request": while no
\* process dies, a case does not stay in a state it was only to pass through.
TransientStatesPass ==
  \A c \in Case : state[c] \in TransientState ~> state[c] \notin TransientState

\* BR-08/BR-09: an internship under way has planned dates within the bounds and
\* a confirmed relevance.
InternshipHasApprovedPlan ==
  \A c \in Case : state[c] = "IN_PROGRESS" => plan[c] = [inBounds |-> TRUE, relevant |-> TRUE]
================================================================================
