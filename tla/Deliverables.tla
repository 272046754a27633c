------------------------------ MODULE Deliverables ------------------------------
(***************************************************************************)
(* The second arc of the normal path: the student completes the internship *)
(* (progress/service.ts) and uploads the completion certificate, the        *)
(* supervisor evaluates through a mailed single-use token                   *)
(* (supervisor/service.ts), the last of the two to arrive advances the case *)
(* and the Focal Person verifies the evidence (grading/service.ts).         *)
(***************************************************************************)
EXTENDS DocumentStore, FiniteSets

CONSTANT MaxTokens    \* bound on the rows of supervisor_tokens

ASSUME TokensBounded == MaxTokens \in Nat

ASSUME DeliverableLabelsOK ==
  {"complete:decide", "cert:scan", "cert:store", "token:revoke", "token:create",
   "eval:store", "advance:facts", "advance:move", "verify:create", "mark:read",
   "mark:decide"} \subseteq Label

VARIABLES
  actualDates,  \* cases.actual_start/actual_end
  tokens,       \* supervisor_tokens in insertion order; used: it has its evaluation
  verified      \* the documents that have a verification

deliverableVars == <<actualDates, tokens, verified>>

\* The end comes after the start, or it does not.
ActualDates == {"ordered", "reversed"}

\* The two documents of a finished internship that are verified one by one.
DeliverableType == {"OFFER_LETTER", "COMPLETION_CERTIFICATE"}

Token == [kase : Case, used : BOOLEAN, revoked : BOOLEAN]

LiveTokens(c) ==
  {i \in DOMAIN tokens : tokens[i].kase = c /\ ~tokens[i].used /\ ~tokens[i].revoked}

Evaluated(c) == \E i \in DOMAIN tokens : tokens[i].kase = c /\ tokens[i].used

-----------------------------------------------------------------------------
(* completeInternship() writes the dates before the transition judges them. *)

CompleteInternship(r, c, dates) ==
  /\ Accepts(r, c)
  /\ Holds(StudentOf(c), "STUDENT")
  /\ actualDates' = [actualDates EXCEPT ![c] = dates]
  /\ Await(r, "complete:decide", [kase |-> c, dates |-> dates])
  /\ UNCHANGED <<state, history, documents, tokens, verified>>

CompleteDecide(r) ==
  /\ At(r, "complete:decide")
  /\ TransitionOrFail(r, frame[r].kase, "DOCS_PENDING", StudentOf(frame[r].kase), FALSE,
                      IF frame[r].dates = "ordered" THEN {"actualDatesRecorded"} ELSE {}, "idle")
  /\ UNCHANGED <<documents, deliverableVars>>

-----------------------------------------------------------------------------
(* The certificate's route looks at the state once, before the upload is   *)
(* read and scanned.                                                       *)

UPLOADABLE_STATES == {"IN_PROGRESS", "DOCS_PENDING"}

UploadCertificate(r, c) ==
  /\ Accepts(r, c) /\ CanStore
  /\ Holds(StudentOf(c), "STUDENT")
  /\ state[c] \in UPLOADABLE_STATES
  /\ Await(r, "cert:scan", [kase |-> c])
  /\ UNCHANGED <<state, history, documents, deliverableVars>>

\* The scan is clean, and the transaction's UPDATE picks the rows to supersede.
CertificateScan(r) ==
  /\ At(r, "cert:scan")
  /\ Await(r, "cert:store",
           [kase |-> frame[r].kase,
            replaced |-> ActiveDocuments(frame[r].kase, "COMPLETION_CERTIFICATE")])
  /\ UNCHANGED <<state, history, documents, deliverableVars>>

CertificateStore(r) ==
  /\ At(r, "cert:store")
  /\ CommitStore(frame[r].kase, "COMPLETION_CERTIFICATE", frame[r].replaced)
  /\ Await(r, "advance:facts", [kase |-> frame[r].kase])
  /\ UNCHANGED <<state, history, deliverableVars>>

-----------------------------------------------------------------------------
(* issueSupervisorToken().  The mail that follows changes only the answer   *)
(* (503 when it fails): the token stays, and may or may not reach anybody.  *)

IssueToken(r, c, u) ==
  /\ Accepts(r, c) /\ Len(tokens) < MaxTokens
  /\ Holds(u, "FOCAL")
  /\ state[c] = "DOCS_PENDING"
  /\ Await(r, "token:revoke", [kase |-> c])
  /\ UNCHANGED <<state, history, documents, deliverableVars>>

\* The transaction's UPDATE picks the live rows it sees.
TokenRevoke(r) ==
  /\ At(r, "token:revoke")
  /\ Await(r, "token:create", [kase |-> frame[r].kase, replaced |-> LiveTokens(frame[r].kase)])
  /\ UNCHANGED <<state, history, documents, deliverableVars>>

\* The INSERT fails, and the revocations with it, on supervisor_tokens_one_live_per_case.
TokenCreateUnindexed(r) ==
  LET c == frame[r].kase
      stale == frame[r].replaced \cap LiveTokens(c)
  IN  /\ At(r, "token:create")
      /\ tokens' = Append([i \in DOMAIN tokens |->
                             IF i \in stale THEN [tokens[i] EXCEPT !.revoked = TRUE] ELSE tokens[i]],
                          [kase |-> c, used |-> FALSE, revoked |-> FALSE])
      /\ Respond(r)
      /\ UNCHANGED <<state, history, documents, actualDates, verified>>
TokenCreate(r) ==
  LET c == frame[r].kase
      stale == frame[r].replaced \cap LiveTokens(c)
  IN  /\ At(r, "token:create")
      /\ IF LiveTokens(c) \subseteq stale
         THEN tokens' = Append([i \in DOMAIN tokens |->
                                  IF i \in stale THEN [tokens[i] EXCEPT !.revoked = TRUE]
                                                 ELSE tokens[i]],
                               [kase |-> c, used |-> FALSE, revoked |-> FALSE])
         ELSE UNCHANGED tokens
      /\ Respond(r)
      /\ UNCHANGED <<state, history, documents, actualDates, verified>>

-----------------------------------------------------------------------------
(* submitEvaluation().  The clock may refuse any submission as expired; the *)
(* row does not change when it does.                                       *)

\* A link that is neither used nor revoked (nor expired) is live.
lookupSupervisorToken(i) == i \in LiveTokens(tokens[i].kase)

SubmitEvaluation(r, i) ==
  /\ i \in DOMAIN tokens
  /\ Accepts(r, tokens[i].kase)
  /\ lookupSupervisorToken(i)
  /\ Await(r, "eval:store", [kase |-> tokens[i].kase, token |-> i])
  /\ UNCHANGED <<state, history, documents, deliverableVars>>

\* usedAt and the evaluation in one transaction, which fails on the unique
\* evaluations.supervisor_token_id; nothing looks at revokedAt again.
EvaluationStoreOnly(r) ==
  LET i == frame[r].token
  IN  /\ At(r, "eval:store")
      /\ tokens' = IF tokens[i].used THEN tokens ELSE [tokens EXCEPT ![i].used = TRUE]
      /\ Respond(r)
      /\ UNCHANGED <<state, history, documents, actualDates, verified>>
EvaluationStore(r) ==
  LET i == frame[r].token
  IN  /\ At(r, "eval:store")
      /\ \/ /\ ~tokens[i].used
            /\ tokens' = [tokens EXCEPT ![i].used = TRUE]
            /\ Await(r, "advance:facts", [kase |-> frame[r].kase])
         \/ /\ tokens[i].used
            /\ Respond(r)
            /\ UNCHANGED tokens
      /\ UNCHANGED <<state, history, documents, actualDates, verified>>

-----------------------------------------------------------------------------
(* advanceToVerificationIfReady(), the tail of both requests.  Its three   *)
(* queries run side by side; each fact only ever turns true, so reading     *)
(* them together is the same.                                              *)

DeliverablesPresent(c) ==
  /\ HasActive(c, "OFFER_LETTER")
  /\ HasActive(c, "COMPLETION_CERTIFICATE")
  /\ Evaluated(c)

AdvanceFactsOnlyDocuments(r) ==
  /\ At(r, "advance:facts")
  /\ \/ /\ HasActive(frame[r].kase, "COMPLETION_CERTIFICATE")
        /\ Await(r, "advance:move", frame[r])
     \/ /\ ~HasActive(frame[r].kase, "COMPLETION_CERTIFICATE")
        /\ Respond(r)
  /\ UNCHANGED <<state, history, documents, deliverableVars>>
AdvanceFacts(r) ==
  /\ At(r, "advance:facts")
  /\ \/ /\ DeliverablesPresent(frame[r].kase)
        /\ Await(r, "advance:move", frame[r])
     \/ /\ ~DeliverablesPresent(frame[r].kase)
        /\ Respond(r)
  /\ UNCHANGED <<state, history, documents, deliverableVars>>

\* IllegalTransitionError is swallowed, any other error is the request's: the
\* tables end up the same.
AdvanceMove(r) ==
  /\ At(r, "advance:move")
  /\ TransitionOrFail(r, frame[r].kase, "PENDING_VERIFICATION", System, FALSE,
                      {"deliverablesPresent"}, "idle")
  /\ UNCHANGED <<documents, deliverableVars>>

-----------------------------------------------------------------------------
(* verifyDocument() takes any document of a case in PENDING_VERIFICATION,  *)
(* superseded ones too.                                                    *)

VerifyDocument(r, i, u) ==
  /\ i \in DOMAIN documents
  /\ Accepts(r, documents[i].kase)
  /\ Holds(u, "FOCAL")
  /\ state[documents[i].kase] = "PENDING_VERIFICATION"
  /\ Await(r, "verify:create", [kase |-> documents[i].kase, document |-> i])
  /\ UNCHANGED <<state, history, documents, deliverableVars>>

VerifyCreate(r) ==
  /\ At(r, "verify:create")
  /\ verified' = verified \cup {frame[r].document}
  /\ Respond(r)
  /\ UNCHANGED <<state, history, documents, actualDates, tokens>>

\* markVerified(): one findFirst per document type, side by side and in no
\* order, so with two ACTIVE rows either may be the one that is looked at.
MarkVerified(r, c, u) ==
  /\ Accepts(r, c)
  /\ Holds(u, "FOCAL")
  /\ Await(r, "mark:read", [kase |-> c, user |-> u, unread |-> DeliverableType, ok |-> TRUE])
  /\ UNCHANGED <<state, history, documents, deliverableVars>>

SeesVerified(c, type, ok) ==
  LET active == ActiveDocuments(c, type)
  IN  IF active = {} THEN ok = FALSE ELSE \E i \in active : ok = (i \in verified)

MarkRead(r) ==
  /\ At(r, "mark:read")
  /\ \E type \in frame[r].unread, ok \in BOOLEAN :
       LET rest == frame[r].unread \ {type} IN
       /\ SeesVerified(frame[r].kase, type, ok)
       /\ Await(r, IF rest = {} THEN "mark:decide" ELSE "mark:read",
                [frame[r] EXCEPT !.unread = rest, !.ok = @ /\ ok])
  /\ UNCHANGED <<state, history, documents, deliverableVars>>

MarkDecideUnguarded(r) ==
  /\ At(r, "mark:decide")
  /\ TransitionOrFail(r, frame[r].kase, "VERIFIED", frame[r].user, FALSE,
                      {"deliverablesVerified"}, "idle")
  /\ UNCHANGED <<documents, deliverableVars>>
MarkDecide(r) ==
  /\ At(r, "mark:decide")
  /\ TransitionOrFail(r, frame[r].kase, "VERIFIED", frame[r].user, FALSE,
                      IF frame[r].ok THEN {"deliverablesVerified"} ELSE {}, "idle")
  /\ UNCHANGED <<documents, deliverableVars>>

-----------------------------------------------------------------------------

\* What people start; nobody has to.
DeliverableRequest(r) ==
  \/ \E c \in Case, dates \in ActualDates : CompleteInternship(r, c, dates)
  \/ \E c \in Case : UploadCertificate(r, c)
  \/ \E c \in Case, u \in User : IssueToken(r, c, u) \/ MarkVerified(r, c, u)
  \/ \E i \in DOMAIN tokens : SubmitEvaluation(r, i)
  \/ \E i \in DOMAIN documents, u \in User : VerifyDocument(r, i, u)

\* What the server does next in a request it has accepted.
DeliverableStep(r) ==
  \/ CompleteDecide(r)
  \/ CertificateScan(r) \/ CertificateStore(r)
  \/ TokenRevoke(r) \/ TokenCreate(r)
  \/ EvaluationStore(r) \/ AdvanceFacts(r) \/ AdvanceMove(r)
  \/ VerifyCreate(r) \/ MarkRead(r) \/ MarkDecide(r)

DeliverablesInit ==
  /\ actualDates = [c \in Case |-> "none"]
  /\ tokens = <<>>
  /\ verified = {}

deliverablePathVars == <<coreVars, documents, deliverableVars>>

DeliverableServer(r) ==
  \/ DeliverableStep(r)
  \/ ExecutorStep(r) /\ UNCHANGED <<documents, deliverableVars>>

DeliverableNext ==
  \E r \in Request :
    \/ DeliverableRequest(r)
    \/ DeliverableServer(r)

\* Node keeps running the continuations of a request it has accepted.
DeliverableFairness == \A r \in Request : WF_deliverablePathVars(DeliverableServer(r))

-----------------------------------------------------------------------------
(* Properties.                                                             *)

\* Every table keeps its type; a verification is of a document that exists.
DeliverablesTypeOK ==
  /\ TypeOK
  /\ DocumentsOK
  /\ actualDates \in [Case -> ActualDates \cup {"none"}]
  /\ tokens \in Seq(Token)
  /\ verified \subseteq DOMAIN documents

\* supervisor_tokens_one_live_per_case and the revocation before it: whoever
\* issues at the same time, one link of a case is live.
OneLiveToken == \A c \in Case : Cardinality(LiveTokens(c)) <= 1

\* BR-10: a case that was ever pending verification has all three deliverables,
\* now too, although the facts were read before the transition and a newer
\* certificate may have superseded the one that was seen.
DeliverablesBeforeVerification ==
  \A c \in Case : "PENDING_VERIFICATION" \in Entered(c) => DeliverablesPresent(c)

\* BR-11: verifications are made of cases that were pending, and a case that was
\* ever verified has a verified document of either type.
EvidenceWasVerified ==
  /\ \A i \in verified : "PENDING_VERIFICATION" \in Entered(documents[i].kase)
  /\ \A c \in Case : "VERIFIED" \in Entered(c) =>
       \A type \in DeliverableType :
         \E i \in verified : documents[i].kase = c /\ documents[i].type = type

\* Request r is about to look whether c can go on, or to take it on.
IsAdvancing(r, c) ==
  \/ (At(r, "advance:facts") \/ At(r, "advance:move")) /\ frame[r].kase = c
  \/ At(r, "commit") /\ tx[r].kase = c /\ tx[r].to = "PENDING_VERIFICATION"

EvidenceIsHeld(c) ==
  state[c] = "DOCS_PENDING" /\ DeliverablesPresent(c) /\ "PENDING_VERIFICATION" \notin Entered(c)
    => \E r \in Request : IsAdvancing(r, c)

\* advanceToVerificationIfReady(), "whichever of the two arrives last is the
\* one that actually triggers it": nothing polls, so while no process dies a
\* case that waits for documents with its evidence complete is in the hands of
\* a request that has yet to look at it or to move it.
CompleteEvidenceIsHeld == \A c \in Case : EvidenceIsHeld(c)

\* The same comment, to its end: while no process dies, a completed
\* internship with its three deliverables goes on to verification.
CompleteEvidenceAdvances ==
  \A c \in Case :
    "DOCS_PENDING" \in Entered(c) /\ DeliverablesPresent(c)
      ~> "PENDING_VERIFICATION" \in Entered(c)

\* BR-11: what is on file for a verified case is what was verified.
ActiveEvidenceIsVerified ==
  \A c \in Case : state[c] = "VERIFIED" =>
    \A type \in DeliverableType : ActiveDocuments(c, type) \subseteq verified
================================================================================
