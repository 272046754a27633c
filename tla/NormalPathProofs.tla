---------------------------- MODULE NormalPathProofs ----------------------------
(***************************************************************************)
(* The normal path, for any number of students, staff, cases, documents and *)
(* overlapping requests, any of which may die between two steps: what the   *)
(* three services promise of each other's rows.                            *)
(*                                                                         *)
(* The argument.  What a case must have to be in a state (Earned) only ever *)
(* grows (Grows).  So a request may look, suspend, and act on what it saw:  *)
(* what it knows from its own label and locals (LocalsOK) stays true while  *)
(* others run, and what it waits to commit is still earned when it commits. *)
(***************************************************************************)
EXTENDS NormalPath, ExecutorProofs, FiniteSetTheorems

-----------------------------------------------------------------------------
(* The inductive invariant.                                                *)

\* A document of c of this type has a verification.
HasVerified(c, type) ==
  \E i \in verified : documents[i].kase = c /\ documents[i].type = type

\* What case c must have to be, or have been, in state s.
Earned(c, s) ==
  /\ s = "OFFER_SUBMITTED" => HasActive(c, "OFFER_LETTER") /\ company[c] # NoCompany
  /\ s = "PENDING_VERIFICATION" => DeliverablesPresent(c)
  /\ s = "VERIFIED" => \A type \in DeliverableType : HasVerified(c, type)
  /\ s = "GRADE_RECOMMENDED" => recommendation[c] # NoRecommendation

\* The rows a store is going to supersede are of its own case and type.
OwnRows(rows, c, type) ==
  \A i \in rows : /\ i \in DOMAIN documents
                  /\ documents[i].kase = c /\ documents[i].type = type

\* Document i belongs to a case that has been pending verification.
WasPending(i) ==
  /\ i \in DOMAIN documents
  /\ \E c \in Case : documents[i].kase = c /\ "PENDING_VERIFICATION" \in Entered(c)

\* c was closed by u, with the grade value.
ClosedBy(c, value, u) ==
  \E i \in DOMAIN history[c] : history[c][i].to = TargetState(value) /\ history[c][i].actor = u

\* The student of c has completed the internship.
WasCompleted(c) == "DOCS_PENDING" \in Entered(c)

\* The labels at which a request works on a case, and for a user.
CaseLabel ==
  {"open:confirm", "offer:store", "offer:details", "offer:submit", "offer:queue",
   "approve:decide", "approve:start", "complete:decide", "cert:scan", "cert:store",
   "token:revoke", "token:create", "eval:store", "advance:facts", "advance:move",
   "verify:create", "mark:read", "mark:decide", "recommend:decide", "award:decide",
   "award:grade"}
UserLabel == {"approve:decide", "recommend:decide", "award:decide", "award:grade"}

MarkFrame == [kase : Case, user : User, unread : SUBSET DeliverableType, ok : BOOLEAN]

\* What a service that is to go on at label, with locals f, has made sure of.
FrameOK(label, f) ==
  /\ label \in CaseLabel => f.kase \in Case
  /\ label \in UserLabel => f.user \in User
  /\ label = "open:create" => \E u \in User : f = [kase |-> NoCase, user |-> u]
  /\ label = "offer:store" => f.company \in Company /\ OwnRows(f.replaced, f.kase, "OFFER_LETTER")
  /\ label = "offer:details" => f.company \in Company /\ HasActive(f.kase, "OFFER_LETTER")
  /\ label = "offer:submit" => Earned(f.kase, "OFFER_SUBMITTED")
  /\ label = "cert:store" => OwnRows(f.replaced, f.kase, "COMPLETION_CERTIFICATE")
  /\ label \in {"token:revoke", "token:create"} => WasCompleted(f.kase)
  /\ label = "eval:store" => f.token \in DOMAIN tokens /\ tokens[f.token].kase = f.kase
  /\ label = "advance:move" => DeliverablesPresent(f.kase)
  /\ label = "verify:create" => WasPending(f.document)
  /\ label \in {"mark:read", "mark:decide"} =>
       /\ f \in MarkFrame
       /\ f.ok => \A type \in DeliverableType \ f.unread : HasVerified(f.kase, type)
  /\ label = "mark:decide" => f.unread = {}
  /\ label = "recommend:decide" => recommendation[f.kase] # NoRecommendation
  /\ label \in {"award:decide", "award:grade"} =>
       /\ f.value \in GradeValue
       /\ f.recommendedBy \in User
       /\ "FOCAL" \in RolesOf[f.recommendedBy]

\* What is true of a request at label, with the executor's locals t and its
\* service's locals f.  A request inside the executor also has what it needs
\* after it, and what it commits is earned; a grade is written for a closure
\* that has been committed.
LocalsOK(label, t, f) ==
  /\ FrameOK(label, f)
  /\ label \in {"commit", "committed"} =>
       /\ FrameOK(t.next, f)
       /\ t.next = "award:grade" =>
            t.kase = f.kase /\ t.to = TargetState(f.value) /\ t.actor = f.user
  /\ label = "commit" => Earned(t.kase, t.to)
  /\ label = "committed" /\ t.next = "award:grade" => ClosedBy(f.kase, f.value, f.user)
  /\ label = "award:grade" => ClosedBy(f.kase, f.value, f.user)

RequestOK(r) == \A label \in {pc[r]}, t \in {tx[r]}, f \in {frame[r]} : LocalsOK(label, t, f)

RequestsOK == DOMAIN frame = Request /\ \A r \in Request : RequestOK(r)

StatesAreEarned == \A c \in Case : \A s \in Entered(c) : Earned(c, s)

VerifiedWasPending == \A i \in verified : WasPending(i)

LinksFollowCompletion ==
  \A i \in DOMAIN tokens : \E c \in Case : tokens[i].kase = c /\ WasCompleted(c)

SameLiveToken == \A c \in Case : \A i, j \in LiveTokens(c) : i = j

FocalRecommends ==
  \A c \in Case : recommendation[c] # NoRecommendation => "FOCAL" \in RolesOf[recommendation[c].by]

ReversalsOfGrades == \A v \in reversals : grades[v[1]] # NoGrade

TablesOK ==
  /\ OfferTypeOK /\ DeliverablesTypeOK /\ GradingTypeOK
  /\ StatesAreEarned
  /\ VerifiedWasPending
  /\ LinksFollowCompletion
  /\ SameLiveToken
  /\ FocalRecommends
  /\ GradeBacksClosure
  /\ ReversalsOfGrades

NormalPathInv == IInv /\ TablesOK /\ RequestsOK

\* What no step ever takes back.
Grows ==
  /\ \A c \in Case : Entered(c) \subseteq Entered(c)'
  /\ \A c \in Case : \A i \in DOMAIN history[c] :
       i \in DOMAIN history'[c] /\ history'[c][i] = history[c][i]
  /\ \A i \in DOMAIN documents :
       /\ i \in DOMAIN documents'
       /\ documents'[i].kase = documents[i].kase
       /\ documents'[i].type = documents[i].type
  /\ \A c \in Case, type \in DocumentType : HasActive(c, type) => HasActive(c, type)'
  /\ \A i \in DOMAIN tokens : i \in DOMAIN tokens' /\ tokens'[i].kase = tokens[i].kase
  /\ \A c \in Case : Evaluated(c) => Evaluated(c)'
  /\ verified \subseteq verified'
  /\ \A c \in Case : company[c] # NoCompany => company'[c] # NoCompany
  /\ \A c \in Case : recommendation[c] # NoRecommendation => recommendation'[c] # NoRecommendation

-----------------------------------------------------------------------------
(* What a request knows stays true.                                        *)

\* What has been earned stays earned.
LEMMA EarnedStays ==
  ASSUME DeliverablesTypeOK, Grows, NEW c \in Case, NEW s, Earned(c, s)
  PROVE  Earned(c, s)'
<1>1. \A type \in DocumentType : HasActive(c, type) => HasActive(c, type)'
  BY DEF Grows
<1>2. DeliverablesPresent(c) => DeliverablesPresent(c)'
  BY <1>1 DEF Grows, DeliverablesPresent, DocumentType
<1>3. \A type \in DeliverableType : HasVerified(c, type) => HasVerified(c, type)'
  BY DEF Grows, HasVerified, DeliverablesTypeOK
<1>4. HasActive(c, "OFFER_LETTER") => HasActive(c, "OFFER_LETTER")'
  BY <1>1 DEF DocumentType
<1> QED
  BY <1>2, <1>3, <1>4 DEF Grows, Earned

\* What a service has made sure of stays so while others run.
LEMMA FrameStays ==
  ASSUME DeliverablesTypeOK, Grows, NEW label, NEW f, FrameOK(label, f)
  PROVE  FrameOK(label, f)'
<1>1. label \in CaseLabel => f.kase \in Case
  BY DEF FrameOK
<1>2. label = "offer:store" => OwnRows(f.replaced, f.kase, "OFFER_LETTER")'
  BY DEF FrameOK, OwnRows, Grows
<1>3. label = "offer:details" => HasActive(f.kase, "OFFER_LETTER")'
  BY <1>1 DEF FrameOK, Grows, DocumentType, CaseLabel
<1>4. label = "offer:submit" => Earned(f.kase, "OFFER_SUBMITTED")'
  BY <1>1, EarnedStays DEF FrameOK, CaseLabel
<1>5. label = "cert:store" => OwnRows(f.replaced, f.kase, "COMPLETION_CERTIFICATE")'
  BY DEF FrameOK, OwnRows, Grows
<1>6. label = "eval:store" => f.token \in DOMAIN tokens' /\ tokens'[f.token].kase = f.kase
  BY DEF FrameOK, Grows
<1>7. label = "advance:move" => DeliverablesPresent(f.kase)'
  BY <1>1 DEF FrameOK, Grows, DeliverablesPresent, DocumentType, CaseLabel
<1>8. label = "verify:create" => WasPending(f.document)'
  BY DEF FrameOK, WasPending, Grows
<1>9. label \in {"mark:read", "mark:decide"} =>
        /\ f \in MarkFrame
        /\ f.ok => \A type \in DeliverableType \ f.unread : HasVerified(f.kase, type)'
  <2>1. \A type : HasVerified(f.kase, type) => HasVerified(f.kase, type)'
    BY DEF HasVerified, Grows, DeliverablesTypeOK
  <2> QED
    BY <2>1 DEF FrameOK
<1>10. label = "recommend:decide" => recommendation'[f.kase] # NoRecommendation
  BY <1>1 DEF FrameOK, Grows, CaseLabel
<1>11. label \in {"token:revoke", "token:create"} => WasCompleted(f.kase)'
  BY <1>1 DEF FrameOK, WasCompleted, Grows, CaseLabel
<1> QED
  BY <1>1, <1>2, <1>3, <1>4, <1>5, <1>6, <1>7, <1>8, <1>9, <1>10, <1>11 DEF FrameOK

\* So does what is true of a request, inside the executor or out of it.
LEMMA LocalsStay ==
  ASSUME TablesOK, Grows, NEW label, NEW t, NEW f, LocalsOK(label, t, f),
         label = "commit" => t.kase \in Case
  PROVE  LocalsOK(label, t, f)'
<1>1. DeliverablesTypeOK
  BY DEF TablesOK
<1>2. FrameOK(label, f)' /\ (FrameOK(t.next, f) => FrameOK(t.next, f)')
  BY <1>1, FrameStays DEF LocalsOK
<1>3. label = "commit" => Earned(t.kase, t.to)'
  BY <1>1, EarnedStays DEF LocalsOK
<1>4. f.kase \in Case /\ ClosedBy(f.kase, f.value, f.user) => ClosedBy(f.kase, f.value, f.user)'
  BY DEF ClosedBy, Grows
<1>5. label = "award:grade" => f.kase \in Case
  BY DEF LocalsOK, FrameOK, CaseLabel
<1>6. label \in {"commit", "committed"} /\ t.next = "award:grade" => f.kase \in Case
  BY DEF LocalsOK, FrameOK, CaseLabel
<1> QED
  BY <1>2, <1>3, <1>4, <1>5, <1>6 DEF LocalsOK

-----------------------------------------------------------------------------
(* The requests.                                                           *)

\* A step keeps what is true of the requests that do not take it.
LEMMA OtherRequestsStay ==
  ASSUME TypeOK, TablesOK, RequestsOK, Grows, NEW q \in Request,
         pc'[q] = pc[q], tx'[q] = tx[q], frame'[q] = frame[q]
  PROVE  RequestOK(q)'
<1> SUFFICES ASSUME NEW label, NEW t, NEW f, label = pc'[q], t = tx'[q], f = frame'[q]
             PROVE  LocalsOK(label, t, f)'
  BY DEF RequestOK
<1>1. LocalsOK(label, t, f)
  BY DEF RequestsOK, RequestOK
<1>2. label = "commit" => t.kase \in Case
  BY DEF TypeOK, InFlight
<1> QED
  BY <1>1, <1>2, LocalsStay

\* A request that awaits has made sure of what it needs next.
LEMMA AwaitKeepsRequests ==
  ASSUME TypeOK, TablesOK, RequestsOK, Grows,
         NEW r \in Request, NEW label \in Continuation \ {"award:grade"}, NEW g,
         Await(r, label, g), FrameOK(label, g)'
  PROVE  RequestsOK'
<1>1. /\ pc' = [pc EXCEPT ![r] = label]
      /\ frame' = [frame EXCEPT ![r] = g]
      /\ tx' = tx
  BY DEF Await
<1>2. DOMAIN frame' = Request /\ frame'[r] = g /\ pc'[r] = label
  BY <1>1 DEF RequestsOK, TypeOK
<1>3. \A q \in Request \ {r} : pc'[q] = pc[q] /\ tx'[q] = tx[q] /\ frame'[q] = frame[q]
  BY <1>1 DEF RequestsOK, TypeOK
<1>4. RequestOK(r)'
  BY <1>2 DEF RequestOK, LocalsOK, Continuation
<1> QED
  BY <1>2, <1>3, <1>4, OtherRequestsStay DEF RequestsOK

\* A request that is answered needs nothing.
LEMMA RespondKeepsRequests ==
  ASSUME TypeOK, TablesOK, RequestsOK, Grows, NEW r \in Request, Respond(r)
  PROVE  RequestsOK'
<1>1. /\ pc' = [pc EXCEPT ![r] = "idle"]
      /\ frame' = [frame EXCEPT ![r] = NoFrame]
      /\ tx' = [tx EXCEPT ![r] = NoTx]
  BY DEF Respond
<1>2. DOMAIN frame' = Request /\ pc'[r] = "idle"
  BY <1>1 DEF RequestsOK, TypeOK
<1>3. \A q \in Request \ {r} : pc'[q] = pc[q] /\ tx'[q] = tx[q] /\ frame'[q] = frame[q]
  BY <1>1 DEF RequestsOK, TypeOK
<1>4. RequestOK(r)'
  BY <1>2 DEF RequestOK, LocalsOK, FrameOK, CaseLabel, UserLabel
<1> QED
  BY <1>2, <1>3, <1>4, OtherRequestsStay DEF RequestsOK

\* A request that calls the executor: what the executor admits is earned, and
\* the service has made sure of what it needs after the call.
LEMMA CallKeepsRequests ==
  ASSUME TypeOK, TablesOK, RequestsOK, Grows,
         NEW r \in Request, NEW c \in Case, NEW to \in CaseState, NEW actor \in Actor,
         NEW reason, NEW ctx, NEW next \in Continuation, NEW f, f = frame[r],
         TransitionOrFail(r, c, to, actor, reason, ctx, next),
         FrameOK(next, f)',
         next = "award:grade" => c = f.kase /\ to = TargetState(f.value) /\ actor = f.user,
         Admits(c, to, actor, reason, ctx) => Earned(c, to)'
  PROVE  RequestsOK'
<1>1. CASE BeginTransition(r, c, to, actor, reason, ctx, next) /\ UNCHANGED frame
  <2> DEFINE t == [kase |-> c, from |-> state[c], to |-> to, actor |-> actor, next |-> next]
  <2>1. /\ \A q \in Request \ {r} : pc'[q] = pc[q] /\ tx'[q] = tx[q]
        /\ pc'[r] = "commit"
        /\ tx'[r] = t
    BY <1>1, BeginAdmits
  <2>2. Earned(c, to)'
    BY <1>1 DEF BeginTransition
  <2>3. t.kase = c /\ t.to = to /\ t.actor = actor /\ t.next = next
    OBVIOUS
  <2>4. RequestOK(r)'
    <3> SUFFICES ASSUME NEW u, u = tx'[r]
                 PROVE  LocalsOK("commit", u, f)'
      BY <1>1, <2>1 DEF RequestOK
    <3>1. u.kase = c /\ u.to = to /\ u.actor = actor /\ u.next = next
      BY <2>1, <2>3
    <3>2. FrameOK("commit", f)'
      BY DEF FrameOK, CaseLabel, UserLabel
    <3> QED
      BY <2>2, <3>1, <3>2 DEF LocalsOK
  <2> QED
    BY <1>1, <2>1, <2>4, OtherRequestsStay DEF RequestsOK
<1>2. CASE Respond(r)
  BY <1>2, RespondKeepsRequests
<1> QED
  BY <1>1, <1>2 DEF TransitionOrFail

\* The executor goes back to its caller.
LEMMA ReturnKeepsRequests ==
  ASSUME TypeOK, TablesOK, RequestsOK, Grows, NEW r \in Request, ReturnFromTransition(r)
  PROVE  RequestsOK'
<1>1. PICK t, f : t = tx[r] /\ f = frame[r]
  OBVIOUS
<1>2. /\ pc[r] = "committed"
      /\ pc' = [pc EXCEPT ![r] = t.next]
      /\ frame' = [frame EXCEPT ![r] = IF t.next = "idle" THEN NoFrame ELSE f]
      /\ tx' = [tx EXCEPT ![r] = NoTx]
  BY <1>1 DEF ReturnFromTransition
<1>3. LocalsOK("committed", t, f)
  BY <1>1, <1>2 DEF RequestsOK, RequestOK
<1>4. FrameOK(t.next, f)'
  BY <1>3, FrameStays DEF LocalsOK, TablesOK
<1>5. t.next = "award:grade" => ClosedBy(f.kase, f.value, f.user)'
  <2>1. t.next = "award:grade" => ClosedBy(f.kase, f.value, f.user) /\ f.kase \in Case
    BY <1>3 DEF LocalsOK, FrameOK, CaseLabel
  <2> QED
    BY <2>1 DEF ClosedBy, Grows
<1>6. t.next \in Continuation
  BY <1>1, <1>2 DEF TypeOK, InFlight
<1>7. /\ DOMAIN frame' = Request
      /\ pc'[r] = t.next
      /\ frame'[r] = IF t.next = "idle" THEN NoFrame ELSE f
  BY <1>2 DEF RequestsOK, TypeOK
<1>8. \A q \in Request \ {r} : pc'[q] = pc[q] /\ tx'[q] = tx[q] /\ frame'[q] = frame[q]
  BY <1>2 DEF RequestsOK, TypeOK
<1>9. RequestOK(r)'
  <2>1. CASE t.next = "idle"
    BY <1>7, <2>1 DEF RequestOK, LocalsOK, FrameOK, CaseLabel, UserLabel
  <2>2. CASE t.next # "idle"
    BY <1>4, <1>5, <1>6, <1>7, <2>2 DEF RequestOK, LocalsOK, Continuation
  <2> QED
    BY <2>1, <2>2
<1> QED
  BY <1>7, <1>8, <1>9, OtherRequestsStay DEF RequestsOK

\* A commit: the closure a grade will be written for is now in the history.
LEMMA CommitKeepsRequests ==
  ASSUME TypeOK, TablesOK, RequestsOK, Grows, NEW r \in Request, CommitTransition(r)
  PROVE  RequestsOK'
<1>1. PICK t, f : t = tx[r] /\ f = frame[r]
  OBVIOUS
<1>2. /\ pc[r] = "commit"
      /\ pc' = [pc EXCEPT ![r] = "committed"]
      /\ UNCHANGED <<tx, frame>>
  BY DEF CommitTransition
<1>3. LocalsOK("commit", t, f)
  BY <1>1, <1>2 DEF RequestsOK, RequestOK
<1>4. FrameOK(t.next, f)'
  BY <1>3, FrameStays DEF LocalsOK, TablesOK
<1>5. t.next = "award:grade" => ClosedBy(f.kase, f.value, f.user)'
  <2> SUFFICES ASSUME t.next = "award:grade" PROVE ClosedBy(f.kase, f.value, f.user)'
    OBVIOUS
  <2>1. t.kase = f.kase /\ t.to = TargetState(f.value) /\ t.actor = f.user
    BY <1>3 DEF LocalsOK
  <2>2. PICK i : i \in DOMAIN history'[f.kase] /\ history'[f.kase][i] = EventOf(t)
    <3>1. LET n == Len(history[t.kase])
          IN  /\ n \in Nat
              /\ DOMAIN history'[t.kase] = 1..(n + 1)
              /\ history'[t.kase][n + 1] = EventOf(t)
      BY <1>1, CommitWrites
    <3> QED
      BY <2>1, <3>1
  <2>3. history'[f.kase][i].to = TargetState(f.value) /\ history'[f.kase][i].actor = f.user
    BY <2>1, <2>2 DEF EventOf
  <2> QED
    BY <2>2, <2>3 DEF ClosedBy
<1>7. DOMAIN frame' = Request /\ pc'[r] = "committed"
  BY <1>2 DEF RequestsOK, TypeOK
<1>8. \A q \in Request \ {r} : pc'[q] = pc[q] /\ tx'[q] = tx[q] /\ frame'[q] = frame[q]
  BY <1>2 DEF RequestsOK, TypeOK
<1>9. RequestOK(r)'
  <2> SUFFICES LocalsOK("committed", t, f)'
    BY <1>1, <1>2, <1>7 DEF RequestOK
  <2>1. FrameOK("committed", f)'
    BY DEF FrameOK, CaseLabel, UserLabel
  <2> QED
    BY <1>3, <1>4, <1>5, <2>1 DEF LocalsOK
<1> QED
  BY <1>7, <1>8, <1>9, OtherRequestsStay DEF RequestsOK

-----------------------------------------------------------------------------
(* The tables.                                                             *)

\* The tables stay in order while nothing is taken back and whatever is new is
\* in order too.
LEMMA TablesStay ==
  ASSUME TablesOK, Grows,
         OfferTypeOK', DeliverablesTypeOK', GradingTypeOK',
         \A c \in Case : \A s \in Entered(c)' : s \in Entered(c) \/ Earned(c, s)',
         \A i \in verified' : i \in verified \/ WasPending(i)',
         UNCHANGED tokens \/ (SameLiveToken' /\ LinksFollowCompletion'),
         UNCHANGED recommendation \/ FocalRecommends',
         UNCHANGED grades \/ GradeBacksClosure',
         UNCHANGED <<grades, reversals>> \/ ReversalsOfGrades'
  PROVE  TablesOK'
<1>1. StatesAreEarned'
  BY EarnedStays DEF TablesOK, StatesAreEarned
<1>2. VerifiedWasPending'
  <2>1. \A i : WasPending(i) => WasPending(i)'
    BY DEF WasPending, Grows
  <2> QED
    BY <2>1 DEF TablesOK, VerifiedWasPending
<1>3. SameLiveToken'
  BY DEF TablesOK, SameLiveToken, LiveTokens
<1>4. FocalRecommends'
  BY DEF TablesOK, FocalRecommends
<1>5. GradeBacksClosure'
  <2>1. CASE UNCHANGED grades
    BY <2>1 DEF TablesOK, GradeBacksClosure, Grows
  <2> QED
    BY <2>1
<1>6. ReversalsOfGrades'
  BY DEF TablesOK, ReversalsOfGrades
<1>7. LinksFollowCompletion'
  <2>1. CASE UNCHANGED tokens
    <3>1. \A c \in Case : WasCompleted(c) => WasCompleted(c)'
      BY DEF WasCompleted, Grows
    <3> QED
      BY <2>1, <3>1 DEF TablesOK, LinksFollowCompletion
  <2> QED
    BY <2>1
<1> QED
  BY <1>1, <1>2, <1>3, <1>4, <1>5, <1>6, <1>7 DEF TablesOK

\* The tables the requests know of; planned and actual dates are not among them.
knownTables == <<state, history, documents, tokens, verified, company, recommendation>>

\* A step that leaves them alone takes nothing back.
LEMMA QuietGrows ==
  ASSUME IInv, UNCHANGED knownTables
  PROVE  Grows /\ \A c \in Case : Entered(c)' = Entered(c)
<1>1. UNCHANGED <<state, history, documents, tokens, verified, company, recommendation>>
  BY DEF knownTables
<1>2. \A c \in Case : Entered(c)' = Entered(c)
  BY <1>1, TablesKeepInv
<1>3. \A c, type : HasActive(c, type)' = HasActive(c, type)
  BY <1>1 DEF HasActive, ActiveDocuments
<1>4. \A c : Evaluated(c)' = Evaluated(c)
  BY <1>1 DEF Evaluated
<1> QED
  BY <1>1, <1>2, <1>3, <1>4 DEF Grows

\* Most steps change no table at all, or only the dates.
LEMMA QuietTables ==
  ASSUME IInv, TablesOK, TypeOK', UNCHANGED <<knownTables, grades, reversals>>,
         plan' \in [Case -> Plan \cup {NoPlan}],
         actualDates' \in [Case -> ActualDates \cup {"none"}]
  PROVE  Grows /\ TablesOK'
<1>1. Grows /\ \A c \in Case : Entered(c)' = Entered(c)
  BY QuietGrows
<1>2. UNCHANGED <<documents, tokens, verified, company, recommendation, grades, reversals>>
  BY DEF knownTables
<1>3. OfferTypeOK' /\ DeliverablesTypeOK' /\ GradingTypeOK'
  BY <1>2 DEF TablesOK, OfferTypeOK, DeliverablesTypeOK, GradingTypeOK, DocumentsOK
<1> QED
  BY <1>1, <1>2, <1>3, TablesStay

\* A store appends an active row of the case and type, supersedes rows of the
\* same case and type only, and no row changes either: what it makes available
\* is that type to that case.
LEMMA StoreFacts ==
  ASSUME DocumentsOK, NEW c \in Case, NEW type \in DocumentType, NEW rows,
         OwnRows(rows, c, type), CommitStore(c, type, rows)
  PROVE  /\ DocumentsOK'
         /\ \A i \in DOMAIN documents : /\ i \in DOMAIN documents'
                                        /\ documents'[i].kase = documents[i].kase
                                        /\ documents'[i].type = documents[i].type
         /\ HasActive(c, type)'
         /\ \A d \in Case, other \in DocumentType : HasActive(d, other) => HasActive(d, other)'
         /\ \A d, other : HasActive(d, other)' =>
              HasActive(d, other) \/ (d = c /\ other = type)
<1> DEFINE n == Len(documents)
           kept == [i \in DOMAIN documents |->
                      IF i \in rows THEN [documents[i] EXCEPT !.status = "SUPERSEDED"]
                                    ELSE documents[i]]
           new == [kase |-> c, type |-> type, status |-> "ACTIVE"]
<1>1. n \in Nat /\ DOMAIN documents = 1..n /\ \A i \in 1..n : documents[i] \in Document
  BY DEF DocumentsOK
<1>2. new \in Document
  BY DEF Document
<1>3. \A i \in 1..n : [documents[i] EXCEPT !.status = "SUPERSEDED"] \in Document
  BY <1>1 DEF Document
<1>4. kept \in [1..n -> Document]
  BY <1>1, <1>3
<1>5. kept \in Seq(Document) /\ Len(kept) = n
  BY <1>1, <1>4
<1>6. documents' = Append(kept, new)
  BY DEF CommitStore
<1>7. DocumentsOK'
  BY <1>2, <1>5, <1>6 DEF DocumentsOK
<1>8. DOMAIN documents' = 1..(n + 1) /\ documents'[n + 1] = new
  BY <1>1, <1>2, <1>5, <1>6
<1>9. \A i \in 1..n : documents'[i] = kept[i]
  BY <1>1, <1>2, <1>5, <1>6
<1>10. \A i \in 1..n : kept[i].kase = documents[i].kase /\ kept[i].type = documents[i].type
  BY <1>1 DEF Document
<1>11. \A i \in 1..n : i \notin rows => kept[i] = documents[i]
  BY <1>1
<1>12. HasActive(c, type)'
  <2>1. n + 1 \in DOMAIN documents'
    BY <1>1, <1>8
  <2>2. new.kase = c /\ new.type = type /\ new.status = "ACTIVE"
    OBVIOUS
  <2> HIDE DEF new
  <2> QED
    BY <1>8, <2>1, <2>2 DEF HasActive, ActiveDocuments
<1> HIDE DEF n, kept, new
<1>13. ASSUME NEW d \in Case, NEW other \in DocumentType, HasActive(d, other),
              d # c \/ other # type
       PROVE  HasActive(d, other)'
  <2>1. PICK i \in 1..n : /\ documents[i].kase = d /\ documents[i].type = other
                          /\ documents[i].status = "ACTIVE"
    BY <1>1, <1>13 DEF HasActive, ActiveDocuments
  <2>2. i \notin rows
    BY <1>13, <2>1 DEF OwnRows
  <2>3. documents'[i] = documents[i]
    BY <1>9, <1>11, <2>2
  <2>4. i \in DOMAIN documents'
    BY <1>1, <1>8
  <2> QED
    BY <2>1, <2>3, <2>4 DEF HasActive, ActiveDocuments
<1>14. \A i \in DOMAIN documents : /\ i \in DOMAIN documents'
                                   /\ documents'[i].kase = documents[i].kase
                                   /\ documents'[i].type = documents[i].type
  BY <1>1, <1>8, <1>9, <1>10
<1>15. \A i \in 1..n : kept[i].status = "ACTIVE" => documents[i].status = "ACTIVE"
  BY <1>1 DEF kept, Document
<1>16. ASSUME NEW d, NEW other, HasActive(d, other)'
       PROVE  HasActive(d, other) \/ (d = c /\ other = type)
  <2>1. PICK i \in 1..(n + 1) : /\ documents'[i].kase = d /\ documents'[i].type = other
                               /\ documents'[i].status = "ACTIVE"
    BY <1>8, <1>16 DEF HasActive, ActiveDocuments
  <2>2. CASE i = n + 1
    BY <1>8, <2>1, <2>2 DEF new
  <2>3. CASE i # n + 1
    <3>1. i \in 1..n
      BY <1>1, <2>3
    <3> QED
      BY <1>1, <1>9, <1>10, <1>15, <2>1, <3>1 DEF HasActive, ActiveDocuments
  <2> QED
    BY <2>2, <2>3
<1> QED
  BY <1>7, <1>12, <1>13, <1>14, <1>16

\* The rows a store picks are of its case and type.
LEMMA PickedRows ==
  ASSUME NEW c, NEW type
  PROVE  OwnRows(ActiveDocuments(c, type), c, type)
BY DEF OwnRows, ActiveDocuments

\* A store takes nothing back.
LEMMA StoreGrows ==
  ASSUME IInv, TablesOK, TypeOK', NEW c \in Case, NEW type \in DocumentType, NEW rows,
         OwnRows(rows, c, type), CommitStore(c, type, rows),
         UNCHANGED <<state, history, offerVars, deliverableVars, gradingVars>>
  PROVE  Grows /\ TablesOK' /\ HasActive(c, type)'
<1>1. /\ DocumentsOK'
      /\ \A i \in DOMAIN documents : /\ i \in DOMAIN documents'
                                     /\ documents'[i].kase = documents[i].kase
                                     /\ documents'[i].type = documents[i].type
      /\ HasActive(c, type)'
      /\ \A d \in Case, other \in DocumentType : HasActive(d, other) => HasActive(d, other)'
  BY StoreFacts DEF TablesOK, OfferTypeOK
<1>2. UNCHANGED <<state, history, company, plan, actualDates, tokens, verified, recommendation,
                  grades, reversals>>
  BY DEF offerVars, deliverableVars, gradingVars
<1>3. \A d \in Case : Entered(d)' = Entered(d)
  BY <1>2, TablesKeepInv
<1>4. \A d : Evaluated(d)' = Evaluated(d)
  BY <1>2 DEF Evaluated
<1>5. Grows
  BY <1>1, <1>2, <1>3, <1>4 DEF Grows
<1>6. OfferTypeOK' /\ DeliverablesTypeOK' /\ GradingTypeOK'
  BY <1>1, <1>2 DEF TablesOK, OfferTypeOK, DeliverablesTypeOK, GradingTypeOK
<1> QED
  BY <1>1, <1>2, <1>3, <1>5, <1>6, TablesStay

-----------------------------------------------------------------------------
(* The shapes a step can have.                                             *)

\* What is shown of every step: it keeps the invariant, takes nothing back, and
\* the abstract lifecycle allows it.
Kept == NormalPathInv' /\ Grows /\ [Lifecycle!Next]_(Lifecycle!vars)

\* A request awaits, and other tables than those of the executor may change.
LEMMA AwaitStep ==
  ASSUME NormalPathInv, NEW r \in Request, NEW label \in Continuation \ {"award:grade"}, NEW g,
         Await(r, label, g), UNCHANGED <<state, history>>,
         TypeOK' => Grows /\ TablesOK', Grows => FrameOK(label, g)'
  PROVE  Kept
<1>1. IInv' /\ UNCHANGED Lifecycle!vars
  BY AwaitIsNoCall, QuietStepKeepsInv DEF NormalPathInv, IInv
<1>2. Grows /\ TablesOK'
  BY <1>1 DEF IInv
<1>3. RequestsOK'
  BY <1>2, AwaitKeepsRequests DEF NormalPathInv, IInv
<1> QED
  BY <1>1, <1>2, <1>3 DEF Kept, NormalPathInv

\* A request is answered, and such tables may change.
LEMMA RespondStep ==
  ASSUME NormalPathInv, NEW r \in Request, Respond(r), UNCHANGED <<state, history>>,
         TypeOK' => Grows /\ TablesOK'
  PROVE  Kept
<1>1. IInv' /\ UNCHANGED Lifecycle!vars
  BY RespondIsNoCall, QuietStepKeepsInv DEF NormalPathInv, IInv
<1>2. Grows /\ TablesOK'
  BY <1>1 DEF IInv
<1>3. RequestsOK'
  BY <1>2, RespondKeepsRequests DEF NormalPathInv, IInv
<1> QED
  BY <1>1, <1>2, <1>3 DEF Kept, NormalPathInv

\* No table that matters changes, the dates may.
QuietTable ==
  /\ UNCHANGED <<knownTables, grades, reversals>>
  /\ plan' \in [Case -> Plan \cup {NoPlan}]
  /\ actualDates' \in [Case -> ActualDates \cup {"none"}]

\* A step that changes no table at all is one of these.
LEMMA UnchangedIsQuiet ==
  ASSUME NormalPathInv,
         UNCHANGED <<state, history, documents, offerVars, deliverableVars, gradingVars>>
  PROVE  QuietTable
BY DEF QuietTable, knownTables, offerVars, deliverableVars, gradingVars, NormalPathInv, TablesOK,
       OfferTypeOK, DeliverablesTypeOK

\* A request looks at the tables and awaits.
LEMMA QuietAwait ==
  ASSUME NormalPathInv, NEW r \in Request, NEW label \in Continuation \ {"award:grade"}, NEW g,
         Await(r, label, g), QuietTable, FrameOK(label, g)
  PROVE  Kept
<1>1. UNCHANGED <<state, history>>
  BY DEF QuietTable, knownTables
<1>2. TypeOK' => Grows /\ TablesOK'
  BY QuietTables DEF QuietTable, NormalPathInv
<1>3. Grows => FrameOK(label, g)'
  BY FrameStays DEF NormalPathInv, TablesOK
<1> QED
  BY <1>1, <1>2, <1>3, AwaitStep

\* A request looks at the tables and is answered.
LEMMA QuietRespond ==
  ASSUME NormalPathInv, NEW r \in Request, Respond(r), QuietTable
  PROVE  Kept
<1>1. UNCHANGED <<state, history>>
  BY DEF QuietTable, knownTables
<1>2. TypeOK' => Grows /\ TablesOK'
  BY QuietTables DEF QuietTable, NormalPathInv
<1> QED
  BY <1>1, <1>2, RespondStep

\* A request calls the executor.
LEMMA QuietCall ==
  ASSUME NormalPathInv, NEW r \in Request, NEW c \in Case, NEW to \in CaseState,
         NEW actor \in Actor, NEW reason, NEW ctx, NEW next \in Continuation, NEW f, f = frame[r],
         TransitionOrFail(r, c, to, actor, reason, ctx, next), QuietTable,
         FrameOK(next, f),
         next = "award:grade" => c = f.kase /\ to = TargetState(f.value) /\ actor = f.user,
         Admits(c, to, actor, reason, ctx) => Earned(c, to)
  PROVE  Kept
<1>1. IInv' /\ UNCHANGED Lifecycle!vars
  BY CallKeepsInv DEF NormalPathInv
<1>2. Grows /\ TablesOK'
  BY <1>1, QuietTables DEF QuietTable, NormalPathInv, IInv
<1>3. FrameOK(next, f)'
  BY <1>2, FrameStays DEF NormalPathInv, TablesOK
<1>4. Admits(c, to, actor, reason, ctx) => Earned(c, to)'
  BY <1>2, EarnedStays DEF NormalPathInv, TablesOK
<1>5. RequestsOK'
  BY <1>2, <1>3, <1>4, CallKeepsRequests DEF NormalPathInv, IInv
<1> QED
  BY <1>1, <1>2, <1>5 DEF Kept, NormalPathInv

\* A request whose locals are f knows what its label says.
LEMMA FrameOf ==
  ASSUME NormalPathInv, NEW r \in Request, NEW f, f = frame[r]
  PROVE  /\ FrameOK(pc[r], f)
         /\ pc[r] \in CaseLabel => f.kase \in Case
         /\ pc[r] \in UserLabel => f.user \in User
         /\ pc[r] = "award:grade" => ClosedBy(f.kase, f.value, f.user)
<1>1. LocalsOK(pc[r], tx[r], f)
  <2> SUFFICES ASSUME NEW label, NEW t, label = pc[r], t = tx[r]
               PROVE  LocalsOK(label, t, f)
    OBVIOUS
  <2> QED
    BY DEF NormalPathInv, RequestsOK, RequestOK
<1> QED
  BY <1>1 DEF LocalsOK, FrameOK

\* Most states need nothing.
LEMMA NothingToEarn ==
  ASSUME NEW c, NEW s,
         s \notin {"OFFER_SUBMITTED", "PENDING_VERIFICATION", "VERIFIED", "GRADE_RECOMMENDED"}
  PROVE  Earned(c, s)
BY DEF Earned

\* So does a continuation that only knows its case.
LEMMA BareFrame ==
  ASSUME NEW f, NEW label \in {"idle", "offer:queue", "approve:start", "open:confirm",
                               "complete:decide", "cert:scan", "advance:facts"},
         label # "idle" => f.kase \in Case
  PROVE  FrameOK(label, f)
BY DEF FrameOK, CaseLabel, UserLabel

-----------------------------------------------------------------------------
(* Offers.                                                                 *)

\* Every label of a service is one where a request can go on.
LEMMA LabelsContinue ==
  /\ "idle" \in Continuation
  /\ CaseLabel \cup {"open:create"} \subseteq Continuation
<1>1. CaseLabel \cup {"idle", "open:create"} \subseteq Label
  BY ConstantsOK, OfferLabelsOK, DeliverableLabelsOK, GradingLabelsOK DEF CaseLabel
<1> QED
  BY <1>1 DEF Continuation, CaseLabel

\* A scheduled job, and the student behind a case, can sign an event.
LEMMA StudentsAreActors == System \in Actor /\ \A c \in Case : StudentOf(c) \in Actor
BY OwnersOK DEF Actor, StudentOf

\* What people start of an offer: each request looks, then awaits.
LEMMA OfferRequestKeeps ==
  ASSUME NormalPathInv, NEW r \in Request, OfferRequest(r),
         UNCHANGED <<deliverableVars, gradingVars>>
  PROVE  Kept
<1>1. ASSUME NEW u \in User, OpenCase(r, u)
      PROVE  Kept
  <2> DEFINE g == [kase |-> NoCase, user |-> u]
  <2>1. Await(r, "open:create", g) /\ QuietTable
    BY <1>1, UnchangedIsQuiet DEF OpenCase
  <2>2. FrameOK("open:create", g)
    BY DEF FrameOK, CaseLabel, UserLabel
  <2>3. "open:create" \in Continuation \ {"award:grade"}
    BY LabelsContinue
  <2> HIDE DEF g
  <2> QED
    BY <2>1, <2>2, <2>3, QuietAwait
<1>2. ASSUME NEW c \in Case, WithdrawCase(r, c)
      PROVE  Kept
  <2>1. PICK f : f = frame[r]
    OBVIOUS
  <2>2. /\ TransitionOrFail(r, c, "WITHDRAWN", StudentOf(c), FALSE, {}, "idle")
        /\ QuietTable
    BY <1>2, UnchangedIsQuiet DEF WithdrawCase, TransitionOrFail, BeginTransition
  <2>3. FrameOK("idle", f) /\ Earned(c, "WITHDRAWN")
    BY BareFrame, NothingToEarn
  <2>4. "WITHDRAWN" \in CaseState
    BY DEF CaseState
  <2> QED
    BY <2>1, <2>2, <2>3, <2>4, QuietCall, LabelsContinue, StudentsAreActors
<1>3. ASSUME NEW c \in Case, NEW k \in Company, SubmitOffer(r, c, k)
      PROVE  Kept
  <2> DEFINE g == [kase |-> c, company |-> k, replaced |-> ActiveDocuments(c, "OFFER_LETTER")]
  <2>1. Await(r, "offer:store", g) /\ QuietTable
    BY <1>3, UnchangedIsQuiet DEF SubmitOffer
  <2>2. FrameOK("offer:store", g)
    BY PickedRows DEF FrameOK, UserLabel
  <2>3. "offer:store" \in Continuation \ {"award:grade"}
    BY LabelsContinue DEF CaseLabel
  <2>4. PICK h : h = g
    OBVIOUS
  <2> HIDE DEF g
  <2> QED
    BY <2>1, <2>2, <2>3, <2>4, QuietAwait
<1>4. ASSUME NEW c \in Case, NEW u \in User, NEW p \in Plans, ApproveOffer(r, c, u, p)
      PROVE  Kept
  <2> DEFINE g == [kase |-> c, user |-> u, plan |-> p]
  <2>1. Await(r, "approve:decide", g)
    BY <1>4 DEF ApproveOffer
  <2>2. QuietTable
    <3>1. plan \in [Case -> Plan \cup {NoPlan}] /\ p \in Plan
      BY OffersOK DEF NormalPathInv, TablesOK, OfferTypeOK
    <3>2. plan' \in [Case -> Plan \cup {NoPlan}]
      BY <1>4, <3>1 DEF ApproveOffer
    <3>3. actualDates \in [Case -> ActualDates \cup {"none"}]
      BY DEF NormalPathInv, TablesOK, DeliverablesTypeOK
    <3> QED
      BY <1>4, <3>2, <3>3 DEF ApproveOffer, QuietTable, knownTables, deliverableVars, gradingVars
  <2>3. FrameOK("approve:decide", g)
    BY DEF FrameOK
  <2>4. "approve:decide" \in Continuation \ {"award:grade"}
    BY LabelsContinue DEF CaseLabel
  <2> HIDE DEF g
  <2> QED
    BY <2>1, <2>2, <2>3, <2>4, QuietAwait
<1>5. ASSUME NEW c \in Case, NEW u \in User, RejectOffer(r, c, u)
      PROVE  Kept
  <2>1. PICK f : f = frame[r]
    OBVIOUS
  <2>2. /\ TransitionOrFail(r, c, "OFFER_REJECTED", u, TRUE, {}, "idle")
        /\ QuietTable
    BY <1>5, UnchangedIsQuiet DEF RejectOffer, TransitionOrFail, BeginTransition
  <2>3. FrameOK("idle", f) /\ Earned(c, "OFFER_REJECTED")
    BY BareFrame, NothingToEarn
  <2>4. "OFFER_REJECTED" \in CaseState /\ u \in Actor
    BY DEF CaseState, Actor
  <2> QED
    BY <2>1, <2>2, <2>3, <2>4, QuietCall, LabelsContinue
<1> QED
  BY <1>1, <1>2, <1>3, <1>4, <1>5 DEF OfferRequest

\* A new case has been nowhere but where it starts.
LEMMA InsertStep ==
  ASSUME NormalPathInv, NEW r \in Request, NEW c \in Case, NEW g,
         InsertCase(c, "ELIGIBILITY_PENDING"), Await(r, "open:confirm", g), g.kase = c,
         UNCHANGED <<history, documents, offerVars, deliverableVars, gradingVars>>
  PROVE  Kept
<1>1. "open:confirm" \in Continuation \ {"award:grade"} /\ "ELIGIBILITY_PENDING" \in GENESIS_STATES
  BY LabelsContinue DEF CaseLabel, GENESIS_STATES
<1>2. IInv' /\ Lifecycle!Next
  BY <1>1, AwaitIsNoCall, InsertKeepsInv DEF NormalPathInv, IInv
<1>3. /\ Entered(c) = {} /\ Entered(c)' = {"ELIGIBILITY_PENDING"}
      /\ \A d \in Case \ {c} : Entered(d)' = Entered(d)
  <2>1. /\ ~Exists(c)
        /\ state' = [state EXCEPT ![c] = "ELIGIBILITY_PENDING"]
        /\ history[c] = <<>> /\ history' = history
    BY DEF InsertCase, NormalPathInv, IInv, HistoryExplainsState
  <2>2. /\ state'[c] = "ELIGIBILITY_PENDING"
        /\ \A d \in Case \ {c} : state'[d] = state[d]
    BY <2>1 DEF NormalPathInv, IInv, TypeOK
  <2>3. "ELIGIBILITY_PENDING" # NoCase
    BY ConstantsOK DEF CaseState
  <2> QED
    BY <2>1, <2>2, <2>3 DEF Entered, Exists, Origin
<1>4. UNCHANGED <<history, documents, company, plan, actualDates, tokens, verified, recommendation,
                  grades, reversals>>
  BY DEF offerVars, deliverableVars, gradingVars
<1>5. Grows
  <2>1. \A d, type : HasActive(d, type)' = HasActive(d, type)
    BY <1>4 DEF HasActive, ActiveDocuments
  <2>2. \A d : Evaluated(d)' = Evaluated(d)
    BY <1>4 DEF Evaluated
  <2> QED
    BY <1>3, <1>4, <2>1, <2>2 DEF Grows
<1>6. TablesOK'
  <2>1. OfferTypeOK' /\ DeliverablesTypeOK' /\ GradingTypeOK'
    BY <1>2, <1>4 DEF NormalPathInv, TablesOK, OfferTypeOK, DeliverablesTypeOK, GradingTypeOK,
                      DocumentsOK, IInv
  <2>2. \A d \in Case : \A s \in Entered(d)' : s \in Entered(d) \/ Earned(d, s)'
    BY <1>3 DEF Earned
  <2> QED
    BY <1>4, <1>5, <2>1, <2>2, TablesStay DEF NormalPathInv
<1>7. RequestsOK'
  <2>1. FrameOK("open:confirm", g)'
    BY DEF FrameOK, UserLabel
  <2> QED
    BY <1>1, <1>5, <2>1, AwaitKeepsRequests DEF NormalPathInv, IInv
<1> QED
  BY <1>2, <1>5, <1>6, <1>7 DEF Kept, NormalPathInv

\* openCase(): the row, and the eligibility check that moves it on.
LEMMA OpenKeeps ==
  ASSUME NormalPathInv, NEW r \in Request, OpenCreate(r) \/ OpenConfirm(r),
         UNCHANGED <<deliverableVars, gradingVars>>
  PROVE  Kept
<1>1. PICK f : f = frame[r]
  OBVIOUS
<1>2. CASE OpenCreate(r)
  <2>1. PICK u \in User : f = [kase |-> NoCase, user |-> u]
    BY <1>1, <1>2, FrameOf DEF OpenCreate, At, FrameOK
  <2>2. ASSUME NEW c \in Case, InsertCase(c, "ELIGIBILITY_PENDING"),
               Await(r, "open:confirm", [f EXCEPT !.kase = c])
        PROVE  Kept
    <3>1. PICK g : g = [f EXCEPT !.kase = c]
      OBVIOUS
    <3>2. g.kase = c
      BY <2>1, <3>1
    <3> QED
      BY <1>2, <2>2, <3>1, <3>2, InsertStep DEF OpenCreate
  <2>3. ASSUME Respond(r), UNCHANGED state
        PROVE  Kept
    BY <1>2, <2>3, UnchangedIsQuiet, QuietRespond DEF OpenCreate
  <2> QED
    BY <1>1, <1>2, <2>2, <2>3 DEF OpenCreate
<1>3. CASE OpenConfirm(r)
  <2>1. f.kase \in Case
    BY <1>1, <1>3, FrameOf DEF OpenConfirm, At, CaseLabel
  <2>2. TransitionOrFail(r, f.kase, "ELIGIBLE", System, FALSE, {"eligibilityConfirmed"}, "idle")
    BY <1>1, <1>3 DEF OpenConfirm
  <2>3. QuietTable
    BY <1>3, UnchangedIsQuiet DEF OpenConfirm, TransitionOrFail, BeginTransition
  <2>4. FrameOK("idle", f) /\ Earned(f.kase, "ELIGIBLE") /\ "ELIGIBLE" \in CaseState
    BY BareFrame, NothingToEarn DEF CaseState
  <2> QED
    BY <1>1, <2>1, <2>2, <2>3, <2>4, QuietCall, LabelsContinue, StudentsAreActors
<1> QED
  BY <1>2, <1>3

\* submitOffer(): first the letter is stored, then the company is written, then
\* the case moves, and each of these has what the next one needs.
LEMMA SubmitKeeps ==
  ASSUME NormalPathInv, NEW r \in Request,
         OfferStore(r) \/ OfferDetails(r) \/ OfferSubmit(r) \/ OfferQueue(r),
         UNCHANGED <<deliverableVars, gradingVars>>
  PROVE  Kept
<1>1. PICK f : f = frame[r]
  OBVIOUS
<1>2. pc[r] \in CaseLabel /\ f.kase \in Case
  BY <1>1, FrameOf DEF OfferStore, OfferDetails, OfferSubmit, OfferQueue, At, CaseLabel
<1>3. CASE OfferStore(r)
  <2>1. f.company \in Company /\ OwnRows(f.replaced, f.kase, "OFFER_LETTER")
    BY <1>1, <1>3, FrameOf DEF OfferStore, At, FrameOK
  <2>2. PICK g : g = [kase |-> f.kase, company |-> f.company]
    OBVIOUS
  <2>3. /\ CommitStore(f.kase, "OFFER_LETTER", f.replaced)
        /\ Await(r, "offer:details", g)
        /\ UNCHANGED <<state, history, offerVars>>
    BY <1>1, <1>3, <2>2 DEF OfferStore
  <2>4. TypeOK' => Grows /\ TablesOK' /\ HasActive(f.kase, "OFFER_LETTER")'
    BY <1>2, <2>1, <2>3, StoreGrows DEF NormalPathInv, DocumentType
  <2>5. g.kase = f.kase /\ g.company \in Company
    BY <2>1, <2>2
  <2>6. HasActive(f.kase, "OFFER_LETTER")'
    BY <1>2, <2>1, <2>3, StoreFacts DEF NormalPathInv, TablesOK, OfferTypeOK, DocumentType
  <2>7. FrameOK("offer:details", g)'
    BY <1>2, <2>5, <2>6 DEF FrameOK, UserLabel
  <2>8. "offer:details" \in Continuation \ {"award:grade"}
    BY LabelsContinue DEF CaseLabel
  <2> QED
    BY <2>3, <2>4, <2>7, <2>8, AwaitStep
<1>4. CASE OfferDetails(r)
  <2>1. f.company \in Company /\ HasActive(f.kase, "OFFER_LETTER")
    BY <1>1, <1>4, FrameOf DEF OfferDetails, At, FrameOK
  <2>2. PICK g : g = [kase |-> f.kase]
    OBVIOUS
  <2>3. /\ company' = [company EXCEPT ![f.kase] = f.company]
        /\ Await(r, "offer:submit", g)
        /\ UNCHANGED <<state, history, documents, plan>>
    BY <1>1, <1>4, <2>2 DEF OfferDetails
  <2>4. UNCHANGED <<actualDates, tokens, verified, recommendation, grades, reversals>>
    BY DEF deliverableVars, gradingVars
  <2>5. company \in [Case -> Company \cup {NoCompany}] /\ NoCompany \notin Company
    BY OffersOK DEF NormalPathInv, TablesOK, OfferTypeOK
  <2>6. /\ company' \in [Case -> Company \cup {NoCompany}]
        /\ company'[f.kase] # NoCompany
        /\ \A c \in Case : company[c] # NoCompany => company'[c] # NoCompany
    BY <1>2, <2>1, <2>3, <2>5
  <2>7. \A c \in Case : Entered(c)' = Entered(c)
    BY <2>3, TablesKeepInv DEF NormalPathInv
  <2>8. \A c, type : HasActive(c, type)' = HasActive(c, type)
    BY <2>3 DEF HasActive, ActiveDocuments
  <2>9. \A c : Evaluated(c)' = Evaluated(c)
    BY <2>4 DEF Evaluated
  <2>10. Grows
    BY <2>3, <2>4, <2>6, <2>7, <2>8, <2>9 DEF Grows
  <2>11. ASSUME TypeOK' PROVE TablesOK'
    <3>1. OfferTypeOK' /\ DeliverablesTypeOK' /\ GradingTypeOK'
      BY <2>3, <2>4, <2>6, <2>11 DEF NormalPathInv, TablesOK, OfferTypeOK, DeliverablesTypeOK,
                                     GradingTypeOK, DocumentsOK
    <3> QED
      BY <2>4, <2>7, <2>10, <3>1, TablesStay DEF NormalPathInv
  <2>12. FrameOK("offer:submit", g)'
    <3>1. g.kase = f.kase
      BY <2>2
    <3> QED
      BY <1>2, <2>1, <2>6, <2>8, <3>1 DEF FrameOK, Earned, UserLabel
  <2>13. "offer:submit" \in Continuation \ {"award:grade"}
    BY LabelsContinue DEF CaseLabel
  <2> QED
    BY <2>3, <2>10, <2>11, <2>12, <2>13, AwaitStep
<1>5. CASE OfferSubmit(r)
  <2>1. TransitionOrFail(r, f.kase, "OFFER_SUBMITTED", StudentOf(f.kase), FALSE,
                         {"offerComplete"}, "offer:queue")
    BY <1>1, <1>5 DEF OfferSubmit
  <2>2. QuietTable
    BY <1>5, UnchangedIsQuiet DEF OfferSubmit, TransitionOrFail, BeginTransition
  <2>3. Earned(f.kase, "OFFER_SUBMITTED")
    BY <1>1, <1>5, FrameOf DEF OfferSubmit, At, FrameOK
  <2>4. FrameOK("offer:queue", f) /\ "OFFER_SUBMITTED" \in CaseState
    BY <1>2, BareFrame DEF CaseState
  <2>5. "offer:queue" \in Continuation
    BY LabelsContinue DEF CaseLabel
  <2> QED
    BY <1>1, <1>2, <2>1, <2>2, <2>3, <2>4, <2>5, QuietCall, StudentsAreActors
<1>6. CASE OfferQueue(r)
  <2>1. TransitionOrFail(r, f.kase, "OFFER_UNDER_REVIEW", System, FALSE, {}, "idle")
    BY <1>1, <1>6 DEF OfferQueue
  <2>2. QuietTable
    BY <1>6, UnchangedIsQuiet DEF OfferQueue, TransitionOrFail, BeginTransition
  <2>3. FrameOK("idle", f) /\ Earned(f.kase, "OFFER_UNDER_REVIEW") /\ "OFFER_UNDER_REVIEW" \in CaseState
    BY BareFrame, NothingToEarn DEF CaseState
  <2> QED
    BY <1>1, <1>2, <2>1, <2>2, <2>3, QuietCall, LabelsContinue, StudentsAreActors
<1> QED
  BY <1>3, <1>4, <1>5, <1>6

\* approveOffer(): the two transitions it chains.
LEMMA ApproveKeeps ==
  ASSUME NormalPathInv, NEW r \in Request, ApproveDecide(r) \/ ApproveStart(r),
         UNCHANGED <<deliverableVars, gradingVars>>
  PROVE  Kept
<1>1. PICK f : f = frame[r]
  OBVIOUS
<1>2. f.kase \in Case
  BY <1>1, FrameOf DEF ApproveDecide, ApproveStart, At, CaseLabel
<1>3. CASE ApproveDecide(r)
  <2>1. f.user \in User
    BY <1>1, <1>3, FrameOf DEF ApproveDecide, At, UserLabel
  <2>2. TransitionOrFail(r, f.kase, "APPROVED", f.user, TRUE, PlanGuards(f.plan), "approve:start")
    BY <1>1, <1>3 DEF ApproveDecide
  <2>3. QuietTable
    BY <1>3, UnchangedIsQuiet DEF ApproveDecide, TransitionOrFail, BeginTransition
  <2>4. FrameOK("approve:start", f) /\ Earned(f.kase, "APPROVED") /\ "APPROVED" \in CaseState
    BY <1>2, BareFrame, NothingToEarn DEF CaseState
  <2>5. "approve:start" \in Continuation /\ f.user \in Actor
    BY <2>1, LabelsContinue DEF CaseLabel, Actor
  <2> QED
    BY <1>1, <1>2, <2>2, <2>3, <2>4, <2>5, QuietCall
<1>4. CASE ApproveStart(r)
  <2>1. TransitionOrFail(r, f.kase, "IN_PROGRESS", System, FALSE, {}, "idle")
    BY <1>1, <1>4 DEF ApproveStart
  <2>2. QuietTable
    BY <1>4, UnchangedIsQuiet DEF ApproveStart, TransitionOrFail, BeginTransition
  <2>3. FrameOK("idle", f) /\ Earned(f.kase, "IN_PROGRESS") /\ "IN_PROGRESS" \in CaseState
    BY BareFrame, NothingToEarn DEF CaseState
  <2> QED
    BY <1>1, <1>2, <2>1, <2>2, <2>3, QuietCall, LabelsContinue, StudentsAreActors
<1> QED
  BY <1>3, <1>4

-----------------------------------------------------------------------------
(* Deliverables.                                                           *)

\* A row of the two sequences is a row.
LEMMA RowTypes ==
  ASSUME NormalPathInv
  PROVE  /\ \A i \in DOMAIN tokens : tokens[i] \in Token
         /\ \A i \in DOMAIN documents : documents[i] \in Document
<1>1. tokens \in Seq(Token) /\ documents \in Seq(Document)
  BY DEF NormalPathInv, TablesOK, DeliverablesTypeOK, DocumentsOK
<1> QED
  BY <1>1

\* What people start of the deliverables: each request looks, then awaits.
LEMMA DeliverableRequestKeeps ==
  ASSUME NormalPathInv, NEW r \in Request, DeliverableRequest(r),
         UNCHANGED <<offerVars, gradingVars>>
  PROVE  Kept
<1>1. ASSUME NEW c \in Case, NEW dates \in ActualDates, CompleteInternship(r, c, dates)
      PROVE  Kept
  <2>1. PICK g : g = [kase |-> c, dates |-> dates]
    OBVIOUS
  <2>2. Await(r, "complete:decide", g)
    BY <1>1, <2>1 DEF CompleteInternship
  <2>3. QuietTable
    <3>1. actualDates \in [Case -> ActualDates \cup {"none"}]
      BY DEF NormalPathInv, TablesOK, DeliverablesTypeOK
    <3>2. actualDates' \in [Case -> ActualDates \cup {"none"}]
      BY <1>1, <3>1 DEF CompleteInternship
    <3>3. plan \in [Case -> Plan \cup {NoPlan}]
      BY DEF NormalPathInv, TablesOK, OfferTypeOK
    <3> QED
      BY <1>1, <3>2, <3>3 DEF CompleteInternship, QuietTable, knownTables, offerVars, gradingVars
  <2>4. g.kase = c
    BY <2>1
  <2>5. FrameOK("complete:decide", g)
    BY <2>4, BareFrame
  <2>6. "complete:decide" \in Continuation \ {"award:grade"}
    BY LabelsContinue DEF CaseLabel
  <2> QED
    BY <2>2, <2>3, <2>5, <2>6, QuietAwait
<1>2. ASSUME NEW c \in Case, UploadCertificate(r, c)
      PROVE  Kept
  <2>1. PICK g : g = [kase |-> c]
    OBVIOUS
  <2>2. Await(r, "cert:scan", g) /\ QuietTable
    BY <1>2, <2>1, UnchangedIsQuiet DEF UploadCertificate
  <2>3. FrameOK("cert:scan", g)
    <3>1. g.kase = c
      BY <2>1
    <3> QED
      BY <3>1, BareFrame
  <2>4. "cert:scan" \in Continuation \ {"award:grade"}
    BY LabelsContinue DEF CaseLabel
  <2> QED
    BY <2>2, <2>3, <2>4, QuietAwait
<1>3. ASSUME NEW c \in Case, NEW u \in User, IssueToken(r, c, u)
      PROVE  Kept
  <2>1. PICK g : g = [kase |-> c]
    OBVIOUS
  <2>2. Await(r, "token:revoke", g) /\ QuietTable
    BY <1>3, <2>1, UnchangedIsQuiet DEF IssueToken
  <2>3. FrameOK("token:revoke", g)
    <3>1. g.kase = c
      BY <2>1
    <3>2. WasCompleted(c)
      BY <1>3 DEF IssueToken, Accepts, WasCompleted, Entered
    <3> QED
      BY <3>1, <3>2 DEF FrameOK, UserLabel
  <2>4. "token:revoke" \in Continuation \ {"award:grade"}
    BY LabelsContinue DEF CaseLabel
  <2> QED
    BY <2>2, <2>3, <2>4, QuietAwait
<1>4. ASSUME NEW c \in Case, NEW u \in User, MarkVerified(r, c, u)
      PROVE  Kept
  <2>1. PICK g : g = [kase |-> c, user |-> u, unread |-> DeliverableType, ok |-> TRUE]
    OBVIOUS
  <2>2. Await(r, "mark:read", g) /\ QuietTable
    BY <1>4, <2>1, UnchangedIsQuiet DEF MarkVerified
  <2>3. g \in MarkFrame /\ g.kase = c /\ g.unread = DeliverableType
    BY <2>1 DEF MarkFrame
  <2>4. FrameOK("mark:read", g)
    BY <2>3 DEF FrameOK, UserLabel
  <2>5. "mark:read" \in Continuation \ {"award:grade"}
    BY LabelsContinue DEF CaseLabel
  <2> QED
    BY <2>2, <2>4, <2>5, QuietAwait
<1>5. ASSUME NEW i \in DOMAIN tokens, SubmitEvaluation(r, i)
      PROVE  Kept
  <2>1. PICK g : g = [kase |-> tokens[i].kase, token |-> i]
    OBVIOUS
  <2>2. Await(r, "eval:store", g) /\ QuietTable
    BY <1>5, <2>1, UnchangedIsQuiet DEF SubmitEvaluation
  <2>3. tokens[i].kase \in Case
    BY RowTypes DEF Token
  <2>4. FrameOK("eval:store", g)
    BY <2>1, <2>3 DEF FrameOK, UserLabel
  <2>5. "eval:store" \in Continuation \ {"award:grade"}
    BY LabelsContinue DEF CaseLabel
  <2> QED
    BY <2>2, <2>4, <2>5, QuietAwait
<1>6. ASSUME NEW i \in DOMAIN documents, NEW u \in User, VerifyDocument(r, i, u)
      PROVE  Kept
  <2>1. PICK g : g = [kase |-> documents[i].kase, document |-> i]
    OBVIOUS
  <2>2. Await(r, "verify:create", g) /\ QuietTable
    BY <1>6, <2>1, UnchangedIsQuiet DEF VerifyDocument
  <2>3. PICK c \in Case : c = documents[i].kase
    BY RowTypes DEF Document
  <2>4. Exists(c) /\ state[c] = "PENDING_VERIFICATION"
    BY <1>6, <2>3 DEF VerifyDocument, Accepts, Exists
  <2>5. WasPending(i)
    BY <2>3, <2>4 DEF WasPending, Entered
  <2>6. g.kase \in Case /\ g.document = i
    BY <2>1, <2>3
  <2>7. FrameOK("verify:create", g)
    BY <2>5, <2>6 DEF FrameOK, UserLabel
  <2>8. "verify:create" \in Continuation \ {"award:grade"}
    BY LabelsContinue DEF CaseLabel
  <2> QED
    BY <2>2, <2>7, <2>8, QuietAwait
<1> QED
  BY <1>1, <1>2, <1>3, <1>4, <1>5, <1>6 DEF DeliverableRequest

\* completeInternship(), and the certificate from the scan to its row.
LEMMA CertificateKeeps ==
  ASSUME NormalPathInv, NEW r \in Request,
         CompleteDecide(r) \/ CertificateScan(r) \/ CertificateStore(r),
         UNCHANGED <<offerVars, gradingVars>>
  PROVE  Kept
<1>1. PICK f : f = frame[r]
  OBVIOUS
<1>2. f.kase \in Case
  BY <1>1, FrameOf DEF CompleteDecide, CertificateScan, CertificateStore, At, CaseLabel
<1>3. CASE CompleteDecide(r)
  <2>1. PICK ctx : TransitionOrFail(r, f.kase, "DOCS_PENDING", StudentOf(f.kase), FALSE, ctx, "idle")
    BY <1>1, <1>3 DEF CompleteDecide
  <2>2. QuietTable
    BY <1>3, UnchangedIsQuiet DEF CompleteDecide, TransitionOrFail, BeginTransition
  <2>3. FrameOK("idle", f) /\ Earned(f.kase, "DOCS_PENDING") /\ "DOCS_PENDING" \in CaseState
    BY BareFrame, NothingToEarn DEF CaseState
  <2> QED
    BY <1>1, <1>2, <2>1, <2>2, <2>3, QuietCall, LabelsContinue, StudentsAreActors
<1>4. CASE CertificateScan(r)
  <2>1. PICK g : g = [kase |-> f.kase,
                      replaced |-> ActiveDocuments(f.kase, "COMPLETION_CERTIFICATE")]
    OBVIOUS
  <2>2. Await(r, "cert:store", g) /\ QuietTable
    BY <1>1, <1>4, <2>1, UnchangedIsQuiet DEF CertificateScan
  <2>3. FrameOK("cert:store", g)
    BY <1>2, <2>1, PickedRows DEF FrameOK, UserLabel
  <2>4. "cert:store" \in Continuation \ {"award:grade"}
    BY LabelsContinue DEF CaseLabel
  <2> QED
    BY <2>2, <2>3, <2>4, QuietAwait
<1>5. CASE CertificateStore(r)
  <2>1. OwnRows(f.replaced, f.kase, "COMPLETION_CERTIFICATE")
    BY <1>1, <1>5, FrameOf DEF CertificateStore, At, FrameOK
  <2>2. PICK g : g = [kase |-> f.kase]
    OBVIOUS
  <2>3. /\ CommitStore(f.kase, "COMPLETION_CERTIFICATE", f.replaced)
        /\ Await(r, "advance:facts", g)
        /\ UNCHANGED <<state, history, deliverableVars>>
    BY <1>1, <1>5, <2>2 DEF CertificateStore
  <2>4. TypeOK' => Grows /\ TablesOK'
    BY <1>2, <2>1, <2>3, StoreGrows DEF NormalPathInv, DocumentType
  <2>5. FrameOK("advance:facts", g)'
    <3>1. g.kase \in Case
      BY <1>2, <2>2
    <3> QED
      BY <3>1 DEF FrameOK, UserLabel
  <2>6. "advance:facts" \in Continuation \ {"award:grade"}
    BY LabelsContinue DEF CaseLabel
  <2> QED
    BY <2>3, <2>4, <2>5, <2>6, AwaitStep
<1> QED
  BY <1>3, <1>4, <1>5

\* Reissuing a link revokes every live one of the case or fails, and touches no
\* other case's.
LEMMA IssueFacts ==
  ASSUME NormalPathInv, NEW r \in Request, TokenCreate(r)
  PROVE  /\ tokens' \in Seq(Token)
         /\ \A i \in DOMAIN tokens : i \in DOMAIN tokens' /\ tokens'[i].kase = tokens[i].kase
         /\ \A i \in DOMAIN tokens' \ DOMAIN tokens :
              \E d \in Case : tokens'[i].kase = d /\ WasCompleted(d)
         /\ \A d : Evaluated(d)' <=> Evaluated(d)
         /\ SameLiveToken'
<1>0. PICK c \in Case : c = frame[r].kase /\ WasCompleted(c)
  BY FrameOf DEF TokenCreate, At, CaseLabel, FrameOK
<1> DEFINE stale == frame[r].replaced \cap LiveTokens(c)
           n == Len(tokens)
           kept == [i \in DOMAIN tokens |->
                      IF i \in stale THEN [tokens[i] EXCEPT !.revoked = TRUE] ELSE tokens[i]]
           new == [kase |-> c, used |-> FALSE, revoked |-> FALSE]
<1>1. tokens \in Seq(Token) /\ SameLiveToken
  BY DEF NormalPathInv, TablesOK, DeliverablesTypeOK
<1>2. CASE UNCHANGED tokens
  BY <1>1, <1>2 DEF Evaluated, SameLiveToken, LiveTokens
<1>3. CASE LiveTokens(c) \subseteq stale /\ tokens' = Append(kept, new)
  <2>2. n \in Nat /\ DOMAIN tokens = 1..n /\ \A i \in 1..n : tokens[i] \in Token
    BY <1>1
  <2>3. new \in Token
    BY DEF Token
  <2>4. \A i \in 1..n : [tokens[i] EXCEPT !.revoked = TRUE] \in Token
    BY <2>2 DEF Token
  <2>5. kept \in [1..n -> Token]
    BY <2>2, <2>4
  <2>6. kept \in Seq(Token) /\ Len(kept) = n
    BY <2>2, <2>5
  <2>7. tokens' \in Seq(Token)
    BY <1>3, <2>3, <2>6
  <2>8. DOMAIN tokens' = 1..(n + 1) /\ tokens'[n + 1] = new /\ \A i \in 1..n : tokens'[i] = kept[i]
    BY <1>3, <2>2, <2>3, <2>6
  <2>9. \A i \in 1..n : /\ kept[i].kase = tokens[i].kase
                        /\ kept[i].used = tokens[i].used
                        /\ i \in stale => kept[i].revoked = TRUE
                        /\ i \notin stale => kept[i] = tokens[i]
    BY <2>2 DEF Token
  <2>10. new.kase = c
    OBVIOUS
  <2>11. stale = LiveTokens(c)
    BY <1>3
  <2> HIDE DEF n, kept, new, stale
  <2>12. \A d \in Case \ {c} : LiveTokens(d)' \subseteq LiveTokens(d)
    <3> SUFFICES ASSUME NEW d \in Case \ {c}, NEW i \in LiveTokens(d)'
                 PROVE  i \in LiveTokens(d)
      OBVIOUS
    <3>1. /\ i \in 1..(n + 1) /\ tokens'[i].kase = d
          /\ ~tokens'[i].used /\ ~tokens'[i].revoked
      BY <2>8 DEF LiveTokens
    <3>2. i # n + 1
      BY <2>8, <2>10, <3>1
    <3>3. i \in 1..n
      BY <2>2, <3>1, <3>2
    <3>4. i \notin stale
      BY <2>8, <2>9, <3>1, <3>3
    <3> QED
      BY <2>2, <2>8, <2>9, <3>1, <3>3, <3>4 DEF LiveTokens
  <2>13. LiveTokens(c)' \subseteq {n + 1}
    <3> SUFFICES ASSUME NEW i \in DOMAIN tokens', tokens'[i].kase = c,
                        ~tokens'[i].used, ~tokens'[i].revoked, i # n + 1
                 PROVE  FALSE
      BY DEF LiveTokens
    <3>1. i \in 1..n
      BY <2>2, <2>8
    <3>2. i \notin stale /\ tokens'[i] = tokens[i]
      BY <2>8, <2>9, <3>1
    <3>3. i \in LiveTokens(c)
      BY <2>2, <3>1, <3>2 DEF LiveTokens
    <3> QED
      BY <2>11, <3>2, <3>3
  <2>14. SameLiveToken'
    BY <1>1, <2>12, <2>13 DEF SameLiveToken
  <2>15. \A d : Evaluated(d)' <=> Evaluated(d)
    <3>1. new.used = FALSE
      BY DEF new
    <3> QED
      BY <2>2, <2>8, <2>9, <3>1 DEF Evaluated
  <2>16. \A i \in DOMAIN tokens : i \in DOMAIN tokens' /\ tokens'[i].kase = tokens[i].kase
    BY <2>2, <2>8, <2>9
  <2>17. \A i \in DOMAIN tokens' \ DOMAIN tokens : tokens'[i].kase = c
    BY <2>2, <2>8, <2>10
  <2> QED
    BY <1>0, <2>7, <2>14, <2>15, <2>16, <2>17
<1> QED
  BY <1>0, <1>2, <1>3 DEF TokenCreate

\* A submission sets used on one link.
LEMMA EvaluateFacts ==
  ASSUME NormalPathInv, NEW i \in DOMAIN tokens, tokens' = [tokens EXCEPT ![i].used = TRUE]
  PROVE  /\ tokens' \in Seq(Token)
         /\ \A j \in DOMAIN tokens : j \in DOMAIN tokens' /\ tokens'[j].kase = tokens[j].kase
         /\ \A j \in DOMAIN tokens' \ DOMAIN tokens :
              \E d \in Case : tokens'[j].kase = d /\ WasCompleted(d)
         /\ \A c \in Case : Evaluated(c) => Evaluated(c)'
         /\ \A c : Evaluated(c)' => Evaluated(c) \/ c = tokens[i].kase
         /\ SameLiveToken'
<1> DEFINE n == Len(tokens)
           row == [tokens[i] EXCEPT !.used = TRUE]
<1>1. tokens \in Seq(Token) /\ SameLiveToken
  BY DEF NormalPathInv, TablesOK, DeliverablesTypeOK
<1>2. n \in Nat /\ DOMAIN tokens = 1..n /\ \A j \in 1..n : tokens[j] \in Token
  BY <1>1
<1>3. row \in Token
  BY <1>2 DEF Token
<1>4. row.kase = tokens[i].kase /\ row.used = TRUE
  BY <1>2 DEF Token
<1>5. tokens' = [tokens EXCEPT ![i] = row]
  OBVIOUS
<1> HIDE DEF row, n
<1>6. tokens' \in [1..n -> Token]
  <2>1. tokens \in [1..n -> Token]
    BY <1>1 DEF n
  <2> QED
    BY <1>3, <1>5, <2>1
<1>7. tokens' \in Seq(Token)
  BY <1>2, <1>6
<1>8. DOMAIN tokens' = 1..n /\ tokens'[i] = row /\ \A j \in 1..n \ {i} : tokens'[j] = tokens[j]
  BY <1>2, <1>5, <1>6
<1>9. \A c \in Case : Evaluated(c) => Evaluated(c)'
  BY <1>2, <1>4, <1>8 DEF Evaluated
<1>10. \A c : LiveTokens(c)' \subseteq LiveTokens(c)
  BY <1>2, <1>4, <1>8 DEF LiveTokens
<1>11. SameLiveToken'
  BY <1>1, <1>10 DEF SameLiveToken
<1>12. \A j \in 1..n : tokens'[j].kase = tokens[j].kase
  BY <1>4, <1>8
<1>13. \A c : Evaluated(c)' => Evaluated(c) \/ c = tokens[i].kase
  BY <1>2, <1>4, <1>8 DEF Evaluated
<1> QED
  BY <1>2, <1>7, <1>8, <1>9, <1>11, <1>12, <1>13

\* Neither takes anything back.
LEMMA TokensGrow ==
  ASSUME NormalPathInv,
         UNCHANGED <<state, history, documents, actualDates, verified, offerVars, gradingVars>>,
         tokens' \in Seq(Token),
         \A i \in DOMAIN tokens : i \in DOMAIN tokens' /\ tokens'[i].kase = tokens[i].kase,
         \A i \in DOMAIN tokens' \ DOMAIN tokens :
              \E d \in Case : tokens'[i].kase = d /\ WasCompleted(d),
         \A c \in Case : Evaluated(c) => Evaluated(c)',
         SameLiveToken'
  PROVE  TypeOK' => Grows /\ TablesOK'
<1>1. UNCHANGED <<company, plan, recommendation, grades, reversals>>
  BY DEF offerVars, gradingVars
<1>2. \A c \in Case : Entered(c)' = Entered(c)
  BY TablesKeepInv DEF NormalPathInv
<1>3. \A c, type : HasActive(c, type)' = HasActive(c, type)
  BY DEF HasActive, ActiveDocuments
<1>4. Grows
  BY <1>1, <1>2, <1>3 DEF Grows
<1>5. ASSUME TypeOK' PROVE TablesOK'
  <2>1. OfferTypeOK' /\ DeliverablesTypeOK' /\ GradingTypeOK'
    BY <1>1, <1>5 DEF NormalPathInv, TablesOK, OfferTypeOK, DeliverablesTypeOK, GradingTypeOK,
                      DocumentsOK
  <2>2. LinksFollowCompletion'
    <3>1. \A c \in Case : WasCompleted(c)' <=> WasCompleted(c)
      BY <1>2 DEF WasCompleted
    <3>2. \A i \in DOMAIN tokens' : \E c \in Case : tokens'[i].kase = c /\ WasCompleted(c)
      BY DEF NormalPathInv, TablesOK, LinksFollowCompletion
    <3> QED
      BY <3>1, <3>2 DEF LinksFollowCompletion
  <2> QED
    BY <1>1, <1>2, <1>4, <2>1, <2>2, TablesStay DEF NormalPathInv
<1> QED
  BY <1>4, <1>5

\* issueSupervisorToken() and submitEvaluation().
LEMMA TokenKeeps ==
  ASSUME NormalPathInv, NEW r \in Request,
         TokenRevoke(r) \/ TokenCreate(r) \/ EvaluationStore(r),
         UNCHANGED <<offerVars, gradingVars>>
  PROVE  Kept
<1>1. PICK f : f = frame[r]
  OBVIOUS
<1>2. f.kase \in Case
  BY <1>1, FrameOf DEF TokenRevoke, TokenCreate, EvaluationStore, At, CaseLabel
<1>3. CASE TokenRevoke(r)
  <2>1. PICK g : g = [kase |-> f.kase, replaced |-> LiveTokens(f.kase)]
    OBVIOUS
  <2>2. Await(r, "token:create", g) /\ QuietTable
    BY <1>1, <1>3, <2>1, UnchangedIsQuiet DEF TokenRevoke
  <2>3. g.kase \in Case /\ WasCompleted(g.kase)
    BY <1>1, <1>2, <1>3, <2>1, FrameOf DEF TokenRevoke, At, FrameOK
  <2>4. FrameOK("token:create", g)
    BY <2>3 DEF FrameOK, UserLabel
  <2>5. "token:create" \in Continuation \ {"award:grade"}
    BY LabelsContinue DEF CaseLabel
  <2> QED
    BY <2>2, <2>4, <2>5, QuietAwait
<1>4. CASE TokenCreate(r)
  <2>1. Respond(r) /\ UNCHANGED <<state, history, documents, actualDates, verified>>
    BY <1>4 DEF TokenCreate
  <2> QED
    BY <1>4, <2>1, IssueFacts, TokensGrow, RespondStep
<1>5. CASE EvaluationStore(r)
  <2>1. PICK i \in DOMAIN tokens : i = f.token
    BY <1>1, <1>5, FrameOf DEF EvaluationStore, At, FrameOK
  <2>2. UNCHANGED <<state, history, documents, actualDates, verified>>
    BY <1>5 DEF EvaluationStore
  <2>3. PICK g : g = [kase |-> f.kase]
    OBVIOUS
  <2>4. ASSUME tokens' = [tokens EXCEPT ![i].used = TRUE], Await(r, "advance:facts", g)
        PROVE  Kept
    <3>1. TypeOK' => Grows /\ TablesOK'
      BY <2>2, <2>4, EvaluateFacts, TokensGrow
    <3>2. g.kase \in Case
      BY <1>2, <2>3
    <3>3. FrameOK("advance:facts", g)'
      BY <3>2 DEF FrameOK, UserLabel
    <3>4. "advance:facts" \in Continuation \ {"award:grade"}
      BY LabelsContinue DEF CaseLabel
    <3> QED
      BY <2>2, <2>4, <3>1, <3>3, <3>4, AwaitStep
  <2>5. ASSUME UNCHANGED tokens, Respond(r)
        PROVE  Kept
    <3>1. QuietTable
      BY <2>2, <2>5, UnchangedIsQuiet DEF deliverableVars
    <3> QED
      BY <2>5, <3>1, QuietRespond
  <2> QED
    BY <1>1, <1>5, <2>1, <2>3, <2>4, <2>5 DEF EvaluationStore
<1> QED
  BY <1>3, <1>4, <1>5

\* advanceToVerificationIfReady(): the facts it has read are still true when it
\* moves the case.
LEMMA AdvanceKeeps ==
  ASSUME NormalPathInv, NEW r \in Request, AdvanceFacts(r) \/ AdvanceMove(r),
         UNCHANGED <<offerVars, gradingVars>>
  PROVE  Kept
<1>1. PICK f : f = frame[r]
  OBVIOUS
<1>2. f.kase \in Case
  BY <1>1, FrameOf DEF AdvanceFacts, AdvanceMove, At, CaseLabel
<1>3. CASE AdvanceFacts(r)
  <2>1. QuietTable
    BY <1>3, UnchangedIsQuiet DEF AdvanceFacts
  <2>2. ASSUME DeliverablesPresent(f.kase), Await(r, "advance:move", f)
        PROVE  Kept
    <3>1. FrameOK("advance:move", f)
      BY <1>2, <2>2 DEF FrameOK, UserLabel
    <3>2. "advance:move" \in Continuation \ {"award:grade"}
      BY LabelsContinue DEF CaseLabel
    <3> QED
      BY <2>1, <2>2, <3>1, <3>2, QuietAwait
  <2>3. ASSUME Respond(r)
        PROVE  Kept
    BY <2>1, <2>3, QuietRespond
  <2> QED
    BY <1>1, <1>3, <2>2, <2>3 DEF AdvanceFacts
<1>4. CASE AdvanceMove(r)
  <2>1. TransitionOrFail(r, f.kase, "PENDING_VERIFICATION", System, FALSE,
                         {"deliverablesPresent"}, "idle")
    BY <1>1, <1>4 DEF AdvanceMove
  <2>2. QuietTable
    BY <1>4, UnchangedIsQuiet DEF AdvanceMove, TransitionOrFail, BeginTransition
  <2>3. DeliverablesPresent(f.kase)
    BY <1>1, <1>4, FrameOf DEF AdvanceMove, At, FrameOK
  <2>4. Earned(f.kase, "PENDING_VERIFICATION")
    BY <2>3 DEF Earned
  <2>5. FrameOK("idle", f) /\ "PENDING_VERIFICATION" \in CaseState
    BY BareFrame DEF CaseState
  <2> QED
    BY <1>1, <1>2, <2>1, <2>2, <2>4, <2>5, QuietCall, LabelsContinue, StudentsAreActors
<1> QED
  BY <1>3, <1>4

\* A verification is of a document that was there, of a case that was pending.
LEMMA VerifyKeeps ==
  ASSUME NormalPathInv, NEW r \in Request, VerifyCreate(r), UNCHANGED <<offerVars, gradingVars>>
  PROVE  Kept
<1>1. PICK f : f = frame[r]
  OBVIOUS
<1>2. PICK i : i = f.document
  OBVIOUS
<1>3. WasPending(i)
  BY <1>1, <1>2, FrameOf DEF VerifyCreate, At, FrameOK
<1>4. /\ verified' = verified \cup {i}
      /\ Respond(r)
      /\ UNCHANGED <<state, history, documents, actualDates, tokens>>
      /\ UNCHANGED <<company, plan, recommendation, grades, reversals>>
  BY <1>1, <1>2 DEF VerifyCreate, offerVars, gradingVars
<1>5. \A c \in Case : Entered(c)' = Entered(c)
  BY <1>4, TablesKeepInv DEF NormalPathInv
<1>6. \A c, type : HasActive(c, type)' = HasActive(c, type)
  BY <1>4 DEF HasActive, ActiveDocuments
<1>7. \A c : Evaluated(c)' = Evaluated(c)
  BY <1>4 DEF Evaluated
<1>8. Grows
  BY <1>4, <1>5, <1>6, <1>7 DEF Grows
<1>9. ASSUME TypeOK' PROVE TablesOK'
  <2>1. OfferTypeOK' /\ DeliverablesTypeOK' /\ GradingTypeOK'
    BY <1>3, <1>4, <1>9 DEF NormalPathInv, TablesOK, OfferTypeOK, DeliverablesTypeOK, GradingTypeOK,
                            DocumentsOK, WasPending
  <2>2. WasPending(i)'
    BY <1>3, <1>8 DEF WasPending, Grows
  <2> QED
    BY <1>4, <1>5, <1>8, <2>1, <2>2, TablesStay DEF NormalPathInv
<1> QED
  BY <1>4, <1>8, <1>9, RespondStep

\* Only a caller that says every deliverable is verified moves a case to VERIFIED.
LEMMA VerifiedNeedsGuard ==
  ASSUME NEW t \in TRANSITIONS, t.to = "VERIFIED"
  PROVE  "deliverablesVerified" \in t.guards
BY DEF TRANSITIONS, NormalRows, RestartRows, WaiverRows, Row, PreApproval

\* markVerified(): what it found verified stays verified while it goes on.
LEMMA MarkKeeps ==
  ASSUME NormalPathInv, NEW r \in Request, MarkRead(r) \/ MarkDecide(r),
         UNCHANGED <<offerVars, gradingVars>>
  PROVE  Kept
<1>1. PICK f : f = frame[r]
  OBVIOUS
<1>2. /\ f \in MarkFrame
      /\ f.ok => \A type \in DeliverableType \ f.unread : HasVerified(f.kase, type)
  BY <1>1, FrameOf DEF MarkRead, MarkDecide, At, FrameOK
<1>3. CASE MarkRead(r)
  <2>1. PICK type \in frame[r].unread, ok \in BOOLEAN :
          /\ SeesVerified(frame[r].kase, type, ok)
          /\ Await(r, IF frame[r].unread \ {type} = {} THEN "mark:decide" ELSE "mark:read",
                   [frame[r] EXCEPT !.unread = frame[r].unread \ {type},
                                    !.ok = frame[r].ok /\ ok])
    BY <1>3 DEF MarkRead
  <2>2. PICK label, g :
          /\ label = IF frame[r].unread \ {type} = {} THEN "mark:decide" ELSE "mark:read"
          /\ g = [frame[r] EXCEPT !.unread = frame[r].unread \ {type},
                                  !.ok = frame[r].ok /\ ok]
    OBVIOUS
  <2>3. Await(r, label, g) /\ SeesVerified(f.kase, type, ok)
    BY <1>1, <2>1, <2>2 DEF Await, SeesVerified
  <2>4. QuietTable
    BY <1>3, UnchangedIsQuiet DEF MarkRead
  <2>5. /\ g \in MarkFrame
        /\ g.kase = f.kase
        /\ g.unread = f.unread \ {type}
        /\ g.ok = (f.ok /\ ok)
    <3>1. PICK both \in BOOLEAN : both = (f.ok /\ ok)
      BY Zenon
    <3>2. PICK rest \in SUBSET DeliverableType : rest = f.unread \ {type}
      BY <1>2 DEF MarkFrame
    <3>3. g = [f EXCEPT !.unread = rest, !.ok = both]
      BY <1>1, <2>2, <3>1, <3>2
    <3>4. f \in [kase : Case, user : User, unread : SUBSET DeliverableType, ok : BOOLEAN]
      BY <1>2 DEF MarkFrame
    <3>5. /\ g \in [kase : Case, user : User, unread : SUBSET DeliverableType, ok : BOOLEAN]
          /\ g.kase = f.kase /\ g.unread = rest /\ g.ok = both
      BY <3>3, <3>4
    <3> QED
      BY <3>1, <3>2, <3>5 DEF MarkFrame
  <2>6. ok => HasVerified(f.kase, type)
    BY <2>3 DEF SeesVerified, ActiveDocuments, HasVerified
  <2>7. g.ok => \A other \in DeliverableType \ g.unread : HasVerified(g.kase, other)
    BY <1>2, <2>5, <2>6
  <2>8. label = "mark:decide" => g.unread = {}
    BY <2>2, <2>5
  <2>9. label \in {"mark:decide", "mark:read"} /\ g.kase \in Case
    BY <2>2, <2>5 DEF MarkFrame
  <2>10. FrameOK(label, g)
    BY <2>5, <2>7, <2>8, <2>9 DEF FrameOK, UserLabel
  <2>11. label \in Continuation \ {"award:grade"}
    BY <2>9, LabelsContinue DEF CaseLabel
  <2> QED
    BY <2>3, <2>4, <2>10, <2>11, QuietAwait
<1>4. CASE MarkDecide(r)
  <2>1. PICK ctx : /\ ctx = IF f.ok THEN {"deliverablesVerified"} ELSE {}
                   /\ TransitionOrFail(r, f.kase, "VERIFIED", f.user, FALSE, ctx, "idle")
    BY <1>1, <1>4 DEF MarkDecide
  <2>2. QuietTable
    BY <1>4, UnchangedIsQuiet DEF MarkDecide, TransitionOrFail, BeginTransition
  <2>3. f.unread = {}
    BY <1>1, <1>4, FrameOf DEF MarkDecide, At, FrameOK
  <2>4. f.kase \in Case /\ f.user \in Actor
    BY <1>2 DEF MarkFrame, Actor
  <2>5. ASSUME Admits(f.kase, "VERIFIED", f.user, FALSE, ctx)
        PROVE  Earned(f.kase, "VERIFIED")
    <3>1. f.ok
      BY <2>1, <2>5, VerifiedNeedsGuard DEF Admits
    <3> QED
      BY <1>2, <2>3, <3>1 DEF Earned
  <2>6. FrameOK("idle", f) /\ "VERIFIED" \in CaseState
    BY BareFrame DEF CaseState
  <2> QED
    BY <1>1, <2>1, <2>2, <2>4, <2>5, <2>6, QuietCall, LabelsContinue
<1> QED
  BY <1>3, <1>4

-----------------------------------------------------------------------------
(* Grading.                                                                *)

\* Writing a recommendation.
LEMMA RecommendKeeps ==
  ASSUME NormalPathInv, NEW r \in Request, NEW c \in Case, NEW u \in User,
         NEW value \in GradeValue, RecommendGrade(r, c, u, value),
         UNCHANGED <<documents, offerVars, deliverableVars>>
  PROVE  Kept
<1> DEFINE rec == [value |-> value, by |-> u]
           g == [kase |-> c, user |-> u]
<1>1. /\ Holds(u, "FOCAL")
      /\ recommendation' = [recommendation EXCEPT ![c] = rec]
      /\ Await(r, "recommend:decide", g)
      /\ UNCHANGED <<state, history, documents, company, plan, actualDates, tokens, verified,
                     grades, reversals>>
  BY DEF RecommendGrade, offerVars, deliverableVars
<1>2. recommendation \in [Case -> Recommendation \cup {NoRecommendation}]
  BY DEF NormalPathInv, TablesOK, GradingTypeOK
<1>3. rec \in Recommendation /\ rec # NoRecommendation /\ rec.by = u
  <2>1. rec \in Recommendation /\ rec.by = u
    BY DEF Recommendation
  <2>2. NoRecommendation.by = System
    BY DEF NoRecommendation
  <2> QED
    BY <2>1, <2>2, ConstantsOK
<1>4. g.kase = c /\ g.user = u
  OBVIOUS
<1> HIDE DEF rec, g
<1>5. /\ recommendation' \in [Case -> Recommendation \cup {NoRecommendation}]
      /\ recommendation'[c] = rec
      /\ \A d \in Case \ {c} : recommendation'[d] = recommendation[d]
  BY <1>1, <1>2, <1>3
<1>6. \A d \in Case : Entered(d)' = Entered(d)
  BY <1>1, TablesKeepInv DEF NormalPathInv
<1>7. \A d, type : HasActive(d, type)' = HasActive(d, type)
  BY <1>1 DEF HasActive, ActiveDocuments
<1>8. \A d : Evaluated(d)' = Evaluated(d)
  BY <1>1 DEF Evaluated
<1>9. Grows
  BY <1>1, <1>3, <1>5, <1>6, <1>7, <1>8 DEF Grows
<1>10. FocalRecommends'
  BY <1>1, <1>3, <1>5 DEF NormalPathInv, TablesOK, FocalRecommends, Holds
<1>11. ASSUME TypeOK' PROVE TablesOK'
  <2>1. OfferTypeOK' /\ DeliverablesTypeOK' /\ GradingTypeOK'
    BY <1>1, <1>5, <1>11 DEF NormalPathInv, TablesOK, OfferTypeOK, DeliverablesTypeOK,
                             GradingTypeOK, DocumentsOK
  <2> QED
    BY <1>1, <1>6, <1>9, <1>10, <2>1, TablesStay DEF NormalPathInv
<1>12. FrameOK("recommend:decide", g)'
  BY <1>3, <1>4, <1>5 DEF FrameOK, CaseLabel, UserLabel
<1>13. "recommend:decide" \in Continuation \ {"award:grade"}
  BY LabelsContinue DEF CaseLabel
<1> QED
  BY <1>1, <1>9, <1>11, <1>12, <1>13, AwaitStep

\* The two decisions: the executor is asked, and what it is asked for is earned.
LEMMA DecideKeeps ==
  ASSUME NormalPathInv, NEW r \in Request, RecommendDecide(r) \/ AwardDecide(r),
         UNCHANGED <<documents, offerVars, deliverableVars>>
  PROVE  Kept
<1>1. PICK f : f = frame[r]
  OBVIOUS
<1>2. QuietTable
  BY UnchangedIsQuiet DEF RecommendDecide, AwardDecide, TransitionOrFail, BeginTransition
<1>3. f.kase \in Case /\ f.user \in User /\ f.user \in Actor /\ FrameOK(pc[r], f)
  BY <1>1, FrameOf DEF RecommendDecide, AwardDecide, At, CaseLabel, UserLabel, Actor
<1>4. CASE RecommendDecide(r)
  <2>1. TransitionOrFail(r, f.kase, "GRADE_RECOMMENDED", f.user, TRUE, {}, "idle")
    BY <1>1, <1>4 DEF RecommendDecide
  <2>2. Earned(f.kase, "GRADE_RECOMMENDED")
    BY <1>3, <1>4 DEF RecommendDecide, At, FrameOK, Earned
  <2>3. FrameOK("idle", f) /\ "GRADE_RECOMMENDED" \in CaseState
    BY BareFrame DEF CaseState
  <2> QED
    BY <1>1, <1>2, <1>3, <2>1, <2>2, <2>3, QuietCall, LabelsContinue
<1>5. CASE AwardDecide(r)
  <2>1. PICK ctx, to :
          /\ to = TargetState(f.value)
          /\ TransitionOrFail(r, f.kase, to, f.user, TRUE, ctx, "award:grade")
    BY <1>1, <1>5 DEF AwardDecide
  <2>2. to \in CaseState /\ Earned(f.kase, to)
    BY <2>1, NothingToEarn DEF TargetState, CaseState
  <2>3. FrameOK("award:grade", f)
    BY <1>3, <1>5 DEF AwardDecide, At, FrameOK, CaseLabel, UserLabel
  <2>4. "award:grade" \in Continuation
    BY LabelsContinue DEF CaseLabel
  <2> QED
    BY <1>1, <1>2, <1>3, <2>1, <2>2, <2>3, <2>4, QuietCall
<1> QED
  BY <1>4, <1>5

\* What people start.
LEMMA GradingRequestKeeps ==
  ASSUME NormalPathInv, NEW r \in Request, GradingRequest(r),
         UNCHANGED <<documents, offerVars, deliverableVars>>
  PROVE  Kept
<1>1. ASSUME NEW c \in Case, NEW u \in User, NEW value \in GradeValue, AwardGrade(r, c, u, value)
      PROVE  Kept
  <2> DEFINE g == [kase |-> c, user |-> u, value |-> value,
                   recommendedBy |-> recommendation[c].by]
  <2>1. Await(r, "award:decide", g) /\ recommendation[c] # NoRecommendation
    BY <1>1 DEF AwardGrade
  <2>2. QuietTable
    BY <1>1, UnchangedIsQuiet DEF AwardGrade, gradingVars
  <2>3. recommendation[c].by \in User /\ "FOCAL" \in RolesOf[recommendation[c].by]
    BY <2>1 DEF NormalPathInv, TablesOK, FocalRecommends, GradingTypeOK, Recommendation
  <2>4. FrameOK("award:decide", g)
    BY <2>3 DEF FrameOK
  <2>5. "award:decide" \in Continuation \ {"award:grade"}
    BY LabelsContinue DEF CaseLabel
  <2> HIDE DEF g
  <2> QED
    BY <2>1, <2>2, <2>4, <2>5, QuietAwait
<1>2. ASSUME NEW c \in Case, NEW u \in User, ReverseGrade(r, c, u)
      PROVE  Kept
  <2>1. /\ grades[c] # NoGrade
        /\ reversals' = reversals \cup {<<c, u>>}
        /\ UNCHANGED <<state, history, pc, tx, frame, documents, company, plan, actualDates,
                       tokens, verified, recommendation, grades>>
    BY <1>2 DEF ReverseGrade, coreVars, offerVars, deliverableVars
  <2>2. Grows /\ \A d \in Case : Entered(d)' = Entered(d)
    BY <2>1, QuietGrows DEF NormalPathInv, knownTables
  <2>3. IInv' /\ UNCHANGED Lifecycle!vars
    BY <2>1, QuietStepKeepsInv DEF NormalPathInv, IInv, TypeOK, NoNewCall
  <2>4. ReversalsOfGrades'
    BY <2>1 DEF NormalPathInv, TablesOK, ReversalsOfGrades
  <2>5. OfferTypeOK' /\ DeliverablesTypeOK' /\ GradingTypeOK'
    BY <2>1, <2>3 DEF NormalPathInv, TablesOK, OfferTypeOK, DeliverablesTypeOK, GradingTypeOK,
                      DocumentsOK, IInv
  <2>6. TablesOK'
    BY <2>1, <2>2, <2>4, <2>5, TablesStay DEF NormalPathInv
  <2>7. RequestsOK'
    BY <2>1, <2>2, OtherRequestsStay DEF NormalPathInv, IInv, RequestsOK
  <2> QED
    BY <2>2, <2>3, <2>6, <2>7 DEF Kept, NormalPathInv
<1>3. ASSUME NEW c \in Case, NEW u \in User, NEW value \in GradeValue,
             RecommendGrade(r, c, u, value)
      PROVE  Kept
  BY <1>3, RecommendKeeps
<1> QED
  BY <1>1, <1>2, <1>3 DEF GradingRequest

\* What writing a Grade row does, and what its INSERT leaves alone.
LEMMA GradeFacts ==
  ASSUME NormalPathInv, NEW r \in Request, AwardCreateGrade(r)
  PROVE  /\ grades' \in [Case -> Grade \cup {NoGrade}]
         /\ \A c \in Case : grades[c] # NoGrade => grades'[c] = grades[c]
         /\ UNCHANGED history => GradeBacksClosure'
<1>1. PICK f : f = frame[r]
  OBVIOUS
<1> DEFINE new == [value |-> f.value, recommendedBy |-> f.recommendedBy, awardedBy |-> f.user]
<1>2. /\ FrameOK("award:grade", f)
      /\ f.kase \in Case /\ f.user \in User
      /\ ClosedBy(f.kase, f.value, f.user)
  BY <1>1, FrameOf DEF AwardCreateGrade, At, CaseLabel, UserLabel
<1>3. /\ f.value \in GradeValue
      /\ f.recommendedBy \in User
      /\ "FOCAL" \in RolesOf[f.recommendedBy]
  BY <1>2 DEF FrameOK
<1>4. grades' = IF grades[f.kase] = NoGrade /\ f.recommendedBy # f.user
                THEN [grades EXCEPT ![f.kase] = new]
                ELSE grades
  BY <1>1 DEF AwardCreateGrade
<1>5. new \in Grade
  BY <1>2, <1>3 DEF Grade
<1>6. new.value = f.value /\ new.recommendedBy = f.recommendedBy /\ new.awardedBy = f.user
  OBVIOUS
<1>7. grades \in [Case -> Grade \cup {NoGrade}] /\ GradeBacksClosure
  BY DEF NormalPathInv, TablesOK, GradingTypeOK
<1> HIDE DEF new
<1>8. CASE grades[f.kase] = NoGrade /\ f.recommendedBy # f.user
  <2>1. /\ grades' \in [Case -> Grade \cup {NoGrade}]
        /\ grades'[f.kase] = new
        /\ \A c \in Case \ {f.kase} : grades'[c] = grades[c]
    BY <1>2, <1>4, <1>5, <1>7, <1>8
  <2>2. ASSUME UNCHANGED history, NEW c \in Case, grades'[c] # NoGrade
        PROVE  /\ \E i \in DOMAIN history'[c] :
                    /\ history'[c][i].to = TargetState(grades'[c].value)
                    /\ history'[c][i].actor = grades'[c].awardedBy
               /\ "FOCAL" \in RolesOf[grades'[c].recommendedBy]
               /\ grades'[c].recommendedBy # grades'[c].awardedBy
    <3>1. CASE c = f.kase
      BY <1>2, <1>3, <1>6, <1>8, <2>1, <2>2, <3>1 DEF ClosedBy
    <3>2. CASE c # f.kase
      BY <1>7, <2>1, <2>2, <3>2 DEF GradeBacksClosure
    <3> QED
      BY <3>1, <3>2
  <2> QED
    BY <1>8, <2>1, <2>2 DEF GradeBacksClosure
<1>9. CASE ~(grades[f.kase] = NoGrade /\ f.recommendedBy # f.user)
  BY <1>4, <1>7, <1>9 DEF GradeBacksClosure
<1> QED
  BY <1>8, <1>9

\* A grade is written for a closure its awarder committed, or not at all.
LEMMA CreateGradeKeeps ==
  ASSUME NormalPathInv, NEW r \in Request, AwardCreateGrade(r),
         UNCHANGED <<documents, offerVars, deliverableVars>>
  PROVE  Kept
<1>1. /\ Respond(r)
      /\ UNCHANGED <<state, history, documents, company, plan, actualDates, tokens, verified,
                     recommendation, reversals>>
  BY DEF AwardCreateGrade, offerVars, deliverableVars
<1>2. Grows /\ \A c \in Case : Entered(c)' = Entered(c)
  BY <1>1, QuietGrows DEF NormalPathInv, knownTables
<1>3. /\ grades' \in [Case -> Grade \cup {NoGrade}]
      /\ \A c \in Case : grades[c] # NoGrade => grades'[c] = grades[c]
      /\ GradeBacksClosure'
  BY <1>1, GradeFacts
<1>4. ReversalsOfGrades'
  <2>1. \A v \in reversals : v[1] \in Case
    BY DEF NormalPathInv, TablesOK, GradingTypeOK
  <2> QED
    BY <1>1, <1>3, <2>1 DEF NormalPathInv, TablesOK, ReversalsOfGrades
<1>5. ASSUME TypeOK' PROVE TablesOK'
  <2>1. OfferTypeOK' /\ DeliverablesTypeOK' /\ GradingTypeOK'
    BY <1>1, <1>3, <1>5 DEF NormalPathInv, TablesOK, OfferTypeOK, DeliverablesTypeOK,
                            GradingTypeOK, DocumentsOK
  <2> QED
    BY <1>1, <1>2, <1>3, <1>4, <2>1, TablesStay DEF NormalPathInv
<1> QED
  BY <1>1, <1>2, <1>5, RespondStep

-----------------------------------------------------------------------------
(* Every step.                                                             *)

\* The executor: what it commits has been earned.
LEMMA CommitStepKeeps ==
  ASSUME NormalPathInv, NEW r \in Request, CommitTransition(r),
         UNCHANGED <<documents, offerVars, deliverableVars, gradingVars>>
  PROVE  Kept
<1>1. PICK t : t = tx[r]
  OBVIOUS
<1>2. pc[r] = "commit" /\ t \in InFlight /\ t.kase \in Case
  BY <1>1 DEF CommitTransition, NormalPathInv, IInv, TypeOK, InFlight
<1>3. Earned(t.kase, t.to)
  <2>1. PICK f : f = frame[r]
    OBVIOUS
  <2>2. LocalsOK("commit", t, f)
    BY <1>1, <1>2, <2>1 DEF NormalPathInv, RequestsOK, RequestOK
  <2> QED
    BY <2>2 DEF LocalsOK
<1>4. UNCHANGED <<documents, company, plan, actualDates, tokens, verified, recommendation, grades,
                  reversals>>
  BY DEF offerVars, deliverableVars, gradingVars
<1>5. IInv' /\ [Lifecycle!Next]_(Lifecycle!vars)
  BY ExecutorKeepsInv DEF NormalPathInv, ExecutorStep
<1>6. \A c \in Case : Entered(c)' = IF c = t.kase THEN Entered(c) \cup {t.to} ELSE Entered(c)
  BY <1>1, CoreFollows, CommitEnters DEF NormalPathInv, CoreInv
<1>7. \A c \in Case : \A i \in DOMAIN history[c] :
        i \in DOMAIN history'[c] /\ history'[c][i] = history[c][i]
  <2> DEFINE k == tx[r].kase
             n == Len(history[k])
  <2>1. /\ n \in Nat
        /\ DOMAIN history[k] = 1..n
        /\ DOMAIN history'[k] = 1..(n + 1)
        /\ \A i \in 1..n : history'[k][i] = history[k][i]
        /\ \A d \in Case \ {k} : history'[d] = history[d]
    BY CommitWrites DEF NormalPathInv, IInv
  <2>2. 1..n \subseteq 1..(n + 1)
    BY <2>1
  <2> HIDE DEF k, n
  <2> QED
    BY <2>1, <2>2
<1>8. Grows
  <2>1. \A c, type : HasActive(c, type)' = HasActive(c, type)
    BY <1>4 DEF HasActive, ActiveDocuments
  <2>2. \A c : Evaluated(c)' = Evaluated(c)
    BY <1>4 DEF Evaluated
  <2> QED
    BY <1>4, <1>6, <1>7, <2>1, <2>2 DEF Grows
<1>9. Earned(t.kase, t.to)'
  BY <1>2, <1>3, <1>8, EarnedStays DEF NormalPathInv, TablesOK
<1>10. TablesOK'
  <2>1. OfferTypeOK' /\ DeliverablesTypeOK' /\ GradingTypeOK'
    BY <1>4, <1>5 DEF NormalPathInv, TablesOK, OfferTypeOK, DeliverablesTypeOK, GradingTypeOK,
                      DocumentsOK, IInv
  <2>2. \A c \in Case : \A s \in Entered(c)' : s \in Entered(c) \/ Earned(c, s)'
    BY <1>6, <1>9
  <2> QED
    BY <1>4, <1>8, <2>1, <2>2, TablesStay DEF NormalPathInv
<1>11. RequestsOK'
  BY <1>8, CommitKeepsRequests DEF NormalPathInv, IInv
<1> QED
  BY <1>5, <1>8, <1>10, <1>11 DEF Kept, NormalPathInv

\* A call that is over leaves its request with what it knew.
LEMMA LeavingKeeps ==
  ASSUME NormalPathInv, NEW r \in Request,
         AbortTransition(r) \/ ReturnFromTransition(r) \/ Crash(r),
         UNCHANGED <<documents, offerVars, deliverableVars, gradingVars>>
  PROVE  Kept
<1>1. UNCHANGED <<state, history>>
  BY LeavingIsNoCall DEF NormalPathInv, IInv
<1>2. IInv' /\ [Lifecycle!Next]_(Lifecycle!vars)
  BY ExecutorKeepsInv DEF NormalPathInv, ExecutorStep
<1>3. QuietTable
  BY <1>1, UnchangedIsQuiet
<1>4. Grows /\ TablesOK'
  BY <1>2, <1>3, QuietTables DEF QuietTable, NormalPathInv, IInv
<1>5. RequestsOK'
  BY <1>4, ReturnKeepsRequests, RespondKeepsRequests
     DEF NormalPathInv, IInv, AbortTransition, Crash
<1> QED
  BY <1>2, <1>4, <1>5 DEF Kept, NormalPathInv

\* A step that is none.
LEMMA StutterKeeps ==
  ASSUME NormalPathInv, UNCHANGED normalPathVars
  PROVE  Kept
<1>1. /\ UNCHANGED <<state, history, pc, tx, frame, documents, offerVars, deliverableVars,
                     gradingVars>>
  BY DEF normalPathVars, coreVars
<1>2. IInv' /\ UNCHANGED Lifecycle!vars
  BY <1>1, QuietStepKeepsInv DEF NormalPathInv, IInv, TypeOK, NoNewCall
<1>3. QuietTable
  BY <1>1, UnchangedIsQuiet
<1>4. Grows /\ TablesOK'
  BY <1>2, <1>3, QuietTables DEF QuietTable, NormalPathInv, IInv
<1>5. RequestsOK'
  BY <1>1, <1>4, OtherRequestsStay DEF NormalPathInv, IInv, RequestsOK
<1> QED
  BY <1>2, <1>4, <1>5 DEF Kept, NormalPathInv

\* Every step keeps the invariant, takes nothing back, and is a step of the
\* abstract lifecycle or one it does not see.
LEMMA NextKeeps ==
  ASSUME NormalPathInv, [NormalPathNext]_normalPathVars
  PROVE  Kept
<1>1. ASSUME NEW r \in Request, RequestOf(r)
      PROVE  Kept
  BY <1>1, OfferRequestKeeps, DeliverableRequestKeeps, GradingRequestKeeps DEF RequestOf
<1>2. ASSUME NEW r \in Request, OfferStep(r), UNCHANGED <<deliverableVars, gradingVars>>
      PROVE  Kept
  BY <1>2, OpenKeeps, SubmitKeeps, ApproveKeeps DEF OfferStep
<1>3. ASSUME NEW r \in Request, DeliverableStep(r), UNCHANGED <<offerVars, gradingVars>>
      PROVE  Kept
  BY <1>3, CertificateKeeps, TokenKeeps, AdvanceKeeps, VerifyKeeps, MarkKeeps DEF DeliverableStep
<1>4. ASSUME NEW r \in Request, GradingStep(r),
             UNCHANGED <<documents, offerVars, deliverableVars>>
      PROVE  Kept
  BY <1>4, DecideKeeps, CreateGradeKeeps DEF GradingStep
<1>5. ASSUME NEW r \in Request, ExecutorStep(r) \/ Crash(r),
             UNCHANGED <<documents, offerVars, deliverableVars, gradingVars>>
      PROVE  Kept
  BY <1>5, CommitStepKeeps, LeavingKeeps DEF ExecutorStep
<1>6. CASE UNCHANGED normalPathVars
  BY <1>6, StutterKeeps
<1> QED
  BY <1>1, <1>2, <1>3, <1>4, <1>5, <1>6 DEF NormalPathNext, ServerOf, StepOf

\* Nothing has happened yet.
LEMMA NothingYet == NormalPathInit => NormalPathInv
<1> SUFFICES ASSUME NormalPathInit PROVE NormalPathInv
  OBVIOUS
<1>1. IInv
  BY InitIsInv DEF NormalPathInit
<1>2. /\ state = [c \in Case |-> NoCase] /\ history = [c \in Case |-> <<>>]
      /\ pc = [r \in Request |-> "idle"] /\ frame = [r \in Request |-> NoFrame]
      /\ documents = <<>> /\ company = [c \in Case |-> NoCompany] /\ plan = [c \in Case |-> NoPlan]
      /\ actualDates = [c \in Case |-> "none"] /\ tokens = <<>> /\ verified = {}
      /\ recommendation = [c \in Case |-> NoRecommendation]
      /\ grades = [c \in Case |-> NoGrade] /\ reversals = {}
  BY DEF NormalPathInit, CoreInit, DocumentsInit, OfferInit, DeliverablesInit, GradingInit
<1>3. OfferTypeOK /\ DeliverablesTypeOK /\ GradingTypeOK
  BY <1>1, <1>2 DEF IInv, OfferTypeOK, DeliverablesTypeOK, GradingTypeOK, DocumentsOK
<1>4. StatesAreEarned
  BY <1>2 DEF StatesAreEarned, Entered, Exists
<1>5. SameLiveToken
  BY <1>2 DEF SameLiveToken, LiveTokens
<1>6. VerifiedWasPending /\ FocalRecommends /\ GradeBacksClosure /\ ReversalsOfGrades
  BY <1>2 DEF VerifiedWasPending, FocalRecommends, GradeBacksClosure, ReversalsOfGrades
<1>7. LinksFollowCompletion
  BY <1>2 DEF LinksFollowCompletion
<1>8. RequestsOK
  <2>1. ASSUME NEW r \in Request PROVE RequestOK(r)
    BY <1>2 DEF RequestOK, LocalsOK, FrameOK, CaseLabel, UserLabel
  <2> QED
    BY <1>2, <2>1 DEF RequestsOK
<1> QED
  BY <1>1, <1>3, <1>4, <1>5, <1>6, <1>7, <1>8 DEF NormalPathInv, TablesOK

-----------------------------------------------------------------------------
(* The theorems.                                                           *)

\* The invariant holds of every reachable state.
THEOREM NormalPathIsSafe == NormalPathSpec => []NormalPathInv
<1>1. NormalPathInv /\ [NormalPathNext]_normalPathVars => NormalPathInv'
  BY NextKeeps DEF Kept
<1> QED
  BY <1>1, NothingYet, PTL DEF NormalPathSpec

\* Cases, documents, companies and plans keep their types.
THEOREM OfferTypes == NormalPathSpec => []OfferTypeOK
<1>1. NormalPathInv => OfferTypeOK
  BY DEF NormalPathInv, TablesOK
<1> QED
  BY <1>1, NormalPathIsSafe, PTL

\* So do dates, links and verifications, which are of documents that exist.
THEOREM DeliverablesTypes == NormalPathSpec => []DeliverablesTypeOK
<1>1. NormalPathInv => DeliverablesTypeOK
  BY DEF NormalPathInv, TablesOK
<1> QED
  BY <1>1, NormalPathIsSafe, PTL

\* So do recommendations, grades and reversals.
THEOREM GradingTypes == NormalPathSpec => []GradingTypeOK
<1>1. NormalPathInv => GradingTypeOK
  BY DEF NormalPathInv, TablesOK
<1> QED
  BY <1>1, NormalPathIsSafe, PTL

\* BR-07: a case that was ever submitted has an offer letter and a company now,
\* however many submissions supersede one another's letters.
THEOREM LettersStayOnFile == NormalPathSpec => []OfferLetterOnFile
<1>1. NormalPathInv => OfferLetterOnFile
  BY DEF NormalPathInv, TablesOK, StatesAreEarned, Earned, OfferLetterOnFile
<1> QED
  BY <1>1, NormalPathIsSafe, PTL

\* One supervisor link of a case is live, whoever issues at the same time.
THEOREM LinksAreUnique == NormalPathSpec => []OneLiveToken
<1>1. NormalPathInv => OneLiveToken
  <2> SUFFICES ASSUME NormalPathInv, NEW c \in Case
               PROVE  Cardinality(LiveTokens(c)) <= 1
    BY DEF OneLiveToken
  <2>1. CASE LiveTokens(c) = {}
    BY <2>1, FS_EmptySet
  <2>2. CASE LiveTokens(c) # {}
    <3>1. PICK i : i \in LiveTokens(c)
      BY <2>2
    <3>2. LiveTokens(c) = {i}
      BY <3>1 DEF NormalPathInv, TablesOK, SameLiveToken
    <3>3. Cardinality({i}) = 1
      BY FS_Singleton
    <3> QED
      BY <3>2, <3>3
  <2> QED
    BY <2>1, <2>2
<1> QED
  BY <1>1, NormalPathIsSafe, PTL

\* BR-10: a case that was ever pending verification has its three deliverables,
\* although they were read before the transition and may be superseded since.
THEOREM DeliverablesPrecedeVerification == NormalPathSpec => []DeliverablesBeforeVerification
<1>1. NormalPathInv => DeliverablesBeforeVerification
  BY DEF NormalPathInv, TablesOK, StatesAreEarned, Earned, DeliverablesBeforeVerification
<1> QED
  BY <1>1, NormalPathIsSafe, PTL

\* BR-11: verifications are of cases that were pending, and a case that was ever
\* verified has a verified document of either type.
THEOREM VerificationsAreEvidence == NormalPathSpec => []EvidenceWasVerified
<1>1. NormalPathInv => EvidenceWasVerified
  <2> SUFFICES ASSUME NormalPathInv PROVE EvidenceWasVerified
    OBVIOUS
  <2>1. \A i \in verified : "PENDING_VERIFICATION" \in Entered(documents[i].kase)
    BY DEF NormalPathInv, TablesOK, VerifiedWasPending, WasPending
  <2>2. \A c \in Case : "VERIFIED" \in Entered(c) =>
          \A type \in DeliverableType :
            \E i \in verified : documents[i].kase = c /\ documents[i].type = type
    BY DEF NormalPathInv, TablesOK, StatesAreEarned, Earned, HasVerified
  <2> QED
    BY <2>1, <2>2 DEF EvidenceWasVerified
<1> QED
  BY <1>1, NormalPathIsSafe, PTL

\* A grade is of a case its awarder closed with it, on somebody else's
\* recommendation, although the row is written after the case closed.
THEOREM GradesBackClosures == NormalPathSpec => []GradeBacksClosure
<1>1. NormalPathInv => GradeBacksClosure
  BY DEF NormalPathInv, TablesOK
<1> QED
  BY <1>1, NormalPathIsSafe, PTL

\* A pass is earned, whatever was denied or cut short on the way: behind it are
\* a company, the deliverables, their verification and a recommendation.
THEOREM PassesAreEarned == NormalPathSpec => []PassIsEarned
<1>1. NormalPathInv => PassIsEarned
  <2> SUFFICES ASSUME NormalPathInv, NEW c \in Case, "CLOSED_PASS" \in Entered(c)
               PROVE  /\ company[c] # NoCompany
                      /\ DeliverablesPresent(c)
                      /\ \A type \in DeliverableType : HasVerified(c, type)
                      /\ recommendation[c] # NoRecommendation
    BY DEF PassIsEarned, HasVerified
  <2>1. \A m \in MUST_FOLLOW : m[1] \in Entered(c) => m[2] \in Entered(c)
    BY DEF NormalPathInv, IInv, NoStageSkipped
  <2>2. /\ "GRADE_RECOMMENDED" \in Entered(c)
        /\ "VERIFIED" \in Entered(c)
        /\ "PENDING_VERIFICATION" \in Entered(c)
    BY <2>1 DEF MUST_FOLLOW
  <2>3. "OFFER_SUBMITTED" \in Entered(c)
    BY <2>1, <2>2 DEF MUST_FOLLOW
  <2> QED
    BY <2>2, <2>3 DEF NormalPathInv, TablesOK, StatesAreEarned, Earned
<1> QED
  BY <1>1, NormalPathIsSafe, PTL

\* BR-14: a grade is never written again, and a reversal is of a grade.
THEOREM GradesStay == NormalPathSpec => GradesAreImmutable
<1> DEFINE Immutable == /\ \A c \in Case : grades[c] # NoGrade => grades'[c] = grades[c]
                        /\ \A v \in reversals' : grades[v[1]] # NoGrade
<1>1. NormalPathInv /\ [NormalPathNext]_normalPathVars => [Immutable]_<<grades, reversals>>
  <2> SUFFICES ASSUME NormalPathInv, NormalPathNext,
                      ~UNCHANGED <<grades, reversals>>
               PROVE  Immutable
    BY DEF normalPathVars, gradingVars
  <2>1. PICK r \in Request : GradingRequest(r) \/ GradingStep(r)
    BY DEF NormalPathNext, RequestOf, ServerOf, StepOf, gradingVars
  <2>2. ~UNCHANGED gradingVars
    BY DEF gradingVars
  <2>3. \A v \in reversals : grades[v[1]] # NoGrade
    BY DEF NormalPathInv, TablesOK, ReversalsOfGrades
  <2>4. ASSUME NEW c \in Case, NEW u \in User, ReverseGrade(r, c, u)
        PROVE  Immutable
    BY <2>3, <2>4 DEF ReverseGrade
  <2>5. CASE AwardCreateGrade(r)
    BY <2>3, <2>5, GradeFacts DEF AwardCreateGrade
  <2>6. ASSUME NEW c \in Case, NEW u \in User, NEW value \in GradeValue
        PROVE  ~RecommendGrade(r, c, u, value) /\ ~AwardGrade(r, c, u, value)
    BY DEF RecommendGrade, AwardGrade, gradingVars
  <2> QED
    BY <2>1, <2>2, <2>4, <2>5, <2>6 DEF GradingRequest, GradingStep, RecommendDecide, AwardDecide
<1> QED
  BY <1>1, NormalPathIsSafe, PTL DEF NormalPathSpec, GradesAreImmutable

\* Nothing a service has checked is taken back while a request that checked it
\* is suspended.
THEOREM EvidenceAccumulates == NormalPathSpec => [][Grows]_normalPathVars
<1>1. NormalPathInv /\ [NormalPathNext]_normalPathVars => [Grows]_normalPathVars
  BY NextKeeps DEF Kept
<1> QED
  BY <1>1, NormalPathIsSafe, PTL DEF NormalPathSpec

\* The services and the executor together implement the abstract lifecycle.
THEOREM NormalPathImplementsLifecycle == NormalPathSpec => ImplementsLifecycle
<1>1. NormalPathInit => Lifecycle!Init
  BY DEF NormalPathInit, CoreInit, Lifecycle!Init, Entered, Exists
<1>2. NormalPathInv /\ [NormalPathNext]_normalPathVars => [Lifecycle!Next]_(Lifecycle!vars)
  BY NextKeeps DEF Kept
<1> QED
  BY <1>1, <1>2, NormalPathIsSafe, PTL DEF NormalPathSpec, ImplementsLifecycle, Lifecycle!Spec


-----------------------------------------------------------------------------
(* While no process dies.  What only one request can do next is always in   *)
(* its hands: a service that asks for a move it must follow up has arranged  *)
(* to go on (CallersKnow), so the follow-up starts where the move commits.   *)

ClosedStates == {"CLOSED_PASS", "CLOSED_INCOMPLETE"}

\* What a request at label, with the executor's locals t and its service's
\* locals f, has arranged.
CallerKnows(label, t, f) ==
  /\ label \in {"commit", "committed"} =>
       /\ t.to = "OFFER_SUBMITTED" => t.next = "offer:queue" /\ t.kase = f.kase
       /\ t.to = "APPROVED" => t.next = "approve:start" /\ t.kase = f.kase
       /\ t.to \in ClosedStates => t.next = "award:grade" /\ t.kase = f.kase
       /\ t.next = "award:grade" => f.user # f.recommendedBy
  /\ label = "award:grade" => f.user # f.recommendedBy

CallersKnow == \A r \in Request : CallerKnows(pc[r], tx[r], frame[r])

SteadyInv == CallersKnow /\ TransientCasesMoveOn /\ ClosuresAreBeingGraded

\* Where a request may have a case in its hands.
CarrierLabel ==
  {"open:confirm", "offer:queue", "approve:start", "award:grade", "commit", "committed"}

\* A step that changes no case and no grade, by a request with none in its hands.
EmptyHanded(r) ==
  /\ UNCHANGED <<state, history, grades>>
  /\ pc[r] \notin CarrierLabel
  /\ OnlyRuns(r)
  /\ CallerKnows(pc[r], tx[r], frame[r])'

LEMMA EmptyHandedStep ==
  ASSUME IInv, SteadyInv, NEW r \in Request, EmptyHanded(r)
  PROVE  SteadyInv'
<1>1. CallersKnow'
  BY DEF SteadyInv, CallersKnow, EmptyHanded, OnlyRuns
<1>2. \A c \in Case : Entered(c)' = Entered(c)
  BY TablesKeepInv DEF EmptyHanded
<1>3. TransientCasesMoveOn'
  <2> SUFFICES ASSUME NEW c \in Case, state[c] \in TransientState
               PROVE  \E q \in Request : MovesOn(q, c)'
    BY DEF TransientCasesMoveOn, EmptyHanded
  <2>1. PICK q \in Request : MovesOn(q, c)
    BY DEF SteadyInv, TransientCasesMoveOn
  <2>2. q # r
    BY <2>1 DEF MovesOn, EmptyHanded, CarrierLabel, ChainedStep, At
  <2>3. MovesOn(q, c)'
    BY <2>1, <2>2 DEF MovesOn, EmptyHanded, OnlyRuns, At
  <2> QED
    BY <2>3
<1>4. ClosuresAreBeingGraded'
  <2> SUFFICES ASSUME NEW c \in Case, Entered(c) \cap {"CLOSED_PASS", "CLOSED_INCOMPLETE"} # {},
                      grades[c] = NoGrade
               PROVE  \E q \in Request : GradeIsComing(q, c)'
    BY <1>2 DEF ClosuresAreBeingGraded, EmptyHanded
  <2>1. PICK q \in Request : GradeIsComing(q, c)
    BY DEF SteadyInv, ClosuresAreBeingGraded
  <2>2. q # r
    BY <2>1 DEF GradeIsComing, EmptyHanded, CarrierLabel, At
  <2>3. GradeIsComing(q, c)'
    BY <2>1, <2>2 DEF GradeIsComing, EmptyHanded, OnlyRuns, At
  <2> QED
    BY <2>3
<1> QED
  BY <1>1, <1>3, <1>4 DEF SteadyInv

\* A request that awaits has arranged nothing, unless it awaits a grade.
LEMMA AwaitEmptyHanded ==
  ASSUME TypeOK, DOMAIN frame = Request, NEW r \in Request,
         NEW label \in Continuation \ {"award:grade"}, NEW f, Await(r, label, f),
         pc[r] \notin CarrierLabel, UNCHANGED <<state, history, grades>>
  PROVE  EmptyHanded(r)
<1>1. OnlyRuns(r) /\ pc'[r] = label
  BY AwaitRuns
<1>2. label \notin {"commit", "committed", "award:grade"}
  BY DEF Continuation
<1> QED
  BY <1>1, <1>2 DEF EmptyHanded, CallerKnows

\* Nor has one that is answered.
LEMMA RespondEmptyHanded ==
  ASSUME TypeOK, DOMAIN frame = Request, NEW r \in Request, Respond(r),
         pc[r] \notin CarrierLabel, UNCHANGED <<state, history, grades>>
  PROVE  EmptyHanded(r)
BY RespondRuns DEF EmptyHanded, CallerKnows

\* What a service must have arranged when it asks for a move to `to`.
Arranged(f, c, to, next) ==
  /\ to = "OFFER_SUBMITTED" => next = "offer:queue" /\ c = f.kase
  /\ to = "APPROVED" => next = "approve:start" /\ c = f.kase
  /\ to \in ClosedStates => next = "award:grade" /\ c = f.kase
  /\ next = "award:grade" => f.user # f.recommendedBy

LEMMA BeginEmptyHanded ==
  ASSUME TypeOK, NEW r \in Request, NEW c, NEW to, NEW actor, NEW reason, NEW ctx, NEW next,
         BeginTransition(r, c, to, actor, reason, ctx, next), UNCHANGED <<frame, grades>>,
         pc[r] \notin CarrierLabel, Arranged(frame[r], c, to, next)
  PROVE  EmptyHanded(r)
<1>1. /\ OnlyRuns(r)
      /\ pc'[r] = "commit" /\ frame'[r] = frame[r]
      /\ tx'[r].kase = c /\ tx'[r].to = to /\ tx'[r].next = next
  BY BeginRuns
<1>2. UNCHANGED <<state, history>>
  BY DEF BeginTransition
<1>3. PICK t, f : t = tx'[r] /\ f = frame[r]
  OBVIOUS
<1>4. CallerKnows("commit", t, f)
  BY <1>1, <1>3 DEF CallerKnows, Arranged
<1> QED
  BY <1>1, <1>2, <1>3, <1>4 DEF EmptyHanded

LEMMA CallEmptyHanded ==
  ASSUME TypeOK, DOMAIN frame = Request, NEW r \in Request,
         NEW c, NEW to, NEW actor, NEW reason, NEW ctx, NEW next,
         TransitionOrFail(r, c, to, actor, reason, ctx, next), UNCHANGED grades,
         pc[r] \notin CarrierLabel, Arranged(frame[r], c, to, next) \/ Denied(c, to, actor, reason, ctx)
  PROVE  EmptyHanded(r)
<1>1. CASE BeginTransition(r, c, to, actor, reason, ctx, next) /\ UNCHANGED frame
  <2>1. Arranged(frame[r], c, to, next)
    BY <1>1 DEF BeginTransition, Denied
  <2> QED
    BY <1>1, <2>1, BeginEmptyHanded
<1>2. CASE Respond(r) /\ UNCHANGED <<state, history>>
  BY <1>2, RespondEmptyHanded
<1> QED
  BY <1>1, <1>2 DEF TransitionOrFail


\* The steps of the offer services that have no case in their hands yet.
LEMMA OfferEmptyHanded ==
  ASSUME TypeOK, DOMAIN frame = Request, NEW r \in Request, UNCHANGED grades,
         OfferRequest(r) \/ OfferStore(r) \/ OfferDetails(r) \/ OfferSubmit(r) \/ ApproveDecide(r)
  PROVE  EmptyHanded(r)
<1> DEFINE Waits == CaseLabel \cup {"open:create"}
<1>1. Waits \subseteq Continuation
  BY LabelsContinue
<1>2. CASE OfferRequest(r)
  <2>1. pc[r] \notin CarrierLabel
    BY <1>2 DEF OfferRequest, OpenCase, WithdrawCase, SubmitOffer, ApproveOffer, RejectOffer, Accepts,
           CarrierLabel
  <2>2. ASSUME NEW u \in User, OpenCase(r, u) PROVE EmptyHanded(r)
    BY <1>1, <2>1, <2>2, AwaitEmptyHanded DEF OpenCase
  <2>3. ASSUME NEW c \in Case, WithdrawCase(r, c) PROVE EmptyHanded(r)
    <3>1. Arranged(frame[r], c, "WITHDRAWN", "idle")
      BY DEF Arranged, ClosedStates
    <3> QED
      BY <2>1, <2>3, <3>1, BeginEmptyHanded DEF WithdrawCase
  <2>4. ASSUME NEW c \in Case, NEW k \in Company, SubmitOffer(r, c, k) PROVE EmptyHanded(r)
    BY <1>1, <2>1, <2>4, AwaitEmptyHanded DEF SubmitOffer, CaseLabel
  <2>5. ASSUME NEW c \in Case, NEW u \in User, NEW p \in Plans, ApproveOffer(r, c, u, p)
        PROVE  EmptyHanded(r)
    BY <1>1, <2>1, <2>5, AwaitEmptyHanded DEF ApproveOffer, CaseLabel
  <2>6. ASSUME NEW c \in Case, NEW u \in User, RejectOffer(r, c, u) PROVE EmptyHanded(r)
    <3>1. Arranged(frame[r], c, "OFFER_REJECTED", "idle")
      BY DEF Arranged, ClosedStates
    <3> QED
      BY <2>1, <2>6, <3>1, BeginEmptyHanded DEF RejectOffer
  <2> QED
    BY <1>2, <2>2, <2>3, <2>4, <2>5, <2>6 DEF OfferRequest
<1>3. CASE OfferStore(r) \/ OfferDetails(r)
  <2>1. pc[r] \notin CarrierLabel
    BY <1>3 DEF OfferStore, OfferDetails, At, CarrierLabel
  <2> QED
    BY <1>1, <1>3, <2>1, AwaitEmptyHanded DEF OfferStore, OfferDetails, CaseLabel
<1>4. CASE OfferSubmit(r)
  <2>1. pc[r] \notin CarrierLabel
    BY <1>4 DEF OfferSubmit, At, CarrierLabel
  <2>2. Arranged(frame[r], frame[r].kase, "OFFER_SUBMITTED", "offer:queue")
    BY DEF Arranged, ClosedStates
  <2> QED
    BY <1>4, <2>1, <2>2, CallEmptyHanded DEF OfferSubmit
<1>5. CASE ApproveDecide(r)
  <2>1. pc[r] \notin CarrierLabel
    BY <1>5 DEF ApproveDecide, At, CarrierLabel
  <2>2. Arranged(frame[r], frame[r].kase, "APPROVED", "approve:start")
    BY DEF Arranged, ClosedStates
  <2> QED
    BY <1>5, <2>1, <2>2, CallEmptyHanded DEF ApproveDecide
<1> QED
  BY <1>2, <1>3, <1>4, <1>5

\* Those of the deliverables never have one.
LEMMA DeliverableEmptyHanded ==
  ASSUME TypeOK, DOMAIN frame = Request, NEW r \in Request, UNCHANGED grades,
         DeliverableRequest(r) \/ DeliverableStep(r)
  PROVE  EmptyHanded(r)
<1> DEFINE Waits == CaseLabel \ {"award:grade"}
<1>1. Waits \subseteq Continuation \ {"award:grade"}
  BY LabelsContinue
<1>2. pc[r] \notin CarrierLabel
  <2>1. CASE DeliverableRequest(r)
    BY <2>1 DEF DeliverableRequest, CompleteInternship, UploadCertificate, IssueToken, MarkVerified,
           SubmitEvaluation, VerifyDocument, Accepts, CarrierLabel
  <2>2. CASE DeliverableStep(r)
    <3>1. pc[r] \in {"complete:decide", "cert:scan", "cert:store", "token:revoke", "token:create",
                     "eval:store", "advance:facts", "advance:move", "verify:create", "mark:read",
                     "mark:decide"}
      BY <2>2, Zenon DEF DeliverableStep, CompleteDecide, CertificateScan, CertificateStore,
             TokenRevoke, TokenCreate, EvaluationStore, AdvanceFacts, AdvanceMove, VerifyCreate,
             MarkRead, MarkDecide, At
    <3> QED
      BY <3>1 DEF CarrierLabel
  <2> QED
    BY <2>1, <2>2
<1>3. ASSUME NEW c \in Case, NEW dates, CompleteInternship(r, c, dates) PROVE EmptyHanded(r)
  BY <1>1, <1>2, <1>3, AwaitEmptyHanded DEF CompleteInternship, CaseLabel
<1>4. ASSUME NEW c \in Case, UploadCertificate(r, c) PROVE EmptyHanded(r)
  BY <1>1, <1>2, <1>4, AwaitEmptyHanded DEF UploadCertificate, CaseLabel
<1>5. ASSUME NEW c \in Case, NEW u \in User, IssueToken(r, c, u) \/ MarkVerified(r, c, u)
      PROVE  EmptyHanded(r)
  BY <1>1, <1>2, <1>5, AwaitEmptyHanded DEF IssueToken, MarkVerified, CaseLabel
<1>6. ASSUME NEW i, SubmitEvaluation(r, i) PROVE EmptyHanded(r)
  BY <1>1, <1>2, <1>6, AwaitEmptyHanded DEF SubmitEvaluation, CaseLabel
<1>7. ASSUME NEW i, NEW u \in User, VerifyDocument(r, i, u) PROVE EmptyHanded(r)
  BY <1>1, <1>2, <1>7, AwaitEmptyHanded DEF VerifyDocument, CaseLabel
<1>8. \A c, to : to \in {"DOCS_PENDING", "PENDING_VERIFICATION", "VERIFIED"} =>
        Arranged(frame[r], c, to, "idle")
  BY DEF Arranged, ClosedStates
<1>9. CASE CompleteDecide(r) \/ AdvanceMove(r) \/ MarkDecide(r)
  BY <1>2, <1>8, <1>9, CallEmptyHanded DEF CompleteDecide, AdvanceMove, MarkDecide
<1>10. CASE CertificateScan(r) \/ CertificateStore(r) \/ TokenRevoke(r)
  BY <1>1, <1>2, <1>10, AwaitEmptyHanded
     DEF CertificateScan, CertificateStore, TokenRevoke, CaseLabel
<1>11. CASE TokenCreate(r) \/ VerifyCreate(r)
  BY <1>2, <1>11, RespondEmptyHanded DEF TokenCreate, VerifyCreate
<1>12. CASE EvaluationStore(r) \/ AdvanceFacts(r)
  BY <1>1, <1>2, <1>12, AwaitEmptyHanded, RespondEmptyHanded
     DEF EvaluationStore, AdvanceFacts, CaseLabel
<1>13. CASE MarkRead(r)
  <2>1. PICK label, f : label \in {"mark:decide", "mark:read"} /\ Await(r, label, f)
    BY <1>13 DEF MarkRead
  <2> QED
    BY <1>1, <1>2, <1>13, <2>1, AwaitEmptyHanded DEF MarkRead, CaseLabel
<1> QED
  BY <1>3, <1>4, <1>5, <1>6, <1>7, <1>9, <1>10, <1>11, <1>12, <1>13
     DEF DeliverableRequest, DeliverableStep

\* Nor have those of the grades before a closing: the guard of its rows is what
\* the grade's CHECK asks for.
LEMMA ClosingIsGuarded ==
  ASSUME NEW c, NEW to \in ClosedStates, NEW actor, NEW reason, NEW ctx,
         ~Denied(c, to, actor, reason, ctx)
  PROVE  "recommenderNotAwarder" \in ctx
<1>1. PICK t \in TRANSITIONS : t.to = to /\ t.guards \subseteq ctx
  BY DEF Denied, Admits
<1>2. "recommenderNotAwarder" \in t.guards
  BY <1>1 DEF ClosedStates, TRANSITIONS, NormalRows, RestartRows, WaiverRows, Row
<1> QED
  BY <1>1, <1>2

LEMMA GradingEmptyHanded ==
  ASSUME TypeOK, DOMAIN frame = Request, NEW r \in Request,
         (GradingRequest(r) /\ CallersKnow) \/ RecommendDecide(r) \/ AwardDecide(r)
  PROVE  EmptyHanded(r)
<1> DEFINE Waits == CaseLabel \ {"award:grade"}
<1>1. Waits \subseteq Continuation \ {"award:grade"}
  BY LabelsContinue
<1>2. pc[r] \notin CarrierLabel
  BY DEF GradingRequest, RecommendGrade, AwardGrade, ReverseGrade, RecommendDecide, AwardDecide,
         Accepts, At, CarrierLabel
<1>3. ASSUME NEW c \in Case, NEW u \in User, NEW value,
             RecommendGrade(r, c, u, value) \/ AwardGrade(r, c, u, value)
      PROVE  EmptyHanded(r)
  BY <1>1, <1>2, <1>3, AwaitEmptyHanded DEF RecommendGrade, AwardGrade, gradingVars, CaseLabel
<1>4. ASSUME CallersKnow, NEW c \in Case, NEW u \in User, ReverseGrade(r, c, u)
      PROVE  EmptyHanded(r)
  BY <1>2, <1>4 DEF ReverseGrade, coreVars, EmptyHanded, OnlyRuns, CallersKnow
<1>5. CASE RecommendDecide(r)
  <2>1. Arranged(frame[r], frame[r].kase, "GRADE_RECOMMENDED", "idle")
    BY DEF Arranged, ClosedStates
  <2> QED
    BY <1>2, <1>5, <2>1, CallEmptyHanded DEF RecommendDecide, gradingVars
<1>6. CASE AwardDecide(r)
  <2> DEFINE f == frame[r]
             to == TargetState(f.value)
             ctx == IF f.user # f.recommendedBy THEN {"recommenderNotAwarder"} ELSE {}
  <2>1. to \in ClosedStates
    BY DEF TargetState, ClosedStates
  <2>2. ASSUME ~Denied(f.kase, to, f.user, TRUE, ctx)
        PROVE  Arranged(f, f.kase, to, "award:grade")
    <3>1. "recommenderNotAwarder" \in ctx
      BY <2>1, <2>2, ClosingIsGuarded
    <3> QED
      BY <2>1, <3>1 DEF Arranged, ClosedStates
  <2> QED
    BY <1>2, <1>6, <2>2, CallEmptyHanded DEF AwardDecide, gradingVars
<1> QED
  BY <1>3, <1>4, <1>5, <1>6 DEF GradingRequest


\* Whatever r does, a case or a grade in the hands of another request stays there.
LEMMA OthersHoldOn ==
  ASSUME NEW r, NEW q \in Request, q # r, OnlyRuns(r), NEW c
  PROVE  /\ MovesOn(q, c) /\ state'[c] = state[c] => MovesOn(q, c)'
         /\ GradeIsComing(q, c) => GradeIsComing(q, c)'
BY DEF OnlyRuns, MovesOn, GradeIsComing, At

\* A new row has been in no state but its first.
LEMMA InsertEnters ==
  ASSUME IInv, NEW c \in Case, NEW s \in GENESIS_STATES, InsertCase(c, s), UNCHANGED history
  PROVE  /\ ~Exists(c)
         /\ state'[c] = s /\ \A d \in Case \ {c} : state'[d] = state[d]
         /\ Entered(c)' = {s} /\ \A d \in Case \ {c} : Entered(d)' = Entered(d)
<1>1. /\ ~Exists(c) /\ s # NoCase
      /\ state'[c] = s /\ \A d \in Case \ {c} : state'[d] = state[d]
  BY ConstantsOK DEF InsertCase, IInv, TypeOK, CaseState, GENESIS_STATES
<1>2. history'[c] = <<>> /\ history' = history
  BY <1>1 DEF IInv, HistoryExplainsState
<1>3. Exists(c)' /\ Origin(c)' = s
  BY <1>1, <1>2 DEF Exists, Origin
<1>4. Entered(c)' = {s}
  BY <1>1, <1>2, <1>3 DEF Entered
<1>5. \A d \in Case \ {c} : Entered(d)' = Entered(d)
  BY <1>1, <1>2 DEF Entered, Exists, Origin
<1> QED
  BY <1>1, <1>4, <1>5

\* openCase() has the row it inserts in its hands.
LEMMA OpenHolds ==
  ASSUME NormalPathInv, SteadyInv, NEW r \in Request, OpenCreate(r), UNCHANGED grades
  PROVE  SteadyInv'
<1>1. PICK f : f = frame[r]
  OBVIOUS
<1>2. PICK u \in User : f = [kase |-> NoCase, user |-> u]
  BY <1>1, FrameOf DEF OpenCreate, At, FrameOK
<1>3. pc[r] \notin CarrierLabel
  BY DEF OpenCreate, At, CarrierLabel
<1>4. IInv /\ TypeOK /\ DOMAIN frame = Request /\ UNCHANGED history
  BY DEF NormalPathInv, IInv, RequestsOK, OpenCreate
<1>5. ASSUME NEW c \in Case, InsertCase(c, "ELIGIBILITY_PENDING"),
             Await(r, "open:confirm", [f EXCEPT !.kase = c])
      PROVE  SteadyInv'
  <2>1. PICK g : g = [f EXCEPT !.kase = c]
    OBVIOUS
  <2>2. g.kase = c
    BY <1>2, <2>1
  <2>3. OnlyRuns(r) /\ pc'[r] = "open:confirm" /\ frame'[r] = g
    BY <1>4, <1>5, <2>1, AwaitRuns
  <2>4. "ELIGIBILITY_PENDING" \in GENESIS_STATES
    BY DEF GENESIS_STATES
  <2>5. /\ state'[c] = "ELIGIBILITY_PENDING"
        /\ \A d \in Case \ {c} : state'[d] = state[d]
        /\ Entered(c)' = {"ELIGIBILITY_PENDING"}
        /\ \A d \in Case \ {c} : Entered(d)' = Entered(d)
    BY <1>4, <1>5, <2>4, InsertEnters
  <2>6. CallersKnow'
    <3>1. CallerKnows(pc[r], tx[r], frame[r])'
      BY <2>3 DEF CallerKnows
    <3> QED
      BY <2>3, <3>1 DEF SteadyInv, CallersKnow, OnlyRuns
  <2>7. TransientCasesMoveOn'
    <3>1. MovesOn(r, c)'
      BY <2>2, <2>3, <2>5 DEF MovesOn, ChainedStep, At
    <3>2. ASSUME NEW d \in Case \ {c}, state'[d] \in TransientState
          PROVE  \E q \in Request : MovesOn(q, d)'
      <4>1. PICK q \in Request : MovesOn(q, d)
        BY <2>5, <3>2 DEF SteadyInv, TransientCasesMoveOn
      <4>2. q # r
        BY <1>3, <4>1 DEF MovesOn, CarrierLabel, ChainedStep, At
      <4> QED
        BY <2>3, <2>5, <4>1, <4>2, OthersHoldOn
    <3> QED
      BY <3>1, <3>2 DEF TransientCasesMoveOn
  <2>8. ClosuresAreBeingGraded'
    <3> SUFFICES ASSUME NEW d \in Case,
                        Entered(d)' \cap {"CLOSED_PASS", "CLOSED_INCOMPLETE"} # {},
                        grades[d] = NoGrade
                 PROVE  \E q \in Request : GradeIsComing(q, d)'
      BY DEF ClosuresAreBeingGraded
    <3>1. Entered(d) \cap {"CLOSED_PASS", "CLOSED_INCOMPLETE"} # {}
      BY <2>5
    <3>2. PICK q \in Request : GradeIsComing(q, d)
      BY <3>1 DEF SteadyInv, ClosuresAreBeingGraded
    <3>3. q # r
      BY <1>3, <3>2 DEF GradeIsComing, CarrierLabel, At
    <3> QED
      BY <2>3, <3>2, <3>3, OthersHoldOn
  <2> QED
    BY <2>6, <2>7, <2>8 DEF SteadyInv
<1>6. ASSUME Respond(r), UNCHANGED state
      PROVE  SteadyInv'
  BY <1>3, <1>4, <1>6, RespondEmptyHanded, EmptyHandedStep
<1> QED
  BY <1>1, <1>5, <1>6 DEF OpenCreate

\* The executor admits what follows up: the System's rows ask for nothing else.
LEMMA FollowUpIsAdmitted ==
  ASSUME NEW c \in Case, NEW m \in ChainedStep, state[c] = m.state, NEW ctx,
         m.label = "open:confirm" => "eligibilityConfirmed" \in ctx
  PROVE  ~Denied(c, m.to, System, FALSE, ctx)
<1>1. Exists(c)
  BY ConstantsOK DEF Exists, ChainedStep, CaseState
<1> DEFINE guards == IF m.label = "open:confirm" THEN {"eligibilityConfirmed"} ELSE {}
           row == Row(m.state, m.to, "SYSTEM", guards, FALSE)
<1>2. row \in TRANSITIONS
  <2>1. /\ Row("ELIGIBILITY_PENDING", "ELIGIBLE", "SYSTEM", {"eligibilityConfirmed"}, FALSE)
             \in TRANSITIONS
        /\ Row("OFFER_SUBMITTED", "OFFER_UNDER_REVIEW", "SYSTEM", {}, FALSE) \in TRANSITIONS
        /\ Row("APPROVED", "IN_PROGRESS", "SYSTEM", {}, FALSE) \in TRANSITIONS
    BY DEF TRANSITIONS, NormalRows
  <2>2. CASE m.label = "open:confirm"
    <3>1. m.state = "ELIGIBILITY_PENDING" /\ m.to = "ELIGIBLE"
      BY <2>2 DEF ChainedStep
    <3> QED
      BY <2>1, <2>2, <3>1
  <2>3. CASE m.label = "offer:queue"
    <3>1. m.state = "OFFER_SUBMITTED" /\ m.to = "OFFER_UNDER_REVIEW"
      BY <2>3 DEF ChainedStep
    <3> QED
      BY <2>1, <2>3, <3>1
  <2>4. CASE m.label = "approve:start"
    <3>1. m.state = "APPROVED" /\ m.to = "IN_PROGRESS"
      BY <2>4 DEF ChainedStep
    <3> QED
      BY <2>1, <2>4, <3>1
  <2>5. m.label \in {"open:confirm", "offer:queue", "approve:start"}
    BY DEF ChainedStep
  <2> HIDE DEF row
  <2> QED
    BY <2>2, <2>3, <2>4, <2>5
<1>3. /\ row.from = state[c] /\ row.to = m.to /\ row.actorRole = "SYSTEM"
      /\ row.guards \subseteq ctx /\ ~row.requiresReason
  BY DEF Row
<1> HIDE DEF row
<1>4. "SYSTEM" \in Authority(System)
  BY DEF Authority
<1> QED
  BY <1>1, <1>2, <1>3, <1>4 DEF Denied, Admits

\* So the request that has the case in its hands goes on to its commit.
LEMMA FollowUpHolds ==
  ASSUME IInv, DOMAIN frame = Request, SteadyInv, NEW r \in Request, NEW m \in ChainedStep, NEW ctx,
         m.label = "open:confirm" => "eligibilityConfirmed" \in ctx,
         At(r, m.label), UNCHANGED grades,
         TransitionOrFail(r, frame[r].kase, m.to, System, FALSE, ctx, "idle")
  PROVE  SteadyInv'
<1>1. PICK k : k = frame[r].kase
  OBVIOUS
<1>2. TypeOK /\ UNCHANGED <<state, history>>
  BY DEF IInv, TransitionOrFail, BeginTransition
<1>3. \A c \in Case : Entered(c)' = Entered(c)
  BY <1>2, TablesKeepInv
<1>4. /\ OnlyRuns(r)
      /\ CallerKnows(pc[r], tx[r], frame[r])'
      /\ state[k] = m.state /\ k \in Case => MovesOn(r, k)'
  <2>1. CASE BeginTransition(r, k, m.to, System, FALSE, ctx, "idle") /\ UNCHANGED frame
    <3>1. /\ OnlyRuns(r)
          /\ pc'[r] = "commit" /\ frame'[r] = frame[r]
          /\ tx'[r].kase = k /\ tx'[r].to = m.to /\ tx'[r].next = "idle"
      BY <1>2, <2>1, BeginRuns
    <3>2. m.to \notin {"OFFER_SUBMITTED", "APPROVED"} \cup ClosedStates
      BY DEF ChainedStep, ClosedStates
    <3>3. CallerKnows(pc[r], tx[r], frame[r])'
      BY <3>1, <3>2 DEF CallerKnows
    <3>4. state[k] = m.state => MovesOn(r, k)'
      BY <1>2, <3>1 DEF MovesOn
    <3> QED
      BY <3>1, <3>3, <3>4
  <2>2. CASE Denied(k, m.to, System, FALSE, ctx) /\ Respond(r)
    <3>1. OnlyRuns(r) /\ pc'[r] = "idle"
      BY <1>2, <2>2, RespondRuns
    <3>2. ~(state[k] = m.state /\ k \in Case)
      BY <2>2, FollowUpIsAdmitted
    <3> QED
      BY <3>1, <3>2 DEF CallerKnows
  <2> QED
    BY <1>1, <2>1, <2>2 DEF TransitionOrFail
<1>5. CallersKnow'
  BY <1>4 DEF SteadyInv, CallersKnow, OnlyRuns
<1>6. TransientCasesMoveOn'
  <2> SUFFICES ASSUME NEW c \in Case, state[c] \in TransientState
               PROVE  \E q \in Request : MovesOn(q, c)'
    BY <1>2 DEF TransientCasesMoveOn
  <2>1. PICK q \in Request : MovesOn(q, c)
    BY DEF SteadyInv, TransientCasesMoveOn
  <2>2. CASE q = r
    <3>1. c = k /\ state[c] = m.state
      BY <1>1, <2>1, <2>2 DEF MovesOn, ChainedStep, At
    <3> QED
      BY <1>4, <3>1
  <2>3. CASE q # r
    BY <1>2, <1>4, <2>1, <2>3, OthersHoldOn
  <2> QED
    BY <2>2, <2>3
<1>7. ClosuresAreBeingGraded'
  <2> SUFFICES ASSUME NEW c \in Case, Entered(c) \cap {"CLOSED_PASS", "CLOSED_INCOMPLETE"} # {},
                      grades[c] = NoGrade
               PROVE  \E q \in Request : GradeIsComing(q, c)'
    BY <1>3 DEF ClosuresAreBeingGraded
  <2>1. PICK q \in Request : GradeIsComing(q, c)
    BY DEF SteadyInv, ClosuresAreBeingGraded
  <2>2. q # r
    BY <2>1 DEF GradeIsComing, ChainedStep, At
  <2> QED
    BY <1>4, <2>1, <2>2, OthersHoldOn
<1> QED
  BY <1>5, <1>6, <1>7 DEF SteadyInv


\* The grade of a case that is in r's hands is written, if it was not already.
LEMMA GradeHolds ==
  ASSUME NormalPathInv, SteadyInv, NEW r \in Request, AwardCreateGrade(r)
  PROVE  SteadyInv'
<1>1. PICK f : f = frame[r]
  OBVIOUS
<1>2. /\ pc[r] = "award:grade" /\ Respond(r) /\ UNCHANGED <<state, history>>
      /\ TypeOK /\ DOMAIN frame = Request
  BY DEF AwardCreateGrade, At, NormalPathInv, IInv, RequestsOK
<1>3. OnlyRuns(r) /\ pc'[r] = "idle"
  BY <1>2, RespondRuns
<1>4. \A c \in Case : Entered(c)' = Entered(c)
  BY <1>2, TablesKeepInv DEF NormalPathInv
<1>5. \A c \in Case : grades[c] # NoGrade => grades'[c] # NoGrade
  BY GradeFacts
<1>6. f.kase \in Case => grades'[f.kase] # NoGrade
  <2> SUFFICES ASSUME f.kase \in Case, grades[f.kase] = NoGrade
               PROVE  grades'[f.kase] # NoGrade
    BY <1>5
  <2> DEFINE new == [value |-> f.value, recommendedBy |-> f.recommendedBy, awardedBy |-> f.user]
  <2>1. f.user # f.recommendedBy
    BY <1>1, <1>2 DEF SteadyInv, CallersKnow, CallerKnows
  <2>2. grades' = [grades EXCEPT ![f.kase] = new]
    BY <1>1, <2>1 DEF AwardCreateGrade
  <2>3. new # NoGrade
    <3>1. f.user \in User
      BY <1>1, <1>2, FrameOf DEF UserLabel
    <3>2. new.awardedBy = f.user /\ NoGrade.awardedBy = System
      BY DEF NoGrade
    <3> QED
      BY <3>1, <3>2, ConstantsOK
  <2> HIDE DEF new
  <2> QED
    BY <2>2, <2>3 DEF NormalPathInv, TablesOK, GradingTypeOK
<1>7. CallersKnow'
  <2>1. CallerKnows(pc[r], tx[r], frame[r])'
    BY <1>3 DEF CallerKnows
  <2> QED
    BY <1>3, <2>1 DEF SteadyInv, CallersKnow, OnlyRuns
<1>8. TransientCasesMoveOn'
  <2> SUFFICES ASSUME NEW c \in Case, state[c] \in TransientState
               PROVE  \E q \in Request : MovesOn(q, c)'
    BY <1>2 DEF TransientCasesMoveOn
  <2>1. PICK q \in Request : MovesOn(q, c)
    BY DEF SteadyInv, TransientCasesMoveOn
  <2>2. q # r
    BY <1>2, <2>1 DEF MovesOn, ChainedStep, At
  <2> QED
    BY <1>2, <1>3, <2>1, <2>2, OthersHoldOn
<1>9. ClosuresAreBeingGraded'
  <2> SUFFICES ASSUME NEW c \in Case, Entered(c) \cap {"CLOSED_PASS", "CLOSED_INCOMPLETE"} # {},
                      grades'[c] = NoGrade
               PROVE  \E q \in Request : GradeIsComing(q, c)'
    BY <1>4 DEF ClosuresAreBeingGraded
  <2>1. PICK q \in Request : GradeIsComing(q, c)
    BY <1>5 DEF SteadyInv, ClosuresAreBeingGraded
  <2>2. q # r
    BY <1>1, <1>6, <2>1 DEF GradeIsComing
  <2> QED
    BY <1>3, <2>1, <2>2, OthersHoldOn
<1> QED
  BY <1>7, <1>8, <1>9 DEF SteadyInv

\* No row leads back to the state a case is opened in.
LEMMA NobodyReopens ==
  ASSUME NEW e, Permitted(e)
  PROVE  e.to # "ELIGIBILITY_PENDING"
BY DEF Permitted, TRANSITIONS, NormalRows, RestartRows, WaiverRows, Row

\* A commit takes a case out of the hands of others only by taking it on; what
\* it has to follow up is in r's.
LEMMA CommitHolds ==
  ASSUME IInv, DOMAIN frame = Request, SteadyInv, NEW r \in Request, CommitTransition(r),
         UNCHANGED grades
  PROVE  SteadyInv'
<1>1. PICK t, k, f : t = tx[r] /\ k = t.kase /\ f = frame[r]
  OBVIOUS
<1>2. /\ t \in InFlight /\ k \in Case
      /\ state'[k] = t.to
      /\ \A d \in Case \ {k} : state'[d] = state[d]
  BY <1>1, CommitWrites DEF IInv, InFlight
<1>3. \A c \in Case : Entered(c)' = IF c = k THEN Entered(c) \cup {t.to} ELSE Entered(c)
  BY <1>1, CommitEnters, CoreFollows DEF IInv, CoreInv
<1>4. /\ pc[r] = "commit" /\ pc'[r] = "committed"
      /\ tx' = tx /\ frame' = frame
      /\ OnlyRuns(r)
  BY DEF CommitTransition, OnlyRuns, IInv, TypeOK
<1>5. CallerKnows("commit", t, f) /\ CallerKnows("committed", t, f)
  <2>1. CallerKnows("commit", t, f)
    BY <1>1, <1>4 DEF SteadyInv, CallersKnow
  <2> QED
    BY <2>1 DEF CallerKnows
<1>6. CallersKnow'
  <2>1. CallerKnows(pc[r], tx[r], frame[r])'
    BY <1>1, <1>4, <1>5
  <2> QED
    BY <1>4, <2>1 DEF SteadyInv, CallersKnow, OnlyRuns
<1>7. TransientCasesMoveOn'
  <2> SUFFICES ASSUME NEW c \in Case, state'[c] \in TransientState
               PROVE  \E q \in Request : MovesOn(q, c)'
    BY DEF TransientCasesMoveOn
  <2>1. CASE c = k
    <3>1. t.to # "ELIGIBILITY_PENDING"
      <4>1. Permitted(EventOf(t)) /\ EventOf(t).to = t.to
        BY <1>1, <1>4 DEF IInv, CallsInFlight, EventOf
      <4> QED
        BY <4>1, NobodyReopens
    <3>2. t.to \in {"OFFER_SUBMITTED", "APPROVED"}
      BY <1>2, <2>1, <3>1 DEF TransientState
    <3>3. /\ f.kase = k
          /\ t.to = "OFFER_SUBMITTED" => t.next = "offer:queue"
          /\ t.to = "APPROVED" => t.next = "approve:start"
      BY <1>1, <1>5, <3>2 DEF CallerKnows
    <3>4. PICK m \in ChainedStep : m.state = t.to /\ m.label = t.next
      BY <3>2, <3>3 DEF ChainedStep
    <3>5. MovesOn(r, c)'
      BY <1>1, <1>2, <1>4, <2>1, <3>3, <3>4 DEF MovesOn
    <3> QED
      BY <3>5
  <2>2. CASE c # k
    <3>1. state'[c] = state[c]
      BY <1>2, <2>2
    <3>2. PICK q \in Request : MovesOn(q, c)
      BY <3>1 DEF SteadyInv, TransientCasesMoveOn
    <3>3. q # r
      BY <1>1, <1>4, <2>2, <3>2 DEF MovesOn, ChainedStep, At
    <3> QED
      BY <1>4, <3>1, <3>2, <3>3, OthersHoldOn
  <2> QED
    BY <2>1, <2>2
<1>8. ClosuresAreBeingGraded'
  <2> SUFFICES ASSUME NEW c \in Case,
                      Entered(c)' \cap {"CLOSED_PASS", "CLOSED_INCOMPLETE"} # {},
                      grades[c] = NoGrade
               PROVE  \E q \in Request : GradeIsComing(q, c)'
    BY DEF ClosuresAreBeingGraded
  <2>1. CASE c = k /\ t.to \in ClosedStates
    <3>1. t.next = "award:grade" /\ f.kase = c
      BY <1>1, <1>5, <2>1 DEF CallerKnows
    <3>2. GradeIsComing(r, c)'
      BY <1>1, <1>4, <3>1 DEF GradeIsComing
    <3> QED
      BY <3>2
  <2>2. CASE ~(c = k /\ t.to \in ClosedStates)
    <3>1. Entered(c) \cap {"CLOSED_PASS", "CLOSED_INCOMPLETE"} # {}
      BY <1>3, <2>2 DEF ClosedStates
    <3>2. PICK q \in Request : GradeIsComing(q, c)
      BY <3>1 DEF SteadyInv, ClosuresAreBeingGraded
    <3>3. q # r
      BY <1>4, <3>2 DEF GradeIsComing, At
    <3> QED
      BY <1>4, <3>2, <3>3, OthersHoldOn
  <2> QED
    BY <2>1, <2>2
<1> QED
  BY <1>6, <1>7, <1>8 DEF SteadyInv

\* The index refuses no move of a case that is in such a state: it is the one
\* active case of its student.
LEMMA AbortHolds ==
  ASSUME IInv, DOMAIN frame = Request, SteadyInv, NEW r \in Request, AbortTransition(r),
         UNCHANGED grades
  PROVE  SteadyInv'
<1>1. /\ pc[r] = "commit" /\ ~Writable(tx[r]) /\ Respond(r)
      /\ UNCHANGED <<state, history>>
      /\ TypeOK
  BY DEF AbortTransition, IInv
<1>2. OnlyRuns(r) /\ pc'[r] = "idle"
  BY <1>1, RespondRuns
<1>3. \A c \in Case : Entered(c)' = Entered(c)
  BY <1>1, TablesKeepInv
<1>4. CallersKnow'
  <2>1. CallerKnows(pc[r], tx[r], frame[r])'
    BY <1>2 DEF CallerKnows
  <2> QED
    BY <1>2, <2>1 DEF SteadyInv, CallersKnow, OnlyRuns
<1>5. TransientCasesMoveOn'
  <2> SUFFICES ASSUME NEW c \in Case, state[c] \in TransientState
               PROVE  \E q \in Request : MovesOn(q, c)'
    BY <1>1 DEF TransientCasesMoveOn
  <2>1. PICK q \in Request : MovesOn(q, c)
    BY DEF SteadyInv, TransientCasesMoveOn
  <2>2. Active(c)
    BY ConstantsOK DEF Active, Exists, TransientState, CaseState, TERMINAL_CASE_STATES
  <2>3. \A s : IndexAccepts(c, s)
    BY <2>2 DEF IndexAccepts, IInv, OneActiveCase
  <2>4. ~(pc[r] = "commit" /\ tx[r].kase = c)
    BY <1>1, <2>2, <2>3 DEF Writable, Active
  <2>5. q # r
    BY <1>1, <2>1, <2>4 DEF MovesOn, ChainedStep, At
  <2> QED
    BY <1>1, <1>2, <2>1, <2>5, OthersHoldOn
<1>6. ClosuresAreBeingGraded'
  <2> SUFFICES ASSUME NEW c \in Case, Entered(c) \cap {"CLOSED_PASS", "CLOSED_INCOMPLETE"} # {},
                      grades[c] = NoGrade
               PROVE  \E q \in Request : GradeIsComing(q, c)'
    BY <1>3 DEF ClosuresAreBeingGraded
  <2>1. PICK q \in Request : GradeIsComing(q, c)
    BY DEF SteadyInv, ClosuresAreBeingGraded
  <2>2. q # r
    BY <1>1, <2>1 DEF GradeIsComing, At
  <2> QED
    BY <1>2, <2>1, <2>2, OthersHoldOn
<1> QED
  BY <1>4, <1>5, <1>6 DEF SteadyInv

\* A service that gets the case back goes on with what it arranged.
LEMMA ReturnHolds ==
  ASSUME IInv, DOMAIN frame = Request, SteadyInv, NEW r \in Request, ReturnFromTransition(r),
         UNCHANGED grades
  PROVE  SteadyInv'
<1>1. PICK t, f : t = tx[r] /\ f = frame[r]
  OBVIOUS
<1>2. /\ pc[r] = "committed" /\ pc'[r] = t.next
      /\ t.next # "idle" => frame'[r] = f
      /\ OnlyRuns(r)
      /\ UNCHANGED <<state, history>>
  BY <1>1 DEF ReturnFromTransition, IInv, TypeOK, OnlyRuns
<1>3. t.next \notin {"commit", "committed"}
  BY <1>1, <1>2 DEF IInv, TypeOK, InFlight, Continuation
<1>4. \A c \in Case : Entered(c)' = Entered(c)
  BY <1>2, TablesKeepInv
<1>5. CallersKnow'
  <2>1. CallerKnows("committed", t, f)
    BY <1>1, <1>2 DEF SteadyInv, CallersKnow
  <2>2. CallerKnows(pc[r], tx[r], frame[r])'
    BY <1>2, <1>3, <2>1 DEF CallerKnows
  <2> QED
    BY <1>2, <2>2 DEF SteadyInv, CallersKnow, OnlyRuns
<1>6. TransientCasesMoveOn'
  <2> SUFFICES ASSUME NEW c \in Case, state[c] \in TransientState
               PROVE  \E q \in Request : MovesOn(q, c)'
    BY <1>2 DEF TransientCasesMoveOn
  <2>1. PICK q \in Request : MovesOn(q, c)
    BY DEF SteadyInv, TransientCasesMoveOn
  <2>2. CASE q = r
    <3>1. PICK m \in ChainedStep : m.state = state[c] /\ t.next = m.label /\ f.kase = c
      BY <1>1, <1>2, <2>1, <2>2 DEF MovesOn, ChainedStep, At
    <3>2. m.label # "idle"
      BY DEF ChainedStep
    <3>3. MovesOn(r, c)'
      BY <1>2, <3>1, <3>2 DEF MovesOn, At
    <3> QED
      BY <3>3
  <2>3. CASE q # r
    BY <1>2, <2>1, <2>3, OthersHoldOn
  <2> QED
    BY <2>2, <2>3
<1>7. ClosuresAreBeingGraded'
  <2> SUFFICES ASSUME NEW c \in Case, Entered(c) \cap {"CLOSED_PASS", "CLOSED_INCOMPLETE"} # {},
                      grades[c] = NoGrade
               PROVE  \E q \in Request : GradeIsComing(q, c)'
    BY <1>4 DEF ClosuresAreBeingGraded
  <2>1. PICK q \in Request : GradeIsComing(q, c)
    BY DEF SteadyInv, ClosuresAreBeingGraded
  <2>2. CASE q = r
    <3>1. t.next = "award:grade" /\ f.kase = c
      BY <1>1, <1>2, <2>1, <2>2 DEF GradeIsComing, At
    <3>2. GradeIsComing(r, c)'
      BY <1>2, <3>1 DEF GradeIsComing, At
    <3> QED
      BY <3>2
  <2>3. CASE q # r
    BY <1>2, <2>1, <2>3, OthersHoldOn
  <2> QED
    BY <2>2, <2>3
<1> QED
  BY <1>5, <1>6, <1>7 DEF SteadyInv


\* Every step but a death keeps each case and each grade in somebody's hands.
LEMMA SteadyStep ==
  ASSUME NormalPathInv, SteadyInv, [SteadyNext]_normalPathVars
  PROVE  SteadyInv'
<1>1. IInv /\ TypeOK /\ CallersKnow /\ RequestsOK /\ DOMAIN frame = Request
  BY DEF NormalPathInv, IInv, SteadyInv, RequestsOK
<1>2. ASSUME NEW r \in Request, EmptyHanded(r)
      PROVE  SteadyInv'
  BY <1>1, <1>2, EmptyHandedStep
<1>3. ASSUME NEW r \in Request, RequestOf(r)
      PROVE  SteadyInv'
  BY <1>1, <1>2, <1>3, OfferEmptyHanded, DeliverableEmptyHanded, GradingEmptyHanded
     DEF RequestOf, gradingVars
<1>4. ASSUME NEW r \in Request, OfferStep(r), UNCHANGED grades
      PROVE  SteadyInv'
  <2>1. CASE OfferStore(r) \/ OfferDetails(r) \/ OfferSubmit(r) \/ ApproveDecide(r)
    BY <1>1, <1>2, <1>4, <2>1, OfferEmptyHanded
  <2>2. CASE OpenCreate(r)
    BY <1>4, <2>2, OpenHolds
  <2>3. CASE OpenConfirm(r)
    <3> DEFINE m == [state |-> "ELIGIBILITY_PENDING", label |-> "open:confirm", to |-> "ELIGIBLE"]
    <3>1. m \in ChainedStep /\ m.label = "open:confirm" /\ m.to = "ELIGIBLE"
      BY DEF ChainedStep
    <3> HIDE DEF m
    <3> QED
      BY <1>1, <1>4, <2>3, <3>1, FollowUpHolds DEF OpenConfirm
  <2>4. CASE OfferQueue(r)
    <3> DEFINE m == [state |-> "OFFER_SUBMITTED", label |-> "offer:queue",
                     to |-> "OFFER_UNDER_REVIEW"]
    <3>1. m \in ChainedStep /\ m.label = "offer:queue" /\ m.to = "OFFER_UNDER_REVIEW"
      BY DEF ChainedStep
    <3> HIDE DEF m
    <3> QED
      BY <1>1, <1>4, <2>4, <3>1, FollowUpHolds DEF OfferQueue
  <2>5. CASE ApproveStart(r)
    <3> DEFINE m == [state |-> "APPROVED", label |-> "approve:start", to |-> "IN_PROGRESS"]
    <3>1. m \in ChainedStep /\ m.label = "approve:start" /\ m.to = "IN_PROGRESS"
      BY DEF ChainedStep
    <3> HIDE DEF m
    <3> QED
      BY <1>1, <1>4, <2>5, <3>1, FollowUpHolds DEF ApproveStart
  <2> QED
    BY <1>4, <2>1, <2>2, <2>3, <2>4, <2>5 DEF OfferStep
<1>5. ASSUME NEW r \in Request, DeliverableStep(r), UNCHANGED grades
      PROVE  SteadyInv'
  BY <1>1, <1>2, <1>5, DeliverableEmptyHanded
<1>6. ASSUME NEW r \in Request, GradingStep(r)
      PROVE  SteadyInv'
  BY <1>1, <1>2, <1>6, GradingEmptyHanded, GradeHolds DEF GradingStep
<1>7. ASSUME NEW r \in Request, ExecutorStep(r), UNCHANGED grades
      PROVE  SteadyInv'
  BY <1>1, <1>7, CommitHolds, AbortHolds, ReturnHolds DEF ExecutorStep
<1>8. ASSUME NEW r \in Request, StepOf(r)
      PROVE  SteadyInv'
  BY <1>4, <1>5, <1>6, <1>7, <1>8 DEF StepOf, gradingVars
<1>9. CASE UNCHANGED normalPathVars
  <2>1. UNCHANGED <<state, history, pc, tx, frame, grades>>
    BY <1>9 DEF normalPathVars, coreVars, gradingVars
  <2>2. \A c \in Case : Entered(c)' = Entered(c)
    BY <1>1, <2>1, TablesKeepInv
  <2>3. CallersKnow'
    BY <1>1, <2>1 DEF CallersKnow
  <2>4. TransientCasesMoveOn'
    BY <2>1 DEF SteadyInv, TransientCasesMoveOn, MovesOn, At
  <2>5. ClosuresAreBeingGraded'
    BY <2>1, <2>2 DEF SteadyInv, ClosuresAreBeingGraded, GradeIsComing, At
  <2> QED
    BY <2>3, <2>4, <2>5 DEF SteadyInv
<1> QED
  BY <1>3, <1>8, <1>9 DEF SteadyNext

\* Nothing is in anybody's hands yet.
LEMMA NothingHeld == NormalPathInit => SteadyInv
<1> SUFFICES ASSUME NormalPathInit PROVE SteadyInv
  OBVIOUS
<1>1. /\ state = [c \in Case |-> NoCase]
      /\ pc = [r \in Request |-> "idle"]
  BY DEF NormalPathInit, CoreInit
<1>2. CallersKnow
  BY <1>1 DEF CallersKnow, CallerKnows
<1>3. TransientCasesMoveOn
  BY <1>1, ConstantsOK DEF TransientCasesMoveOn, TransientState, CaseState
<1>4. ClosuresAreBeingGraded
  BY <1>1 DEF ClosuresAreBeingGraded, Entered, Exists
<1> QED
  BY <1>2, <1>3, <1>4 DEF SteadyInv

\* On a day no process dies, the same holds, and nothing is dropped.
THEOREM SteadyDayIsSafe == SteadySpec => [](NormalPathInv /\ SteadyInv)
<1>1. [SteadyNext]_normalPathVars => [NormalPathNext]_normalPathVars
  BY DEF SteadyNext, NormalPathNext, ServerOf
<1>2. NormalPathInv /\ SteadyInv /\ [SteadyNext]_normalPathVars => NormalPathInv' /\ SteadyInv'
  BY <1>1, NextKeeps, SteadyStep DEF Kept
<1> QED
  BY <1>2, NothingYet, NothingHeld, PTL DEF SteadySpec

\* docs/modules/M05.md: the second call of submitOffer() and approveOffer() is in
\* some request's hands as long as it is to be made, however many run.
THEOREM ChainedStepsAreHeld == SteadySpec => []TransientCasesMoveOn
<1>1. NormalPathInv /\ SteadyInv => TransientCasesMoveOn
  BY DEF SteadyInv
<1> QED
  BY <1>1, SteadyDayIsSafe, PTL

\* M09: a closed case has its grade, or a request that is about to write it.
THEOREM GradesAreHeld == SteadySpec => []ClosuresAreBeingGraded
<1>1. NormalPathInv /\ SteadyInv => ClosuresAreBeingGraded
  BY DEF SteadyInv
<1> QED
  BY <1>1, SteadyDayIsSafe, PTL
================================================================================
