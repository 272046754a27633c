----------------------------- MODULE ExceptionProofs -----------------------------
(***************************************************************************)
(* Restarts and waivers, for any number of students, staff, failed cases    *)
(* and overlapping requests: no restart without two signers, no graduation  *)
(* that nobody granted.                                                    *)
(*                                                                         *)
(* The argument.  Both paths write a case and a row of their own apart, so  *)
(* what ties them is carried by requests between the two writes (LocalsOK), *)
(* and by events, which no step takes back (Grows) even though a waiver     *)
(* whose evidence is refused takes its case back.                          *)
(***************************************************************************)
EXTENDS ExceptionPaths, ExecutorProofs

-----------------------------------------------------------------------------
(* The inductive invariant.                                                *)

\* Case c has been moved to the state.
HasEvent(c, to) == \E i \in DOMAIN history[c] : history[c][i].to = to

\* u signs as the HoD of c what somebody else asked for as its Focal Person.
TwoSigners(c, u) ==
  /\ MayAct(u, "HOD", StudentOf(c))
  /\ \E i \in DOMAIN restarts :
       /\ restarts[i].kase = c
       /\ restarts[i].focal # u
       /\ MayAct(restarts[i].focal, "FOCAL", StudentOf(c))

\* Request i is about case c.
IsAbout(i, c) == i \in DOMAIN restarts /\ restarts[i].kase = c

RequestLabel == {"restart:decide", "restart:pending", "restart:refused"}
SignLabel == {"countersign:decide", "countersign:restart"}
DenyLabel == {"deny:decide", "deny:record"}
EvidenceLabel == {"waiver:evidence", "waiver:undo"}
WaiverLabel == {"waiver:decide", "waiver:sign"}
UserLabel == RequestLabel \cup SignLabel \cup DenyLabel \cup {"waiver:decide"}
CaseLabel == UserLabel \cup {"escalate:create", "waiver:record"} \cup EvidenceLabel \cup WaiverLabel

RequestFrame == [kase : Case, user : User, flagged : BOOLEAN, guards : SUBSET RestartGuards]

Decisions == {countersignWaiver, denyWaiverAtHod, approveWaiver, denyWaiverAtDean}

\* What a service that is to go on at label, with locals f, has made sure of.
FrameOK(label, f) ==
  /\ label \in CaseLabel => f.kase \in Case
  /\ label \in UserLabel => f.user \in User
  /\ label \in RequestLabel => f \in RequestFrame /\ MayAct(f.user, "FOCAL", StudentOf(f.kase))
  /\ label \in SignLabel => IsAbout(f.request, f.kase) /\ MayAct(f.user, "HOD", StudentOf(f.kase))
  /\ label \in DenyLabel => IsAbout(f.request, f.kase)
  /\ label = "waiver:create" => \E s \in Students : f = [kase |-> NoCase, student |-> s]
  /\ label \in EvidenceLabel => previousCase[f.kase] = NoCase
  /\ label \in EvidenceLabel \cup {"waiver:record"} => f.student \in Students
  /\ label \in WaiverLabel => /\ f.decision \in Decisions /\ f.student = StudentOf(f.kase)
                              /\ waivers[f.student] # NoWaiver

\* What a service that goes on at label had its case moved to.
MovedTo(label, f) == IF label = "waiver:sign" THEN f.decision.to ELSE "RESTART_AUTHORIZED"
AfterMove == {"countersign:restart", "waiver:sign"}

\* What is true of a request at label, with the executor's locals t and its
\* service's locals f.
LocalsOK(label, t, f) ==
  /\ FrameOK(label, f)
  /\ label \in {"commit", "committed"} => FrameOK(t.next, f)
  /\ label = "commit" =>
       /\ t.to = "RESTART_AUTHORIZED" => TwoSigners(t.kase, t.actor)
       /\ t.next \in AfterMove => t.kase = f.kase /\ t.to = MovedTo(t.next, f)
  /\ label = "committed" /\ t.next \in AfterMove => HasEvent(f.kase, MovedTo(t.next, f))
  /\ label \in AfterMove => HasEvent(f.kase, MovedTo(label, f))

RequestOK(r) == \A label \in {pc[r]}, t \in {tx[r]}, f \in {frame[r]} : LocalsOK(label, t, f)

RequestsOK == DOMAIN frame = Request /\ \A r \in Request : RequestOK(r)

FocalsAsk ==
  \A i \in DOMAIN restarts : MayAct(restarts[i].focal, "FOCAL", StudentOf(restarts[i].kase))

TwoHaveSigned ==
  \A c \in Case, u \in Actor :
    (\E i \in DOMAIN history[c] : /\ history[c][i].to = "RESTART_AUTHORIZED"
                                 /\ history[c][i].actor = u) => TwoSigners(c, u)

HangsFromAuthorized ==
  \A c \in Case : previousCase[c] # NoCase => HasEvent(previousCase[c], "RESTART_AUTHORIZED")

GrantWasMoved ==
  \A s \in Students : waivers[s].outcome = "GRANTED" =>
    \E c \in Case : StudentOf(c) = s /\ HasEvent(c, "WAIVER_GRANTED")

TablesOK ==
  /\ RestartTypeOK /\ WaiverTypeOK
  /\ FocalsAsk
  /\ TwoHaveSigned
  /\ HangsFromAuthorized
  /\ AuthorizedRequestHasNewCase
  /\ GrantWasMoved

ExceptionInv == CoreInv /\ TablesOK /\ RequestsOK

\* What no step ever takes back.
Grows ==
  /\ \A c \in Case : \A i \in DOMAIN history[c] :
       i \in DOMAIN history'[c] /\ history'[c][i] = history[c][i]
  /\ \A i \in DOMAIN restarts :
       /\ i \in DOMAIN restarts'
       /\ restarts'[i].kase = restarts[i].kase
       /\ restarts'[i].focal = restarts[i].focal
  /\ \A s \in Students : waivers[s] # NoWaiver => waivers'[s] # NoWaiver
  /\ \A c \in Case : previousCase'[c] = previousCase[c] \/ Fresh(c)


-----------------------------------------------------------------------------
(* What is kept.                                                           *)

\* What a request relies on stays true.
LEMMA FactsStay ==
  ASSUME Grows
  PROVE  /\ \A c \in Case : \A to : HasEvent(c, to) => HasEvent(c, to)'
         /\ \A c, u : TwoSigners(c, u) => TwoSigners(c, u)'
         /\ \A i, c : IsAbout(i, c) => IsAbout(i, c)'
<1>1. ASSUME NEW c \in Case, NEW to, HasEvent(c, to)
      PROVE  HasEvent(c, to)'
  BY <1>1 DEF HasEvent, Grows
<1>2. ASSUME NEW c, NEW u, TwoSigners(c, u)
      PROVE  TwoSigners(c, u)'
  BY <1>2 DEF TwoSigners, Grows
<1>3. ASSUME NEW c, NEW i, IsAbout(i, c)
      PROVE  IsAbout(i, c)'
  BY <1>3 DEF IsAbout, Grows
<1> QED
  BY <1>1, <1>2, <1>3

\* So does what a suspended service has made sure of: a case a request works
\* for gets no predecessor.
LEMMA FrameStays ==
  ASSUME Grows, NEW q \in Request, NEW label, NEW f, f = frame[q], FrameOK(label, f)
  PROVE  FrameOK(label, f)'
<1>1. label \in CaseLabel => f.kase \in Case
  BY DEF FrameOK
<1>2. label \in EvidenceLabel => (previousCase[f.kase] = NoCase)'
  <2>1. label \in EvidenceLabel => label \in CaseLabel
    BY DEF CaseLabel
  <2>2. ~Fresh(f.kase)
    BY DEF Fresh
  <2> QED
    BY <1>1, <2>1, <2>2 DEF FrameOK, Grows
<1>3. \A i, c : IsAbout(i, c) => IsAbout(i, c)'
  BY FactsStay
<1>4. label \in WaiverLabel => (waivers[f.student] # NoWaiver)'
  <2>1. label \in WaiverLabel => f.student \in Students
    BY <1>1 DEF FrameOK, CaseLabel, Students
  <2> QED
    BY <2>1 DEF FrameOK, Grows
<1> QED
  BY <1>1, <1>2, <1>3, <1>4 DEF FrameOK

\* And what is true of a request, inside the executor or out of it.
LEMMA LocalsStay ==
  ASSUME Grows, NEW q \in Request, NEW label, NEW t, NEW f, f = frame[q], LocalsOK(label, t, f)
  PROVE  LocalsOK(label, t, f)'
<1>1. /\ FrameOK(label, f)'
      /\ FrameOK(t.next, f) => FrameOK(t.next, f)'
  BY FrameStays DEF LocalsOK
<1>2. \A next \in AfterMove : FrameOK(next, f) => f.kase \in Case
  BY DEF FrameOK, AfterMove, CaseLabel, UserLabel, SignLabel, WaiverLabel
<1>3. \A to : f.kase \in Case /\ HasEvent(f.kase, to) => HasEvent(f.kase, to)'
  BY FactsStay
<1>4. TwoSigners(t.kase, t.actor) => TwoSigners(t.kase, t.actor)'
  BY FactsStay
<1>5. label = "committed" /\ t.next \in AfterMove => HasEvent(f.kase, MovedTo(t.next, f))'
  BY <1>2, <1>3 DEF LocalsOK
<1>6. label \in AfterMove => HasEvent(f.kase, MovedTo(label, f))'
  BY <1>2, <1>3 DEF LocalsOK
<1> QED
  BY <1>1, <1>4, <1>5, <1>6 DEF LocalsOK

\* A step keeps what is true of the requests that do not take it.
LEMMA OtherRequestsStay ==
  ASSUME RequestsOK, Grows, NEW q \in Request,
         pc'[q] = pc[q], tx'[q] = tx[q], frame'[q] = frame[q]
  PROVE  RequestOK(q)'
<1> SUFFICES ASSUME NEW label, NEW t, NEW f, label = pc'[q], t = tx'[q], f = frame'[q]
             PROVE  LocalsOK(label, t, f)'
  BY DEF RequestOK
<1>1. LocalsOK(label, t, f)
  BY DEF RequestsOK, RequestOK
<1> QED
  BY <1>1, LocalsStay

-----------------------------------------------------------------------------
(* The requests.                                                           *)

\* A request that awaits has made sure of what it needs next.
LEMMA AwaitKeepsRequests ==
  ASSUME TypeOK, RequestsOK, Grows,
         NEW r \in Request, NEW label \in Continuation \ AfterMove, NEW g,
         Await(r, label, g), FrameOK(label, g)'
  PROVE  RequestsOK'
<1>1. /\ pc' = [pc EXCEPT ![r] = label]
      /\ frame' = [frame EXCEPT ![r] = g]
      /\ tx' = tx
  BY DEF Await
<1>2. DOMAIN frame' = Request /\ frame'[r] = g /\ pc'[r] = label
  BY <1>1 DEF RequestsOK, TypeOK
<1>3. \A q \in Request \ {r} : pc'[q] = pc[q] /\ tx'[q] = tx[q] /\ frame'[q] = frame[q]
  BY <1>1 DEF RequestsOK, TypeOK
<1>4. RequestOK(r)'
  BY <1>2 DEF RequestOK, LocalsOK, Continuation
<1> QED
  BY <1>2, <1>3, <1>4, OtherRequestsStay DEF RequestsOK

\* A service that is nowhere in particular has made sure of nothing.
LEMMA NothingToKeep ==
  ASSUME NEW label \in {"idle", "commit", "committed"}, NEW f
  PROVE  FrameOK(label, f) /\ FrameOK(label, f)' /\ label \notin AfterMove
<1>1. /\ label \notin CaseLabel /\ label \notin UserLabel /\ label \notin RequestLabel
      /\ label \notin SignLabel /\ label \notin DenyLabel /\ label # "waiver:create"
      /\ label \notin EvidenceLabel /\ label # "waiver:record" /\ label \notin WaiverLabel
      /\ label \notin AfterMove
  BY DEF CaseLabel, UserLabel, RequestLabel, SignLabel, DenyLabel, EvidenceLabel, WaiverLabel,
         AfterMove
<1> QED
  BY <1>1 DEF FrameOK

\* A request that is answered needs nothing.
LEMMA RespondKeepsRequests ==
  ASSUME TypeOK, RequestsOK, Grows, NEW r \in Request, Respond(r)
  PROVE  RequestsOK'
<1>1. /\ pc' = [pc EXCEPT ![r] = "idle"]
      /\ frame' = [frame EXCEPT ![r] = NoFrame]
      /\ tx' = [tx EXCEPT ![r] = NoTx]
  BY DEF Respond
<1>2. DOMAIN frame' = Request /\ pc'[r] = "idle"
  BY <1>1 DEF RequestsOK, TypeOK
<1>3. \A q \in Request \ {r} : pc'[q] = pc[q] /\ tx'[q] = tx[q] /\ frame'[q] = frame[q]
  BY <1>1 DEF RequestsOK, TypeOK
<1>4. RequestOK(r)'
  BY <1>2, NothingToKeep DEF RequestOK, LocalsOK
<1> QED
  BY <1>2, <1>3, <1>4, OtherRequestsStay DEF RequestsOK

\* A request the executor admits: a restart it authorises has two signers, and
\* the service has made sure of what it needs after the call.
LEMMA BeginKeepsRequests ==
  ASSUME TypeOK, RequestsOK, Grows,
         NEW r \in Request, NEW c \in Case, NEW to \in CaseState, NEW actor \in Actor,
         NEW reason, NEW ctx, NEW next \in Continuation, NEW f, f = frame[r],
         BeginTransition(r, c, to, actor, reason, ctx, next), UNCHANGED frame,
         FrameOK(next, f)',
         next \in AfterMove => c = f.kase /\ to = MovedTo(next, f),
         to = "RESTART_AUTHORIZED" => TwoSigners(c, actor)'
  PROVE  RequestsOK'
<1> DEFINE t == [kase |-> c, from |-> state[c], to |-> to, actor |-> actor, next |-> next]
<1>1. /\ \A q \in Request \ {r} : pc'[q] = pc[q] /\ tx'[q] = tx[q]
      /\ pc'[r] = "commit"
      /\ tx'[r] = t
  BY BeginAdmits
<1>2. t.kase = c /\ t.to = to /\ t.actor = actor /\ t.next = next
  OBVIOUS
<1>3. RequestOK(r)'
  <2> SUFFICES ASSUME NEW u, u = tx'[r]
               PROVE  LocalsOK("commit", u, f)'
    BY <1>1 DEF RequestOK
  <2>1. u.kase = c /\ u.to = to /\ u.actor = actor /\ u.next = next
    BY <1>1, <1>2
  <2>2. FrameOK("commit", f)' /\ "commit" \notin AfterMove
    BY NothingToKeep
  <2> QED
    BY <2>1, <2>2 DEF LocalsOK
<1> QED
  BY <1>1, <1>3, OtherRequestsStay DEF RequestsOK

\* The executor goes back to its caller.
LEMMA ReturnKeepsRequests ==
  ASSUME TypeOK, RequestsOK, Grows, NEW r \in Request, ReturnFromTransition(r)
  PROVE  RequestsOK'
<1>1. PICK t, f : t = tx[r] /\ f = frame[r]
  OBVIOUS
<1>2. /\ pc[r] = "committed"
      /\ pc' = [pc EXCEPT ![r] = t.next]
      /\ frame' = [frame EXCEPT ![r] = IF t.next = "idle" THEN NoFrame ELSE f]
      /\ tx' = [tx EXCEPT ![r] = NoTx]
  BY <1>1 DEF ReturnFromTransition
<1>3. LocalsOK("committed", t, f)
  BY <1>1, <1>2 DEF RequestsOK, RequestOK
<1>4. LocalsOK("committed", t, f)'
  BY <1>1, <1>3, LocalsStay
<1>5. t.next \in Continuation
  BY <1>1, <1>2 DEF TypeOK, InFlight
<1>6. /\ DOMAIN frame' = Request
      /\ pc'[r] = t.next
      /\ frame'[r] = IF t.next = "idle" THEN NoFrame ELSE f
  BY <1>2 DEF RequestsOK, TypeOK
<1>7. \A q \in Request \ {r} : pc'[q] = pc[q] /\ tx'[q] = tx[q] /\ frame'[q] = frame[q]
  BY <1>2 DEF RequestsOK, TypeOK
<1>8. RequestOK(r)'
  <2>1. CASE t.next = "idle"
    BY <1>6, <2>1, NothingToKeep DEF RequestOK, LocalsOK
  <2>2. CASE t.next # "idle"
    BY <1>4, <1>5, <1>6, <2>2 DEF RequestOK, LocalsOK, Continuation
  <2> QED
    BY <2>1, <2>2
<1> QED
  BY <1>6, <1>7, <1>8, OtherRequestsStay DEF RequestsOK

\* A commit: what the service will go on from is now in the history.
LEMMA CommitKeepsRequests ==
  ASSUME TypeOK, RequestsOK, Grows, NEW r \in Request, CommitTransition(r)
  PROVE  RequestsOK'
<1>1. PICK t, f : t = tx[r] /\ f = frame[r]
  OBVIOUS
<1>2. /\ pc[r] = "commit"
      /\ pc' = [pc EXCEPT ![r] = "committed"]
      /\ UNCHANGED <<tx, frame>>
  BY DEF CommitTransition
<1>3. LocalsOK("commit", t, f)
  BY <1>1, <1>2 DEF RequestsOK, RequestOK
<1>4. LocalsOK("commit", t, f)'
  BY <1>1, <1>3, LocalsStay
<1>5. HasEvent(t.kase, t.to)'
  <2>1. LET n == Len(history[t.kase])
        IN  /\ n \in Nat
            /\ DOMAIN history'[t.kase] = 1..(n + 1)
            /\ history'[t.kase][n + 1] = EventOf(t)
    BY <1>1, CommitWrites
  <2>2. \E i \in DOMAIN history'[t.kase] : history'[t.kase][i].to = t.to
    BY <2>1 DEF EventOf
  <2> QED
    BY <2>2 DEF HasEvent
<1>6. DOMAIN frame' = Request /\ pc'[r] = "committed"
  BY <1>2 DEF RequestsOK, TypeOK
<1>7. \A q \in Request \ {r} : pc'[q] = pc[q] /\ tx'[q] = tx[q] /\ frame'[q] = frame[q]
  BY <1>2 DEF RequestsOK, TypeOK
<1>8. RequestOK(r)'
  <2> SUFFICES LocalsOK("committed", t, f)'
    BY <1>1, <1>2, <1>6 DEF RequestOK
  <2>1. FrameOK("committed", f)' /\ "committed" \notin AfterMove
    BY NothingToKeep
  <2>2. t.next \in AfterMove => HasEvent(f.kase, MovedTo(t.next, f))'
    BY <1>3, <1>5 DEF LocalsOK
  <2> QED
    BY <1>4, <2>1, <2>2 DEF LocalsOK
<1> QED
  BY <1>6, <1>7, <1>8, OtherRequestsStay DEF RequestsOK


-----------------------------------------------------------------------------
(* The tables.                                                             *)

\* The tables stay in order while nothing is taken back and whatever is new is
\* in order too.
LEMMA TablesStay ==
  ASSUME TablesOK, Grows, RestartTypeOK', WaiverTypeOK',
         UNCHANGED restarts \/ FocalsAsk',
         UNCHANGED history \/ TwoHaveSigned',
         UNCHANGED previousCase \/ HangsFromAuthorized',
         UNCHANGED <<restarts, previousCase>> \/ AuthorizedRequestHasNewCase',
         UNCHANGED waivers \/ GrantWasMoved'
  PROVE  TablesOK'
<1>1. FocalsAsk'
  BY DEF TablesOK, FocalsAsk
<1>2. TwoHaveSigned'
  BY FactsStay DEF TablesOK, TwoHaveSigned
<1>3. HangsFromAuthorized'
  <2>1. CASE UNCHANGED previousCase
    <3> SUFFICES ASSUME NEW c \in Case, previousCase[c] # NoCase
                 PROVE  HasEvent(previousCase[c], "RESTART_AUTHORIZED")'
      BY <2>1 DEF HangsFromAuthorized
    <3>1. PICK p \in Case : p = previousCase[c]
      BY DEF TablesOK, RestartTypeOK
    <3>2. HasEvent(p, "RESTART_AUTHORIZED")'
      BY <3>1, FactsStay DEF TablesOK, HangsFromAuthorized
    <3> QED
      BY <2>1, <3>1, <3>2 DEF HasEvent
  <2> QED
    BY <2>1
<1>4. AuthorizedRequestHasNewCase'
  BY DEF TablesOK, AuthorizedRequestHasNewCase
<1>5. GrantWasMoved'
  <2>1. \A c \in Case : HasEvent(c, "WAIVER_GRANTED") => HasEvent(c, "WAIVER_GRANTED")'
    BY FactsStay
  <2> QED
    BY <2>1 DEF TablesOK, GrantWasMoved
<1> QED
  BY <1>1, <1>2, <1>3, <1>4, <1>5 DEF TablesOK

\* A step that leaves these tables alone keeps them in order.
allTables == <<state, history, documents, restartVars, waivers>>

LEMMA QuietTables ==
  ASSUME TablesOK, UNCHANGED allTables
  PROVE  Grows /\ TablesOK'
<1>1. UNCHANGED <<state, history, documents, restarts, previousCase, escalated, waivers>>
  BY DEF allTables, restartVars
<1>2. Grows
  BY <1>1 DEF Grows
<1>3. RestartTypeOK' /\ WaiverTypeOK'
  BY <1>1 DEF TablesOK, RestartTypeOK, WaiverTypeOK, DocumentsOK, Exists
<1> QED
  BY <1>1, <1>2, <1>3, TablesStay

\* A new request of a Focal Person, not yet authorised.
LEMMA AppendRequest ==
  ASSUME TablesOK, NEW row \in RestartRequest, row.outcome # "AUTHORIZED",
         MayAct(row.focal, "FOCAL", StudentOf(row.kase)),
         restarts' = Append(restarts, row),
         UNCHANGED <<state, history, previousCase, escalated, documents, waivers>>
  PROVE  Grows /\ TablesOK'
<1> DEFINE n == Len(restarts)
<1>1. restarts \in Seq(RestartRequest) /\ n \in Nat /\ DOMAIN restarts = 1..n
  BY DEF TablesOK, RestartTypeOK
<1>2. /\ restarts' \in Seq(RestartRequest)
      /\ DOMAIN restarts' = 1..(n + 1)
      /\ restarts'[n + 1] = row
      /\ \A i \in 1..n : restarts'[i] = restarts[i]
  BY <1>1
<1>3. Grows
  BY <1>1, <1>2 DEF Grows
<1>4. RestartTypeOK' /\ WaiverTypeOK'
  BY <1>2 DEF TablesOK, RestartTypeOK, WaiverTypeOK, DocumentsOK, Exists
<1>5. \A i \in DOMAIN restarts' : i = n + 1 \/ i \in DOMAIN restarts
  BY <1>1, <1>2
<1>6. FocalsAsk'
  BY <1>1, <1>2, <1>5 DEF TablesOK, FocalsAsk
<1>7. AuthorizedRequestHasNewCase'
  BY <1>1, <1>2, <1>5 DEF TablesOK, AuthorizedRequestHasNewCase
<1> QED
  BY <1>3, <1>4, <1>6, <1>7, TablesStay

\* An outcome that is written changes nothing else of a request.
LEMMA OutcomeRows ==
  ASSUME RestartTypeOK, NEW i \in DOMAIN restarts, NEW o \in {"AUTHORIZED", "DENIED"},
         restarts' = [restarts EXCEPT ![i].outcome = o]
  PROVE  /\ restarts' \in Seq(RestartRequest)
         /\ DOMAIN restarts' = DOMAIN restarts
         /\ \A j \in DOMAIN restarts : /\ restarts'[j].kase = restarts[j].kase
                                       /\ restarts'[j].focal = restarts[j].focal
                                       /\ j # i => restarts'[j] = restarts[j]
         /\ restarts'[i].outcome = o
<1> DEFINE n == Len(restarts)
           row == [restarts[i] EXCEPT !.outcome = o]
<1>1. /\ n \in Nat /\ DOMAIN restarts = 1..n
      /\ \A j \in 1..n : restarts[j] \in RestartRequest
  BY DEF RestartTypeOK
<1>2. row \in RestartRequest /\ row.kase = restarts[i].kase /\ row.focal = restarts[i].focal
        /\ row.outcome = o
  BY <1>1 DEF RestartRequest
<1>3. restarts' = [restarts EXCEPT ![i] = row]
  OBVIOUS
<1> HIDE DEF row
<1>4. DOMAIN restarts' = 1..n /\ \A j \in 1..n : restarts'[j] = IF j = i THEN row ELSE restarts[j]
  BY <1>1, <1>3 DEF RestartTypeOK
<1>5. restarts' \in Seq(RestartRequest)
  <2>1. restarts' = [j \in 1..n |-> IF j = i THEN row ELSE restarts[j]]
    BY <1>1, <1>3 DEF RestartTypeOK
  <2>2. \A j \in 1..n : (IF j = i THEN row ELSE restarts[j]) \in RestartRequest
    BY <1>1, <1>2
  <2>3. n \in Nat
    BY <1>1
  <2> HIDE DEF n
  <2>4. restarts' \in [1..n -> RestartRequest]
    BY <2>1, <2>2
  <2> QED
    BY <2>3, <2>4, SeqDef
<1> QED
  BY <1>1, <1>2, <1>4, <1>5

\* A denial that is written.
LEMMA DenyRequest ==
  ASSUME TablesOK, NEW i \in DOMAIN restarts, restarts' = [restarts EXCEPT ![i].outcome = "DENIED"],
         UNCHANGED <<state, history, previousCase, escalated, documents, waivers>>
  PROVE  Grows /\ TablesOK'
<1>1. /\ restarts' \in Seq(RestartRequest)
      /\ DOMAIN restarts' = DOMAIN restarts
      /\ \A j \in DOMAIN restarts : /\ restarts'[j].kase = restarts[j].kase
                                    /\ restarts'[j].focal = restarts[j].focal
                                    /\ j # i => restarts'[j] = restarts[j]
      /\ restarts'[i].outcome = "DENIED"
  BY OutcomeRows DEF TablesOK
<1>2. Grows
  BY <1>1 DEF Grows
<1>3. RestartTypeOK' /\ WaiverTypeOK'
  BY <1>1 DEF TablesOK, RestartTypeOK, WaiverTypeOK, DocumentsOK, Exists
<1>4. FocalsAsk'
  BY <1>1 DEF TablesOK, FocalsAsk
<1>5. AuthorizedRequestHasNewCase'
  BY <1>1 DEF TablesOK, AuthorizedRequestHasNewCase
<1> QED
  BY <1>2, <1>3, <1>4, <1>5, TablesStay

-----------------------------------------------------------------------------
(* The shapes a step can have.                                             *)

\* What is shown of every step: it keeps the invariant and takes nothing back.
Kept == ExceptionInv' /\ Grows

\* A request awaits, and other tables than those of the executor may change.
LEMMA AwaitStep ==
  ASSUME ExceptionInv, NEW r \in Request, NEW label \in Continuation \ AfterMove, NEW g,
         Await(r, label, g), UNCHANGED <<state, history>>, Grows, TablesOK', FrameOK(label, g)'
  PROVE  Kept
<1>1. CoreInv'
  BY AwaitIsNoCall, QuietStepKeepsCore DEF ExceptionInv, CoreInv
<1>2. RequestsOK'
  BY AwaitKeepsRequests DEF ExceptionInv, CoreInv
<1> QED
  BY <1>1, <1>2 DEF Kept, ExceptionInv

\* A request is answered, and such tables may change.
LEMMA RespondStep ==
  ASSUME ExceptionInv, NEW r \in Request, Respond(r), UNCHANGED <<state, history>>,
         Grows, TablesOK'
  PROVE  Kept
<1>1. CoreInv'
  BY RespondIsNoCall, QuietStepKeepsCore DEF ExceptionInv, CoreInv
<1>2. RequestsOK'
  BY RespondKeepsRequests DEF ExceptionInv, CoreInv
<1> QED
  BY <1>1, <1>2 DEF Kept, ExceptionInv

\* What a request may rely on does not depend on the tables that do not change.
LEMMA SameFrame ==
  ASSUME UNCHANGED allTables, NEW label, NEW g, FrameOK(label, g)
  PROVE  FrameOK(label, g)'
BY DEF FrameOK, IsAbout, allTables, restartVars

\* A request looks at the tables and awaits.
LEMMA QuietAwait ==
  ASSUME ExceptionInv, NEW r \in Request, NEW label \in Continuation \ AfterMove, NEW g,
         Await(r, label, g), UNCHANGED allTables, FrameOK(label, g)
  PROVE  Kept
<1>1. Grows /\ TablesOK'
  BY QuietTables DEF ExceptionInv
<1>2. FrameOK(label, g)'
  BY SameFrame
<1>3. UNCHANGED <<state, history>>
  BY DEF allTables
<1> QED
  BY <1>1, <1>2, <1>3, AwaitStep

\* A request looks at the tables and is answered.
LEMMA QuietRespond ==
  ASSUME ExceptionInv, NEW r \in Request, Respond(r), UNCHANGED allTables
  PROVE  Kept
<1>1. Grows /\ TablesOK'
  BY QuietTables DEF ExceptionInv
<1>2. UNCHANGED <<state, history>>
  BY DEF allTables
<1> QED
  BY <1>1, <1>2, RespondStep

\* A request calls the executor, and is admitted.
LEMMA QuietBegin ==
  ASSUME ExceptionInv, NEW r \in Request, NEW c \in Case, NEW to \in CaseState,
         NEW actor \in Actor, NEW reason, NEW ctx, NEW next \in Continuation, NEW f, f = frame[r],
         BeginTransition(r, c, to, actor, reason, ctx, next),
         UNCHANGED <<frame, documents, restartVars, waivers>>,
         FrameOK(next, f),
         next \in AfterMove => c = f.kase /\ to = MovedTo(next, f),
         Admits(c, to, actor, reason, ctx) /\ to = "RESTART_AUTHORIZED" => TwoSigners(c, actor)
  PROVE  Kept
<1>1. CoreInv'
  BY BeginKeepsCore DEF ExceptionInv
<1>2. UNCHANGED allTables
  BY DEF allTables, BeginTransition
<1>3. Grows /\ TablesOK'
  BY <1>2, QuietTables DEF ExceptionInv
<1>4. FrameOK(next, f)'
  BY <1>2, SameFrame
<1>5. to = "RESTART_AUTHORIZED" => TwoSigners(c, actor)'
  BY <1>3, FactsStay DEF BeginTransition
<1>6. RequestsOK'
  BY <1>3, <1>4, <1>5, BeginKeepsRequests DEF ExceptionInv, CoreInv
<1> QED
  BY <1>1, <1>3, <1>6 DEF Kept, ExceptionInv

\* A request calls the executor, and goes on or fails.
LEMMA QuietCall ==
  ASSUME ExceptionInv, NEW r \in Request, NEW c \in Case, NEW to \in CaseState,
         NEW actor \in Actor, NEW reason, NEW ctx, NEW next \in Continuation, NEW f, f = frame[r],
         TransitionOrFail(r, c, to, actor, reason, ctx, next),
         UNCHANGED <<documents, restartVars, waivers>>,
         FrameOK(next, f),
         next \in AfterMove => c = f.kase /\ to = MovedTo(next, f),
         Admits(c, to, actor, reason, ctx) /\ to = "RESTART_AUTHORIZED" => TwoSigners(c, actor)
  PROVE  Kept
<1>1. CASE BeginTransition(r, c, to, actor, reason, ctx, next) /\ UNCHANGED frame
  BY <1>1, QuietBegin
<1>2. CASE Respond(r) /\ UNCHANGED <<state, history>>
  <2>1. UNCHANGED allTables
    BY <1>2 DEF allTables
  <2> QED
    BY <1>2, <2>1, QuietRespond
<1> QED
  BY <1>1, <1>2 DEF TransitionOrFail

\* A request whose locals are f knows what its label says.
LEMMA FrameOf ==
  ASSUME ExceptionInv, NEW r \in Request, NEW f, f = frame[r]
  PROVE  /\ FrameOK(pc[r], f)
         /\ pc[r] \in CaseLabel => f.kase \in Case
         /\ pc[r] \in UserLabel => f.user \in User
         /\ pc[r] \in AfterMove => HasEvent(f.kase, MovedTo(pc[r], f))
<1>1. LocalsOK(pc[r], tx[r], f)
  <2> SUFFICES ASSUME NEW label, NEW t, label = pc[r], t = tx[r]
               PROVE  LocalsOK(label, t, f)
    OBVIOUS
  <2> QED
    BY DEF ExceptionInv, RequestsOK, RequestOK
<1> QED
  BY <1>1 DEF LocalsOK, FrameOK

\* Every label of a service is one where a request can go on.
LEMMA LabelsContinue ==
  /\ "idle" \in Continuation
  /\ CaseLabel \cup {"waiver:create"} \subseteq Continuation
<1>1. CaseLabel \cup {"idle", "waiver:create"} \subseteq Label
  BY ConstantsOK, RestartLabelsOK, WaiverLabelsOK
     DEF CaseLabel, UserLabel, RequestLabel, SignLabel, DenyLabel, EvidenceLabel, WaiverLabel
<1> QED
  BY <1>1 DEF Continuation, CaseLabel, UserLabel, RequestLabel, SignLabel, DenyLabel,
              EvidenceLabel, WaiverLabel


-----------------------------------------------------------------------------
(* The restart gate.                                                       *)

\* A request is about a case.
LEMMA RequestRows ==
  ASSUME RestartTypeOK, NEW i \in DOMAIN restarts
  PROVE  restarts[i] \in RestartRequest /\ restarts[i].kase \in Case /\ restarts[i].focal \in User
<1>1. /\ DOMAIN restarts = 1..Len(restarts)
      /\ \A j \in 1..Len(restarts) : restarts[j] \in RestartRequest
  BY DEF RestartTypeOK
<1>2. restarts[i] \in RestartRequest
  BY <1>1
<1> QED
  BY <1>2 DEF RestartRequest

\* A service that works on request i for u knows its case, and what u may do.
LEMMA SignerFrame ==
  ASSUME RestartTypeOK, NEW i \in DOMAIN restarts, NEW u \in User, NEW g,
         g = [kase |-> restarts[i].kase, user |-> u, request |-> i]
  PROVE  /\ FrameOK("deny:decide", g)
         /\ MayAct(u, "HOD", StudentOf(restarts[i].kase)) => FrameOK("countersign:decide", g)
<1>1. restarts[i].kase \in Case
  BY RequestRows
<1>2. g.kase = restarts[i].kase /\ g.user = u /\ g.request = i
  OBVIOUS
<1>3. IsAbout(g.request, g.kase)
  BY <1>2 DEF IsAbout
<1> QED
  BY <1>1, <1>2, <1>3
     DEF FrameOK, CaseLabel, UserLabel, RequestLabel, SignLabel, DenyLabel, EvidenceLabel,
         WaiverLabel

\* What people start at the gate: each request looks, then awaits.
LEMMA RestartRequestKeeps ==
  ASSUME ExceptionInv, NEW r \in Request, RestartRequests(r), UNCHANGED <<documents, waivers>>
  PROVE  Kept
<1>1. ASSUME NEW c \in Case, NEW u \in User, NEW match \in CompanyMatch,
             NEW timeRemains \in BOOLEAN, RequestRestart(r, c, u, match, timeRemains)
      PROVE  Kept
  <2> DEFINE g == [kase |-> c, user |-> u, flagged |-> match = "similar",
                   guards |-> restartContext(c, match, timeRemains)]
  <2>1. Await(r, "restart:decide", g) /\ UNCHANGED allTables
    BY <1>1 DEF RequestRestart, allTables
  <2>2. g \in RequestFrame
    <3>1. restartContext(c, match, timeRemains) \in SUBSET RestartGuards
      BY DEF restartContext
    <3> QED
      BY <3>1 DEF RequestFrame
  <2>3. g.kase = c /\ g.user = u
    OBVIOUS
  <2>4. MayAct(g.user, "FOCAL", StudentOf(g.kase))
    BY <1>1, <2>3 DEF RequestRestart
  <2> HIDE DEF g
  <2>5. FrameOK("restart:decide", g)
    BY <2>2, <2>3, <2>4
       DEF FrameOK, CaseLabel, UserLabel, RequestLabel, SignLabel, DenyLabel, EvidenceLabel,
           WaiverLabel
  <2>6. "restart:decide" \in Continuation \ AfterMove
    BY LabelsContinue DEF CaseLabel, UserLabel, RequestLabel, AfterMove
  <2> QED
    BY <2>1, <2>5, <2>6, QuietAwait
<1>2. ASSUME NEW i \in DOMAIN restarts, NEW u \in User, NEW acknowledged \in BOOLEAN,
             CountersignRestart(r, i, u, acknowledged)
      PROVE  Kept
  <2> DEFINE g == [kase |-> restarts[i].kase, user |-> u, request |-> i]
  <2>1. /\ Await(r, "countersign:decide", g)
        /\ UNCHANGED allTables
        /\ MayAct(u, "HOD", StudentOf(restarts[i].kase))
    BY <1>2 DEF CountersignRestart, allTables
  <2>2. FrameOK("countersign:decide", g)
    BY <2>1, SignerFrame DEF ExceptionInv, TablesOK
  <2>3. "countersign:decide" \in Continuation \ AfterMove
    BY LabelsContinue DEF CaseLabel, UserLabel, SignLabel, AfterMove
  <2> HIDE DEF g
  <2> QED
    BY <2>1, <2>2, <2>3, QuietAwait
<1>3. ASSUME NEW i \in DOMAIN restarts, NEW u \in User, DenyRestart(r, i, u)
      PROVE  Kept
  <2> DEFINE g == [kase |-> restarts[i].kase, user |-> u, request |-> i]
  <2>1. Await(r, "deny:decide", g) /\ UNCHANGED allTables
    BY <1>3 DEF DenyRestart, allTables
  <2>2. FrameOK("deny:decide", g)
    BY SignerFrame DEF ExceptionInv, TablesOK
  <2>3. "deny:decide" \in Continuation \ AfterMove
    BY LabelsContinue DEF CaseLabel, UserLabel, DenyLabel, AfterMove
  <2> HIDE DEF g
  <2> QED
    BY <2>1, <2>2, <2>3, QuietAwait
<1>4. ASSUME NEW i \in DOMAIN restarts, NEW u \in User, EscalateRestart(r, i, u)
      PROVE  Kept
  <2> DEFINE g == [kase |-> restarts[i].kase]
  <2>1. Await(r, "escalate:create", g) /\ UNCHANGED allTables
    BY <1>4 DEF EscalateRestart, allTables
  <2>2. g.kase \in Case
    BY RequestRows DEF ExceptionInv, TablesOK
  <2> HIDE DEF g
  <2>3. FrameOK("escalate:create", g)
    BY <2>2 DEF FrameOK, CaseLabel, UserLabel, RequestLabel, SignLabel, DenyLabel,
                EvidenceLabel, WaiverLabel
  <2>4. "escalate:create" \in Continuation \ AfterMove
    BY LabelsContinue DEF CaseLabel, AfterMove
  <2> QED
    BY <2>1, <2>3, <2>4, QuietAwait
<1> QED
  BY <1>1, <1>2, <1>3, <1>4 DEF RestartRequests

\* requestRestart() is answered by the executor, or its guards refuse.
LEMMA RestartDecideKeeps ==
  ASSUME ExceptionInv, NEW r \in Request, RestartDecide(r), UNCHANGED <<documents, waivers>>
  PROVE  Kept
<1>1. PICK f : f = frame[r]
  OBVIOUS
<1>2. /\ f \in RequestFrame
      /\ f.kase \in Case /\ f.user \in User
      /\ MayAct(f.user, "FOCAL", StudentOf(f.kase))
  BY <1>1, FrameOf DEF RestartDecide, At, FrameOK, RequestLabel, UserLabel, CaseLabel
<1>3. CASE Await(r, "restart:refused", [f EXCEPT !.guards = {}]) /\ UNCHANGED allTables
  <2> DEFINE g == [f EXCEPT !.guards = {}]
  <2>1. /\ g \in RequestFrame
        /\ g.kase = f.kase /\ g.user = f.user
    BY <1>2 DEF RequestFrame
  <2> HIDE DEF g
  <2>2. FrameOK("restart:refused", g)
    BY <1>2, <2>1
       DEF FrameOK, CaseLabel, UserLabel, RequestLabel, SignLabel, DenyLabel, EvidenceLabel,
           WaiverLabel
  <2>3. "restart:refused" \in Continuation \ AfterMove
    BY LabelsContinue DEF CaseLabel, UserLabel, RequestLabel, AfterMove
  <2>4. Await(r, "restart:refused", g)
    BY <1>3 DEF g
  <2> QED
    BY <1>3, <2>2, <2>3, <2>4, QuietAwait
<1>4. CASE TransitionOrFail(r, f.kase, "RESTART_REQUESTED", f.user, TRUE, f.guards,
                            "restart:pending")
  <2>1. FrameOK("restart:pending", f)
    BY <1>2
       DEF FrameOK, CaseLabel, UserLabel, RequestLabel, SignLabel, DenyLabel, EvidenceLabel,
           WaiverLabel
  <2>2. "restart:pending" \in Continuation \ AfterMove
    BY LabelsContinue DEF CaseLabel, UserLabel, RequestLabel, AfterMove
  <2>3. "RESTART_REQUESTED" \in CaseState /\ f.user \in Actor
    BY <1>2 DEF CaseState, Actor
  <2>4. UNCHANGED <<documents, restartVars, waivers>>
    BY DEF RestartDecide
  <2> QED
    BY <1>1, <1>2, <1>4, <2>1, <2>2, <2>3, <2>4, QuietCall
<1> QED
  BY <1>1, <1>3, <1>4 DEF RestartDecide, allTables

\* The request row is written.
LEMMA RestartRecordKeeps ==
  ASSUME ExceptionInv, NEW r \in Request, RestartRecord(r), UNCHANGED <<documents, waivers>>
  PROVE  Kept
<1>1. PICK f : f = frame[r]
  OBVIOUS
<1>2. /\ f \in RequestFrame
      /\ MayAct(f.user, "FOCAL", StudentOf(f.kase))
  BY <1>1, FrameOf DEF RestartRecord, FrameOK, RequestLabel
<1>3. PICK o \in {"PENDING", "DENIED"} :
        restarts' = Append(restarts, [kase |-> f.kase, focal |-> f.user, flagged |-> f.flagged,
                                      outcome |-> o])
  BY <1>1 DEF RestartRecord
<1> DEFINE row == [kase |-> f.kase, focal |-> f.user, flagged |-> f.flagged, outcome |-> o]
<1>4. /\ row \in RestartRequest
      /\ row.outcome # "AUTHORIZED"
      /\ row.kase = f.kase /\ row.focal = f.user
  BY <1>2 DEF RequestFrame, RestartRequest
<1> HIDE DEF row
<1>5. restarts' = Append(restarts, row)
  BY <1>3 DEF row
<1>6. /\ UNCHANGED <<state, history, previousCase, escalated, documents, waivers>>
      /\ Respond(r)
  BY DEF RestartRecord
<1>7. Grows /\ TablesOK'
  BY <1>2, <1>4, <1>5, <1>6, AppendRequest DEF ExceptionInv
<1> QED
  BY <1>6, <1>7, RespondStep


\* The table asks for distinct signers before it authorises a restart.
LEMMA AuthorizedNeedsTwo ==
  ASSUME NEW c, NEW actor, NEW reason, NEW ctx,
         Admits(c, "RESTART_AUTHORIZED", actor, reason, ctx)
  PROVE  "distinctSigners" \in ctx
BY DEF Admits, TRANSITIONS, NormalRows, RestartRows, WaiverRows, Row

\* countersignRestart() asks the executor.
LEMMA CountersignDecideKeeps ==
  ASSUME ExceptionInv, NEW r \in Request, CountersignDecide(r), UNCHANGED <<documents, waivers>>
  PROVE  Kept
<1>1. PICK f : f = frame[r]
  OBVIOUS
<1>2. PICK ctx : ctx = IF restarts[f.request].focal # f.user THEN {"distinctSigners"} ELSE {}
  OBVIOUS
<1>3. /\ f.kase \in Case /\ f.user \in User
      /\ IsAbout(f.request, f.kase)
      /\ MayAct(f.user, "HOD", StudentOf(f.kase))
  BY <1>1, FrameOf DEF CountersignDecide, At, FrameOK, SignLabel, UserLabel, CaseLabel
<1>4. TransitionOrFail(r, f.kase, "RESTART_AUTHORIZED", f.user, TRUE, ctx, "countersign:restart")
  BY <1>1, <1>2 DEF CountersignDecide
<1>5. FrameOK("countersign:restart", f)
  BY <1>3 DEF FrameOK, CaseLabel, UserLabel, RequestLabel, SignLabel, DenyLabel, EvidenceLabel,
              WaiverLabel
<1>6. Admits(f.kase, "RESTART_AUTHORIZED", f.user, TRUE, ctx) => TwoSigners(f.kase, f.user)
  <2> SUFFICES ASSUME Admits(f.kase, "RESTART_AUTHORIZED", f.user, TRUE, ctx)
               PROVE  TwoSigners(f.kase, f.user)
    OBVIOUS
  <2>1. restarts[f.request].focal # f.user
    BY <1>2, AuthorizedNeedsTwo
  <2>2. f.request \in DOMAIN restarts /\ restarts[f.request].kase = f.kase
    BY <1>3 DEF IsAbout
  <2>3. MayAct(restarts[f.request].focal, "FOCAL", StudentOf(f.kase))
    BY <2>2 DEF ExceptionInv, TablesOK, FocalsAsk
  <2> QED
    BY <1>3, <2>1, <2>2, <2>3 DEF TwoSigners
<1>7. /\ "countersign:restart" \in Continuation
      /\ MovedTo("countersign:restart", f) = "RESTART_AUTHORIZED"
  BY LabelsContinue DEF CaseLabel, UserLabel, SignLabel, MovedTo
<1>8. "RESTART_AUTHORIZED" \in CaseState /\ f.user \in Actor
  BY <1>3 DEF CaseState, Actor
<1>9. UNCHANGED <<documents, restartVars, waivers>>
  BY DEF CountersignDecide
<1> QED
  BY <1>1, <1>3, <1>4, <1>5, <1>6, <1>7, <1>8, <1>9, QuietCall

\* An event is about a case that is there.
LEMMA MovedCaseExists ==
  ASSUME CoreInv, NEW c \in Case, NEW to, HasEvent(c, to)
  PROVE  Exists(c)
<1>1. history[c] # <<>>
  BY DEF HasEvent
<1> QED
  BY <1>1 DEF CoreInv, HistoryExplainsState

\* The new case of an authorised restart and the outcome of its request, in one
\* transaction, or neither.
LEMMA CountersignCreatesCaseKeeps ==
  ASSUME ExceptionInv, NEW r \in Request, CountersignCreatesCase(r),
         UNCHANGED <<documents, waivers>>
  PROVE  Kept
<1>1. PICK f : f = frame[r]
  OBVIOUS
<1>2. /\ f.kase \in Case
      /\ f.request \in DOMAIN restarts /\ restarts[f.request].kase = f.kase
      /\ HasEvent(f.kase, "RESTART_AUTHORIZED")
  <2>1. pc[r] = "countersign:restart"
    BY DEF CountersignCreatesCase, At
  <2>2. "countersign:restart" \in CaseLabel \cap SignLabel \cap AfterMove
    BY DEF CaseLabel, UserLabel, SignLabel, AfterMove
  <2>3. MovedTo("countersign:restart", f) = "RESTART_AUTHORIZED"
    BY DEF MovedTo
  <2> QED
    BY <1>1, <2>1, <2>2, <2>3, FrameOf DEF FrameOK, IsAbout
<1>3. Respond(r) /\ UNCHANGED <<history, escalated>>
  BY DEF CountersignCreatesCase
<1>4. ASSUME NEW d \in Case, Fresh(d), InsertCase(d, "ELIGIBLE"),
             previousCase' = [previousCase EXCEPT ![d] = f.kase],
             restarts' = [restarts EXCEPT ![f.request].outcome = "AUTHORIZED"]
      PROVE  Kept
  <2>1. CoreInv'
    <3>1. \A q \in Request : pc[q] = "commit" => tx[q].kase # d
      BY <1>4 DEF Fresh
    <3>2. NoNewCall /\ "ELIGIBLE" \in GENESIS_STATES
      BY <1>3, RespondIsNoCall DEF ExceptionInv, CoreInv, GENESIS_STATES
    <3> QED
      BY <1>3, <1>4, <3>1, <3>2, InsertKeepsCore DEF ExceptionInv
  <2>2. /\ restarts' \in Seq(RestartRequest)
        /\ DOMAIN restarts' = DOMAIN restarts
        /\ \A j \in DOMAIN restarts : /\ restarts'[j].kase = restarts[j].kase
                                      /\ restarts'[j].focal = restarts[j].focal
                                      /\ j # f.request => restarts'[j] = restarts[j]
    BY <1>2, <1>4, OutcomeRows DEF ExceptionInv, TablesOK
  <2>3. /\ previousCase' \in [Case -> Case \cup {NoCase}]
        /\ previousCase'[d] = f.kase
        /\ \A c \in Case \ {d} : previousCase'[c] = previousCase[c]
    BY <1>2, <1>4 DEF ExceptionInv, TablesOK, RestartTypeOK
  <2>4. previousCase[d] = NoCase
    BY <1>4 DEF Fresh, ExceptionInv, TablesOK, RestartTypeOK
  <2>5. Grows
    BY <1>3, <1>4, <2>2, <2>3 DEF Grows
  <2>6. Exists(d)' /\ \A c \in Case : Exists(c) => Exists(c)'
    <3>1. "ELIGIBLE" # NoCase
      BY ConstantsOK DEF CaseState
    <3> QED
      BY <1>4, <3>1 DEF InsertCase, Exists, ExceptionInv, CoreInv, TypeOK
  <2>7. Exists(f.kase)
    BY <1>2, MovedCaseExists DEF ExceptionInv
  <2>8. RestartTypeOK'
    <3> SUFFICES ASSUME NEW c \in Case, previousCase'[c] # NoCase
                 PROVE  Exists(c)' /\ Exists(previousCase[c])'
      BY <1>3, <2>2, <2>3 DEF RestartTypeOK, ExceptionInv, TablesOK
    <3>1. PICK p : p = previousCase'[c]
      OBVIOUS
    <3>2. p \in Case /\ Exists(p)
      BY <1>2, <2>3, <2>7, <3>1 DEF ExceptionInv, TablesOK, RestartTypeOK
    <3>3. Exists(c)'
      BY <2>3, <2>6 DEF ExceptionInv, TablesOK, RestartTypeOK
    <3>4. Exists(p)'
      BY <2>6, <3>2
    <3> QED
      BY <3>1, <3>3, <3>4 DEF Exists
  <2>9. WaiverTypeOK'
    BY DEF ExceptionInv, TablesOK, WaiverTypeOK, DocumentsOK
  <2>10. FocalsAsk'
    BY <2>2 DEF ExceptionInv, TablesOK, FocalsAsk
  <2>11. HangsFromAuthorized'
    <3> SUFFICES ASSUME NEW c \in Case, previousCase'[c] # NoCase
                 PROVE  HasEvent(previousCase[c], "RESTART_AUTHORIZED")'
      BY DEF HangsFromAuthorized
    <3>1. PICK p : p = previousCase'[c]
      OBVIOUS
    <3>2. p \in Case /\ HasEvent(p, "RESTART_AUTHORIZED")
      BY <1>2, <2>3, <3>1 DEF ExceptionInv, TablesOK, RestartTypeOK, HangsFromAuthorized
    <3>3. HasEvent(p, "RESTART_AUTHORIZED")'
      BY <2>5, <3>2, FactsStay
    <3> QED
      BY <3>1, <3>3 DEF HasEvent
  <2>12. AuthorizedRequestHasNewCase'
    <3> SUFFICES ASSUME NEW j \in DOMAIN restarts', restarts'[j].outcome = "AUTHORIZED"
                 PROVE  \E e \in Case : previousCase'[e] = restarts'[j].kase
      BY DEF AuthorizedRequestHasNewCase
    <3>1. CASE j = f.request
      BY <1>2, <2>2, <2>3, <3>1
    <3>2. CASE j # f.request
      <4>1. restarts'[j] = restarts[j] /\ j \in DOMAIN restarts
        BY <2>2, <3>2
      <4>2. restarts[j].kase # NoCase
        BY <4>1, RequestRows, RestartOK DEF ExceptionInv, TablesOK
      <4>3. PICK e \in Case : previousCase[e] = restarts[j].kase
        BY <4>1 DEF ExceptionInv, TablesOK, AuthorizedRequestHasNewCase
      <4> QED
        BY <2>3, <2>4, <4>1, <4>2, <4>3
    <3> QED
      BY <3>1, <3>2
  <2>13. TablesOK'
    BY <1>3, <2>5, <2>8, <2>9, <2>10, <2>11, <2>12, TablesStay DEF ExceptionInv
  <2>14. RequestsOK'
    BY <1>3, <2>5, RespondKeepsRequests DEF ExceptionInv, CoreInv
  <2> QED
    BY <2>1, <2>5, <2>13, <2>14 DEF Kept, ExceptionInv
<1>5. CASE UNCHANGED <<state, previousCase, restarts>>
  <2>1. UNCHANGED allTables
    BY <1>3, <1>5 DEF allTables, restartVars
  <2> QED
    BY <1>3, <2>1, QuietRespond
<1> QED
  BY <1>1, <1>4, <1>5 DEF CountersignCreatesCase

\* denyRestart() asks the executor.
LEMMA DenyDecideKeeps ==
  ASSUME ExceptionInv, NEW r \in Request, DenyDecide(r), UNCHANGED <<documents, waivers>>
  PROVE  Kept
<1>1. PICK f : f = frame[r]
  OBVIOUS
<1>2. /\ f.kase \in Case /\ f.user \in User
      /\ IsAbout(f.request, f.kase)
  BY <1>1, FrameOf DEF DenyDecide, At, FrameOK, DenyLabel, UserLabel, CaseLabel
<1>3. FrameOK("deny:record", f)
  BY <1>2 DEF FrameOK, CaseLabel, UserLabel, RequestLabel, SignLabel, DenyLabel, EvidenceLabel,
              WaiverLabel
<1>4. "deny:record" \in Continuation \ AfterMove
  BY LabelsContinue DEF CaseLabel, UserLabel, DenyLabel, AfterMove
<1>5. "RESTART_DENIED" \in CaseState /\ f.user \in Actor
  BY <1>2 DEF CaseState, Actor
<1>6. /\ TransitionOrFail(r, f.kase, "RESTART_DENIED", f.user, TRUE, {}, "deny:record")
      /\ UNCHANGED <<documents, restartVars, waivers>>
  BY <1>1 DEF DenyDecide
<1> QED
  BY <1>1, <1>2, <1>3, <1>4, <1>5, <1>6, QuietCall

\* Its outcome is written, unless the CHECK refuses it.
LEMMA DenyRecordKeeps ==
  ASSUME ExceptionInv, NEW r \in Request, DenyRecord(r), UNCHANGED <<documents, waivers>>
  PROVE  Kept
<1>1. PICK f : f = frame[r]
  OBVIOUS
<1>2. f.request \in DOMAIN restarts
  BY <1>1, FrameOf DEF DenyRecord, At, FrameOK, DenyLabel, IsAbout
<1>3. /\ Respond(r)
      /\ UNCHANGED <<state, history, previousCase, escalated, documents, waivers>>
  BY DEF DenyRecord
<1>4. CASE restarts' = [restarts EXCEPT ![f.request].outcome = "DENIED"]
  BY <1>2, <1>3, <1>4, DenyRequest, RespondStep DEF ExceptionInv
<1>5. CASE UNCHANGED restarts
  <2>1. UNCHANGED allTables
    BY <1>3, <1>5 DEF allTables, restartVars
  <2> QED
    BY <1>3, <2>1, QuietRespond
<1> QED
  BY <1>1, <1>4, <1>5 DEF DenyRecord

\* The Dean's ruling moves nothing.
LEMMA EscalateCreateKeeps ==
  ASSUME ExceptionInv, NEW r \in Request, EscalateCreate(r), UNCHANGED <<documents, waivers>>
  PROVE  Kept
<1>1. PICK f : f = frame[r]
  OBVIOUS
<1>2. f.kase \in Case
  BY <1>1, FrameOf DEF EscalateCreate, At, CaseLabel
<1>3. /\ Respond(r)
      /\ escalated' = escalated \cup {f.kase}
      /\ UNCHANGED <<state, history, restarts, previousCase, documents, waivers>>
  BY <1>1 DEF EscalateCreate
<1>4. Grows
  BY <1>3 DEF Grows
<1>5. RestartTypeOK' /\ WaiverTypeOK'
  BY <1>2, <1>3 DEF ExceptionInv, TablesOK, RestartTypeOK, WaiverTypeOK, DocumentsOK, Exists
<1>6. TablesOK'
  BY <1>3, <1>4, <1>5, TablesStay DEF ExceptionInv
<1> QED
  BY <1>3, <1>4, <1>6, RespondStep


-----------------------------------------------------------------------------
(* The waiver path.                                                        *)

\* A decision on the waiver of the student whose case it is.
LEMMA DecideRequestKeeps ==
  ASSUME ExceptionInv, NEW r \in Request, NEW s \in Students, NEW u \in User,
         NEW decision \in Decisions, DecideWaiver(r, s, u, decision), UNCHANGED restartVars
  PROVE  Kept
<1>1. PICK c \in Case : /\ StudentOf(c) = s
                        /\ Await(r, "waiver:decide", [kase |-> c, student |-> s, user |-> u,
                                                      decision |-> decision])
  BY DEF DecideWaiver, caseForWaiver
<1>2. waivers[s] # NoWaiver /\ UNCHANGED allTables
  BY DEF DecideWaiver, allTables
<1> DEFINE g == [kase |-> c, student |-> s, user |-> u, decision |-> decision]
<1>3. g.kase = c /\ g.student = s /\ g.user = u /\ g.decision = decision
  OBVIOUS
<1> HIDE DEF g
<1>4. FrameOK("waiver:decide", g)
  BY <1>1, <1>2, <1>3 DEF FrameOK, RequestLabel, SignLabel, DenyLabel, EvidenceLabel
<1>5. "waiver:decide" \in Continuation \ AfterMove
  BY LabelsContinue DEF CaseLabel, UserLabel, AfterMove
<1>6. Await(r, "waiver:decide", g)
  BY <1>1 DEF g
<1> QED
  BY <1>2, <1>4, <1>5, <1>6, QuietAwait

\* What people start on the waiver path.
LEMMA WaiverRequestKeeps ==
  ASSUME ExceptionInv, NEW r \in Request, WaiverRequests(r), UNCHANGED restartVars
  PROVE  Kept
<1>1. ASSUME NEW s \in Students, NEW u \in User, InitiateWaiver(r, s, u)
      PROVE  Kept
  <2> DEFINE g == [kase |-> NoCase, student |-> s]
  <2>1. Await(r, "waiver:create", g) /\ UNCHANGED allTables
    BY <1>1 DEF InitiateWaiver, allTables
  <2>2. \E x \in Students : g = [kase |-> NoCase, student |-> x]
    OBVIOUS
  <2> HIDE DEF g
  <2>3. FrameOK("waiver:create", g)
    BY <2>2 DEF FrameOK, CaseLabel, UserLabel, RequestLabel, SignLabel, DenyLabel, EvidenceLabel,
                WaiverLabel
  <2>4. "waiver:create" \in Continuation \ AfterMove
    BY LabelsContinue DEF AfterMove
  <2> QED
    BY <2>1, <2>3, <2>4, QuietAwait
<1>2. Decisions = {countersignWaiver, denyWaiverAtHod, approveWaiver, denyWaiverAtDean}
  BY DEF Decisions
<1>3. ASSUME NEW s \in Students, NEW u \in User, NEW decision \in Decisions,
             DecideWaiver(r, s, u, decision)
      PROVE  Kept
  BY <1>3, DecideRequestKeeps
<1> QED
  BY <1>1, <1>2, <1>3
     DEF WaiverRequests, PostCountersign, PostHodDeny, PostApprove, PostDeanDeny

\* The case of a waiver is inserted, or its student has got an active case.
LEMMA WaiverCreateCaseKeeps ==
  ASSUME ExceptionInv, NEW r \in Request, WaiverCreateCase(r), UNCHANGED restartVars
  PROVE  Kept
<1>1. PICK f : f = frame[r]
  OBVIOUS
<1>2. PICK s \in Students : f = [kase |-> NoCase, student |-> s]
  BY <1>1, FrameOf DEF WaiverCreateCase, At, FrameOK
<1>3. UNCHANGED <<history, documents, waivers, restarts, previousCase, escalated>>
  BY DEF WaiverCreateCase, restartVars
<1>4. ASSUME NEW c \in Case, Fresh(c), InsertCase(c, "WAIVER_REQUESTED"),
             Await(r, "waiver:evidence", [f EXCEPT !.kase = c])
      PROVE  Kept
  <2> DEFINE g == [f EXCEPT !.kase = c]
  <2>1. g.kase = c /\ g.student = s
    BY <1>2
  <2> HIDE DEF g
  <2>2. Await(r, "waiver:evidence", g)
    BY <1>4 DEF g
  <2>3. "waiver:evidence" \in Continuation \ AfterMove
    BY LabelsContinue DEF CaseLabel, EvidenceLabel, AfterMove
  <2>4. CoreInv'
    <3>1. \A q \in Request : pc[q] = "commit" => tx[q].kase # c
      BY <1>4 DEF Fresh
    <3>2. NoNewCall /\ "WAIVER_REQUESTED" \in GENESIS_STATES
      BY <2>2, <2>3, AwaitIsNoCall DEF ExceptionInv, CoreInv, GENESIS_STATES
    <3> QED
      BY <1>3, <1>4, <3>1, <3>2, InsertKeepsCore DEF ExceptionInv
  <2>5. Grows
    BY <1>3 DEF Grows
  <2>6. \A d \in Case : Exists(d) => Exists(d)'
    <3>1. "WAIVER_REQUESTED" # NoCase
      BY ConstantsOK DEF CaseState
    <3> QED
      BY <1>4, <3>1 DEF InsertCase, Exists, ExceptionInv, CoreInv, TypeOK
  <2>7. RestartTypeOK'
    <3> SUFFICES ASSUME NEW d \in Case, previousCase[d] # NoCase
                 PROVE  Exists(d)' /\ Exists(previousCase[d])'
      BY <1>3 DEF RestartTypeOK, ExceptionInv, TablesOK
    <3>1. PICK p \in Case : p = previousCase[d]
      BY DEF ExceptionInv, TablesOK, RestartTypeOK
    <3>2. Exists(d)' /\ Exists(p)'
      BY <2>6, <3>1 DEF ExceptionInv, TablesOK, RestartTypeOK
    <3> QED
      BY <1>3, <3>1, <3>2 DEF Exists
  <2>8. WaiverTypeOK'
    BY <1>3 DEF ExceptionInv, TablesOK, WaiverTypeOK, DocumentsOK
  <2>9. TablesOK'
    BY <1>3, <2>5, <2>7, <2>8, TablesStay DEF ExceptionInv
  <2>10. (previousCase[g.kase] = NoCase)'
    BY <1>3, <1>4, <2>1 DEF Fresh, ExceptionInv, TablesOK, RestartTypeOK
  <2>11. FrameOK("waiver:evidence", g)'
    BY <2>1, <2>10 DEF FrameOK, CaseLabel, UserLabel, RequestLabel, SignLabel, DenyLabel,
                       EvidenceLabel, WaiverLabel
  <2>12. RequestsOK'
    BY <2>2, <2>3, <2>5, <2>11, AwaitKeepsRequests DEF ExceptionInv, CoreInv
  <2> QED
    BY <2>4, <2>5, <2>9, <2>12 DEF Kept, ExceptionInv
<1>5. CASE Respond(r) /\ UNCHANGED state
  <2>1. UNCHANGED allTables
    BY <1>3, <1>5 DEF allTables, restartVars
  <2> QED
    BY <1>5, <2>1, QuietRespond
<1> QED
  BY <1>1, <1>2, <1>4, <1>5 DEF WaiverCreateCase

\* The evidence is stored or refused.
LEMMA WaiverStoreEvidenceKeeps ==
  ASSUME ExceptionInv, NEW r \in Request, WaiverStoreEvidence(r), UNCHANGED restartVars
  PROVE  Kept
<1>1. PICK f : f = frame[r]
  OBVIOUS
<1>2. f.kase \in Case /\ previousCase[f.kase] = NoCase /\ f.student \in Students
  BY <1>1, FrameOf DEF WaiverStoreEvidence, At, FrameOK, CaseLabel, EvidenceLabel
<1>3. UNCHANGED <<state, history, waivers, restarts, previousCase, escalated>>
  BY DEF WaiverStoreEvidence, restartVars
<1>4. ASSUME CommitStore(f.kase, "SUPPORTING_EVIDENCE", {}), Await(r, "waiver:record", f)
      PROVE  Kept
  <2>1. Grows
    BY <1>3 DEF Grows
  <2>2. DocumentsOK'
    <3> DEFINE n == Len(documents)
               new == [kase |-> f.kase, type |-> "SUPPORTING_EVIDENCE", status |-> "ACTIVE"]
               same == [i \in DOMAIN documents |->
                          IF i \in {} THEN [documents[i] EXCEPT !.status = "SUPERSEDED"]
                                      ELSE documents[i]]
    <3>1. documents \in Seq(Document)
      BY DEF ExceptionInv, TablesOK, WaiverTypeOK, DocumentsOK
    <3>2. new \in Document
      BY <1>2 DEF Document, DocumentType
    <3>3. same = documents
      BY <3>1
    <3>4. documents' = Append(documents, new)
      BY <1>4, <3>3 DEF CommitStore
    <3> HIDE DEF new
    <3> QED
      BY <3>1, <3>2, <3>4 DEF DocumentsOK
  <2>3. RestartTypeOK' /\ WaiverTypeOK'
    BY <1>3, <2>2 DEF ExceptionInv, TablesOK, RestartTypeOK, WaiverTypeOK, Exists
  <2>4. TablesOK'
    BY <1>3, <2>1, <2>3, TablesStay DEF ExceptionInv
  <2>5. FrameOK("waiver:record", f)'
    BY <1>2 DEF FrameOK, CaseLabel, UserLabel, RequestLabel, SignLabel, DenyLabel,
                EvidenceLabel, WaiverLabel
  <2>6. "waiver:record" \in Continuation \ AfterMove
    BY LabelsContinue DEF CaseLabel, AfterMove
  <2> QED
    BY <1>3, <1>4, <2>1, <2>4, <2>5, <2>6, AwaitStep
<1>5. CASE Await(r, "waiver:undo", f) /\ UNCHANGED documents
  <2>1. UNCHANGED allTables
    BY <1>3, <1>5 DEF allTables, restartVars
  <2>2. FrameOK("waiver:undo", f)
    BY <1>2 DEF FrameOK, CaseLabel, UserLabel, RequestLabel, SignLabel, DenyLabel,
                EvidenceLabel, WaiverLabel
  <2>3. "waiver:undo" \in Continuation \ AfterMove
    BY LabelsContinue DEF CaseLabel, EvidenceLabel, AfterMove
  <2> QED
    BY <1>5, <2>1, <2>2, <2>3, QuietAwait
<1> QED
  BY <1>1, <1>4, <1>5 DEF WaiverStoreEvidence

\* The compensating delete: the case has no event, so no case points back at it.
LEMMA WaiverUndoKeeps ==
  ASSUME ExceptionInv, NEW r \in Request, WaiverUndo(r), UNCHANGED restartVars
  PROVE  Kept
<1>1. PICK c : c = frame[r].kase
  OBVIOUS
<1>2. c \in Case /\ previousCase[c] = NoCase
  BY <1>1, FrameOf DEF WaiverUndo, At, FrameOK, CaseLabel, EvidenceLabel
<1>3. /\ Respond(r)
      /\ UNCHANGED <<history, documents, waivers, restarts, previousCase, escalated>>
  BY DEF WaiverUndo, restartVars
<1>4. CASE history[c] = <<>> /\ state' = [state EXCEPT ![c] = NoCase]
  <2>1. CoreInv'
    BY <1>2, <1>3, <1>4, RespondIsNoCall, DeleteKeepsCore DEF ExceptionInv, CoreInv
  <2>2. Grows
    BY <1>3 DEF Grows
  <2>3. \A d \in Case \ {c} : Exists(d) => Exists(d)'
    BY <1>2, <1>4 DEF Exists, ExceptionInv, CoreInv, TypeOK
  <2>4. RestartTypeOK'
    <3> SUFFICES ASSUME NEW d \in Case, previousCase[d] # NoCase
                 PROVE  Exists(d)' /\ Exists(previousCase[d])'
      BY <1>3 DEF RestartTypeOK, ExceptionInv, TablesOK
    <3>1. PICK p \in Case : p = previousCase[d]
      BY DEF ExceptionInv, TablesOK, RestartTypeOK
    <3>2. HasEvent(p, "RESTART_AUTHORIZED")
      BY <3>1 DEF ExceptionInv, TablesOK, HangsFromAuthorized
    <3>3. p # c
      BY <1>4, <3>2 DEF HasEvent
    <3>4. d # c
      BY <1>2
    <3>5. Exists(d)' /\ Exists(p)'
      BY <2>3, <3>1, <3>3, <3>4 DEF ExceptionInv, TablesOK, RestartTypeOK
    <3> QED
      BY <1>3, <3>1, <3>5 DEF Exists
  <2>5. WaiverTypeOK'
    BY <1>3 DEF ExceptionInv, TablesOK, WaiverTypeOK, DocumentsOK
  <2>6. TablesOK'
    BY <1>3, <2>2, <2>4, <2>5, TablesStay DEF ExceptionInv
  <2>7. RequestsOK'
    BY <1>3, <2>2, RespondKeepsRequests DEF ExceptionInv, CoreInv
  <2> QED
    BY <2>1, <2>2, <2>6, <2>7 DEF Kept, ExceptionInv
<1>5. CASE UNCHANGED state
  <2>1. UNCHANGED allTables
    BY <1>3, <1>5 DEF allTables, restartVars
  <2> QED
    BY <1>3, <2>1, QuietRespond
<1> QED
  BY <1>1, <1>4, <1>5 DEF WaiverUndo


\* The waiver's row, unless the student has one.
LEMMA WaiverRecordKeeps ==
  ASSUME ExceptionInv, NEW r \in Request, WaiverRecord(r), UNCHANGED restartVars
  PROVE  Kept
<1>1. PICK s : s = frame[r].student
  OBVIOUS
<1>2. s \in Students
  BY <1>1, FrameOf DEF WaiverRecord, At, FrameOK
<1>3. /\ Respond(r)
      /\ UNCHANGED <<state, history, documents, restarts, previousCase, escalated>>
  BY DEF WaiverRecord, restartVars
<1> DEFINE new == [outcome |-> "PENDING", signers |-> {}]
<1>4. new \in Waiver /\ new # NoWaiver /\ new.outcome # "GRANTED"
  BY DEF Waiver, NoWaiver
<1> HIDE DEF new
<1>5. CASE waivers[s] = NoWaiver /\ waivers' = [waivers EXCEPT ![s] = new]
  <2>1. waivers \in [Students -> Waiver \cup {NoWaiver}]
    BY DEF ExceptionInv, TablesOK, WaiverTypeOK
  <2>2. waivers'[s] = new /\ \A x \in Students \ {s} : waivers'[x] = waivers[x]
    BY <1>2, <1>5, <2>1
  <2>3. Grows
    BY <1>3, <1>4, <2>2 DEF Grows
  <2>4. RestartTypeOK' /\ WaiverTypeOK'
    <3>1. waivers' \in [Students -> Waiver \cup {NoWaiver}]
      BY <1>4, <1>5, <2>1
    <3> QED
      BY <1>3, <3>1 DEF ExceptionInv, TablesOK, RestartTypeOK, WaiverTypeOK, DocumentsOK, Exists
  <2>5. GrantWasMoved'
    <3> SUFFICES ASSUME NEW x \in Students, waivers'[x].outcome = "GRANTED"
                 PROVE  \E c \in Case : StudentOf(c) = x /\ HasEvent(c, "WAIVER_GRANTED")'
      BY DEF GrantWasMoved
    <3>1. waivers[x].outcome = "GRANTED"
      BY <1>4, <2>2
    <3>2. PICK c \in Case : StudentOf(c) = x /\ HasEvent(c, "WAIVER_GRANTED")
      BY <3>1 DEF ExceptionInv, TablesOK, GrantWasMoved
    <3> QED
      BY <2>3, <3>2, FactsStay
  <2>6. TablesOK'
    BY <1>3, <2>3, <2>4, <2>5, TablesStay DEF ExceptionInv
  <2> QED
    BY <1>3, <2>3, <2>6, RespondStep
<1>6. CASE UNCHANGED waivers
  <2>1. UNCHANGED allTables
    BY <1>3, <1>6 DEF allTables, restartVars
  <2> QED
    BY <1>3, <2>1, QuietRespond
<1> QED
  BY <1>1, <1>5, <1>6 DEF WaiverRecord, new

\* What the four decisions have in common.
LEMMA DecisionFacts ==
  ASSUME NEW decision \in Decisions
  PROVE  /\ decision.to \in CaseState /\ decision.to # "RESTART_AUTHORIZED"
         /\ decision.role \in {"HOD", "DEAN"}
         /\ decision.outcome \in {"PENDING", "GRANTED", "DENIED"}
         /\ decision.outcome = "GRANTED" => decision.to = "WAIVER_GRANTED"
BY DEF Decisions, countersignWaiver, denyWaiverAtHod, approveWaiver, denyWaiverAtDean, CaseState

\* A decision asks the executor.
LEMMA WaiverDecideKeeps ==
  ASSUME ExceptionInv, NEW r \in Request, WaiverDecide(r), UNCHANGED restartVars
  PROVE  Kept
<1>1. PICK f : f = frame[r]
  OBVIOUS
<1>2. /\ f.kase \in Case /\ f.user \in User
      /\ f.decision \in Decisions /\ f.student = StudentOf(f.kase)
      /\ waivers[f.student] # NoWaiver
  BY <1>1, FrameOf DEF WaiverDecide, At, FrameOK, WaiverLabel, UserLabel, CaseLabel
<1>3. FrameOK("waiver:sign", f)
  BY <1>2 DEF FrameOK, CaseLabel, UserLabel, RequestLabel, SignLabel, DenyLabel, EvidenceLabel,
              WaiverLabel
<1>4. "waiver:sign" \in Continuation /\ MovedTo("waiver:sign", f) = f.decision.to
  BY LabelsContinue DEF CaseLabel, WaiverLabel, MovedTo
<1>5. /\ f.decision.to \in CaseState
      /\ f.decision.to # "RESTART_AUTHORIZED"
      /\ f.user \in Actor
  BY <1>2, DecisionFacts DEF Actor
<1>6. /\ TransitionOrFail(r, f.kase, f.decision.to, f.user, TRUE, {}, "waiver:sign")
      /\ UNCHANGED <<documents, restartVars, waivers>>
  BY <1>1 DEF WaiverDecide
<1> QED
  BY <1>1, <1>2, <1>3, <1>4, <1>5, <1>6, QuietCall

\* It signs the waiver after the case has moved: it grants only what it moved.
LEMMA WaiverSignKeeps ==
  ASSUME ExceptionInv, NEW r \in Request, WaiverSign(r), UNCHANGED restartVars
  PROVE  Kept
<1>1. PICK f : f = frame[r]
  OBVIOUS
<1>2. /\ f.kase \in Case
      /\ f.decision \in Decisions /\ f.student = StudentOf(f.kase)
      /\ waivers[f.student] # NoWaiver
      /\ HasEvent(f.kase, f.decision.to)
  <2>1. pc[r] = "waiver:sign"
    BY DEF WaiverSign, At
  <2>2. "waiver:sign" \in CaseLabel \cap WaiverLabel \cap AfterMove
    BY DEF CaseLabel, WaiverLabel, AfterMove
  <2>3. MovedTo("waiver:sign", f) = f.decision.to
    BY DEF MovedTo
  <2> QED
    BY <1>1, <2>1, <2>2, <2>3, FrameOf DEF FrameOK
<1>3. /\ Respond(r)
      /\ UNCHANGED <<state, history, documents, restarts, previousCase, escalated>>
  BY DEF WaiverSign, restartVars
<1>4. PICK s \in Students : s = f.student
  BY <1>2 DEF Students
<1>5. waivers \in [Students -> Waiver \cup {NoWaiver}]
  BY DEF ExceptionInv, TablesOK, WaiverTypeOK
<1>6. PICK old \in Waiver : old = waivers[s]
  BY <1>2, <1>4, <1>5
<1> DEFINE new == [outcome |-> IF f.decision.outcome = "PENDING" THEN old.outcome
                                                                 ELSE f.decision.outcome,
                   signers |-> old.signers \cup {f.decision.role}]
<1>7. waivers' = [waivers EXCEPT ![s] = new]
  BY <1>1, <1>4, <1>6 DEF WaiverSign
<1>8. /\ new \in Waiver
      /\ new.outcome = "GRANTED" => old.outcome = "GRANTED" \/ f.decision.to = "WAIVER_GRANTED"
  <2>1. old.outcome \in {"PENDING", "GRANTED", "DENIED"} /\ old.signers \subseteq {"HOD", "DEAN"}
    BY DEF Waiver
  <2>2. /\ f.decision.role \in {"HOD", "DEAN"}
        /\ f.decision.outcome \in {"PENDING", "GRANTED", "DENIED"}
        /\ f.decision.outcome = "GRANTED" => f.decision.to = "WAIVER_GRANTED"
    BY <1>2, DecisionFacts
  <2> QED
    BY <2>1, <2>2 DEF Waiver
<1> HIDE DEF new
<1>9. new # NoWaiver
  BY <1>8 DEF Waiver, NoWaiver
<1>10. waivers'[s] = new /\ \A x \in Students \ {s} : waivers'[x] = waivers[x]
  BY <1>5, <1>7
<1>11. Grows
  BY <1>3, <1>9, <1>10 DEF Grows
<1>12. RestartTypeOK' /\ WaiverTypeOK'
  <2>1. waivers' \in [Students -> Waiver \cup {NoWaiver}]
    BY <1>5, <1>7, <1>8
  <2> QED
    BY <1>3, <2>1 DEF ExceptionInv, TablesOK, RestartTypeOK, WaiverTypeOK, DocumentsOK, Exists
<1>13. GrantWasMoved'
  <2> SUFFICES ASSUME NEW x \in Students, waivers'[x].outcome = "GRANTED"
               PROVE  \E c \in Case : StudentOf(c) = x /\ HasEvent(c, "WAIVER_GRANTED")'
    BY DEF GrantWasMoved
  <2>1. waivers[x].outcome = "GRANTED" \/ (x = s /\ f.decision.to = "WAIVER_GRANTED")
    BY <1>6, <1>8, <1>10
  <2>2. PICK c \in Case : StudentOf(c) = x /\ HasEvent(c, "WAIVER_GRANTED")
    BY <1>2, <1>4, <2>1 DEF ExceptionInv, TablesOK, GrantWasMoved
  <2> QED
    BY <1>11, <2>2, FactsStay
<1>14. TablesOK'
  BY <1>3, <1>11, <1>12, <1>13, TablesStay DEF ExceptionInv
<1> QED
  BY <1>3, <1>11, <1>14, RespondStep

-----------------------------------------------------------------------------
(* Every step.                                                             *)

\* A student withdraws.
LEMMA WithdrawKeeps ==
  ASSUME ExceptionInv, NEW r \in Request, NEW c \in Case, Withdraw(r, c),
         UNCHANGED <<documents, restartVars, waivers>>
  PROVE  Kept
<1>1. PICK f : f = frame[r]
  OBVIOUS
<1>2. FrameOK("idle", f) /\ "idle" \notin AfterMove /\ "idle" \in Continuation
  BY NothingToKeep, LabelsContinue
<1>3. "WITHDRAWN" \in CaseState /\ "WITHDRAWN" # "RESTART_AUTHORIZED" /\ StudentOf(c) \in Actor
  BY OwnersOK DEF CaseState, Actor, StudentOf
<1>4. BeginTransition(r, c, "WITHDRAWN", StudentOf(c), FALSE, {}, "idle") /\ UNCHANGED frame
  BY DEF Withdraw
<1> QED
  BY <1>1, <1>2, <1>3, <1>4, QuietBegin

\* The executor commits: a restart it authorises has its two signers.
LEMMA CommitStepKeeps ==
  ASSUME ExceptionInv, NEW r \in Request, CommitTransition(r),
         UNCHANGED <<documents, restartVars, waivers>>
  PROVE  Kept
<1>1. PICK t : t = tx[r]
  OBVIOUS
<1>2. pc[r] = "commit" /\ t \in InFlight /\ t.kase \in Case
  BY <1>1 DEF CommitTransition, ExceptionInv, CoreInv, TypeOK, InFlight
<1>3. t.to = "RESTART_AUTHORIZED" => TwoSigners(t.kase, t.actor)
  <2>1. PICK f : f = frame[r]
    OBVIOUS
  <2>2. LocalsOK("commit", t, f)
    BY <1>1, <1>2, <2>1 DEF ExceptionInv, RequestsOK, RequestOK
  <2> QED
    BY <2>2 DEF LocalsOK
<1>4. UNCHANGED <<documents, restarts, previousCase, escalated, waivers>>
  BY DEF restartVars
<1>5. CoreInv'
  BY ExecutorKeepsCore DEF ExceptionInv, ExecutorStep
<1>6. PICK k \in Case, n \in Nat :
        /\ k = t.kase
        /\ DOMAIN history[k] = 1..n
        /\ DOMAIN history'[k] = 1..(n + 1)
        /\ history'[k][n + 1] = EventOf(t)
        /\ \A i \in 1..n : history'[k][i] = history[k][i]
        /\ \A d \in Case \ {k} : history'[d] = history[d]
  BY <1>1, <1>2, CommitWrites DEF ExceptionInv, CoreInv
<1>7. 1..n \subseteq 1..(n + 1) /\ \A i \in 1..(n + 1) : i \in 1..n \/ i = n + 1
  OBVIOUS
<1>8. Grows
  <2>1. \A c \in Case : \A i \in DOMAIN history[c] :
          i \in DOMAIN history'[c] /\ history'[c][i] = history[c][i]
    BY <1>6, <1>7
  <2> QED
    BY <1>4, <2>1 DEF Grows
<1>9. RestartTypeOK' /\ WaiverTypeOK'
  <2>1. \A c \in Case : Exists(c)' <=> Exists(c)
    BY CommitEnters DEF ExceptionInv, CoreInv
  <2>2. RestartTypeOK'
    <3> SUFFICES ASSUME NEW c \in Case, previousCase[c] # NoCase
                 PROVE  Exists(c)' /\ Exists(previousCase[c])'
      BY <1>4 DEF RestartTypeOK, ExceptionInv, TablesOK
    <3>1. PICK p \in Case : p = previousCase[c]
      BY DEF ExceptionInv, TablesOK, RestartTypeOK
    <3>2. Exists(c)' /\ Exists(p)'
      BY <2>1, <3>1 DEF ExceptionInv, TablesOK, RestartTypeOK
    <3> QED
      BY <1>4, <3>1, <3>2 DEF Exists
  <2> QED
    BY <1>4, <2>2 DEF ExceptionInv, TablesOK, WaiverTypeOK, DocumentsOK
<1>10. TwoHaveSigned'
  <2> SUFFICES ASSUME NEW c \in Case, NEW u \in Actor, NEW i \in DOMAIN history'[c],
                      history'[c][i].to = "RESTART_AUTHORIZED", history'[c][i].actor = u
               PROVE  TwoSigners(c, u)'
    BY DEF TwoHaveSigned
  <2>1. TwoSigners(c, u)
    <3>1. CASE c = k /\ i = n + 1
      <4>1. history'[c][i].to = t.to /\ history'[c][i].actor = t.actor
        BY <1>6, <3>1 DEF EventOf
      <4> QED
        BY <1>3, <1>6, <3>1, <4>1
    <3>2. CASE i \in DOMAIN history[c] /\ history'[c][i] = history[c][i]
      BY <3>2 DEF ExceptionInv, TablesOK, TwoHaveSigned
    <3> QED
      BY <1>6, <1>7, <3>1, <3>2
  <2> QED
    BY <1>8, <2>1, FactsStay
<1>11. TablesOK'
  BY <1>4, <1>8, <1>9, <1>10, TablesStay DEF ExceptionInv
<1>12. RequestsOK'
  BY <1>8, CommitKeepsRequests DEF ExceptionInv, CoreInv
<1> QED
  BY <1>5, <1>8, <1>11, <1>12 DEF Kept, ExceptionInv

\* A call that is over leaves its request with what it knew.
LEMMA LeavingKeeps ==
  ASSUME ExceptionInv, NEW r \in Request, AbortTransition(r) \/ ReturnFromTransition(r),
         UNCHANGED <<documents, restartVars, waivers>>
  PROVE  Kept
<1>1. UNCHANGED <<state, history>>
  BY LeavingIsNoCall DEF ExceptionInv, CoreInv
<1>2. CoreInv'
  BY ExecutorKeepsCore DEF ExceptionInv, ExecutorStep
<1>3. Grows /\ TablesOK'
  BY <1>1, QuietTables DEF allTables, ExceptionInv
<1>4. RequestsOK'
  BY <1>3, ReturnKeepsRequests, RespondKeepsRequests DEF ExceptionInv, CoreInv, AbortTransition
<1> QED
  BY <1>2, <1>3, <1>4 DEF Kept, ExceptionInv

\* A step that is none.
LEMMA StutterKeeps ==
  ASSUME ExceptionInv, UNCHANGED exceptionVars
  PROVE  Kept
<1>1. UNCHANGED <<state, history, pc, tx, frame, documents, restartVars, waivers>>
  BY DEF exceptionVars, coreVars
<1>2. CoreInv'
  BY <1>1, QuietStepKeepsCore DEF ExceptionInv, CoreInv, TypeOK, NoNewCall
<1>3. Grows /\ TablesOK'
  BY <1>1, QuietTables DEF allTables, ExceptionInv
<1>4. RequestsOK'
  BY <1>1, <1>3, OtherRequestsStay DEF ExceptionInv, RequestsOK
<1> QED
  BY <1>2, <1>3, <1>4 DEF Kept, ExceptionInv

\* Every step keeps the invariant and takes nothing back.
LEMMA NextKeeps ==
  ASSUME ExceptionInv, [ExceptionNext]_exceptionVars
  PROVE  Kept
<1>1. ASSUME NEW r \in Request, ExceptionRequest(r)
      PROVE  Kept
  BY <1>1, RestartRequestKeeps, WaiverRequestKeeps, WithdrawKeeps DEF ExceptionRequest
<1>2. ASSUME NEW r \in Request, RestartStep(r), UNCHANGED <<documents, waivers>>
      PROVE  Kept
  BY <1>2, RestartDecideKeeps, RestartRecordKeeps, CountersignDecideKeeps,
     CountersignCreatesCaseKeeps, DenyDecideKeeps, DenyRecordKeeps, EscalateCreateKeeps
     DEF RestartStep
<1>3. ASSUME NEW r \in Request, WaiverStep(r), UNCHANGED restartVars
      PROVE  Kept
  BY <1>3, WaiverCreateCaseKeeps, WaiverStoreEvidenceKeeps, WaiverUndoKeeps, WaiverRecordKeeps,
     WaiverDecideKeeps, WaiverSignKeeps DEF WaiverStep
<1>4. ASSUME NEW r \in Request, ExecutorStep(r), UNCHANGED <<documents, restartVars, waivers>>
      PROVE  Kept
  BY <1>4, CommitStepKeeps, LeavingKeeps DEF ExecutorStep
<1>5. CASE UNCHANGED exceptionVars
  BY <1>5, StutterKeeps
<1> QED
  BY <1>1, <1>2, <1>3, <1>4, <1>5 DEF ExceptionNext, ExceptionServer


-----------------------------------------------------------------------------
(* The beginning.                                                          *)

\* A past the executor can have left is one its invariant allows.
LEMMA PastIsInv == ExceptionInit => CoreInv
<1> SUFFICES ASSUME ExceptionInit PROVE CoreInv
  OBVIOUS
<1>1. /\ history = Past
      /\ state = [c \in Case |-> IF Past[c] = <<>> THEN NoCase ELSE Past[c][Len(Past[c])].to]
      /\ pc = [r \in Request |-> "idle"] /\ tx = [r \in Request |-> NoTx]
  BY DEF ExceptionInit
<1>2. ASSUME NEW c \in Case
      PROVE  LET h == Past[c] IN
             /\ h \in Seq(Event)
             /\ h = <<>> => state[c] = NoCase
             /\ h # <<>> => /\ Len(h) \in DOMAIN h
                            /\ state[c] = h[Len(h)].to
                            /\ state[c] \in CaseState
                            /\ state[c] # NoCase
  <2>1. Past[c] \in Seq(Event)
    BY PastOK
  <2>2. state[c] = IF Past[c] = <<>> THEN NoCase ELSE Past[c][Len(Past[c])].to
    BY <1>1
  <2>3. CASE Past[c] # <<>>
    <3> DEFINE h == Past[c]
    <3>1. Len(h) \in Nat /\ Len(h) # 0 /\ DOMAIN h = 1..Len(h)
      BY <2>1, <2>3, EmptySeq
    <3>2. Len(h) \in DOMAIN h /\ h[Len(h)] \in Event
      BY <2>1, <3>1
    <3>3. h[Len(h)].to \in CaseState
      BY <3>2 DEF Event
    <3> QED
      BY <2>1, <2>2, <2>3, <3>2, <3>3, ConstantsOK
  <2> QED
    BY <2>1, <2>2, <2>3
<1>3. \A c \in Case : Exists(c) <=> Past[c] # <<>>
  BY <1>2 DEF Exists
<1>4. TypeOK
  <2>1. state \in [Case -> CaseState \cup {NoCase}]
    BY <1>1, <1>2
  <2>2. history \in [Case -> Seq(Event)]
    BY <1>1, PastOK
  <2>3. pc \in [Request -> Label] /\ \A r \in Request : pc[r] = "idle"
    BY <1>1, ConstantsOK
  <2> QED
    BY <1>1, <2>1, <2>2, <2>3 DEF TypeOK
<1>5. OneActiveCase
  <2>1. \A c \in Case : Active(c) => Ongoing(Past[c])
    BY <1>2, <1>3 DEF Active, Ongoing
  <2> QED
    BY <2>1, PastOK DEF OneActiveCase
<1>6. EventsPermitted
  BY <1>1, PastOK DEF EventsPermitted
<1>7. \A c \in Case : Exists(c) => Origin(c) = Past[c][1].from
  BY <1>1, <1>3 DEF Origin
<1>8. HistoryExplainsState
  <2> SUFFICES ASSUME NEW c \in Case
               PROVE  LET h == history[c] IN
                      /\ ~Exists(c) => h = <<>>
                      /\ Exists(c) => Origin(c) \in GENESIS_STATES
                      /\ h # <<>> => state[c] = h[Len(h)].to
                      /\ \A i \in DOMAIN h :
                           h[i].from = Origin(c) \/ \E j \in 1..(i - 1) : h[j].to = h[i].from
    BY DEF HistoryExplainsState
  <2>1. Exists(c) => Origin(c) \in GENESIS_STATES
    BY <1>3, <1>7, PastOK
  <2>2. \A i \in DOMAIN Past[c] : \/ Past[c][i].from = Past[c][1].from
                                  \/ \E j \in 1..(i - 1) : Past[c][j].to = Past[c][i].from
    BY PastOK
  <2>3. \A i \in DOMAIN Past[c] : Past[c] # <<>>
    OBVIOUS
  <2> QED
    BY <1>1, <1>2, <1>3, <1>7, <2>1, <2>2, <2>3
<1>9. NoStageSkipped
  <2>1. \A c \in Case : Exists(c) => Entered(c) = PastStates(Past[c])
    <3> SUFFICES ASSUME NEW c \in Case, Exists(c)
                 PROVE  Entered(c) = PastStates(Past[c])
      OBVIOUS
    <3>1. /\ Past[c] # <<>>
          /\ state[c] \in {Past[c][i].to : i \in DOMAIN Past[c]}
      BY <1>2, <1>3
    <3> QED
      BY <1>1, <1>7, <3>1 DEF Entered, PastStates
  <2>2. \A c \in Case : ~Exists(c) => Entered(c) = {}
    BY DEF Entered
  <2> QED
    BY <2>1, <2>2, PastOK DEF NoStageSkipped
<1>10. CallsJustified
  BY <1>1 DEF CallsJustified
<1> QED
  BY <1>4, <1>5, <1>6, <1>8, <1>9, <1>10 DEF CoreInv

\* Nothing has been asked for yet.
LEMMA NothingYet == ExceptionInit => ExceptionInv
<1> SUFFICES ASSUME ExceptionInit PROVE ExceptionInv
  OBVIOUS
<1>1. /\ history = Past
      /\ pc = [r \in Request |-> "idle"] /\ frame = [r \in Request |-> NoFrame]
      /\ documents = <<>> /\ restarts = <<>> /\ previousCase = [c \in Case |-> NoCase]
      /\ escalated = {} /\ waivers = [s \in Students |-> NoWaiver]
  BY DEF ExceptionInit, DocumentsInit, RestartInit, WaiverInit
<1>2. RestartTypeOK /\ WaiverTypeOK
  BY <1>1 DEF RestartTypeOK, WaiverTypeOK, DocumentsOK
<1>3. TwoHaveSigned
  BY <1>1, PastOK DEF TwoHaveSigned
<1>4. FocalsAsk /\ HangsFromAuthorized /\ AuthorizedRequestHasNewCase
  BY <1>1 DEF FocalsAsk, HangsFromAuthorized, AuthorizedRequestHasNewCase
<1>5. GrantWasMoved
  BY <1>1 DEF GrantWasMoved, NoWaiver
<1>6. RequestsOK
  <2>1. ASSUME NEW r \in Request PROVE RequestOK(r)
    BY <1>1, NothingToKeep DEF RequestOK, LocalsOK
  <2> QED
    BY <1>1, <2>1 DEF RequestsOK
<1> QED
  BY <1>2, <1>3, <1>4, <1>5, <1>6, PastIsInv DEF ExceptionInv, TablesOK

-----------------------------------------------------------------------------
(* The theorems.                                                           *)

\* The invariant holds of every reachable state.
THEOREM ExceptionsAreSafe == ExceptionSpec => []ExceptionInv
<1>1. ExceptionInv /\ [ExceptionNext]_exceptionVars => ExceptionInv'
  BY NextKeeps DEF Kept
<1> QED
  BY <1>1, NothingYet, PTL DEF ExceptionSpec

\* The tables of the two paths keep their types.
THEOREM ExceptionTypes == ExceptionSpec => []ExceptionTypeOK
<1>1. ExceptionInv => ExceptionTypeOK
  BY DEF ExceptionInv, CoreInv, TablesOK, ExceptionTypeOK
<1> QED
  BY <1>1, ExceptionsAreSafe, PTL

\* No student has two cases that are going on, although the two paths open and
\* delete cases beside the executor.
THEOREM ExceptionsKeepOneActiveCase == ExceptionSpec => []OneActiveCase
<1>1. ExceptionInv => OneActiveCase
  BY DEF ExceptionInv, CoreInv
<1> QED
  BY <1>1, ExceptionsAreSafe, PTL

\* A state that has been entered followed those the table puts before it.
LEMMA EnteredBefore ==
  ASSUME CoreInv, NEW c \in Case, NEW m \in MUST_FOLLOW, HasEvent(c, m[1])
  PROVE  m[2] \in Entered(c) /\ m[1] \in Entered(c)
<1>1. Exists(c)
  BY MovedCaseExists
<1>2. m[1] \in Entered(c)
  BY <1>1 DEF HasEvent, Entered
<1> QED
  BY <1>2 DEF CoreInv, NoStageSkipped

\* In a case nobody inserts in it, a state is one it was moved to.
LEMMA EnteredByEvent ==
  ASSUME CoreInv, NEW c \in Case, NEW to, to \notin GENESIS_STATES, to \in Entered(c)
  PROVE  HasEvent(c, to)
<1>1. Exists(c)
  BY DEF Entered
<1>2. Origin(c) # to
  BY <1>1 DEF CoreInv, HistoryExplainsState
<1>3. history[c] # <<>>
  BY <1>1, <1>2 DEF Entered, Origin
<1>4. \E i \in DOMAIN history[c] : state[c] = history[c][i].to
  <2>1. history[c] \in Seq(Event) /\ state[c] = history[c][Len(history[c])].to
    BY <1>3 DEF CoreInv, TypeOK, HistoryExplainsState
  <2>2. Len(history[c]) \in DOMAIN history[c]
    BY <1>3, <2>1, EmptySeq
  <2> QED
    BY <2>1, <2>2
<1> QED
  BY <1>1, <1>2, <1>4 DEF Entered, HasEvent

\* BR-17, BR-20: every authorised restart has its two signers, whatever overlaps,
\* and a new case hangs from a failed one so authorised.
THEOREM RestartsHaveTwoSigners == ExceptionSpec => []RestartHasTwoSigners
<1>1. ExceptionInv => RestartHasTwoSigners
  <2> SUFFICES ASSUME ExceptionInv, NEW c \in Case
               PROVE  /\ \A e \in Events(c) : e.to = "RESTART_AUTHORIZED" =>
                           TwoSigners(c, e.actor)
                      /\ previousCase[c] # NoCase =>
                           {"CLOSED_INCOMPLETE", "RESTART_AUTHORIZED"} \subseteq
                             Entered(previousCase[c])
    BY DEF RestartHasTwoSigners, TwoSigners
  <2>1. ASSUME NEW e \in Events(c), e.to = "RESTART_AUTHORIZED"
        PROVE  TwoSigners(c, e.actor)
    <3>1. PICK i \in DOMAIN history[c] : history[c][i] = e
      BY DEF Events
    <3>2. /\ DOMAIN history[c] = 1..Len(history[c])
          /\ \A j \in 1..Len(history[c]) : history[c][j] \in Event
      BY DEF ExceptionInv, CoreInv, TypeOK
    <3>3. e.actor \in Actor
      BY <3>1, <3>2 DEF Event
    <3> QED
      BY <2>1, <3>1, <3>3 DEF ExceptionInv, TablesOK, TwoHaveSigned
  <2>2. ASSUME previousCase[c] # NoCase
        PROVE  {"CLOSED_INCOMPLETE", "RESTART_AUTHORIZED"} \subseteq Entered(previousCase[c])
    <3>1. PICK p \in Case : p = previousCase[c] /\ HasEvent(p, "RESTART_AUTHORIZED")
      BY <2>2 DEF ExceptionInv, TablesOK, RestartTypeOK, HangsFromAuthorized
    <3>2. /\ <<"RESTART_AUTHORIZED", "RESTART_REQUESTED">> \in MUST_FOLLOW
          /\ <<"RESTART_REQUESTED", "CLOSED_INCOMPLETE">> \in MUST_FOLLOW
      BY DEF MUST_FOLLOW
    <3>3. "RESTART_AUTHORIZED" \in Entered(p) /\ "RESTART_REQUESTED" \in Entered(p)
      BY <3>1, <3>2, EnteredBefore DEF ExceptionInv
    <3>4. "CLOSED_INCOMPLETE" \in Entered(p)
      BY <3>2, <3>3 DEF ExceptionInv, CoreInv, NoStageSkipped
    <3> QED
      BY <3>1, <3>3, <3>4
  <2> QED
    BY <2>1, <2>2
<1> QED
  BY <1>1, ExceptionsAreSafe, PTL

\* BR-19 counts authorised requests: each has given its student a new case.
THEOREM AuthorizedRequestsHaveNewCases == ExceptionSpec => []AuthorizedRequestHasNewCase
<1>1. ExceptionInv => AuthorizedRequestHasNewCase
  BY DEF ExceptionInv, TablesOK
<1> QED
  BY <1>1, ExceptionsAreSafe, PTL

\* A state only one role may move a case to was signed by somebody with it.
LEMMA RoleHasSigned ==
  ASSUME CoreInv, NEW c \in Case, NEW to, HasEvent(c, to), NEW role, role # "SYSTEM",
         \A t \in TRANSITIONS : t.to = to => t.actorRole = role
  PROVE  SignedBy(c, to, role)
<1>1. PICK i \in DOMAIN history[c] : history[c][i].to = to
  BY DEF HasEvent
<1>2. PICK e \in Event : e = history[c][i]
  <2>1. /\ DOMAIN history[c] = 1..Len(history[c])
        /\ \A j \in 1..Len(history[c]) : history[c][j] \in Event
    BY DEF CoreInv, TypeOK
  <2> QED
    BY <2>1
<1>3. Permitted(e)
  BY <1>2 DEF CoreInv, EventsPermitted
<1>4. role \in Authority(e.actor)
  BY <1>1, <1>2, <1>3 DEF Permitted
<1>5. e.actor # System
  BY <1>4 DEF Authority
<1>6. e.actor \in User /\ Holds(e.actor, role)
  BY <1>4, <1>5 DEF Authority, Holds, Event, Actor
<1> QED
  BY <1>1, <1>2, <1>6 DEF SignedBy

\* BR-03, BR-21: who may graduate has passed, or has a case that a HoD
\* counter-signed and a Dean granted, whichever decisions overlap.
THEOREM GraduationsAreEarned == ExceptionSpec => []GraduationIsEarned
<1>1. ExceptionInv => GraduationIsEarned
  <2> SUFFICES ASSUME ExceptionInv, NEW s \in Students, waivers[s].outcome = "GRANTED"
               PROVE  \E c \in Case : /\ StudentOf(c) = s
                                      /\ SignedBy(c, "WAIVER_COUNTERSIGNED", "HOD")
                                      /\ SignedBy(c, "WAIVER_GRANTED", "DEAN")
    BY DEF GraduationIsEarned, isGraduationEligible
  <2>1. PICK c \in Case : StudentOf(c) = s /\ HasEvent(c, "WAIVER_GRANTED")
    BY DEF ExceptionInv, TablesOK, GrantWasMoved
  <2>2. /\ \A t \in TRANSITIONS : t.to = "WAIVER_GRANTED" => t.actorRole = "DEAN"
        /\ \A t \in TRANSITIONS : t.to = "WAIVER_COUNTERSIGNED" => t.actorRole = "HOD"
    BY DEF TRANSITIONS, NormalRows, RestartRows, WaiverRows, Row
  <2>3. HasEvent(c, "WAIVER_COUNTERSIGNED")
    <3>1. <<"WAIVER_GRANTED", "WAIVER_COUNTERSIGNED">> \in MUST_FOLLOW
      BY DEF MUST_FOLLOW
    <3>2. "WAIVER_COUNTERSIGNED" \in Entered(c)
      BY <2>1, <3>1, EnteredBefore DEF ExceptionInv
    <3> QED
      BY <3>2, EnteredByEvent DEF ExceptionInv, GENESIS_STATES
  <2>4. SignedBy(c, "WAIVER_GRANTED", "DEAN") /\ SignedBy(c, "WAIVER_COUNTERSIGNED", "HOD")
    BY <2>1, <2>2, <2>3, RoleHasSigned DEF ExceptionInv
  <2> QED
    BY <2>1, <2>4
<1> QED
  BY <1>1, ExceptionsAreSafe, PTL

\* No event, request or waiver is ever taken back.
THEOREM SignaturesAccumulate == ExceptionSpec => [][Grows]_exceptionVars
<1>1. ExceptionInv /\ [ExceptionNext]_exceptionVars => [Grows]_exceptionVars
  BY NextKeeps DEF Kept
<1> QED
  BY <1>1, ExceptionsAreSafe, PTL DEF ExceptionSpec


-----------------------------------------------------------------------------
(* While no process dies (ExceptionNext lets none die).  Both paths move a   *)
(* case, then write a row of their own about it: the service that asked for  *)
(* the move has arranged to go on to that row (CallsGoOn), so the row is in  *)
(* its hands from the commit until it is written, and no step unwrites it.   *)

\* What a call that is to move its case to t.to goes on to, from locals f.
GoesOn(t, f) ==
  /\ t.to = "RESTART_REQUESTED" => t.next = "restart:pending" /\ t.kase = f.kase
  /\ t.to \in DecidedState => t.next = "waiver:sign"

CallsGoOn == \A r \in Request : pc[r] = "commit" => GoesOn(tx[r], frame[r])

\* A case that was asked to be restarted has its row, or will;
RecordsFollow ==
  \A c \in Case : HasEvent(c, "RESTART_REQUESTED") =>
    \/ \E i \in DOMAIN restarts : restarts[i].kase = c
    \/ \E r \in Request : IsRecording(r, c)

\* a decision that has moved a case shows in its student's waiver, or will.
SignaturesFollow ==
  \A c \in Case, to \in DecidedState : HasEvent(c, to) =>
    \/ Shows(StudentOf(c), to)
    \/ \E r \in Request : IsSigning(r, StudentOf(c), to)

\* What is shown of every step.
Followed == /\ CallsGoOn'
            /\ RecordsFollow => RecordsFollow'
            /\ SignaturesFollow => SignaturesFollow'

\* A request's row is there for good,
LEMMA RecordsHold ==
  ASSUME Grows, RecordsFollow, NEW r \in Request, OnlyRuns(r), UNCHANGED history,
         \A c \in Case : IsRecording(r, c) =>
           IsRecording(r, c)' \/ (\E i \in DOMAIN restarts : restarts[i].kase = c)'
  PROVE  RecordsFollow'
<1> SUFFICES ASSUME NEW c \in Case, HasEvent(c, "RESTART_REQUESTED")
             PROVE  \/ (\E i \in DOMAIN restarts : restarts[i].kase = c)'
                    \/ \E q \in Request : IsRecording(q, c)'
  BY DEF RecordsFollow, HasEvent
<1>1. CASE \E i \in DOMAIN restarts : restarts[i].kase = c
  BY <1>1 DEF Grows
<1>2. ASSUME NEW q \in Request, IsRecording(q, c), q # r
      PROVE  IsRecording(q, c)'
  BY <1>2 DEF IsRecording, At, OnlyRuns
<1> QED
  BY <1>1, <1>2 DEF RecordsFollow

\* and so is what a waiver shows, for a step that leaves the waivers alone or
\* writes the first row of one.
LEMMA SignaturesHold ==
  ASSUME SignaturesFollow, NEW r \in Request, OnlyRuns(r), UNCHANGED history,
         \A s \in Students, to \in DecidedState : Shows(s, to) => Shows(s, to)',
         \A s \in Students, to \in DecidedState :
           IsSigning(r, s, to) => IsSigning(r, s, to)' \/ Shows(s, to)'
  PROVE  SignaturesFollow'
<1> SUFFICES ASSUME NEW c \in Case, NEW to \in DecidedState, HasEvent(c, to)
             PROVE  \/ Shows(StudentOf(c), to)'
                    \/ \E q \in Request : IsSigning(q, StudentOf(c), to)'
  BY DEF SignaturesFollow, HasEvent
<1>1. PICK s \in Students : s = StudentOf(c)
  BY DEF Students
<1>2. ASSUME NEW q \in Request, IsSigning(q, s, to), q # r
      PROVE  IsSigning(q, s, to)'
  BY <1>2 DEF IsSigning, At, OnlyRuns
<1> QED
  BY <1>1, <1>2 DEF SignaturesFollow

\* A request that carries nothing over.
CarriesNothing(r) == pc[r] \notin {"restart:pending", "waiver:sign", "committed"}

\* Its step, when it moves no case, and no waiver but a new one.
LEMMA FreeStep ==
  ASSUME Grows, CallsGoOn, NEW r \in Request, CarriesNothing(r), OnlyRuns(r),
         UNCHANGED history, pc'[r] = "commit" => GoesOn(tx'[r], frame'[r]),
         \A s \in Students : waivers'[s] = waivers[s] \/ waivers[s] = NoWaiver
  PROVE  Followed
<1>1. CallsGoOn'
  BY DEF CallsGoOn, OnlyRuns
<1>2. \A c, s, to : ~IsRecording(r, c) /\ ~IsSigning(r, s, to)
  BY DEF CarriesNothing, IsRecording, IsSigning, At
<1>3. ASSUME NEW s \in Students, NEW to \in DecidedState, Shows(s, to)
      PROVE  Shows(s, to)'
  <2>1. waivers[s] # NoWaiver
    BY <1>3 DEF Shows, NoWaiver, DecidedState
  <2> QED
    BY <1>3, <2>1 DEF Shows
<1> QED
  BY <1>1, <1>2, <1>3, RecordsHold, SignaturesHold DEF Followed

\* Such a step that awaits something else than the executor,
LEMMA FreeAwait ==
  ASSUME ExceptionInv, Grows, CallsGoOn, NEW r \in Request, CarriesNothing(r),
         NEW label, label # "commit", NEW f, Await(r, label, f), UNCHANGED <<history, waivers>>
  PROVE  Followed
<1>1. OnlyRuns(r) /\ pc'[r] = label
  BY AwaitRuns DEF ExceptionInv, CoreInv, RequestsOK
<1> QED
  BY <1>1, FreeStep

\* or answers,
LEMMA FreeRespond ==
  ASSUME ExceptionInv, Grows, CallsGoOn, NEW r \in Request, CarriesNothing(r), Respond(r),
         UNCHANGED history,
         \A s \in Students : waivers'[s] = waivers[s] \/ waivers[s] = NoWaiver
  PROVE  Followed
<1>1. OnlyRuns(r) /\ pc'[r] = "idle"
  BY RespondRuns DEF ExceptionInv, CoreInv, RequestsOK
<1> QED
  BY <1>1, FreeStep

\* or calls the executor, knowing how to go on.
LEMMA FreeBegin ==
  ASSUME ExceptionInv, Grows, CallsGoOn, NEW r \in Request, CarriesNothing(r),
         NEW c, NEW to, NEW actor, NEW reason, NEW ctx, NEW next, NEW f, f = frame[r],
         BeginTransition(r, c, to, actor, reason, ctx, next), UNCHANGED <<frame, waivers>>,
         to = "RESTART_REQUESTED" => next = "restart:pending" /\ c = f.kase,
         to \in DecidedState => next = "waiver:sign"
  PROVE  Followed
<1>1. /\ OnlyRuns(r)
      /\ frame'[r] = f
      /\ tx'[r].kase = c /\ tx'[r].to = to /\ tx'[r].next = next
  BY BeginRuns DEF ExceptionInv, CoreInv
<1>2. GoesOn(tx'[r], frame'[r])
  <2>1. PICK t : t = tx'[r]
    OBVIOUS
  <2> QED
    BY <1>1, <2>1 DEF GoesOn
<1>3. UNCHANGED history
  BY DEF BeginTransition
<1> QED
  BY <1>1, <1>2, <1>3, FreeStep

LEMMA FreeCall ==
  ASSUME ExceptionInv, Grows, CallsGoOn, NEW r \in Request, CarriesNothing(r),
         NEW c, NEW to, NEW actor, NEW reason, NEW ctx, NEW next, NEW f, f = frame[r],
         TransitionOrFail(r, c, to, actor, reason, ctx, next), UNCHANGED waivers,
         to = "RESTART_REQUESTED" => next = "restart:pending" /\ c = f.kase,
         to \in DecidedState => next = "waiver:sign"
  PROVE  Followed
<1>1. CASE BeginTransition(r, c, to, actor, reason, ctx, next) /\ UNCHANGED frame
  BY <1>1, FreeBegin
<1>2. CASE Respond(r) /\ UNCHANGED <<state, history>>
  BY <1>2, FreeRespond
<1> QED
  BY <1>1, <1>2 DEF TransitionOrFail

\* What people start.
LEMMA RequestsFollowOn ==
  ASSUME ExceptionInv, Grows, CallsGoOn, NEW r \in Request, ExceptionRequest(r)
  PROVE  Followed
<1>1. CASE RestartRequests(r) /\ UNCHANGED <<documents, waivers>>
  <2>1. pc[r] = "idle" /\ UNCHANGED <<history, waivers>>
    BY <1>1 DEF RestartRequests, RequestRestart, CountersignRestart, DenyRestart, EscalateRestart,
                Accepts
  <2>2. \E label \in {"restart:decide", "countersign:decide", "deny:decide", "escalate:create"} :
          \E f : Await(r, label, f)
    BY <1>1 DEF RestartRequests, RequestRestart, CountersignRestart, DenyRestart, EscalateRestart
  <2> QED
    BY <2>1, <2>2, FreeAwait DEF CarriesNothing
<1>2. CASE WaiverRequests(r) /\ UNCHANGED restartVars
  <2>1. /\ pc[r] = "idle" /\ UNCHANGED <<history, waivers>>
        /\ \E label \in {"waiver:create", "waiver:decide"} : \E f : Await(r, label, f)
    BY <1>2 DEF WaiverRequests, InitiateWaiver, PostCountersign, PostHodDeny, PostApprove,
                PostDeanDeny, DecideWaiver
  <2> QED
    BY <2>1, FreeAwait DEF CarriesNothing
<1>3. ASSUME NEW c \in Case, Withdraw(r, c), UNCHANGED <<documents, restartVars, waivers>>
      PROVE  Followed
  <2>1. PICK f : f = frame[r]
    OBVIOUS
  <2>2. /\ pc[r] = "idle"
        /\ BeginTransition(r, c, "WITHDRAWN", StudentOf(c), FALSE, {}, "idle")
        /\ UNCHANGED <<frame, waivers>>
    BY <1>3 DEF Withdraw, Accepts
  <2> QED
    BY <2>1, <2>2, FreeBegin DEF CarriesNothing, DecidedState
<1> QED
  BY <1>1, <1>2, <1>3 DEF ExceptionRequest

\* The steps of the gate that decide, counter-sign, deny or escalate.
LEMMA GateFollowsOn ==
  ASSUME ExceptionInv, Grows, CallsGoOn, NEW r \in Request, UNCHANGED <<documents, waivers>>,
         \/ RestartDecide(r) \/ CountersignDecide(r) \/ CountersignCreatesCase(r)
         \/ DenyDecide(r) \/ DenyRecord(r) \/ EscalateCreate(r)
  PROVE  Followed
<1>1. PICK f : f = frame[r]
  OBVIOUS
<1>2. CarriesNothing(r)
  BY DEF RestartDecide, CountersignDecide, CountersignCreatesCase, DenyDecide, DenyRecord,
         EscalateCreate, At, CarriesNothing
<1>3. CASE RestartDecide(r)
  <2>1. CASE Await(r, "restart:refused", [f EXCEPT !.guards = {}]) /\ UNCHANGED <<state, history>>
    BY <1>2, <2>1, FreeAwait
  <2>2. CASE TransitionOrFail(r, f.kase, "RESTART_REQUESTED", f.user, TRUE, f.guards,
                              "restart:pending")
    BY <1>1, <1>2, <2>2, FreeCall DEF DecidedState
  <2> QED
    BY <1>1, <1>3, <2>1, <2>2 DEF RestartDecide
<1>4. CASE CountersignDecide(r)
  <2>1. PICK ctx :
          TransitionOrFail(r, f.kase, "RESTART_AUTHORIZED", f.user, TRUE, ctx, "countersign:restart")
    BY <1>1, <1>4 DEF CountersignDecide
  <2> QED
    BY <1>1, <1>2, <2>1, FreeCall DEF DecidedState
<1>5. CASE DenyDecide(r)
  <2>1. TransitionOrFail(r, f.kase, "RESTART_DENIED", f.user, TRUE, {}, "deny:record")
    BY <1>1, <1>5 DEF DenyDecide
  <2> QED
    BY <1>1, <1>2, <2>1, FreeCall DEF DecidedState
<1>6. CASE CountersignCreatesCase(r) \/ DenyRecord(r) \/ EscalateCreate(r)
  <2>1. Respond(r) /\ UNCHANGED history
    BY <1>6 DEF CountersignCreatesCase, DenyRecord, EscalateCreate
  <2> QED
    BY <1>2, <2>1, FreeRespond
<1> QED
  BY <1>3, <1>4, <1>5, <1>6

\* The row of a request, of one that moved its case and of one refused.
LEMMA RecordFollowsOn ==
  ASSUME ExceptionInv, Grows, CallsGoOn, NEW r \in Request, RestartRecord(r),
         UNCHANGED <<documents, waivers>>
  PROVE  Followed
<1>1. PICK f, o :
        /\ f = frame[r]
        /\ restarts' = Append(restarts, [kase |-> f.kase, focal |-> f.user,
                                         flagged |-> f.flagged, outcome |-> o])
  BY DEF RestartRecord
<1>2. OnlyRuns(r) /\ pc'[r] = "idle" /\ UNCHANGED history
  BY RespondRuns DEF ExceptionInv, CoreInv, RequestsOK, RestartRecord
<1>3. CallsGoOn'
  BY <1>2 DEF CallsGoOn, OnlyRuns
<1>4. (\E i \in DOMAIN restarts : restarts[i].kase = f.kase)'
  <2> DEFINE n == Len(restarts)
             row == [kase |-> f.kase, focal |-> f.user, flagged |-> f.flagged, outcome |-> o]
  <2>1. row.kase = f.kase
    OBVIOUS
  <2>2. restarts \in Seq(RestartRequest) /\ n \in Nat
    BY DEF ExceptionInv, TablesOK, RestartTypeOK
  <2> HIDE DEF row
  <2>3. restarts' = Append(restarts, row)
    BY <1>1 DEF row
  <2>4. n + 1 \in DOMAIN restarts' /\ restarts'[n + 1] = row
    BY <2>2, <2>3
  <2> QED
    BY <2>1, <2>4
<1>5. \A c : IsRecording(r, c) => c = f.kase
  BY <1>1 DEF IsRecording
<1>6. \A s, to : ~IsSigning(r, s, to)
  BY DEF IsSigning, At, RestartRecord
<1>7. \A s, to : Shows(s, to) => Shows(s, to)'
  BY DEF Shows
<1> QED
  BY <1>2, <1>3, <1>4, <1>5, <1>6, <1>7, RecordsHold, SignaturesHold DEF Followed

\* The waiver path up to the decision.
LEMMA WaiverFollowsOn ==
  ASSUME ExceptionInv, Grows, CallsGoOn, NEW r \in Request, UNCHANGED restartVars,
         \/ WaiverCreateCase(r) \/ WaiverStoreEvidence(r) \/ WaiverUndo(r) \/ WaiverRecord(r)
         \/ WaiverDecide(r)
  PROVE  Followed
<1>1. CarriesNothing(r)
  BY DEF WaiverCreateCase, WaiverStoreEvidence, WaiverUndo, WaiverRecord, WaiverDecide, At,
         CarriesNothing
<1>2. CASE WaiverCreateCase(r) \/ WaiverStoreEvidence(r)
  <2>1. /\ UNCHANGED <<history, waivers>>
        /\ \/ Respond(r)
           \/ \E label \in {"waiver:evidence", "waiver:record", "waiver:undo"} :
                \E f : Await(r, label, f)
    BY <1>2 DEF WaiverCreateCase, WaiverStoreEvidence
  <2> QED
    BY <1>1, <2>1, FreeAwait, FreeRespond
<1>3. CASE WaiverUndo(r)
  BY <1>1, <1>3, FreeRespond DEF WaiverUndo
<1>4. CASE WaiverRecord(r)
  <2>1. waivers \in [Students -> Waiver \cup {NoWaiver}]
    BY DEF ExceptionInv, TablesOK, WaiverTypeOK
  <2>2. \A s \in Students : waivers'[s] = waivers[s] \/ waivers[s] = NoWaiver
    BY <1>4, <2>1 DEF WaiverRecord
  <2> QED
    BY <1>1, <1>4, <2>2, FreeRespond DEF WaiverRecord
<1>5. CASE WaiverDecide(r)
  <2>1. PICK f : f = frame[r]
    OBVIOUS
  <2>2. f.decision \in Decisions
    BY <1>5, <2>1, FrameOf DEF WaiverDecide, At, FrameOK, WaiverLabel
  <2>3. f.decision.to # "RESTART_REQUESTED"
    BY <2>2 DEF Decisions, countersignWaiver, denyWaiverAtHod, approveWaiver, denyWaiverAtDean
  <2>4. /\ TransitionOrFail(r, f.kase, f.decision.to, f.user, TRUE, {}, "waiver:sign")
        /\ UNCHANGED waivers
    BY <1>5, <2>1 DEF WaiverDecide
  <2> QED
    BY <1>1, <2>1, <2>3, <2>4, FreeCall
<1> QED
  BY <1>2, <1>3, <1>4, <1>5

\* A decision signs what it has moved, over whatever the waiver showed.
LEMMA SignFollowsOn ==
  ASSUME ExceptionInv, Grows, CallsGoOn, NEW r \in Request, WaiverSign(r), UNCHANGED restartVars
  PROVE  Followed
<1>1. PICK f : f = frame[r]
  OBVIOUS
<1>2. f.decision \in Decisions
  BY <1>1, FrameOf DEF WaiverSign, At, FrameOK, WaiverLabel
<1>3. OnlyRuns(r) /\ pc'[r] = "idle" /\ UNCHANGED history
  BY RespondRuns DEF ExceptionInv, CoreInv, RequestsOK, WaiverSign
<1>4. CallsGoOn'
  BY <1>3 DEF CallsGoOn, OnlyRuns
<1>5. \A c : ~IsRecording(r, c)
  BY DEF IsRecording, At, WaiverSign
<1>6. ASSUME NEW s \in Students
      PROVE  /\ s # f.student => waivers'[s] = waivers[s]
             /\ s = f.student =>
                  /\ waivers'[s].signers = waivers[s].signers \cup {f.decision.role}
                  /\ waivers'[s].outcome = IF f.decision.outcome = "PENDING"
                                          THEN waivers[s].outcome ELSE f.decision.outcome
  <2> DEFINE new(x) == [outcome |-> IF f.decision.outcome = "PENDING" THEN waivers[x].outcome
                                                                     ELSE f.decision.outcome,
                        signers |-> waivers[x].signers \cup {f.decision.role}]
  <2>1. waivers' = [waivers EXCEPT ![f.student] = new(f.student)]
    BY <1>1 DEF WaiverSign
  <2>2. DOMAIN waivers = Students
    BY DEF ExceptionInv, TablesOK, WaiverTypeOK
  <2>3. /\ new(s).signers = waivers[s].signers \cup {f.decision.role}
        /\ new(s).outcome = IF f.decision.outcome = "PENDING" THEN waivers[s].outcome
                                                              ELSE f.decision.outcome
    OBVIOUS
  <2> HIDE DEF new
  <2>4. waivers'[s] = IF s = f.student THEN new(s) ELSE waivers[s]
    BY <2>1, <2>2
  <2> QED
    BY <2>3, <2>4
<1>7. /\ f.decision.outcome \in {"PENDING", "GRANTED", "DENIED"}
      /\ f.decision.to = "WAIVER_COUNTERSIGNED" => f.decision.role = "HOD"
      /\ f.decision.to = "WAIVER_GRANTED" => f.decision.role = "DEAN"
      /\ f.decision.to \in {"WAIVER_GRANTED", "WAIVER_DENIED"} => f.decision.outcome # "PENDING"
  BY <1>2 DEF Decisions, countersignWaiver, denyWaiverAtHod, approveWaiver, denyWaiverAtDean
<1>8. ASSUME NEW s \in Students, NEW to \in DecidedState, Shows(s, to)
      PROVE  Shows(s, to)'
  <2>1. waivers[s].signers \subseteq waivers'[s].signers
    BY <1>6
  <2>2. waivers[s].outcome \in {"GRANTED", "DENIED"} => waivers'[s].outcome \in {"GRANTED", "DENIED"}
    BY <1>6, <1>7
  <2> QED
    BY <1>8, <2>1, <2>2 DEF Shows
<1>9. ASSUME NEW s \in Students, NEW to \in DecidedState, IsSigning(r, s, to)
      PROVE  Shows(s, to)'
  <2>1. s = f.student /\ to = f.decision.to
    BY <1>1, <1>9 DEF IsSigning
  <2>2. /\ f.decision.role \in waivers'[s].signers
        /\ f.decision.outcome # "PENDING" => waivers'[s].outcome = f.decision.outcome
    BY <1>6, <2>1
  <2> QED
    BY <1>7, <2>1, <2>2 DEF Shows
<1> QED
  BY <1>3, <1>4, <1>5, <1>8, <1>9, RecordsHold, SignaturesHold DEF Followed

\* The executor commits: the request that moved the case is the one to go on.
LEMMA CommitFollowsOn ==
  ASSUME ExceptionInv, Grows, CallsGoOn, NEW r \in Request, CommitTransition(r),
         UNCHANGED <<documents, restartVars, waivers>>
  PROVE  Followed
<1>1. PICK t, f : t = tx[r] /\ f = frame[r]
  OBVIOUS
<1>2. /\ pc[r] = "commit" /\ pc'[r] = "committed"
      /\ tx' = tx /\ frame' = frame
      /\ \A q \in Request \ {r} : pc'[q] = pc[q]
      /\ t.kase \in Case
  BY <1>1 DEF CommitTransition, ExceptionInv, CoreInv, TypeOK, InFlight
<1>3. GoesOn(t, f) /\ LocalsOK("commit", t, f)
  BY <1>1, <1>2 DEF CallsGoOn, ExceptionInv, RequestsOK, RequestOK
<1>4. \A c \in Case : \A to : HasEvent(c, to)' => HasEvent(c, to) \/ (c = t.kase /\ to = t.to)
  <2>1. PICK k \in Case, n \in Nat :
          /\ k = t.kase
          /\ DOMAIN history[k] = 1..n
          /\ DOMAIN history'[k] = 1..(n + 1)
          /\ history'[k][n + 1] = EventOf(t)
          /\ \A i \in 1..n : history'[k][i] = history[k][i]
          /\ \A d \in Case \ {k} : history'[d] = history[d]
    BY <1>1, <1>2, CommitWrites DEF ExceptionInv, CoreInv
  <2>2. \A i \in 1..(n + 1) : i \in 1..n \/ i = n + 1
    BY <2>1
  <2>3. EventOf(t).to = t.to
    BY DEF EventOf
  <2> QED
    BY <2>1, <2>2, <2>3 DEF HasEvent
<1>5. CallsGoOn'
  BY <1>2 DEF CallsGoOn
<1>6. /\ \A q \in Request : \A c : IsRecording(q, c) => IsRecording(q, c)'
      /\ \A q \in Request : \A s, to : IsSigning(q, s, to) => IsSigning(q, s, to)'
  BY <1>2 DEF IsRecording, IsSigning, At
<1>7. t.to = "RESTART_REQUESTED" => IsRecording(r, t.kase)'
  BY <1>1, <1>2, <1>3 DEF GoesOn, IsRecording
<1>8. t.to \in DecidedState => IsSigning(r, StudentOf(t.kase), t.to)'
  <2> SUFFICES ASSUME t.to \in DecidedState
               PROVE  IsSigning(r, StudentOf(t.kase), t.to)'
    OBVIOUS
  <2>1. t.next = "waiver:sign"
    BY <1>3 DEF GoesOn
  <2>2. /\ t.kase = f.kase /\ t.to = f.decision.to
        /\ f.student = StudentOf(f.kase)
    BY <1>3, <2>1 DEF LocalsOK, AfterMove, MovedTo, FrameOK, WaiverLabel
  <2> QED
    BY <1>1, <1>2, <2>1, <2>2 DEF IsSigning, StudentOf
<1>9. RecordsFollow => RecordsFollow'
  <2> SUFFICES ASSUME RecordsFollow, NEW c \in Case, HasEvent(c, "RESTART_REQUESTED")'
               PROVE  \/ (\E i \in DOMAIN restarts : restarts[i].kase = c)'
                      \/ \E q \in Request : IsRecording(q, c)'
    BY DEF RecordsFollow
  <2> QED
    BY <1>4, <1>6, <1>7 DEF RecordsFollow, Grows
<1>10. SignaturesFollow => SignaturesFollow'
  <2> SUFFICES ASSUME SignaturesFollow, NEW c \in Case, NEW to \in DecidedState, HasEvent(c, to)'
               PROVE  \/ Shows(StudentOf(c), to)'
                      \/ \E q \in Request : IsSigning(q, StudentOf(c), to)'
    BY DEF SignaturesFollow
  <2>1. \A s : Shows(s, to) => Shows(s, to)'
    BY DEF Shows
  <2> QED
    BY <1>4, <1>6, <1>8, <2>1 DEF SignaturesFollow
<1> QED
  BY <1>5, <1>9, <1>10 DEF Followed

\* It goes back to its caller, which still has the case in its hands.
LEMMA ReturnFollowsOn ==
  ASSUME ExceptionInv, Grows, CallsGoOn, NEW r \in Request, ReturnFromTransition(r),
         UNCHANGED <<documents, restartVars, waivers>>
  PROVE  Followed
<1>1. PICK t, f : t = tx[r] /\ f = frame[r]
  OBVIOUS
<1>2. /\ pc[r] = "committed" /\ pc'[r] = t.next
      /\ frame'[r] = IF t.next = "idle" THEN NoFrame ELSE f
      /\ OnlyRuns(r)
      /\ UNCHANGED history
  BY <1>1 DEF ReturnFromTransition, OnlyRuns, ExceptionInv, CoreInv, TypeOK, RequestsOK
<1>3. t.next # "commit"
  BY <1>1, <1>2 DEF ExceptionInv, CoreInv, TypeOK, InFlight, Continuation
<1>4. CallsGoOn'
  BY <1>2, <1>3 DEF CallsGoOn, OnlyRuns
<1>5. /\ \A c : IsRecording(r, c) => IsRecording(r, c)'
      /\ \A s, to : IsSigning(r, s, to) => IsSigning(r, s, to)'
  BY <1>1, <1>2 DEF IsRecording, IsSigning, At
<1>6. \A s, to : Shows(s, to) => Shows(s, to)'
  BY DEF Shows
<1> QED
  BY <1>2, <1>4, <1>5, <1>6, RecordsHold, SignaturesHold DEF Followed

\* Every step.
LEMMA NextFollowsOn ==
  ASSUME ExceptionInv, CallsGoOn, [ExceptionNext]_exceptionVars
  PROVE  Followed
<1>1. Grows
  BY NextKeeps DEF Kept
<1>2. ASSUME NEW r \in Request, ExceptionRequest(r)
      PROVE  Followed
  BY <1>1, <1>2, RequestsFollowOn
<1>3. ASSUME NEW r \in Request, RestartStep(r), UNCHANGED <<documents, waivers>>
      PROVE  Followed
  BY <1>1, <1>3, GateFollowsOn, RecordFollowsOn DEF RestartStep
<1>4. ASSUME NEW r \in Request, WaiverStep(r), UNCHANGED restartVars
      PROVE  Followed
  BY <1>1, <1>4, WaiverFollowsOn, SignFollowsOn DEF WaiverStep
<1>5. ASSUME NEW r \in Request, ExecutorStep(r), UNCHANGED <<documents, restartVars, waivers>>
      PROVE  Followed
  <2>1. CASE AbortTransition(r)
    BY <1>1, <1>5, <2>1, FreeRespond DEF AbortTransition, CarriesNothing
  <2> QED
    BY <1>1, <1>5, <2>1, CommitFollowsOn, ReturnFollowsOn DEF ExecutorStep
<1>6. CASE UNCHANGED exceptionVars
  <2>1. UNCHANGED <<history, pc, tx, frame, restarts, waivers>>
    BY <1>6 DEF exceptionVars, coreVars, restartVars
  <2>2. /\ \A q, c : IsRecording(q, c)' <=> IsRecording(q, c)
        /\ \A q, s, to : IsSigning(q, s, to)' <=> IsSigning(q, s, to)
        /\ \A s, to : Shows(s, to)' <=> Shows(s, to)
        /\ \A c, to : HasEvent(c, to)' <=> HasEvent(c, to)
    BY <2>1 DEF IsRecording, IsSigning, Shows, HasEvent, At
  <2>3. CallsGoOn'
    BY <2>1 DEF CallsGoOn
  <2> QED
    BY <2>1, <2>2, <2>3 DEF Followed, RecordsFollow, SignaturesFollow
<1> QED
  BY <1>2, <1>3, <1>4, <1>5, <1>6 DEF ExceptionNext, ExceptionServer

\* No call is under way at the beginning.
LEMMA NoCallYet == ExceptionInit => CallsGoOn
BY DEF ExceptionInit, CallsGoOn

\* Requests begin with the behaviour: no case was in this state before, as no
\* request and no waiver was (RestartInit, WaiverInit).
PastWithout(S) == \A c \in Case : \A i \in DOMAIN Past[c] : Past[c][i].to \notin S

\* requestRestart(), "Always produces a" request row: while no process dies, a
\* case asked to be restarted has its request or a process that is writing it.
THEOREM RestartsAreRecorded ==
  ASSUME PastWithout({"RESTART_REQUESTED"})
  PROVE  ExceptionSpec => []RestartsAreBeingRecorded
<1>1. ExceptionInit => RecordsFollow
  BY DEF ExceptionInit, RecordsFollow, HasEvent, PastWithout
<1>2. /\ ExceptionInv /\ CallsGoOn /\ RecordsFollow /\ [ExceptionNext]_exceptionVars
      => CallsGoOn' /\ RecordsFollow'
  BY NextFollowsOn DEF Followed
<1>3. ExceptionInv /\ RecordsFollow => RestartsAreBeingRecorded
  <2>1. "RESTART_REQUESTED" \notin GENESIS_STATES
    BY DEF GENESIS_STATES
  <2> QED
    BY <2>1, EnteredByEvent DEF ExceptionInv, RecordsFollow, RestartsAreBeingRecorded
<1> QED
  BY <1>1, <1>2, <1>3, NoCallYet, ExceptionsAreSafe, PTL DEF ExceptionSpec

\* The waiver is signed after its case has moved: while no process dies, what has
\* moved the case shows in the waiver, or is about to, whichever decisions overlap.
THEOREM WaiversAreSigned ==
  ASSUME PastWithout(DecidedState)
  PROVE  ExceptionSpec => []WaiversAreBeingSigned
<1>1. ExceptionInit => SignaturesFollow
  BY DEF ExceptionInit, SignaturesFollow, HasEvent, PastWithout
<1>2. /\ ExceptionInv /\ CallsGoOn /\ SignaturesFollow /\ [ExceptionNext]_exceptionVars
      => CallsGoOn' /\ SignaturesFollow'
  BY NextFollowsOn DEF Followed
<1>3. ExceptionInv /\ SignaturesFollow => WaiversAreBeingSigned
  <2>1. DecidedState \cap GENESIS_STATES = {}
    BY DEF DecidedState, GENESIS_STATES
  <2> QED
    BY <2>1, EnteredByEvent DEF ExceptionInv, SignaturesFollow, WaiversAreBeingSigned, Reached
<1> QED
  BY <1>1, <1>2, <1>3, NoCallYet, ExceptionsAreSafe, PTL DEF ExceptionSpec

\* Together: what the exception paths have decided is on record or about to be.
THEOREM DecisionsAreRecorded ==
  ASSUME PastWithout({"RESTART_REQUESTED"} \cup DecidedState)
  PROVE  ExceptionSpec => []DecisionsAreBeingRecorded
<1>1. PastWithout({"RESTART_REQUESTED"}) /\ PastWithout(DecidedState)
  BY DEF PastWithout
<1>2. ExceptionSpec => []RestartsAreBeingRecorded /\ []WaiversAreBeingSigned
  BY <1>1, RestartsAreRecorded, WaiversAreSigned
<1> QED
  BY <1>2, PTL DEF DecisionsAreBeingRecorded
================================================================================
