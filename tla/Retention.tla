-------------------------------- MODULE Retention --------------------------------
(***************************************************************************)
(* The year-end archive, src/server/documents/retention.ts: an Admin        *)
(* gathers the documents of a year in an archive, downloads it, and         *)
(* confirms; then each file is deleted from disk and its row stamped, one   *)
(* after the other.  Downloading changes nothing.                          *)
(***************************************************************************)
EXTENDS Accounts

CONSTANTS Doc,           \* documents of one year
          MaxArchives    \* bound on the rows of document_archives

ASSUME RetentionOK == MaxArchives \in Nat

VARIABLES docs,       \* documents: archiveId (0: null), purgedAt, and the file on disk
          archives    \* document_archives by id: has confirmedAt been set?

retentionVars == <<docs, archives>>

NoDoc == [archive |-> 0, purged |-> FALSE, file |-> FALSE]

\* storeDocument(), as far as the archive is concerned.
StoreDoc(d) ==
  /\ docs[d] = NoDoc
  /\ docs' = [docs EXCEPT ![d].file = TRUE]
  /\ UNCHANGED <<accountVars, archives>>

Unarchived == {d \in Doc : docs[d].file /\ docs[d].archive = 0 /\ ~docs[d].purged}

CreateDocumentArchive(r) ==
  /\ At(r, "idle") /\ Len(archives) < MaxArchives
  /\ Unarchived # {}
  /\ Goto(r, [at |-> "archive:create", eligible |-> Unarchived])
  /\ UNCHANGED <<users, resets, window, crashes, retentionVars>>

\* By id: a document that another archive has got meanwhile changes hands.
ArchiveCreate(r) ==
  /\ At(r, "archive:create") /\ Len(archives) < MaxArchives
  /\ archives' = Append(archives, FALSE)
  /\ docs' = [d \in Doc |-> IF d \in request[r].eligible
                            THEN [docs[d] EXCEPT !.archive = Len(archives')] ELSE docs[d]]
  /\ Respond(r)
  /\ UNCHANGED <<users, resets, window, crashes>>

ConfirmArchivePurge(r, a) ==
  /\ At(r, "idle")
  /\ Goto(r, [at |-> "purge", archive |-> a,
              todo |-> {d \in Doc : docs[d].archive = a /\ ~docs[d].purged}])
  /\ UNCHANGED <<users, resets, window, crashes, retentionVars>>

\* The file goes; one that is missing is as good as deleted; any other error of
\* the disk ends the request.
PurgeUnlinkOrSkip(r) ==
  LET f == request[r] IN
  /\ At(r, "purge")
  /\ \E d \in f.todo :
       \/ /\ docs' = [docs EXCEPT ![d].file = FALSE]
          /\ Goto(r, [at |-> "purge:stamp", archive |-> f.archive, todo |-> f.todo, doc |-> d])
       \/ /\ docs[d].file
          /\ Goto(r, [f EXCEPT !.todo = @ \ {d}])
          /\ UNCHANGED docs
  /\ UNCHANGED <<users, resets, window, crashes, archives>>
PurgeUnlink(r) ==
  LET f == request[r] IN
  /\ At(r, "purge")
  /\ \E d \in f.todo :
       \/ /\ docs' = [docs EXCEPT ![d].file = FALSE]
          /\ Goto(r, [at |-> "purge:stamp", archive |-> f.archive, todo |-> f.todo, doc |-> d])
       \/ /\ docs[d].file
          /\ Respond(r)
          /\ UNCHANGED docs
  /\ UNCHANGED <<users, resets, window, crashes, archives>>

PurgeStamp(r) ==
  LET f == request[r] IN
  /\ At(r, "purge:stamp")
  /\ docs' = [docs EXCEPT ![f.doc].purged = TRUE]
  /\ Goto(r, [at |-> "purge", archive |-> f.archive, todo |-> f.todo \ {f.doc}])
  /\ UNCHANGED <<users, resets, window, crashes, archives>>

PurgeConfirm(r) ==
  /\ At(r, "purge") /\ request[r].todo = {}
  /\ archives' = [archives EXCEPT ![request[r].archive] = TRUE]
  /\ Respond(r)
  /\ UNCHANGED <<users, resets, window, crashes, docs>>

RetentionStep(r) ==
  ArchiveCreate(r) \/ PurgeUnlink(r) \/ PurgeStamp(r) \/ PurgeConfirm(r)

-----------------------------------------------------------------------------
(* Properties.                                                             *)

\* retention.ts: no file goes but for an archive, and a row that says purged has
\* no file, although a purge dies or fails half-way and is confirmed again; and a
\* confirmed archive has no file left, although archives that overlap take
\* documents over from each other.
ConfirmedArchiveIsPurged ==
  \A d \in Doc :
    /\ docs[d].purged => ~docs[d].file /\ docs[d].archive # 0
    /\ docs[d].archive # 0 /\ archives[docs[d].archive] => docs[d].purged
================================================================================
