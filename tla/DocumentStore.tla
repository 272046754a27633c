----------------------------- MODULE DocumentStore -----------------------------
(***************************************************************************)
(* The documents table and the write path of storeDocument()               *)
(* (src/server/documents/store.ts).  Its checks of the upload (size, MIME, *)
(* magic bytes, extension, the ClamAV scan, which fails closed) come before *)
(* the first write: an upload that fails one changes nothing.  The          *)
(* transaction runs at READ COMMITTED and the table has no unique index on  *)
(* ACTIVE rows, so the rows its UPDATE supersedes are those visible when    *)
(* the UPDATE began (BeginStore), not when it commits (CommitStore).        *)
(***************************************************************************)
EXTENDS CaseExecutor

CONSTANT MaxDocuments    \* bound on the rows of documents

ASSUME DocumentsBounded == MaxDocuments \in Nat

VARIABLE documents       \* rows in insertion order; index i is the document's id

DocumentType == {"OFFER_LETTER", "COMPLETION_CERTIFICATE", "SUPPORTING_EVIDENCE"}

Document == [kase : Case, type : DocumentType, status : {"ACTIVE", "SUPERSEDED"}]

DocumentsOK == documents \in Seq(Document)

ActiveDocuments(c, type) ==
  {i \in DOMAIN documents :
     documents[i].kase = c /\ documents[i].type = type /\ documents[i].status = "ACTIVE"}

HasActive(c, type) == ActiveDocuments(c, type) # {}

CanStore == Len(documents) < MaxDocuments

\* updateMany({ACTIVE} -> SUPERSEDED) of the rows seen, then create(ACTIVE).
CommitStoreOnlySupersede(c, type, replaced) ==
  documents' = [i \in DOMAIN documents |->
                  IF i \in replaced THEN [documents[i] EXCEPT !.status = "SUPERSEDED"]
                                    ELSE documents[i]]
CommitStore(c, type, replaced) ==
  documents' = Append([i \in DOMAIN documents |->
                         IF i \in replaced
                         THEN [documents[i] EXCEPT !.status = "SUPERSEDED"]
                         ELSE documents[i]],
                      [kase |-> c, type |-> type, status |-> "ACTIVE"])

DocumentsInit == documents = <<>>
================================================================================
