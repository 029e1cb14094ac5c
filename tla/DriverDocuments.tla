-------------------------- MODULE DriverDocuments --------------------------
(***************************************************************************)
(* The documents of one driver and the deposit that is paid back when the  *)
(* driver resigns.  Every kind of document is single-instance: confirming  *)
(* an upload replaces the document of that kind.  A deposit may only be    *)
(* marked returned for a resigned driver, with the proof of it uploaded.   *)
(***************************************************************************)
EXTENDS HttpClients

CONSTANTS
    DocumentKinds,      \* DRIVER_DOCUMENT_KINDS
    ReturnProof,        \* deposit_return_proof, one of them
    MaxDocuments,       \* how many documents are presigned at most
    MayBeCut            \* whether a handler may fail between two awaits

VARIABLES
    documents,          \* the document rows, in the order of their ids
    documentObjects,    \* ids of the documents whose object is in the storage
    resigned,           \* resigned_at is set
    deposit,            \* deposit_return_status
    driverCall          \* client |-> the handler it is in

driverVars == <<documents, documentObjects, resigned, deposit, driverCall>>

-----------------------------------------------------------------------------
(* Data *)

DocumentIds == 1..Len(documents)
Present(d)  == documents[d].state # "deleted"
Uploaded(k) == {d \in DocumentIds : documents[d].kind = k /\ documents[d].state = "uploaded"}

InCall(c, op, at) == driverCall[c].op = op /\ driverCall[c].at = at
Call(c, call)     == driverCall' = Now(driverCall, c, call)
Respond(c)        == Call(c, NoCall)

DropDocuments(ids) ==
    [d \in DocumentIds |-> IF d \in ids THEN [documents[d] EXCEPT !.state = "deleted"]
                           ELSE documents[d]]

-----------------------------------------------------------------------------
(* presign(), the upload and confirm() *)

\* Mutant: the new document replaces the old one before it is uploaded.
PresignReplaces ==
    /\ Len(documents) < MaxDocuments
    /\ \E k \in DocumentKinds :
        documents' = Append(DropDocuments({d \in DocumentIds : documents[d].kind = k}),
                            [kind |-> k, state |-> "pending"])
    /\ UNCHANGED <<documentObjects, resigned, deposit, driverCall>>

\* A row as pending; older documents stay until this one is confirmed.
PresignDocument ==
    /\ Len(documents) < MaxDocuments
    /\ \E k \in DocumentKinds : documents' = Append(documents, [kind |-> k, state |-> "pending"])
    /\ UNCHANGED <<documentObjects, resigned, deposit, driverCall>>

UploadDocument(d) ==
    /\ documentObjects' = documentObjects \cup {d}
    /\ UNCHANGED <<documents, resigned, deposit, driverCall>>

\* Mutant: the object is not looked for.
ReadDocumentUnseen(c) ==
    /\ driverCall[c] = NoCall
    /\ \E d \in DocumentIds :
        /\ Present(d)
        /\ Call(c, [op |-> "confirm", at |-> "read", doc |-> d,
                    mark |-> documents[d].state = "pending"])
    /\ UNCHANGED <<documents, documentObjects, resigned, deposit>>

\* confirm() reads the row; a pending one must have its object.
ReadDocument(c) ==
    /\ driverCall[c] = NoCall
    /\ \E d \in DocumentIds :
        /\ Present(d)
        /\ documents[d].state = "pending" => d \in documentObjects
        /\ Call(c, [op |-> "confirm", at |-> "read", doc |-> d,
                    mark |-> documents[d].state = "pending"])
    /\ UNCHANGED <<documents, documentObjects, resigned, deposit>>

\* The rows a confirmation of document d supersedes.
Superseded(d) ==
    {e \in DocumentIds : Present(e) /\ e # d /\ documents[e].kind = documents[d].kind}

\* The transaction: mark the row, if it was read as pending and is still there,
\* and delete every other of its kind.  Of two such transactions the row locks
\* let one wait for the other to end (or Postgres aborts one of them), so each
\* is one step.
ConfirmDocument(c) ==
    LET call  == driverCall[c]
        d     == call.doc
        stale == Superseded(d)
    IN  /\ InCall(c, "confirm", "read")
        /\ documents' = [e \in DocumentIds |->
                IF e \in stale THEN [documents[e] EXCEPT !.state = "deleted"]
                ELSE IF e = d /\ call.mark /\ Present(e)
                THEN [documents[e] EXCEPT !.state = "uploaded"] ELSE documents[e]]
        /\ Call(c, [op |-> "confirm", at |-> "forget", keys |-> stale])
        /\ UNCHANGED <<documentObjects, resigned, deposit>>

ForgetReplaced(c) ==
    /\ InCall(c, "confirm", "forget")
    /\ documentObjects' = documentObjects \ driverCall[c].keys
    /\ Respond(c)
    /\ UNCHANGED <<documents, resigned, deposit>>

-----------------------------------------------------------------------------
(* remove(): the row, then the deposit it proves, then the object *)

RemoveDocument(c) ==
    /\ driverCall[c] = NoCall
    /\ \E d \in DocumentIds :
        /\ Present(d)
        /\ documents' = DropDocuments({d})
        /\ Call(c, [op |-> "remove", doc |-> d,
                    at |-> IF documents[d].kind = ReturnProof THEN "reset" ELSE "forget"])
    /\ UNCHANGED <<documentObjects, resigned, deposit>>

\* Mutant: the returned state survives its evidence.
KeepDeposit(c) ==
    /\ InCall(c, "remove", "reset")
    /\ Call(c, [driverCall[c] EXCEPT !.at = "forget"])
    /\ UNCHANGED <<documents, documentObjects, resigned, deposit>>

ResetDeposit(c) ==
    /\ InCall(c, "remove", "reset")
    /\ deposit' = "none"
    /\ Call(c, [driverCall[c] EXCEPT !.at = "forget"])
    /\ UNCHANGED <<documents, documentObjects, resigned>>

ForgetDocument(c) ==
    /\ InCall(c, "remove", "forget")
    /\ documentObjects' = documentObjects \ {driverCall[c].doc}
    /\ Respond(c)
    /\ UNCHANGED <<documents, resigned, deposit>>

-----------------------------------------------------------------------------
(* updateDriver(): the lifecycle half of the patch *)

\* A field of the patch that is left out keeps the column.
Keep == "keep"

\* lifecyclePatch: what the request writes.  Undoing the resignation resets the deposit whatever else the request says.
Patch(resign, returned) ==
    [resigned |-> resign,
     deposit  |-> IF resign = "no" THEN "none"
                  ELSE IF returned = "yes" THEN "approved"
                  ELSE IF returned = "no" THEN "none" ELSE Keep]

\* A return is refused for a driver who is not resigned by this row and request.
Refused(wasResigned, resign, returned) ==
    returned = "yes" /\ (resign = "no" \/ (resign = Keep /\ ~wasResigned))

Answers == {"yes", "no", Keep}

ReadDriver(c) ==
    /\ driverCall[c] = NoCall
    /\ \E resign \in Answers, returned \in Answers :
        /\ ~Refused(resigned, resign, returned)
        /\ Call(c, [op |-> "patch", at |-> IF returned = "yes" THEN "gate" ELSE "write",
                    patch |-> Patch(resign, returned)])
    /\ UNCHANGED <<documents, documentObjects, resigned, deposit>>

\* hasUploaded: without the proof of the return the request is refused.
ReturnGate(c) ==
    /\ InCall(c, "patch", "gate")
    /\ IF Uploaded(ReturnProof) # {}
       THEN Call(c, [driverCall[c] EXCEPT !.at = "write"]) ELSE Respond(c)
    /\ UNCHANGED <<documents, documentObjects, resigned, deposit>>

WriteDriver(c) ==
    LET patch == driverCall[c].patch IN
    /\ InCall(c, "patch", "write")
    /\ resigned' = IF patch.resigned = Keep THEN resigned ELSE patch.resigned = "yes"
    /\ deposit' = IF patch.deposit = Keep THEN deposit ELSE patch.deposit
    /\ Respond(c)
    /\ UNCHANGED <<documents, documentObjects>>

\* A request fails or its instance dies between two steps.
AbortDriverCall(c) ==
    /\ MayBeCut
    /\ driverCall[c] # NoCall
    /\ Respond(c)
    /\ UNCHANGED <<documents, documentObjects, resigned, deposit>>

-----------------------------------------------------------------------------

DriverInit ==
    /\ documents = <<>>
    /\ documentObjects = {}
    /\ resigned = FALSE
    /\ deposit = "none"
    /\ driverCall = [c \in Clients |-> NoCall]

DriverHandler(c) ==
    \/ ReadDocument(c) \/ ConfirmDocument(c) \/ ForgetReplaced(c)
    \/ RemoveDocument(c) \/ ResetDeposit(c) \/ ForgetDocument(c)
    \/ ReadDriver(c) \/ ReturnGate(c) \/ WriteDriver(c) \/ AbortDriverCall(c)

DriverNext ==
    \/ PresignDocument
    \/ \E d \in DocumentIds : UploadDocument(d)
    \/ \E c \in Clients : DriverHandler(c)

DriverSpec == DriverInit /\ [][DriverNext]_driverVars

-----------------------------------------------------------------------------
(* Properties *)

\* A document marked uploaded has its bytes, however requests overtake each
\* other (confirm and remove delete rows before objects).
DocumentBacked ==
    \A d \in DocumentIds : documents[d].state = "uploaded" => d \in documentObjects

\* "Every document kind is single-instance": a confirmation leaves no second
\* uploaded document of its kind, also when two of them race (confirm).
SingleInstance ==
    \A k \in DocumentKinds : Cardinality(Uploaded(k)) <= 1

\* At most one uploaded document of a kind, and its bytes are there.
DocumentsInOrder == DocumentBacked /\ SingleInstance

\* A deposit marked returned is that of a resigned driver and has the proof of it
\* uploaded, except while remove() is between its two writes (updateDriver,
\* lifecyclePatch, remove).
ReturnedHasGrounds ==
    deposit = "approved" =>
        /\ resigned
        /\ Uploaded(ReturnProof) # {} \/ \E c \in Clients : InCall(c, "remove", "reset")

\* A kind loses its last uploaded document to remove(), or to one confirmation
\* only: that of a document whose own row another request deleted after confirm()
\* had read it.  (Its update then meets no row, its delete takes the other one: the
\* transaction alone does not keep two confirmations of a kind from deleting each
\* other's rows, against the comment in confirm.)
ConfirmKeepsOne ==
    [][\A k \in DocumentKinds : Uploaded(k) # {} /\ Uploaded(k)' = {}
        => \E c \in Clients :
            \/ driverCall[c] = NoCall /\ driverCall'[c].op = "remove"
            \/ /\ InCall(c, "confirm", "read") /\ InCall(c, "confirm", "forget")'
               /\ ~Present(driverCall[c].doc)]_driverVars
=============================================================================
