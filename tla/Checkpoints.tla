---------------------------- MODULE Checkpoints ----------------------------
(***************************************************************************)
(* A handover checkpoint of the partner portal: a draft whose inspection   *)
(* points are graded and photographed, which both parties sign, and which  *)
(* then becomes the record of the handover.  One checkpoint is enough:     *)
(* every query of the service is by checkpoint id.                         *)
(***************************************************************************)
EXTENDS HttpClients

CONSTANTS
    InspectionPoints,   \* CHECKPOINT_POINT_KEYS
    Signatures,         \* the kinds of signature: the partner's, the counterpart's
    MaxMedia            \* how many media rows a checkpoint gets at most

VARIABLES
    checkpoint,         \* the status column; "absent" before, "deleted" after
    header,             \* the odometer, battery, names and notes
    passed,             \* point |-> its grade
    media,              \* the media rows, in the order of their ids
    mediaObjects,       \* ids of the media whose object is in the storage
    checkpointCall      \* client |-> the handler it is in

checkpointVars == <<checkpoint, header, passed, media, mediaObjects, checkpointCall>>

-----------------------------------------------------------------------------
(* Data *)

MediaKinds == InspectionPoints \cup Signatures
Headers    == {"initial", "edited"}

MediaIds == 1..Len(media)
Live(m)  == media[m].state # "deleted"

\* The ids of the live rows that satisfy a condition on the row.
OfMediaKind(k) == {m \in MediaIds : Live(m) /\ media[m].kind = k}
ConfirmedOf(k) == {m \in OfMediaKind(k) : media[m].state = "uploaded"}

SetMedia(ids, s) ==
    [m \in MediaIds |-> IF m \in ids THEN [media[m] EXCEPT !.state = s] ELSE media[m]]

In(c, op, at) == checkpointCall[c].op = op /\ checkpointCall[c].at = at
Become(c, call) == checkpointCall' = Now(checkpointCall, c, call)
Return(c) == Become(c, NoCall)

-----------------------------------------------------------------------------
(* Creating a draft, and the check every handler starts with *)

\* create(): the checkpoint and its points are inserted in one transaction.
CreateCheckpoint ==
    /\ checkpoint = "absent"
    /\ checkpoint' = "draft"
    /\ UNCHANGED <<header, passed, media, mediaObjects, checkpointCall>>

\* Mutant: any checkpoint of the partner will do.
OwnedCheckpoint(c, call) ==
    /\ checkpointCall[c] = NoCall
    /\ checkpoint \in {"draft", "completed"}
    /\ Become(c, call)
    /\ UNCHANGED <<checkpoint, header, passed, media, mediaObjects>>

\* ownedDraft(): 404 without the row, 409 once it is completed.  What follows
\* never looks at the status again.
OwnedDraft(c, call) ==
    /\ checkpointCall[c] = NoCall
    /\ checkpoint = "draft"
    /\ Become(c, call)
    /\ UNCHANGED <<checkpoint, header, passed, media, mediaObjects>>

Begin(c) ==
    \/ \E op \in {"update", "updatePoint", "remove", "complete"} :
        OwnedDraft(c, [op |-> op, at |-> "begun"])
    \/ \E k \in MediaKinds : OwnedDraft(c, [op |-> "presign", at |-> "begun", kind |-> k])
    \/ \E op \in {"confirm", "delete"}, m \in MediaIds :
        OwnedDraft(c, [op |-> op, at |-> "begun", media |-> m])

RowExists == checkpoint \in {"draft", "completed"}

-----------------------------------------------------------------------------
(* update() and updatePoint() *)

UpdateCheckpoint(c) ==
    /\ In(c, "update", "begun")
    /\ \E h \in Headers : header' = IF RowExists THEN h ELSE header
    /\ Return(c)
    /\ UNCHANGED <<checkpoint, passed, media, mediaObjects>>

UpdatePoint(c) ==
    /\ In(c, "updatePoint", "begun")
    /\ \E p \in InspectionPoints, grade \in {"ok", "issue"} :
        passed' = IF RowExists THEN [passed EXCEPT ![p] = grade] ELSE passed
    /\ Return(c)
    /\ UNCHANGED <<checkpoint, header, media, mediaObjects>>

-----------------------------------------------------------------------------
(* Media *)

\* presignMedia(), a new signature: the rows of the same kind are deleted,
\* then their objects, then the new row is inserted.
Supersede(c) ==
    LET call == checkpointCall[c]
        stale == OfMediaKind(call.kind)
    IN  /\ In(c, "presign", "begun")
        /\ call.kind \in Signatures
        /\ media' = SetMedia(stale, "deleted")
        /\ Become(c, [op |-> "presign", at |-> "superseded", kind |-> call.kind, keys |-> stale])
        /\ UNCHANGED <<checkpoint, header, passed, mediaObjects>>

ForgetSuperseded(c) ==
    /\ In(c, "presign", "superseded")
    /\ mediaObjects' = mediaObjects \ checkpointCall[c].keys
    /\ Become(c, [op |-> "presign", at |-> "insert", kind |-> checkpointCall[c].kind])
    /\ UNCHANGED <<checkpoint, header, passed, media>>

\* The row is inserted as pending; without its checkpoint the foreign key refuses.
InsertMedia(c) ==
    /\ \/ In(c, "presign", "insert")
       \/ In(c, "presign", "begun") /\ checkpointCall[c].kind \in InspectionPoints
    /\ Len(media) < MaxMedia
    /\ media' = IF RowExists
                THEN Append(media, [kind |-> checkpointCall[c].kind, state |-> "pending"])
                ELSE media
    /\ Return(c)
    /\ UNCHANGED <<checkpoint, header, passed, mediaObjects>>

\* The client PUTs the bytes to the presigned URL, also after the row is gone.
Upload(m) ==
    /\ mediaObjects' = mediaObjects \cup {m}
    /\ UNCHANGED <<checkpoint, header, passed, media, checkpointCall>>

\* confirmMedia(): a pending row whose object exists is marked uploaded.
HeadObject(c) ==
    LET m == checkpointCall[c].media IN
    /\ In(c, "confirm", "begun")
    /\ IF media[m].state = "pending" /\ m \in mediaObjects
       THEN Become(c, [op |-> "confirm", at |-> "found", media |-> m]) ELSE Return(c)
    /\ UNCHANGED <<checkpoint, header, passed, media, mediaObjects>>

ConfirmMedia(c) ==
    LET m == checkpointCall[c].media IN
    /\ In(c, "confirm", "found")
    /\ media' = IF Live(m) THEN SetMedia({m}, "uploaded") ELSE media
    /\ Return(c)
    /\ UNCHANGED <<checkpoint, header, passed, mediaObjects>>

\* Mutant: the object goes before the row.
DeleteObjectFirst(c) ==
    LET m == checkpointCall[c].media IN
    /\ In(c, "delete", "begun")
    /\ mediaObjects' = mediaObjects \ {m}
    /\ Become(c, [op |-> "delete", at |-> "forget", keys |-> {m}])
    /\ UNCHANGED <<checkpoint, header, passed, media>>

\* deleteMedia(): the row first, then its object; 404 without a row.
DeleteMedia(c) ==
    LET m == checkpointCall[c].media IN
    /\ In(c, "delete", "begun")
    /\ media' = SetMedia({m}, "deleted")
    /\ IF Live(m) THEN Become(c, [op |-> "delete", at |-> "forget", keys |-> {m}]) ELSE Return(c)
    /\ UNCHANGED <<checkpoint, header, passed, mediaObjects>>

\* storage.delete of the objects whose rows a handler deleted.
ForgetObjects(c) ==
    /\ In(c, "delete", "forget") \/ In(c, "remove", "forget")
    /\ mediaObjects' = mediaObjects \ checkpointCall[c].keys
    /\ Return(c)
    /\ UNCHANGED <<checkpoint, header, passed, media>>

-----------------------------------------------------------------------------
(* remove() and complete() *)

SelectMedia(c) ==
    /\ In(c, "remove", "begun")
    /\ Become(c, [op |-> "remove", at |-> "delete", keys |-> {m \in MediaIds : Live(m)}])
    /\ UNCHANGED <<checkpoint, header, passed, media, mediaObjects>>

\* The foreign keys cascade to the points and the media.
RemoveCheckpoint(c) ==
    /\ In(c, "remove", "delete")
    /\ checkpoint' = "deleted"
    /\ media' = SetMedia(MediaIds, "deleted")
    /\ Become(c, [op |-> "remove", at |-> "forget", keys |-> checkpointCall[c].keys])
    /\ UNCHANGED <<header, passed, mediaObjects>>

\* Every point graded and photographed, both signatures there.
Evidence ==
    /\ \A p \in InspectionPoints : passed[p] # "unset" /\ ConfirmedOf(p) # {}
    /\ \A k \in Signatures : ConfirmedOf(k) # {}

\* Mutant: a photograph counts as soon as it was presigned.
CheckPresigned(c) ==
    /\ In(c, "complete", "begun")
    /\ IF /\ RowExists
          /\ \A p \in InspectionPoints : passed[p] # "unset" /\ OfMediaKind(p) # {}
          /\ \A k \in Signatures : ConfirmedOf(k) # {}
       THEN Become(c, [op |-> "complete", at |-> "update"]) ELSE Return(c)
    /\ UNCHANGED <<checkpoint, header, passed, media, mediaObjects>>

CheckEvidence(c) ==
    /\ In(c, "complete", "begun")
    /\ IF RowExists /\ Evidence THEN Become(c, [op |-> "complete", at |-> "update"]) ELSE Return(c)
    /\ UNCHANGED <<checkpoint, header, passed, media, mediaObjects>>

CompleteCheckpoint(c) ==
    /\ In(c, "complete", "update")
    /\ checkpoint' = IF RowExists THEN "completed" ELSE checkpoint
    /\ \E h \in Headers : header' = IF RowExists THEN h ELSE header
    /\ Return(c)
    /\ UNCHANGED <<passed, media, mediaObjects>>

\* The request fails or the instance dies between two steps.
AbortCheckpointCall(c) ==
    /\ checkpointCall[c] # NoCall
    /\ Return(c)
    /\ UNCHANGED <<checkpoint, header, passed, media, mediaObjects>>

-----------------------------------------------------------------------------

CheckpointInit ==
    /\ checkpoint = "absent"
    /\ header = "initial"
    /\ passed = [p \in InspectionPoints |-> "unset"]
    /\ media = <<>>
    /\ mediaObjects = {}
    /\ checkpointCall = [c \in Clients |-> NoCall]

CheckpointHandler(c) ==
    \/ UpdateCheckpoint(c) \/ UpdatePoint(c)
    \/ Supersede(c) \/ ForgetSuperseded(c) \/ InsertMedia(c)
    \/ HeadObject(c) \/ ConfirmMedia(c) \/ DeleteMedia(c) \/ ForgetObjects(c)
    \/ SelectMedia(c) \/ RemoveCheckpoint(c) \/ CheckEvidence(c) \/ CompleteCheckpoint(c)

CheckpointNext ==
    \/ CreateCheckpoint
    \/ \E c \in Clients : Begin(c) \/ CheckpointHandler(c) \/ AbortCheckpointCall(c)
    \/ \E m \in MediaIds : Upload(m)

CheckpointSpec == CheckpointInit /\ [][CheckpointNext]_checkpointVars

-----------------------------------------------------------------------------
(* Properties *)

\* A media row marked uploaded has its bytes, however requests overtake each
\* other: rows go before their objects (deleteMedia, remove, presignMedia).
EvidenceBacked ==
    \A m \in MediaIds : media[m].state = "uploaded" => m \in mediaObjects

\* A completed checkpoint carries all of its evidence (complete()).
CompletedHasEvidence == checkpoint = "completed" => Evidence

\* "Completed checkpoints are berita acara - legal handover evidence - and stay
\* immutable/undeletable" (remove()).
CompletedIsImmutable ==
    [][checkpoint = "completed" => UNCHANGED <<checkpoint, header, passed, media>>]_checkpointVars
=============================================================================
