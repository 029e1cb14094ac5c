--------------------------- MODULE EvidenceProofs ---------------------------
(***************************************************************************)
(* Evidence is backed by its bytes: the media of a vehicle handover and    *)
(* the payment proofs of a rental, for any number of clients and files.    *)
(***************************************************************************)
EXTENDS Checkpoints, RentalProofs, FiniteSetTheorems, SequenceTheorems, TLAPS

-----------------------------------------------------------------------------
(***************************************************************************)
(* The checkpoints of a handover: rows only ever go towards their          *)
(* deletion, and an object leaves the storage after its row.  And for      *)
(* requests that come one at a time: a completed checkpoint has its        *)
(* evidence and stays as it is.                                            *)
(***************************************************************************)

MediaRow == [kind : MediaKinds, state : FileStates]

\* The shape of the state, as far as the argument needs it.
CheckpointShape ==
    /\ media \in Seq(MediaRow)
    /\ checkpointCall = [c \in Clients |-> checkpointCall[c]]

\* What a handler remembers is still true when it acts on it: the media row it
\* names exists, the object it saw is there unless the row is gone, and the
\* objects it is about to delete belong to deleted rows.
Tracked(call) ==
    /\ call.op = "presign" /\ call.at = "begun" => call.kind \in MediaKinds
    /\ call.op = "presign" /\ call.at = "superseded" => call.kind \in MediaKinds
    /\ call.op = "presign" /\ call.at = "insert" => call.kind \in MediaKinds
    /\ call.op \in {"confirm", "delete"} /\ call.at \in {"begun", "found"} => call.media \in MediaIds
    /\ call.op = "confirm" /\ call.at = "found" => ~Live(call.media) \/ call.media \in mediaObjects
    /\ \/ call.op = "presign" /\ call.at = "superseded"
       \/ call.op \in {"delete", "remove"} /\ call.at = "forget"
       => \A m \in call.keys : m \in MediaIds /\ ~Live(m)
    /\ call.op = "remove" /\ call.at = "delete" => call.keys \subseteq MediaIds

MediaInv ==
    /\ CheckpointShape
    /\ EvidenceBacked
    /\ \A c \in Clients : Tracked(checkpointCall[c])

\* What every step does to rows and objects: ids stay, deleted rows stay
\* deleted, and only objects of deleted rows go.
Forward ==
    /\ MediaIds \subseteq MediaIds'
    /\ \A m \in MediaIds : ~Live(m) => ~Live(m)'
    /\ \A m \in mediaObjects : m \in MediaIds /\ Live(m)' => m \in mediaObjects'

\* A step that goes forward and changes at most one call keeps the others true.
LEMMA OthersStayTracked ==
    ASSUME MediaInv, Forward, NEW c \in Clients, NEW call,
           checkpointCall' = Now(checkpointCall, c, call), Tracked(call)'
    PROVE  /\ checkpointCall' = [d \in Clients |-> checkpointCall'[d]]
           /\ \A d \in Clients : Tracked(checkpointCall[d])'
  <1>1. checkpointCall' = [d \in Clients |-> IF d = c THEN call ELSE checkpointCall[d]]
    BY DEF MediaInv, CheckpointShape, Now
  <1>2. ASSUME NEW d \in Clients, d # c PROVE Tracked(checkpointCall[d])'
    <2>1. checkpointCall'[d] = checkpointCall[d]
      BY <1>1, <1>2
    <2>2. Tracked(checkpointCall[d])
      BY DEF MediaInv
    <2> QED
      BY <2>1, <2>2 DEF Tracked, Forward
  <1>3. Tracked(checkpointCall[c])'
    BY <1>1
  <1> QED
    BY <1>1, <1>2, <1>3

\* A step that leaves the calls alone.
LEMMA AllStayTracked ==
    ASSUME MediaInv, Forward, UNCHANGED checkpointCall
    PROVE  /\ checkpointCall' = [d \in Clients |-> checkpointCall'[d]]
           /\ \A d \in Clients : Tracked(checkpointCall[d])'
  BY DEF MediaInv, CheckpointShape, Tracked, Forward

\* A step that touches neither rows nor objects.
LEMMA NoMediumMoves ==
    ASSUME MediaInv, UNCHANGED <<media, mediaObjects>>
    PROVE  Forward /\ EvidenceBacked' /\ media' \in Seq(MediaRow)
  BY DEF MediaInv, CheckpointShape, Forward, EvidenceBacked, MediaIds, Live

\* A handler that only changes its own call.
LEMMA OnlyTheCall ==
    ASSUME MediaInv, UNCHANGED <<media, mediaObjects>>, NEW c \in Clients, NEW call,
           Become(c, call), Tracked(call)'
    PROVE  MediaInv'
  BY NoMediumMoves, OthersStayTracked DEF MediaInv, CheckpointShape, Become

\* Nothing is remembered once a handler has answered.
LEMMA NothingTracked == Tracked(NoCall) /\ Tracked(NoCall)'
  BY DEF Tracked, NoCall

\* Rows that are deleted, whichever: nothing becomes uploaded.
LEMMA DeletingRows ==
    ASSUME MediaInv, NEW ids, media' = SetMedia(ids, "deleted"), UNCHANGED mediaObjects
    PROVE  /\ Forward /\ EvidenceBacked' /\ media' \in Seq(MediaRow)
           /\ MediaIds' = MediaIds
           /\ \A m \in MediaIds \cap ids : ~Live(m)'
  <1>1. media \in Seq(MediaRow) /\ Len(media) \in Nat
    BY DEF MediaInv, CheckpointShape
  <1>2. \A m \in MediaIds : media[m] \in MediaRow
    BY <1>1 DEF MediaIds
  <1>3. \A m \in MediaIds : [media[m] EXCEPT !.state = "deleted"] \in MediaRow
    BY <1>2 DEF MediaRow, FileStates
  <1>4. media' = [m \in 1..Len(media) |->
                    IF m \in ids THEN [media[m] EXCEPT !.state = "deleted"] ELSE media[m]]
    BY DEF SetMedia, MediaIds
  <1>5. media' \in Seq(MediaRow) /\ Len(media') = Len(media)
    BY <1>1, <1>2, <1>3, <1>4 DEF MediaIds
  <1>6. MediaIds' = MediaIds
    BY <1>5 DEF MediaIds
  <1>7. \A m \in MediaIds : media'[m].state = IF m \in ids THEN "deleted" ELSE media[m].state
    BY <1>2, <1>4 DEF MediaIds, MediaRow
  <1> QED
    BY <1>5, <1>6, <1>7 DEF Forward, Live, EvidenceBacked, MediaInv

\* Objects of deleted rows that go.
LEMMA DeletingObjects ==
    ASSUME MediaInv, NEW keys, \A m \in keys : m \in MediaIds /\ ~Live(m),
           mediaObjects' = mediaObjects \ keys, UNCHANGED media
    PROVE  Forward /\ EvidenceBacked' /\ media' \in Seq(MediaRow)
  BY DEF MediaInv, CheckpointShape, Forward, EvidenceBacked, Live, MediaIds

\* No handler is in flight and no row is there at the start.
LEMMA MediaStart == CheckpointInit => MediaInv
  BY DEF CheckpointInit, MediaInv, CheckpointShape, EvidenceBacked, Tracked, NoCall, MediaIds

\* Every action of every handler keeps the invariant; one step per action.
LEMMA MediaGoOn ==
    ASSUME MediaInv, [CheckpointNext]_checkpointVars
    PROVE  MediaInv'
  <1>1. CASE UNCHANGED checkpointVars
    BY <1>1, NoMediumMoves, AllStayTracked DEF checkpointVars, MediaInv, CheckpointShape
  <1>2. CASE CreateCheckpoint
    BY <1>2, NoMediumMoves, AllStayTracked DEF CreateCheckpoint, MediaInv, CheckpointShape
  <1>3. ASSUME NEW m \in MediaIds, Upload(m) PROVE MediaInv'
    <2>1. Forward /\ EvidenceBacked' /\ media' \in Seq(MediaRow)
      BY <1>3 DEF Upload, MediaInv, CheckpointShape, Forward, EvidenceBacked, MediaIds, Live
    <2> QED
      BY <1>3, <2>1, AllStayTracked DEF Upload, MediaInv, CheckpointShape
  <1>4. ASSUME NEW c \in Clients, Begin(c) PROVE MediaInv'
    <2>1. CASE \E op \in {"update", "updatePoint", "remove", "complete"} :
                    OwnedDraft(c, [op |-> op, at |-> "begun"])
      <3>1. PICK op \in {"update", "updatePoint", "remove", "complete"} :
                    OwnedDraft(c, [op |-> op, at |-> "begun"])
        BY <2>1
      <3>2. Tracked([op |-> op, at |-> "begun"])'
        BY DEF Tracked
      <3> QED
        BY <3>1, <3>2, OnlyTheCall DEF OwnedDraft
    <2>2. CASE \E k \in MediaKinds :
                    OwnedDraft(c, [op |-> "presign", at |-> "begun", kind |-> k])
      <3>1. PICK k \in MediaKinds : OwnedDraft(c, [op |-> "presign", at |-> "begun", kind |-> k])
        BY <2>2
      <3>2. Tracked([op |-> "presign", at |-> "begun", kind |-> k])'
        BY DEF Tracked, MediaKinds
      <3> QED
        BY <3>1, <3>2, OnlyTheCall DEF OwnedDraft
    <2>3. CASE \E op \in {"confirm", "delete"}, m \in MediaIds :
                    OwnedDraft(c, [op |-> op, at |-> "begun", media |-> m])
      <3>1. PICK op \in {"confirm", "delete"}, m \in MediaIds :
                    OwnedDraft(c, [op |-> op, at |-> "begun", media |-> m])
        BY <2>3
      <3>2. Tracked([op |-> op, at |-> "begun", media |-> m])'
        BY <3>1 DEF Tracked, OwnedDraft, MediaIds
      <3> QED
        BY <3>1, <3>2, OnlyTheCall DEF OwnedDraft
    <2> QED
      BY <1>4, <2>1, <2>2, <2>3 DEF Begin
  <1>5. ASSUME NEW c \in Clients, CheckpointHandler(c) PROVE MediaInv'
    <2>a. PICK call : call = checkpointCall[c]
      OBVIOUS
    <2>0. call = checkpointCall[c] /\ Tracked(call)
      BY <2>a DEF MediaInv
    <2>1. CASE UpdateCheckpoint(c) \/ UpdatePoint(c) \/ CompleteCheckpoint(c)
      BY <2>1, OnlyTheCall, NothingTracked
      DEF UpdateCheckpoint, UpdatePoint, CompleteCheckpoint, Return
    <2>2. CASE Supersede(c)
      <3>0. PICK stale : stale = OfMediaKind(call.kind)
        OBVIOUS
      <3> DEFINE next == [op |-> "presign", at |-> "superseded", kind |-> call.kind, keys |-> stale]
      <3>1. media' = SetMedia(stale, "deleted") /\ UNCHANGED mediaObjects /\ Become(c, next)
        BY <2>0, <2>2, <3>0 DEF Supersede
      <3>2. /\ Forward /\ EvidenceBacked' /\ media' \in Seq(MediaRow)
            /\ MediaIds' = MediaIds
            /\ \A m \in MediaIds \cap stale : ~Live(m)'
        BY <3>1, DeletingRows
      <3>3. Tracked(next)'
        BY <2>0, <2>2, <3>0, <3>2 DEF Supersede, In, Tracked, OfMediaKind, MediaKinds
      <3> HIDE DEF next
      <3> QED
        BY <3>1, <3>2, <3>3, OthersStayTracked DEF MediaInv, CheckpointShape, Become
    <2>3. CASE ForgetSuperseded(c)
      <3> DEFINE next == [op |-> "presign", at |-> "insert", kind |-> call.kind]
      <3>0. /\ \A m \in call.keys : m \in MediaIds /\ ~Live(m)
            /\ mediaObjects' = mediaObjects \ call.keys /\ UNCHANGED media
            /\ Become(c, next)
        BY <2>0, <2>3 DEF ForgetSuperseded, In, Tracked
      <3>1. Forward /\ EvidenceBacked' /\ media' \in Seq(MediaRow)
        BY <3>0, DeletingObjects
      <3>2. Tracked(next)'
        BY <2>0, <2>3 DEF ForgetSuperseded, In, Tracked, MediaKinds
      <3> HIDE DEF next
      <3> QED
        BY <3>0, <3>1, <3>2, OthersStayTracked DEF MediaInv, CheckpointShape, Become
    <2>4. CASE InsertMedia(c)
      <3> DEFINE row == [kind |-> call.kind, state |-> "pending"]
      <3>1. row \in MediaRow
        BY <2>0, <2>4 DEF InsertMedia, In, Tracked, MediaRow, FileStates
      <3>2. media' \in {media, Append(media, row)} /\ UNCHANGED mediaObjects
        BY <2>0, <2>4 DEF InsertMedia
      <3> HIDE DEF row
      <3>3. Forward /\ media' \in Seq(MediaRow)
        BY <3>1, <3>2 DEF MediaInv, CheckpointShape, Forward, MediaIds, Live
      <3>4. EvidenceBacked'
        <4>1. CASE media' = media
          BY <3>2, <4>1 DEF MediaInv, EvidenceBacked, MediaIds
        <4>2. CASE media' = Append(media, row)
          <5>1. row.state = "pending"
            BY DEF row
          <5> QED
            BY <3>2, <4>2, <5>1 DEF MediaInv, CheckpointShape, EvidenceBacked, MediaIds
        <4> QED
          BY <3>2, <4>1, <4>2
      <3> QED
        BY <2>4, <3>3, <3>4, OthersStayTracked, NothingTracked
        DEF InsertMedia, Return, MediaInv, CheckpointShape, Become
    <2>5. CASE HeadObject(c)
      <3> DEFINE m == call.media
                 next == [op |-> "confirm", at |-> "found", media |-> m]
      <3>1. UNCHANGED <<media, mediaObjects>> /\ m \in MediaIds
        BY <2>0, <2>5 DEF HeadObject, In, Tracked
      <3>2. CASE m \in mediaObjects /\ Become(c, next)
        <4>1. Tracked(next)'
          BY <3>1, <3>2 DEF Tracked, MediaIds
        <4> QED
          BY <3>1, <3>2, <4>1, OnlyTheCall
      <3>3. CASE Return(c)
        BY <3>1, <3>3, OnlyTheCall, NothingTracked DEF Return
      <3> QED
        BY <2>0, <2>5, <3>2, <3>3 DEF HeadObject
    <2>6. CASE ConfirmMedia(c)
      <3> DEFINE m == call.media
      <3>1. m \in MediaIds /\ (~Live(m) \/ m \in mediaObjects)
        BY <2>0, <2>6 DEF ConfirmMedia, In, Tracked
      <3>2. UNCHANGED mediaObjects /\ Return(c)
        BY <2>6 DEF ConfirmMedia
      <3>3. Forward /\ EvidenceBacked' /\ media' \in Seq(MediaRow)
        <4>1. CASE ~Live(m)
          BY <2>0, <2>6, <4>1, NoMediumMoves DEF ConfirmMedia
        <4>2. CASE Live(m)
          <5>1. media \in Seq(MediaRow) /\ Len(media) \in Nat
            BY DEF MediaInv, CheckpointShape
          <5>2. \A i \in MediaIds : media[i] \in MediaRow
            BY <5>1 DEF MediaIds
          <5>3. \A i \in MediaIds : [media[i] EXCEPT !.state = "uploaded"] \in MediaRow
            BY <5>2 DEF MediaRow, FileStates
          <5>4. media' = [i \in 1..Len(media) |->
                    IF i \in {m} THEN [media[i] EXCEPT !.state = "uploaded"] ELSE media[i]]
            BY <2>0, <2>6, <4>2 DEF ConfirmMedia, SetMedia, MediaIds
          <5>5. media' \in Seq(MediaRow) /\ Len(media') = Len(media)
            BY <5>1, <5>2, <5>3, <5>4 DEF MediaIds
          <5>6. MediaIds' = MediaIds
            BY <5>5 DEF MediaIds
          <5>7. \A i \in MediaIds :
                    media'[i].state = IF i = m THEN "uploaded" ELSE media[i].state
            BY <5>2, <5>4 DEF MediaIds, MediaRow
          <5> HIDE DEF m
          <5> QED
            BY <3>1, <3>2, <4>2, <5>5, <5>6, <5>7 DEF Forward, Live, EvidenceBacked, MediaInv
        <4> QED
          BY <4>1, <4>2
      <3> QED
        BY <3>2, <3>3, OthersStayTracked, NothingTracked DEF Return, MediaInv, CheckpointShape, Become
    <2>7. CASE DeleteMedia(c)
      <3> DEFINE m == call.media
                 next == [op |-> "delete", at |-> "forget", keys |-> {m}]
      <3>1. m \in MediaIds
        BY <2>0, <2>7 DEF DeleteMedia, In, Tracked
      <3>2. /\ Forward /\ EvidenceBacked' /\ media' \in Seq(MediaRow)
            /\ MediaIds' = MediaIds
            /\ \A i \in MediaIds \cap {m} : ~Live(i)'
        BY <2>0, <2>7, DeletingRows DEF DeleteMedia
      <3>3. Tracked(next)'
        BY <3>1, <3>2 DEF Tracked
      <3>4. Become(c, next) \/ Return(c)
        BY <2>0, <2>7 DEF DeleteMedia
      <3> HIDE DEF next, m
      <3>5. CASE Become(c, next)
        BY <3>2, <3>3, <3>5, OthersStayTracked DEF MediaInv, CheckpointShape, Become
      <3>6. CASE Return(c)
        BY <3>2, <3>6, OthersStayTracked, NothingTracked DEF MediaInv, CheckpointShape, Become, Return
      <3> QED
        BY <3>4, <3>5, <3>6
    <2>8. CASE ForgetObjects(c)
      <3>0. /\ \A m \in call.keys : m \in MediaIds /\ ~Live(m)
            /\ mediaObjects' = mediaObjects \ call.keys /\ UNCHANGED media
            /\ Return(c)
        BY <2>0, <2>8 DEF ForgetObjects, In, Tracked
      <3>1. Forward /\ EvidenceBacked' /\ media' \in Seq(MediaRow)
        BY <3>0, DeletingObjects
      <3> QED
        BY <3>0, <3>1, OthersStayTracked, NothingTracked DEF Return, MediaInv, CheckpointShape, Become
    <2>9. CASE SelectMedia(c)
      <3>0. PICK keys : keys = {m \in MediaIds : Live(m)}
        OBVIOUS
      <3> DEFINE next == [op |-> "remove", at |-> "delete", keys |-> keys]
      <3>1. UNCHANGED <<media, mediaObjects>> /\ Become(c, next)
        BY <2>9, <3>0 DEF SelectMedia
      <3>2. Tracked(next)'
        BY <3>0, <3>1 DEF Tracked, MediaIds
      <3> HIDE DEF next
      <3> QED
        BY <3>1, <3>2, OnlyTheCall
    <2>10. CASE RemoveCheckpoint(c)
      <3>0. PICK ids : ids = MediaIds
        OBVIOUS
      <3> DEFINE next == [op |-> "remove", at |-> "forget", keys |-> call.keys]
      <3>1. media' = SetMedia(ids, "deleted") /\ UNCHANGED mediaObjects /\ Become(c, next)
        BY <2>0, <2>10, <3>0 DEF RemoveCheckpoint
      <3>2. /\ Forward /\ EvidenceBacked' /\ media' \in Seq(MediaRow)
            /\ MediaIds' = MediaIds
            /\ \A m \in MediaIds \cap ids : ~Live(m)'
        BY <3>1, DeletingRows
      <3>3. call.keys \subseteq MediaIds
        BY <2>0, <2>10 DEF RemoveCheckpoint, In, Tracked
      <3>4. Tracked(next)'
        BY <3>0, <3>2, <3>3 DEF Tracked
      <3> HIDE DEF next
      <3> QED
        BY <3>1, <3>2, <3>4, OthersStayTracked DEF MediaInv, CheckpointShape, Become
    <2>11. CASE CheckEvidence(c)
      <3> DEFINE next == [op |-> "complete", at |-> "update"]
      <3>1. Tracked(next)'
        BY DEF Tracked
      <3> HIDE DEF next
      <3>2. UNCHANGED <<media, mediaObjects>> /\ (Become(c, next) \/ Return(c))
        BY <2>11 DEF CheckEvidence, next
      <3> QED
        BY <3>1, <3>2, OnlyTheCall, NothingTracked DEF Return
    <2> QED
      BY <1>5, <2>1, <2>2, <2>3, <2>4, <2>5, <2>6, <2>7, <2>8, <2>9, <2>10, <2>11
      DEF CheckpointHandler
  <1>6. ASSUME NEW c \in Clients, AbortCheckpointCall(c) PROVE MediaInv'
    BY <1>6, OnlyTheCall, NothingTracked DEF AbortCheckpointCall, Return
  <1> QED
    BY <1>1, <1>2, <1>3, <1>4, <1>5, <1>6 DEF CheckpointNext

\* However many clients race and fail, a media row marked uploaded has its bytes.
THEOREM EvidenceIsBacked == CheckpointSpec => []EvidenceBacked
  <1>1. MediaInv => EvidenceBacked
    BY DEF MediaInv
  <1>2. MediaInv /\ [CheckpointNext]_checkpointVars => MediaInv'
    BY MediaGoOn
  <1> QED
    BY <1>1, <1>2, MediaStart, PTL DEF CheckpointSpec
-----------------------------------------------------------------------------
(***************************************************************************)
(* The record of the handover, with requests one at a time: a handler is   *)
(* only ever in flight over a draft, so whatever complete() has counted is *)
(* still there when it marks the checkpoint, and nobody is left to change  *)
(* it afterwards.  (Of two at once the other may have passed ownedDraft()  *)
(* before, and takes the photograph away after the count.)                 *)
(***************************************************************************)

\* Requests come one at a time: the next one begins after the answer.  The
\* clients' uploads happen at any moment.
OneAtATime == \A c, d \in Clients : c = d

\* A handler works on a draft, but for remove(), which deletes objects after the
\* rows; complete() marks what it has checked.
ReliesOnDraft(call) ==
    /\ call # NoCall => \/ checkpoint = "draft"
                        \/ checkpoint = "deleted" /\ call.op = "remove" /\ call.at = "forget"
    /\ call.op = "complete" /\ call.at = "update" => Evidence

RecordInv ==
    /\ checkpointCall = [c \in Clients |-> checkpointCall[c]]
    /\ CompletedHasEvidence
    /\ \A c \in Clients : ReliesOnDraft(checkpointCall[c])

\* What a completed checkpoint never sees.
Sealed == checkpoint = "completed" => UNCHANGED <<checkpoint, header, passed, media>>

\* A step that leaves the grades and the media alone leaves the evidence.
LEMMA EvidenceKept ==
    ASSUME UNCHANGED <<passed, media>>
    PROVE  Evidence' = Evidence
  BY DEF Evidence, ConfirmedOf, OfMediaKind, MediaIds, Live

\* A handler is in flight, so the checkpoint is not a record yet.
LEMMA NotYetRecorded ==
    ASSUME RecordInv, NEW c \in Clients, checkpointCall[c] # NoCall
    PROVE  checkpoint # "completed"
  BY DEF RecordInv, ReliesOnDraft

\* The only handler moves on, and may answer: what it relies on is all there is.
LEMMA OnlyHandler ==
    ASSUME OneAtATime, RecordInv, NEW c \in Clients, NEW call, Become(c, call),
           ReliesOnDraft(call)', CompletedHasEvidence'
    PROVE  RecordInv'
  <1>1. checkpointCall' = [d \in Clients |-> IF d = c THEN call ELSE checkpointCall[d]]
    BY DEF RecordInv, Become, Now
  <1>2. \A d \in Clients : d = c
    BY DEF OneAtATime
  <1>3. \A d \in Clients : checkpointCall'[d] = call
    BY <1>1, <1>2
  <1>4. checkpointCall' = [d \in Clients |-> checkpointCall'[d]]
    BY <1>1
  <1>5. ASSUME NEW d \in Clients PROVE ReliesOnDraft(checkpointCall[d])'
    BY <1>3
  <1> QED
    BY <1>4, <1>5 DEF RecordInv

\* Nothing is relied on once a handler has answered.
LEMMA NothingRelied == ReliesOnDraft(NoCall)'
  BY DEF ReliesOnDraft, NoCall

\* A handler over a draft that leaves it one.
LEMMA DraftStays ==
    ASSUME OneAtATime, RecordInv, checkpoint = "draft", UNCHANGED checkpoint,
           NEW c \in Clients, NEW call, Become(c, call),
           call.op = "complete" /\ call.at = "update" => Evidence'
    PROVE  RecordInv' /\ Sealed
  <1>1. ReliesOnDraft(call)' /\ CompletedHasEvidence' /\ Sealed
    BY DEF ReliesOnDraft, CompletedHasEvidence, Sealed
  <1> QED
    BY <1>1, OnlyHandler

LEMMA RecordStarts == CheckpointInit => RecordInv
  BY DEF CheckpointInit, RecordInv, CompletedHasEvidence, ReliesOnDraft, NoCall

\* One step per action: none of them changes a record.
LEMMA RecordGoesOn ==
    ASSUME OneAtATime, RecordInv, [CheckpointNext]_checkpointVars
    PROVE  RecordInv' /\ (Sealed \/ UNCHANGED checkpointVars)
  <1>1. CASE UNCHANGED checkpointVars
    <2>1. UNCHANGED <<passed, media>>
      BY <1>1 DEF checkpointVars
    <2> QED
      BY <1>1, <2>1, EvidenceKept DEF checkpointVars, RecordInv, ReliesOnDraft, CompletedHasEvidence
  <1>2. CASE CreateCheckpoint
    <2>1. \A c \in Clients : checkpointCall[c] = NoCall
      BY <1>2 DEF CreateCheckpoint, RecordInv, ReliesOnDraft
    <2> QED
      BY <1>2, <2>1 DEF CreateCheckpoint, RecordInv, ReliesOnDraft, CompletedHasEvidence, NoCall, Sealed
  <1>3. ASSUME NEW m \in MediaIds, Upload(m) PROVE RecordInv' /\ Sealed
    <2>1. UNCHANGED <<checkpoint, header, passed, media, checkpointCall>>
      BY <1>3 DEF Upload
    <2> QED
      BY <2>1, EvidenceKept DEF RecordInv, ReliesOnDraft, CompletedHasEvidence, Sealed
  <1>4. ASSUME NEW c \in Clients, Begin(c) PROVE RecordInv' /\ Sealed
    <2>1. PICK call : OwnedDraft(c, call) /\ call.at = "begun"
      <3>1. CASE \E op \in {"update", "updatePoint", "remove", "complete"} :
                    OwnedDraft(c, [op |-> op, at |-> "begun"])
        BY <3>1
      <3>2. CASE \E k \in MediaKinds :
                    OwnedDraft(c, [op |-> "presign", at |-> "begun", kind |-> k])
        BY <3>2
      <3>3. CASE \E op \in {"confirm", "delete"}, m \in MediaIds :
                    OwnedDraft(c, [op |-> op, at |-> "begun", media |-> m])
        BY <3>3
      <3> QED
        BY <1>4, <3>1, <3>2, <3>3 DEF Begin
    <2> QED
      BY <2>1, DraftStays DEF OwnedDraft
  <1>5. ASSUME NEW c \in Clients, CheckpointHandler(c) PROVE RecordInv' /\ Sealed
    <2>0. checkpointCall[c].op # "none" => checkpointCall[c] # NoCall
      BY DEF NoCall
    <2>1. CASE \/ UpdateCheckpoint(c) \/ UpdatePoint(c)
               \/ Supersede(c) \/ ForgetSuperseded(c) \/ InsertMedia(c)
               \/ HeadObject(c) \/ ConfirmMedia(c) \/ DeleteMedia(c)
      <3>1. /\ UNCHANGED checkpoint
            /\ checkpointCall[c].op \in {"update", "updatePoint", "presign", "confirm", "delete"}
        BY <2>1 DEF UpdateCheckpoint, UpdatePoint, Supersede, ForgetSuperseded, InsertMedia,
                    HeadObject, ConfirmMedia, DeleteMedia, In
      <3>2. checkpoint = "draft"
        BY <2>0, <3>1 DEF RecordInv, ReliesOnDraft
      <3>3. PICK call : Become(c, call) /\ call.op # "complete"
        BY <2>1 DEF UpdateCheckpoint, UpdatePoint, Supersede, ForgetSuperseded, InsertMedia,
                    HeadObject, ConfirmMedia, DeleteMedia, Return, NoCall
      <3> QED
        BY <3>1, <3>2, <3>3, DraftStays
    <2>2. CASE ForgetObjects(c)
      <3>1. /\ UNCHANGED <<checkpoint, header, passed, media>>
            /\ checkpointCall[c] # NoCall
            /\ Become(c, NoCall)
        BY <2>0, <2>2 DEF ForgetObjects, In, Return
      <3> QED
        BY <3>1, NotYetRecorded, NothingRelied, OnlyHandler DEF CompletedHasEvidence, Sealed
    <2>3. CASE SelectMedia(c)
      <3>1. /\ UNCHANGED checkpoint
            /\ checkpointCall[c].op = "remove" /\ checkpointCall[c].at = "begun"
        BY <2>3 DEF SelectMedia, In
      <3>2. checkpoint = "draft"
        BY <2>0, <3>1 DEF RecordInv, ReliesOnDraft
      <3>3. PICK call : Become(c, call) /\ call.op # "complete"
        BY <2>3 DEF SelectMedia
      <3> QED
        BY <3>1, <3>2, <3>3, DraftStays
    <2>4. CASE RemoveCheckpoint(c)
      <3>1. /\ checkpoint' = "deleted"
            /\ checkpointCall[c].op = "remove" /\ checkpointCall[c].at = "delete"
        BY <2>4 DEF RemoveCheckpoint, In
      <3>2. checkpoint = "draft"
        BY <2>0, <3>1 DEF RecordInv, ReliesOnDraft
      <3>3. PICK call : Become(c, call) /\ call.op = "remove" /\ call.at = "forget"
        BY <2>4 DEF RemoveCheckpoint
      <3>4. ReliesOnDraft(call)' /\ CompletedHasEvidence' /\ Sealed
        BY <3>1, <3>2, <3>3 DEF ReliesOnDraft, CompletedHasEvidence, Sealed
      <3> QED
        BY <3>3, <3>4, OnlyHandler
    <2>5. CASE CheckEvidence(c)
      <3>1. /\ UNCHANGED <<checkpoint, passed, media>>
            /\ checkpointCall[c].op = "complete" /\ checkpointCall[c].at = "begun"
        BY <2>5 DEF CheckEvidence, In
      <3>2. checkpoint = "draft"
        BY <2>0, <3>1 DEF RecordInv, ReliesOnDraft
      <3>3. PICK call : Become(c, call) /\ (call.op = "complete" => Evidence)
        BY <2>5 DEF CheckEvidence, Return, NoCall
      <3> QED
        BY <3>1, <3>2, <3>3, EvidenceKept, DraftStays
    <2>6. CASE CompleteCheckpoint(c)
      <3>1. /\ checkpointCall[c].op = "complete" /\ checkpointCall[c].at = "update"
            /\ UNCHANGED <<passed, media>>
            /\ Become(c, NoCall)
        BY <2>6 DEF CompleteCheckpoint, In, Return
      <3>2. checkpoint = "draft" /\ Evidence
        BY <2>0, <3>1 DEF RecordInv, ReliesOnDraft
      <3>3. CompletedHasEvidence' /\ Sealed
        BY <3>1, <3>2, EvidenceKept DEF CompletedHasEvidence, Sealed
      <3> QED
        BY <3>1, <3>3, NothingRelied, OnlyHandler
    <2> QED
      BY <1>5, <2>1, <2>2, <2>3, <2>4, <2>5, <2>6 DEF CheckpointHandler
  <1>6. ASSUME NEW c \in Clients, AbortCheckpointCall(c) PROVE RecordInv' /\ Sealed
    <2>1. /\ UNCHANGED <<checkpoint, header, passed, media>>
          /\ checkpointCall[c] # NoCall
          /\ Become(c, NoCall)
      BY <1>6 DEF AbortCheckpointCall, Return
    <2> QED
      BY <2>1, NotYetRecorded, NothingRelied, OnlyHandler DEF CompletedHasEvidence, Sealed
  <1> QED
    BY <1>1, <1>2, <1>3, <1>4, <1>5, <1>6 DEF CheckpointNext

\* Requests one at a time: a completed checkpoint carries a grade and a photograph
\* of every inspection point and every signature, however many those are, and
\* also when requests are cut off in the middle (complete()).
THEOREM RecordsCarryEvidence ==
    ASSUME OneAtATime
    PROVE  CheckpointSpec => []CompletedHasEvidence
  <1>1. RecordInv => CompletedHasEvidence
    BY DEF RecordInv
  <1>2. RecordInv /\ [CheckpointNext]_checkpointVars => RecordInv'
    BY RecordGoesOn
  <1> QED
    BY <1>1, <1>2, RecordStarts, PTL DEF CheckpointSpec

\* Requests one at a time: nothing changes or deletes a completed checkpoint, its
\* grades or its media (ownedDraft()).
THEOREM RecordsAreImmutable ==
    ASSUME OneAtATime
    PROVE  CheckpointSpec => CompletedIsImmutable
  <1>1. RecordInv /\ [CheckpointNext]_checkpointVars
            => RecordInv' /\ [Sealed]_checkpointVars
    BY RecordGoesOn
  <1>2. CheckpointSpec => [][Sealed]_checkpointVars
    BY <1>1, RecordStarts, PTL DEF CheckpointSpec
  <1> QED
    BY <1>2 DEF CompletedIsImmutable, Sealed

-----------------------------------------------------------------------------
(***************************************************************************)
(* The payment evidence of rentals: what is attached was uploaded, is      *)
(* backed by its object and stays within the cap.  And for requests that   *)
(* come one at a time: a paid rental has evidence and keeps its rate.      *)
(***************************************************************************)

Owners   == {Draft} \cup {Of(r) : r \in Rentals}
ProofRow == [state : FileStates, owner : Owners, stale : BOOLEAN]
RentalRow == [at : {"absent", "stored", "deleted"}, paid : BOOLEAN, taxed : BOOLEAN]
SaveCall == [op : {"save"}, kind : {"create", "update", "status"},
             at : {"begun", "written", "checked", "attached"}, id : Rentals,
             paid : BOOLEAN, taxed : BOOLEAN, wanted : SUBSET Nat, fresh : SUBSET Nat]

RentalShape ==
    /\ rental \in [Rentals -> RentalRow]
    /\ \A r \in Rentals : ~Stored(r) => ~rental[r].paid
    /\ isPkp \in BOOLEAN
    /\ proofs \in Seq(ProofRow)
    /\ rentalCall = [c \in Clients |-> rentalCall[c]]

\* What a handler remembers is still true when it acts on it.
Remembers(call) ==
    /\ call.op = "save" =>
        /\ call \in SaveCall
        /\ call.wanted \subseteq ProofIds /\ call.fresh \subseteq ProofIds
    /\ call.op = "save" /\ call.at \in {"checked", "attached"} =>
        \A p \in call.fresh : Kept(p) => proofs[p].state = "uploaded"
    /\ call.op = "presign" => call.keys \subseteq ProofIds /\ \A p \in call.keys : ~Kept(p)
    /\ call.op = "confirm" =>
        call.proof \in ProofIds /\ (Kept(call.proof) => call.proof \in proofObjects)
    /\ call.op = "remove" => call.proof \in ProofIds
    /\ call.op = "remove" /\ call.at \in {"status", "count"} =>
        \E r \in Rentals : call.owner = Of(r)
    /\ call.op = "remove" /\ call.at = "forget" => ~Kept(call.proof)

\* A save that has counted will commit what it counted: its proofs are locked, and
\* the rental it attaches them to is its own.
Reserves(call) ==
    call.op = "save" /\ call.at = "attached" =>
        /\ \A p \in call.fresh : Kept(p)
        /\ Cardinality(ProofsOf(call.id) \cup call.fresh) <= ProofCap

\* One transaction at a time writes a rental.
OneWriter ==
    \A c, d \in Clients : c # d /\ Saving(c) /\ Saving(d) => rentalCall[c].id # rentalCall[d].id

EvidenceInv ==
    /\ RentalShape
    /\ \A c \in Clients : Remembers(rentalCall[c]) /\ Reserves(rentalCall[c])
    /\ OneWriter
    /\ ProofBacked
    /\ EvidenceInOrder

\* A step that commits no save: proofs stay where they are attached, a draft is
\* attached to nothing, deleted rows stay deleted, only objects of deleted rows go,
\* what a save has locked stays, and what is marked uploaded has been seen.
Calm ==
    /\ ProofIds \subseteq ProofIds'
    /\ \A p \in ProofIds : Kept(p)' => Kept(p)
    /\ \A p \in ProofIds : Kept(p)' /\ proofs[p].state = "uploaded" => proofs'[p].state = "uploaded"
    /\ \A p \in proofObjects : p \in ProofIds /\ Kept(p)' => p \in proofObjects'
    /\ \A p \in ProofIds' : Kept(p)' =>
            IF p \in ProofIds THEN proofs'[p].owner = proofs[p].owner ELSE proofs'[p].owner = Draft
    /\ \A p \in ProofIds : ProofLock(p) /\ Kept(p) => Kept(p)'
    /\ \A p \in ProofIds' : proofs'[p].state = "uploaded" => p \in ProofIds /\ p \in proofObjects

-----------------------------------------------------------------------------
(* Rows and owners *)

\* A draft has another owner than an attached proof, a rental another than the next.
LEMMA OwnersDiffer ==
    /\ \A r : Of(r) # Draft /\ Of(r).id = r
    /\ \A r, s : Of(r) = Of(s) => r = s
  <1>1. ASSUME NEW r PROVE Of(r).of = "rental" /\ Of(r).id = r /\ Draft.of = "draft"
    BY DEF Of, Draft
  <1>2. ASSUME NEW r PROVE Of(r) # Draft
    BY <1>1
  <1>3. ASSUME NEW r, NEW s, Of(r) = Of(s) PROVE r = s
    <2>1. Of(r).id = Of(s).id
      BY <1>3
    <2> QED
      BY <2>1, <1>1
  <1> QED
    BY <1>1, <1>2, <1>3

\* Rows picked one by one make a sequence of rows.
LEMMA RowsMakeProofs ==
    ASSUME NEW n \in Nat, NEW f \in [1..n -> ProofRow]
    PROVE  f \in Seq(ProofRow) /\ Len(f) = n
  <1>1. f \in Seq(ProofRow)
    BY SeqDef
  <1>2. DOMAIN f = 1..n /\ DOMAIN f = 1..Len(f) /\ Len(f) \in Nat
    BY <1>1, LenProperties
  <1> QED
    BY <1>1, <1>2

\* What the shape says of the rows.
LEMMA RowsOfProofs ==
    ASSUME proofs \in Seq(ProofRow)
    PROVE  /\ Len(proofs) \in Nat /\ ProofIds = 1..Len(proofs) /\ IsFiniteSet(ProofIds)
           /\ \A p \in ProofIds : /\ proofs[p] \in ProofRow
                                  /\ proofs[p].state \in FileStates
                                  /\ proofs[p].owner \in Owners
  <1>1. Len(proofs) \in Nat /\ ProofIds = 1..Len(proofs)
    BY LenProperties DEF ProofIds
  <1>2. IsFiniteSet(1..Len(proofs))
    BY <1>1, FS_Interval
  <1>3. \A p \in ProofIds : proofs[p] \in ProofRow
    BY <1>1, ElementOfSeq
  <1>4. \A row \in ProofRow : row.state \in FileStates /\ row.owner \in Owners
    BY DEF ProofRow
  <1> QED
    BY <1>1, <1>2, <1>3, <1>4

\* A row of the table rewritten by an UPDATE of one field.
LEMMA OneProofRewritten ==
    ASSUME proofs \in Seq(ProofRow), NEW p \in ProofIds
    PROVE  /\ \E row \in ProofRow :
                /\ row.state = "uploaded" /\ row.owner = proofs[p].owner
                /\ [proofs EXCEPT ![p].state = "uploaded"]
                     = [q \in ProofIds |-> IF q = p THEN row ELSE proofs[q]]
           /\ \E row \in ProofRow :
                /\ row.state = proofs[p].state /\ row.owner = proofs[p].owner
                /\ [proofs EXCEPT ![p].stale = TRUE]
                     = [q \in ProofIds |-> IF q = p THEN row ELSE proofs[q]]
  <1>1. proofs = [q \in ProofIds |-> proofs[q]]
    BY LenProperties DEF ProofIds
  <1>2. PICK old \in ProofRow : old = proofs[p]
    BY RowsOfProofs
  <1> DEFINE up == [old EXCEPT !.state = "uploaded"]
             aged == [old EXCEPT !.stale = TRUE]
  <1>3. /\ up \in ProofRow /\ up.state = "uploaded" /\ up.owner = old.owner
        /\ aged \in ProofRow /\ aged.state = old.state /\ aged.owner = old.owner
    BY DEF ProofRow, FileStates
  <1>4. [proofs EXCEPT ![p].state = "uploaded"] =
          [q \in ProofIds |-> IF q = p THEN [proofs[p] EXCEPT !.state = "uploaded"] ELSE proofs[q]]
    BY <1>1, Zenon
  <1>5. [proofs EXCEPT ![p].stale = TRUE] =
          [q \in ProofIds |-> IF q = p THEN [proofs[p] EXCEPT !.stale = TRUE] ELSE proofs[q]]
    BY <1>1, Zenon
  <1>6. [proofs[p] EXCEPT !.state = "uploaded"] = up /\ [proofs[p] EXCEPT !.stale = TRUE] = aged
    BY <1>2
  <1> QED
    BY <1>2, <1>3, <1>4, <1>5, <1>6, Zenon

-----------------------------------------------------------------------------
(* What a step does to the proofs *)

\* A step that touches neither rows nor objects.
LEMMA NothingMoves ==
    ASSUME EvidenceInv, UNCHANGED <<proofs, proofObjects>>
    PROVE  Calm /\ proofs' \in Seq(ProofRow) /\ ProofIds' = ProofIds
  BY DEF EvidenceInv, RentalShape, Calm, ProofBacked, ProofIds, Kept

\* A DELETE of rows no transaction has locked.
LEMMA DroppingProofs ==
    ASSUME EvidenceInv, NEW ids, proofs' = DropProofs(ids), UNCHANGED proofObjects,
           ~\E p \in ids : ProofLock(p)
    PROVE  /\ Calm /\ proofs' \in Seq(ProofRow) /\ ProofIds' = ProofIds
           /\ \A p \in ProofIds : Kept(p)' <=> Kept(p) /\ p \notin ids
           /\ \A p \in ProofIds : Kept(p)' => proofs'[p].owner = proofs[p].owner
  <1>1. /\ Len(proofs) \in Nat /\ ProofIds = 1..Len(proofs)
        /\ \A p \in ProofIds : proofs[p] \in ProofRow
    BY RowsOfProofs DEF EvidenceInv, RentalShape
  <1>2. GoneProof \in ProofRow /\ GoneProof.state = "deleted"
    BY DEF GoneProof, ProofRow, FileStates, Owners
  <1>3. proofs' \in [1..Len(proofs) -> ProofRow]
    BY <1>1, <1>2 DEF DropProofs
  <1>4. proofs' \in Seq(ProofRow) /\ Len(proofs') = Len(proofs)
    BY <1>1, <1>3, RowsMakeProofs
  <1>5. ProofIds' = ProofIds
    BY <1>4 DEF ProofIds
  <1>6. \A p \in ProofIds : proofs'[p] = IF p \in ids THEN GoneProof ELSE proofs[p]
    BY DEF DropProofs
  <1>7. \A p \in ProofIds : /\ p \in ids => ~Kept(p)'
                            /\ p \notin ids => proofs'[p] = proofs[p]
    BY <1>2, <1>5, <1>6 DEF Kept
  <1>8. \A p \in ProofIds : proofs[p].state = "uploaded" => p \in proofObjects
    BY DEF EvidenceInv, ProofBacked
  <1>9. \A p \in ProofIds : p \in ids => proofs'[p].state = "deleted"
    BY <1>2, <1>6
  <1> QED
    BY <1>4, <1>5, <1>7, <1>8, <1>9 DEF Calm, Kept

\* One row rewritten, its owner kept; an uploaded one has its object.
LEMMA RewritingProof ==
    ASSUME EvidenceInv, NEW p \in ProofIds, NEW row \in ProofRow, Kept(p),
           proofs' = [q \in ProofIds |-> IF q = p THEN row ELSE proofs[q]],
           row.owner = proofs[p].owner,
           \/ row.state = proofs[p].state
           \/ row.state = "uploaded" /\ p \in proofObjects,
           UNCHANGED proofObjects
    PROVE  Calm /\ proofs' \in Seq(ProofRow) /\ ProofIds' = ProofIds
  <1>1. /\ Len(proofs) \in Nat /\ ProofIds = 1..Len(proofs)
        /\ \A q \in ProofIds : proofs[q] \in ProofRow
    BY RowsOfProofs DEF EvidenceInv, RentalShape
  <1>2. proofs' \in [1..Len(proofs) -> ProofRow]
    BY <1>1
  <1>3. proofs' \in Seq(ProofRow) /\ Len(proofs') = Len(proofs)
    BY <1>1, <1>2, RowsMakeProofs
  <1>4. ProofIds' = ProofIds
    BY <1>3 DEF ProofIds
  <1>5. \A q \in ProofIds : /\ q = p => proofs'[q] = row
                            /\ q # p => proofs'[q] = proofs[q]
    OBVIOUS
  <1>6. \A q \in ProofIds : proofs[q].state = "uploaded" => q \in proofObjects
    BY DEF EvidenceInv, ProofBacked
  <1> QED
    BY <1>3, <1>4, <1>5, <1>6 DEF Calm, Kept

\* A new draft, and objects of deleted rows that go.
LEMMA AddingDraft ==
    ASSUME EvidenceInv, NEW keys, \A p \in keys : p \in ProofIds /\ ~Kept(p),
           proofs' = Append(proofs, [state |-> "pending", owner |-> Draft, stale |-> FALSE]),
           proofObjects' \in {proofObjects, proofObjects \ keys}
    PROVE  Calm /\ proofs' \in Seq(ProofRow) /\ ProofIds \subseteq ProofIds'
  <1> DEFINE row == [state |-> "pending", owner |-> Draft, stale |-> FALSE]
  <1>1. row \in ProofRow /\ row.owner = Draft /\ row.state = "pending"
    BY DEF ProofRow, FileStates, Owners
  <1>2. /\ Len(proofs) \in Nat /\ ProofIds = 1..Len(proofs) /\ proofs \in Seq(ProofRow)
    BY RowsOfProofs DEF EvidenceInv, RentalShape
  <1> HIDE DEF row
  <1>3. proofs' = Append(proofs, row)
    BY DEF row
  <1>4. /\ proofs' \in Seq(ProofRow) /\ Len(proofs') = Len(proofs) + 1
        /\ \A p \in 1..Len(proofs) : proofs'[p] = proofs[p]
        /\ proofs'[Len(proofs) + 1] = row
    BY <1>1, <1>2, <1>3
  <1>5. ProofIds' = 1..(Len(proofs) + 1)
    BY <1>4 DEF ProofIds
  <1>6. ProofIds \subseteq ProofIds' /\ \A p \in ProofIds' : p \in ProofIds \/ proofs'[p] = row
    BY <1>2, <1>4, <1>5
  <1>7. \A q \in ProofIds : proofs[q].state = "uploaded" => q \in proofObjects
    BY DEF EvidenceInv, ProofBacked
  <1> QED
    BY <1>1, <1>2, <1>4, <1>6, <1>7 DEF Calm, Kept

-----------------------------------------------------------------------------
(* What a calm step keeps *)

\* The number of proofs of a rental is a number, and fewer are at most as many.
LEMMA FewerAreFewer ==
    ASSUME NEW S, IsFiniteSet(S), NEW T, T \subseteq S
    PROVE  Cardinality(T) \in Nat /\ Cardinality(S) \in Nat /\ Cardinality(T) <= Cardinality(S)
  BY FS_Subset, FS_CardinalityType

\* A rental gains no proof by a calm step.
LEMMA NoneGained ==
    ASSUME EvidenceInv, Calm, NEW r
    PROVE  ProofsOf(r)' \subseteq ProofsOf(r) /\ IsFiniteSet(ProofsOf(r))
  <1>1. ProofsOf(r)' \subseteq ProofsOf(r)
    BY OwnersDiffer DEF ProofsOf, Calm
  <1>2. ProofsOf(r) \subseteq ProofIds /\ IsFiniteSet(ProofIds)
    BY RowsOfProofs DEF ProofsOf, EvidenceInv, RentalShape
  <1> QED
    BY <1>1, <1>2, FS_Subset

\* A calm step that deletes no rental with evidence keeps the evidence in order.
LEMMA CalmKeepsOrder ==
    ASSUME EvidenceInv, Calm, proofs' \in Seq(ProofRow),
           \A r \in Rentals : Stored(r) => Stored(r)' \/ ProofsOf(r)' = {}
    PROVE  ProofBacked' /\ EvidenceInOrder'
  <1>1. ProofBacked'
    BY DEF ProofBacked, Calm, Kept
  <1>2. AttachedUploaded'
    <2> SUFFICES ASSUME NEW p \in ProofIds', Kept(p)', proofs'[p].owner # Draft
                 PROVE  proofs'[p].state = "uploaded" /\ Stored(proofs[p].owner.id)'
      BY DEF AttachedUploaded
    <2>1. p \in ProofIds /\ proofs'[p].owner = proofs[p].owner /\ Kept(p)
      BY DEF Calm
    <2>2. proofs[p].state = "uploaded" /\ Stored(proofs[p].owner.id)
      BY <2>1 DEF EvidenceInv, EvidenceInOrder, AttachedUploaded
    <2>3. PICK r \in Rentals : proofs[p].owner = Of(r)
      BY <2>1, RowsOfProofs DEF EvidenceInv, RentalShape, Owners
    <2>4. proofs[p].owner.id = r
      BY <2>3, OwnersDiffer
    <2>5. p \in ProofsOf(r)'
      BY <2>1, <2>3 DEF ProofsOf
    <2>6. Stored(r)'
      BY <2>2, <2>4, <2>5
    <2> QED
      BY <2>1, <2>2, <2>4, <2>6 DEF Calm, Stored
  <1>3. CapRespected'
    <2> SUFFICES ASSUME NEW r \in Rentals PROVE Cardinality(ProofsOf(r)') <= ProofCap
      BY DEF CapRespected
    <2>1. Cardinality(ProofsOf(r)) <= ProofCap
      BY DEF EvidenceInv, EvidenceInOrder, CapRespected
    <2> QED
      BY <2>1, NoneGained, FewerAreFewer, ProofCapAssumption
  <1> QED
    BY <1>1, <1>2, <1>3 DEF EvidenceInOrder

\* What the other handlers remember and have locked survives a calm step.
LEMMA CalmKeepsCalls ==
    ASSUME EvidenceInv, Calm, NEW call, Remembers(call),
           call.op = "save" /\ call.at = "attached" =>
               (\E d \in Clients : rentalCall[d] = call) /\ Reserves(call)
    PROVE  Remembers(call)' /\ Reserves(call)'
  <1>1. Remembers(call)'
    BY DEF Calm, Remembers
  <1>2. ASSUME call.op = "save", call.at = "attached" PROVE Reserves(call)'
    <2>1. PICK d \in Clients : rentalCall[d] = call
      BY <1>2
    <2>2. call.fresh \subseteq ProofIds /\ Reserves(call)
      BY <1>2 DEF Remembers
    <2>3. \A p \in call.fresh : Kept(p) /\ ProofLock(p)
      BY <1>2, <2>1, <2>2 DEF Reserves, ProofLock, At
    <2>4. \A p \in call.fresh : Kept(p)'
      BY <2>2, <2>3 DEF Calm
    <2>5. ProofsOf(call.id)' \cup call.fresh \subseteq ProofsOf(call.id) \cup call.fresh
      BY NoneGained
    <2>6. IsFiniteSet(ProofsOf(call.id) \cup call.fresh)
      <3>1. ProofsOf(call.id) \cup call.fresh \subseteq ProofIds /\ IsFiniteSet(ProofIds)
        BY <2>2, RowsOfProofs DEF ProofsOf, EvidenceInv, RentalShape
      <3> QED
        BY <3>1, FS_Subset
    <2>7. Cardinality(ProofsOf(call.id)' \cup call.fresh) <= ProofCap
      <3>1. Cardinality(ProofsOf(call.id) \cup call.fresh) <= ProofCap
        BY <1>2, <2>2 DEF Reserves
      <3> QED
        BY <2>5, <2>6, <3>1, FewerAreFewer, ProofCapAssumption
    <2> QED
      BY <2>4, <2>7 DEF Reserves
  <1> QED
    BY <1>1, <1>2 DEF Reserves

\* What moves is one handler: the others are where they were.
LEMMA OneHandlerMoves ==
    ASSUME EvidenceInv, NEW c \in Clients, NEW call, Step(c, call)
    PROVE  /\ rentalCall' = [d \in Clients |-> rentalCall'[d]]
           /\ rentalCall'[c] = call
           /\ \A d \in Clients : d # c => rentalCall'[d] = rentalCall[d]
  <1>1. rentalCall' = [d \in Clients |-> IF d = c THEN call ELSE rentalCall[d]]
    BY DEF EvidenceInv, RentalShape, Step, Now
  <1> QED
    BY <1>1

\* A handler that moves on by a calm step, to where what it remembers is true.
LEMMA HandlerKeeps ==
    ASSUME EvidenceInv, Calm, proofs' \in Seq(ProofRow), UNCHANGED <<rental, isPkp>>,
           NEW c \in Clients, NEW call, Step(c, call), Remembers(call)', Reserves(call)',
           call.op = "save" /\ call.at \in {"written", "checked", "attached"} =>
               \A d \in Clients : d # c /\ Saving(d) => rentalCall[d].id # call.id
    PROVE  Calm /\ EvidenceInv'
  <1>1. /\ rentalCall' = [d \in Clients |-> rentalCall'[d]] /\ rentalCall'[c] = call
        /\ \A d \in Clients : d # c => rentalCall'[d] = rentalCall[d]
    BY OneHandlerMoves
  <1>2. RentalShape'
    BY <1>1 DEF EvidenceInv, RentalShape, Stored
  <1>3. ASSUME NEW d \in Clients PROVE Remembers(rentalCall[d])' /\ Reserves(rentalCall[d])'
    <2>1. CASE d = c
      BY <1>1, <2>1
    <2>2. CASE d # c
      <3>1. PICK kept : kept = rentalCall[d]
        OBVIOUS
      <3>2. Remembers(kept) /\ Reserves(kept) /\ rentalCall'[d] = kept
        BY <1>1, <2>2, <3>1 DEF EvidenceInv
      <3>3. Remembers(kept)' /\ Reserves(kept)'
        BY <3>1, <3>2, CalmKeepsCalls
      <3> QED
        BY <3>2, <3>3
    <2> QED
      BY <2>1, <2>2
  <1>4. OneWriter'
    <2> SUFFICES ASSUME NEW d \in Clients, NEW e \in Clients, d # e, Saving(d)', Saving(e)'
                 PROVE  rentalCall'[d].id # rentalCall'[e].id
      BY DEF OneWriter
    <2>1. CASE d # c /\ e # c
      BY <1>1, <2>1 DEF EvidenceInv, OneWriter, Saving
    <2>2. CASE d = c
      BY <1>1, <2>2 DEF Saving
    <2>3. CASE e = c
      BY <1>1, <2>3 DEF Saving
    <2> QED
      BY <2>1, <2>2, <2>3
  <1>5. ProofBacked' /\ EvidenceInOrder'
    BY CalmKeepsOrder DEF Stored
  <1> QED
    BY <1>2, <1>3, <1>4, <1>5 DEF EvidenceInv

\* Nothing is remembered once a handler has answered.
LEMMA NothingRemembered ==
    NoCall.op = "none" /\ Remembers(NoCall)' /\ Reserves(NoCall)'
  BY DEF NoCall, Remembers, Reserves

\* A handler that answers.
LEMMA ReplyKeeps ==
    ASSUME EvidenceInv, Calm, proofs' \in Seq(ProofRow), UNCHANGED <<rental, isPkp>>,
           NEW c \in Clients, Reply(c)
    PROVE  Calm /\ EvidenceInv'
  <1>1. PICK call : call = NoCall
    OBVIOUS
  <1>2. Step(c, call) /\ call.op = "none"
    BY <1>1, NothingRemembered DEF Reply
  <1>3. Remembers(call)' /\ Reserves(call)'
    BY <1>1, NothingRemembered
  <1> QED
    BY <1>2, <1>3, HandlerKeeps

\* A step of no handler that is calm.
LEMMA OthersKeep ==
    ASSUME EvidenceInv, Calm, proofs' \in Seq(ProofRow), UNCHANGED rentalCall,
           rental' \in [Rentals -> RentalRow] /\ isPkp' \in BOOLEAN,
           \A r \in Rentals : ~Stored(r)' => ~rental'[r].paid,
           \A r \in Rentals : Stored(r) => Stored(r)' \/ ProofsOf(r)' = {}
    PROVE  Calm /\ EvidenceInv'
  <1>1. RentalShape'
    BY DEF EvidenceInv, RentalShape
  <1>2. ASSUME NEW d \in Clients PROVE Remembers(rentalCall[d])' /\ Reserves(rentalCall[d])'
    <2>1. PICK kept : kept = rentalCall[d]
      OBVIOUS
    <2>2. Remembers(kept) /\ Reserves(kept) /\ rentalCall'[d] = kept
      BY <2>1 DEF EvidenceInv
    <2>3. Remembers(kept)' /\ Reserves(kept)'
      BY <2>1, <2>2, CalmKeepsCalls
    <2> QED
      BY <2>2, <2>3
  <1>3. OneWriter'
    BY DEF EvidenceInv, OneWriter, Saving
  <1>4. ProofBacked' /\ EvidenceInOrder'
    BY CalmKeepsOrder
  <1> QED
    BY <1>1, <1>2, <1>3, <1>4 DEF EvidenceInv

-----------------------------------------------------------------------------
(* The actions, one lemma for each group of handlers *)

LEMMA SaveStepsKeep ==
    ASSUME EvidenceInv, NEW c \in Clients,
           BeginSave(c) \/ WriteRental(c) \/ CheckProofs(c) \/ AttachProofs(c)
    PROVE  Calm /\ EvidenceInv'
  <1>a. PICK call : call = rentalCall[c]
    OBVIOUS
  <1>0. call = rentalCall[c] /\ Remembers(call) /\ Reserves(call)
    BY <1>a DEF EvidenceInv
  <1>1. UNCHANGED <<rental, isPkp, proofs, proofObjects>>
    BY DEF BeginSave, WriteRental, CheckProofs, AttachProofs
  <1>2. Calm /\ proofs' \in Seq(ProofRow) /\ ProofIds' = ProofIds
    BY <1>1, NothingMoves
  <1>3. CASE BeginSave(c)
    <2>1. PICK r \in Rentals, paid \in BOOLEAN, wanted \in SUBSET ProofIds,
               kind \in {"create", "update", "status"}, taxed \in BOOLEAN :
                    Step(c, Save(kind, r, paid, taxed, wanted))
      <3>1. ResolvedRates \subseteq BOOLEAN /\ \A r \in Rentals : rental[r].taxed \in BOOLEAN
        BY DEF ResolvedRates, EvidenceInv, RentalShape, RentalRow
      <3> QED
        BY <1>3, <3>1 DEF BeginSave
    <2> DEFINE next == Save(kind, r, paid, taxed, wanted)
    <2>2. wanted \subseteq Nat
      BY <1>0, RowsOfProofs DEF EvidenceInv, RentalShape
    <2>3. /\ next \in SaveCall /\ next.at = "begun" /\ next.op = "save"
          /\ next.wanted = wanted /\ next.fresh = {}
      BY <2>1, <2>2 DEF Save, SaveCall
    <2>4. Step(c, next)
      BY <2>1
    <2> HIDE DEF next
    <2>5. Remembers(next)' /\ Reserves(next)'
      BY <1>2, <2>3 DEF Remembers, Reserves
    <2> QED
      BY <1>1, <1>2, <2>3, <2>4, <2>5, HandlerKeeps
  <1>4. CASE WriteRental(c)
    <2> DEFINE next == [call EXCEPT !.at = "written"]
    <2>1. /\ call.op = "save" /\ ~RentalLock(call.id) /\ call \in SaveCall
          /\ Step(c, next) \/ Reply(c)
      BY <1>0, <1>4 DEF WriteRental, At, Remembers
    <2>2. CASE Reply(c)
      BY <1>1, <1>2, <2>2, ReplyKeeps
    <2>3. CASE Step(c, next)
      <3>1. /\ next \in SaveCall /\ next.op = "save" /\ next.at = "written" /\ next.id = call.id
            /\ next.wanted = call.wanted /\ next.fresh = call.fresh
        BY <2>1 DEF SaveCall
      <3> HIDE DEF next
      <3>2. Remembers(next)' /\ Reserves(next)'
        BY <1>0, <1>2, <2>1, <3>1 DEF Remembers, Reserves
      <3>3. \A d \in Clients : d # c /\ Saving(d) => rentalCall[d].id # call.id
        BY <2>1 DEF RentalLock
      <3> QED
        BY <1>1, <1>2, <2>3, <3>1, <3>2, <3>3, HandlerKeeps
    <2> QED
      BY <2>1, <2>2, <2>3
  <1>5. CASE CheckProofs(c)
    <2>0. PICK fresh : fresh = {p \in call.wanted : proofs[p].owner = Draft}
      OBVIOUS
    <2> DEFINE next == [call EXCEPT !.at = "checked", !.wanted = {}, !.fresh = fresh]
    <2>1. /\ call.op = "save" /\ call \in SaveCall /\ Saving(c)
          /\ \/ Step(c, next) /\ \A p \in call.wanted : proofs[p].state = "uploaded"
             \/ Reply(c)
      BY <1>0, <1>5, <2>0 DEF CheckProofs, At, Remembers, Saving
    <2>2. CASE Reply(c)
      BY <1>1, <1>2, <2>2, ReplyKeeps
    <2>3. CASE Step(c, next) /\ \A p \in call.wanted : proofs[p].state = "uploaded"
      <3>1. /\ next \in SaveCall /\ next.op = "save" /\ next.at = "checked" /\ next.id = call.id
            /\ next.wanted = {} /\ next.fresh = fresh
        BY <2>0, <2>1 DEF SaveCall
      <3> HIDE DEF next
      <3>2. Remembers(next)' /\ Reserves(next)'
        BY <1>0, <1>1, <1>2, <2>0, <2>1, <2>3, <3>1 DEF Remembers, Reserves
      <3>3. \A d \in Clients : d # c /\ Saving(d) => rentalCall[d].id # call.id
        BY <1>0, <2>1 DEF EvidenceInv, OneWriter
      <3> QED
        BY <1>1, <1>2, <2>3, <3>1, <3>2, <3>3, HandlerKeeps
    <2> QED
      BY <2>1, <2>2, <2>3
  <1>6. CASE AttachProofs(c)
    <2>0. PICK here : here = {p \in call.fresh : Kept(p)}
      OBVIOUS
    <2> DEFINE next == [call EXCEPT !.at = "attached", !.fresh = here]
    <2>1. /\ call.op = "save" /\ call.at = "checked" /\ call \in SaveCall /\ Saving(c)
          /\ \/ Step(c, next) /\ Cardinality(ProofsOf(call.id) \cup here) <= ProofCap
             \/ Reply(c)
      BY <1>0, <1>6, <2>0 DEF AttachProofs, At, Remembers, Saving
    <2>2. CASE Reply(c)
      BY <1>1, <1>2, <2>2, ReplyKeeps
    <2>3. CASE Step(c, next) /\ Cardinality(ProofsOf(call.id) \cup here) <= ProofCap
      <3>1. /\ next \in SaveCall /\ next.op = "save" /\ next.at = "attached" /\ next.id = call.id
            /\ next.wanted = call.wanted /\ next.fresh = here
        BY <2>0, <2>1 DEF SaveCall
      <3> HIDE DEF next
      <3>2. Remembers(next)' /\ Reserves(next)'
        BY <1>0, <1>1, <1>2, <2>0, <2>1, <2>3, <3>1 DEF Remembers, Reserves, Kept, ProofsOf
      <3>3. \A d \in Clients : d # c /\ Saving(d) => rentalCall[d].id # call.id
        BY <1>0, <2>1 DEF EvidenceInv, OneWriter
      <3> QED
        BY <1>1, <1>2, <2>3, <3>1, <3>2, <3>3, HandlerKeeps
    <2> QED
      BY <2>1, <2>2, <2>3
  <1> QED
    BY <1>3, <1>4, <1>5, <1>6

\* What the commit of a save does: its fresh proofs are the rental's from now on.
LEMMA CommitAttaches ==
    ASSUME EvidenceInv, NEW c \in Clients, NEW call, call = rentalCall[c], CommitSave(c)
    PROVE  /\ proofs' \in Seq(ProofRow) /\ ProofIds' = ProofIds
           /\ \A p \in ProofIds : /\ proofs'[p].state = proofs[p].state
                                  /\ p \in call.fresh => proofs'[p].owner = Of(call.id)
                                  /\ p \notin call.fresh => proofs'[p].owner = proofs[p].owner
           /\ ProofsOf(call.id)' = ProofsOf(call.id) \cup call.fresh
           /\ \A r : r # call.id => ProofsOf(r)' = ProofsOf(r) \ call.fresh
           /\ call \in SaveCall /\ call.op = "save" /\ call.at = "attached"
           /\ call.fresh \subseteq ProofIds
           /\ \A p \in call.fresh : Kept(p) /\ proofs[p].state = "uploaded"
           /\ Cardinality(ProofsOf(call.id) \cup call.fresh) <= ProofCap
  <1>1. /\ Len(proofs) \in Nat /\ ProofIds = 1..Len(proofs)
        /\ \A p \in ProofIds : proofs[p] \in ProofRow
    BY RowsOfProofs DEF EvidenceInv, RentalShape
  <1>2. /\ call \in SaveCall /\ call.op = "save" /\ call.at = "attached"
        /\ call.fresh \subseteq ProofIds
        /\ \A p \in call.fresh : Kept(p) /\ proofs[p].state = "uploaded"
        /\ Cardinality(ProofsOf(call.id) \cup call.fresh) <= ProofCap
    BY DEF CommitSave, At, EvidenceInv, Remembers, Reserves
  <1> DEFINE owner == Of(call.id)
  <1>3. proofs' = [p \in ProofIds |-> IF p \in call.fresh
                     THEN [proofs[p] EXCEPT !.owner = owner, !.stale = FALSE] ELSE proofs[p]]
    BY DEF CommitSave
  <1>4. owner \in Owners
    BY <1>2 DEF Owners, SaveCall
  <1> HIDE DEF owner
  <1>5. \A row \in ProofRow : LET new == [row EXCEPT !.owner = owner, !.stale = FALSE] IN
            new \in ProofRow /\ new.owner = owner /\ new.state = row.state
    BY <1>4 DEF ProofRow
  <1>6. proofs' \in [1..Len(proofs) -> ProofRow]
    BY <1>1, <1>3, <1>5
  <1>7. proofs' \in Seq(ProofRow) /\ Len(proofs') = Len(proofs)
    BY <1>1, <1>6, RowsMakeProofs
  <1>8. ProofIds' = ProofIds
    BY <1>7 DEF ProofIds
  <1>9. \A p \in ProofIds : /\ proofs'[p].state = proofs[p].state
                            /\ p \in call.fresh => proofs'[p].owner = owner
                            /\ p \notin call.fresh => proofs'[p].owner = proofs[p].owner
    BY <1>1, <1>3, <1>5
  <1>10. ProofsOf(call.id)' = ProofsOf(call.id) \cup call.fresh
    BY <1>2, <1>8, <1>9 DEF ProofsOf, Kept, owner
  <1>11. \A r : r # call.id => Of(r) # owner
    BY OwnersDiffer DEF owner
  <1>12. \A r : r # call.id => ProofsOf(r)' = ProofsOf(r) \ call.fresh
    BY <1>2, <1>8, <1>9, <1>11 DEF ProofsOf, Kept
  <1> QED
    BY <1>2, <1>7, <1>8, <1>9, <1>10, <1>12 DEF owner

LEMMA CommitKeeps ==
    ASSUME EvidenceInv, NEW c \in Clients, CommitSave(c)
    PROVE  EvidenceInv'
  <1>a. PICK call : call = rentalCall[c]
    OBVIOUS
  <1>0. /\ proofs' \in Seq(ProofRow) /\ ProofIds' = ProofIds
        /\ \A p \in ProofIds : /\ proofs'[p].state = proofs[p].state
                               /\ p \in call.fresh => proofs'[p].owner = Of(call.id)
                               /\ p \notin call.fresh => proofs'[p].owner = proofs[p].owner
        /\ ProofsOf(call.id)' = ProofsOf(call.id) \cup call.fresh
        /\ \A r : r # call.id => ProofsOf(r)' = ProofsOf(r) \ call.fresh
        /\ call \in SaveCall /\ call.op = "save" /\ call.at = "attached"
        /\ call.fresh \subseteq ProofIds
        /\ \A p \in call.fresh : Kept(p) /\ proofs[p].state = "uploaded"
        /\ Cardinality(ProofsOf(call.id) \cup call.fresh) <= ProofCap
    BY <1>a, CommitAttaches
  <1>1. UNCHANGED <<isPkp, proofObjects>> /\ Step(c, NoCall)
    BY DEF CommitSave, Reply
  <1>2. PICK row \in RentalRow : row.at = "stored" /\ rental' = [rental EXCEPT ![call.id] = row]
    <2>1. PICK rate \in BOOLEAN : rental' = [rental EXCEPT ![call.id] =
                                      [at |-> "stored", paid |-> call.paid, taxed |-> rate]]
      BY <1>a, <1>0 DEF CommitSave, SaveCall, EvidenceInv, RentalShape, RentalRow
    <2> DEFINE new == [at |-> "stored", paid |-> call.paid, taxed |-> rate]
    <2>2. new \in RentalRow /\ new.at = "stored"
      BY <1>0 DEF RentalRow, SaveCall
    <2> QED
      BY <2>1, <2>2
  <1>3. /\ rental' \in [Rentals -> RentalRow]
        /\ \A r \in Rentals : /\ r = call.id => Stored(r)'
                              /\ r # call.id => rental'[r] = rental[r]
    BY <1>0, <1>2 DEF EvidenceInv, RentalShape, Stored, SaveCall
  <1>4. /\ rentalCall' = [d \in Clients |-> rentalCall'[d]] /\ rentalCall'[c] = NoCall
        /\ \A d \in Clients : d # c => rentalCall'[d] = rentalCall[d]
    BY <1>1, OneHandlerMoves
  <1>5. RentalShape'
    BY <1>0, <1>1, <1>3, <1>4 DEF EvidenceInv, RentalShape, Stored
  <1>6. OneWriter'
    BY <1>4, NothingRemembered DEF EvidenceInv, OneWriter, Saving
  <1>7. ASSUME NEW d \in Clients PROVE Remembers(rentalCall[d])' /\ Reserves(rentalCall[d])'
    <2>1. CASE d = c
      BY <1>4, <2>1, NothingRemembered
    <2>2. CASE d # c
      <3>1. PICK kept : kept = rentalCall[d]
        OBVIOUS
      <3>2. Remembers(kept) /\ Reserves(kept) /\ rentalCall'[d] = kept
        BY <1>4, <2>2, <3>1 DEF EvidenceInv
      <3>3. Remembers(kept)'
        BY <1>0, <1>1, <3>2 DEF Remembers, Kept
      <3>4. Reserves(kept)'
        <4> SUFFICES ASSUME kept.op = "save", kept.at = "attached"
                     PROVE  Reserves(kept)'
          BY DEF Reserves
        <4>1. kept.id # call.id
          BY <1>a, <1>0, <2>2, <3>1 DEF EvidenceInv, OneWriter, Saving
        <4>2. /\ kept.fresh \subseteq ProofIds /\ \A p \in kept.fresh : Kept(p)
              /\ Cardinality(ProofsOf(kept.id) \cup kept.fresh) <= ProofCap
          BY <3>2 DEF Remembers, Reserves
        <4>3. ProofsOf(kept.id)' \cup kept.fresh \subseteq ProofsOf(kept.id) \cup kept.fresh
          BY <1>0, <4>1
        <4>4. IsFiniteSet(ProofsOf(kept.id) \cup kept.fresh)
          <5>1. ProofsOf(kept.id) \cup kept.fresh \subseteq ProofIds /\ IsFiniteSet(ProofIds)
            BY <4>2, RowsOfProofs DEF ProofsOf, EvidenceInv, RentalShape
          <5> QED
            BY <5>1, FS_Subset
        <4>5. Cardinality(ProofsOf(kept.id)' \cup kept.fresh) <= ProofCap
          BY <4>2, <4>3, <4>4, FewerAreFewer, ProofCapAssumption
        <4>6. \A p \in kept.fresh : Kept(p)'
          BY <1>0, <4>2 DEF Kept
        <4> QED
          BY <4>5, <4>6 DEF Reserves
      <3> QED
        BY <3>2, <3>3, <3>4
    <2> QED
      BY <2>1, <2>2
  <1>8. ProofBacked'
    BY <1>0, <1>1 DEF EvidenceInv, ProofBacked
  <1>9. AttachedUploaded'
    <2> SUFFICES ASSUME NEW p \in ProofIds', Kept(p)', proofs'[p].owner # Draft
                 PROVE  proofs'[p].state = "uploaded" /\ Stored(proofs[p].owner.id)'
      BY DEF AttachedUploaded
    <2>1. p \in ProofIds /\ Kept(p)
      BY <1>0 DEF Kept
    <2>2. CASE p \in call.fresh
      <3>1. proofs'[p].owner.id = call.id /\ call.id \in Rentals
        BY <1>0, <2>1, <2>2, OwnersDiffer DEF SaveCall
      <3>2. Stored(call.id)'
        BY <1>3, <3>1
      <3> QED
        BY <1>0, <2>1, <2>2, <3>1, <3>2 DEF Stored
    <2>3. CASE p \notin call.fresh
      <3>1. proofs'[p].owner = proofs[p].owner
        BY <1>0, <2>1, <2>3
      <3>2. proofs[p].state = "uploaded" /\ Stored(proofs[p].owner.id)
        BY <2>1, <3>1 DEF EvidenceInv, EvidenceInOrder, AttachedUploaded
      <3>3. PICK r \in Rentals : proofs[p].owner = Of(r)
        BY <2>1, <3>1, RowsOfProofs DEF EvidenceInv, RentalShape, Owners
      <3>4. proofs[p].owner.id = r
        BY <3>3, OwnersDiffer
      <3>5. Stored(r)'
        BY <1>3, <3>2, <3>4 DEF Stored
      <3> QED
        BY <1>0, <2>1, <3>1, <3>2, <3>4, <3>5 DEF Stored
    <2> QED
      BY <2>2, <2>3
  <1>10. CapRespected'
    <2> SUFFICES ASSUME NEW r \in Rentals PROVE Cardinality(ProofsOf(r)') <= ProofCap
      BY DEF CapRespected
    <2>1. CASE r = call.id
      BY <1>0, <2>1
    <2>2. CASE r # call.id
      <3>1. ProofsOf(r)' \subseteq ProofsOf(r)
        BY <1>0, <2>2
      <3>2. ProofsOf(r) \subseteq ProofIds /\ IsFiniteSet(ProofIds)
        BY RowsOfProofs DEF ProofsOf, EvidenceInv, RentalShape
      <3>3. IsFiniteSet(ProofsOf(r))
        BY <3>2, FS_Subset
      <3>4. Cardinality(ProofsOf(r)) <= ProofCap
        BY DEF EvidenceInv, EvidenceInOrder, CapRespected
      <3> QED
        BY <3>1, <3>3, <3>4, FewerAreFewer, ProofCapAssumption
    <2> QED
      BY <2>1, <2>2
  <1> QED
    BY <1>5, <1>6, <1>7, <1>8, <1>9, <1>10 DEF EvidenceInv, EvidenceInOrder

LEMMA UploadStepsKeep ==
    ASSUME EvidenceInv, NEW c \in Clients,
           SweepDrafts(c) \/ PresignProof(c) \/ HeadProof(c) \/ ConfirmProof(c)
    PROVE  Calm /\ EvidenceInv'
  <1>a. PICK call : call = rentalCall[c]
    OBVIOUS
  <1>0. call = rentalCall[c] /\ Remembers(call)
    BY <1>a DEF EvidenceInv
  <1>1. UNCHANGED <<rental, isPkp>>
    BY DEF SweepDrafts, PresignProof, HeadProof, ConfirmProof
  <1>2. CASE SweepDrafts(c)
    <2>0. PICK stale : stale = {p \in ProofIds : Kept(p) /\ proofs[p].owner = Draft /\ proofs[p].stale}
      OBVIOUS
    <2> DEFINE next == [op |-> "presign", at |-> "forget", keys |-> stale]
    <2>1. /\ proofs' = DropProofs(stale) /\ UNCHANGED proofObjects /\ Step(c, next)
          /\ ~\E p \in stale : ProofLock(p)
      BY <1>2, <2>0 DEF SweepDrafts
    <2>2. /\ Calm /\ proofs' \in Seq(ProofRow) /\ ProofIds' = ProofIds
          /\ \A p \in ProofIds : Kept(p)' <=> Kept(p) /\ p \notin stale
      BY <2>1, DroppingProofs
    <2>3. next.op = "presign" /\ next.keys = stale
      OBVIOUS
    <2> HIDE DEF next
    <2>4. Remembers(next)' /\ Reserves(next)'
      BY <2>0, <2>2, <2>3 DEF Remembers, Reserves
    <2> QED
      BY <1>1, <2>1, <2>2, <2>3, <2>4, HandlerKeeps
  <1>3. CASE PresignProof(c)
    <2>1. /\ \A p \in call.keys : p \in ProofIds /\ ~Kept(p)
          /\ proofs' = Append(proofs, [state |-> "pending", owner |-> Draft, stale |-> FALSE])
          /\ proofObjects' \in {proofObjects, proofObjects \ call.keys}
          /\ Reply(c)
      BY <1>0, <1>3 DEF PresignProof, At, Remembers
    <2>2. Calm /\ proofs' \in Seq(ProofRow)
      BY <2>1, AddingDraft
    <2> QED
      BY <1>1, <2>1, <2>2, ReplyKeeps
  <1>4. CASE HeadProof(c)
    <2>1. PICK p \in ProofIds : /\ p \in proofObjects
                                /\ Step(c, [op |-> "confirm", at |-> "found", proof |-> p])
      BY <1>4 DEF HeadProof
    <2> DEFINE next == [op |-> "confirm", at |-> "found", proof |-> p]
    <2>2. next.op = "confirm" /\ next.proof = p /\ Step(c, next)
      BY <2>1
    <2>3. UNCHANGED <<proofs, proofObjects>>
      BY <1>4 DEF HeadProof
    <2>4. Calm /\ proofs' \in Seq(ProofRow) /\ ProofIds' = ProofIds
      BY <2>3, NothingMoves
    <2> HIDE DEF next
    <2>5. Remembers(next)' /\ Reserves(next)'
      BY <2>1, <2>2, <2>3, <2>4 DEF Remembers, Reserves
    <2> QED
      BY <1>1, <2>2, <2>4, <2>5, HandlerKeeps
  <1>5. CASE ConfirmProof(c)
    <2> DEFINE p == call.proof
    <2>1. /\ p \in ProofIds /\ (Kept(p) => p \in proofObjects) /\ Reply(c) /\ UNCHANGED proofObjects
          /\ ~Kept(p) => proofs' = proofs
      BY <1>0, <1>5 DEF ConfirmProof, At, Remembers
    <2>a. Kept(p) => proofs' = [proofs EXCEPT ![p].state = "uploaded"]
      BY <1>0, <1>5, Zenon DEF ConfirmProof
    <2> HIDE DEF p
    <2>2. CASE Kept(p)
      <3>1. PICK row \in ProofRow :
                /\ row.state = "uploaded" /\ row.owner = proofs[p].owner
                /\ [proofs EXCEPT ![p].state = "uploaded"]
                     = [q \in ProofIds |-> IF q = p THEN row ELSE proofs[q]]
        BY <2>1, OneProofRewritten, Zenon DEF EvidenceInv, RentalShape
      <3>2. proofs' = [q \in ProofIds |-> IF q = p THEN row ELSE proofs[q]]
        BY <2>2, <2>a, <3>1, Zenon
      <3>3. row.state = "uploaded" /\ row.owner = proofs[p].owner
        BY <3>1, Zenon
      <3>4. Calm /\ proofs' \in Seq(ProofRow)
        BY <2>1, <2>2, <3>2, <3>3, RewritingProof
      <3> QED
        BY <1>1, <2>1, <3>4, ReplyKeeps
    <2>3. CASE ~Kept(p)
      <3>1. Calm /\ proofs' \in Seq(ProofRow)
        BY <2>1, <2>3, NothingMoves
      <3> QED
        BY <1>1, <2>1, <3>1, ReplyKeeps
    <2> QED
      BY <2>2, <2>3
  <1> QED
    BY <1>2, <1>3, <1>4, <1>5

LEMMA RemovalStepsKeep ==
    ASSUME EvidenceInv, NEW c \in Clients,
           \/ ReadProof(c) \/ ReadStatus(c) \/ CountRemaining(c) \/ DeleteProof(c)
           \/ ForgetProof(c) \/ AbortRentalCall(c)
    PROVE  Calm /\ EvidenceInv'
  <1>a. PICK call : call = rentalCall[c]
    OBVIOUS
  <1>0. call = rentalCall[c] /\ Remembers(call)
    BY <1>a DEF EvidenceInv
  <1>1. UNCHANGED <<rental, isPkp>>
    BY DEF ReadProof, ReadStatus, CountRemaining, DeleteProof, ForgetProof, AbortRentalCall
  <1>2. ASSUME UNCHANGED <<proofs, proofObjects>>, NEW p \in ProofIds, NEW at, NEW owner,
               at # "forget", at # "delete" => \E r \in Rentals : owner = Of(r),
               Step(c, Removal(p, at, owner))
        PROVE  Calm /\ EvidenceInv'
    <2> DEFINE next == Removal(p, at, owner)
    <2>1. next.op = "remove" /\ next.at = at /\ next.proof = p /\ next.owner = owner
      BY DEF Removal
    <2>2. Calm /\ proofs' \in Seq(ProofRow) /\ ProofIds' = ProofIds
      BY <1>2, NothingMoves
    <2>3. Step(c, next)
      BY <1>2
    <2> HIDE DEF next
    <2>4. Remembers(next)' /\ Reserves(next)'
      BY <1>2, <2>1, <2>2 DEF Remembers, Reserves
    <2> QED
      BY <1>1, <2>1, <2>2, <2>3, <2>4, HandlerKeeps
  <1>b. ASSUME UNCHANGED <<proofs, proofObjects>>, NEW p \in ProofIds,
               Step(c, Removal(p, "delete", Draft))
        PROVE  Calm /\ EvidenceInv'
    <2>1. PICK at, owner : at = "delete" /\ at # "forget" /\ owner = Draft
      OBVIOUS
    <2>2. Step(c, Removal(p, at, owner))
      BY <1>b, <2>1
    <2> QED
      BY <1>2, <1>b, <2>1, <2>2
  <1>3. CASE ReadProof(c)
    <2>1. PICK p \in ProofIds : Step(c, IF proofs[p].owner = Draft THEN Removal(p, "delete", Draft)
                                        ELSE Removal(p, "status", proofs[p].owner))
      BY <1>3 DEF ReadProof
    <2>2. proofs[p].owner # Draft => \E r \in Rentals : proofs[p].owner = Of(r)
      BY RowsOfProofs DEF EvidenceInv, RentalShape, Owners
    <2>3. PICK owner : owner = proofs[p].owner
      OBVIOUS
    <2>4. UNCHANGED <<proofs, proofObjects>>
      BY <1>3 DEF ReadProof
    <2>5. CASE owner = Draft
      <3>1. Step(c, Removal(p, "delete", Draft))
        BY <2>1, <2>3, <2>5
      <3> QED
        BY <1>b, <2>4, <3>1
    <2>6. CASE owner # Draft
      <3>1. Step(c, Removal(p, "status", owner)) /\ \E r \in Rentals : owner = Of(r)
        BY <2>1, <2>2, <2>3, <2>6
      <3> QED
        BY <1>2, <2>4, <3>1
    <2> QED
      BY <2>5, <2>6
  <1>4. CASE ReadStatus(c)
    <2>1. /\ UNCHANGED <<proofs, proofObjects>> /\ call.proof \in ProofIds
          /\ \E r \in Rentals : call.owner = Of(r)
          /\ \/ Step(c, Removal(call.proof, "count", call.owner))
             \/ Step(c, Removal(call.proof, "delete", Draft))
      BY <1>0, <1>4 DEF ReadStatus, At, Remembers
    <2>2. CASE Step(c, Removal(call.proof, "count", call.owner))
      BY <1>2, <2>1, <2>2
    <2>3. CASE Step(c, Removal(call.proof, "delete", Draft))
      BY <1>b, <2>1, <2>3
    <2> QED
      BY <2>1, <2>2, <2>3
  <1>5. CASE CountRemaining(c)
    <2>1. /\ UNCHANGED <<proofs, proofObjects>> /\ call.proof \in ProofIds
          /\ Reply(c) \/ Step(c, Removal(call.proof, "delete", Draft))
      BY <1>0, <1>5 DEF CountRemaining, At, Remembers
    <2>2. CASE Reply(c)
      BY <1>1, <2>1, <2>2, NothingMoves, ReplyKeeps
    <2>3. CASE Step(c, Removal(call.proof, "delete", Draft))
      BY <1>b, <2>1, <2>3
    <2> QED
      BY <2>1, <2>2, <2>3
  <1>6. CASE DeleteProof(c)
    <2>0. PICK ids : ids = {call.proof}
      OBVIOUS
    <2>1. /\ proofs' = DropProofs(ids) /\ UNCHANGED proofObjects /\ ~\E p \in ids : ProofLock(p)
          /\ call.op = "remove" /\ call.proof \in ProofIds
          /\ Step(c, [call EXCEPT !.at = "forget"])
      BY <1>0, <1>6, <2>0 DEF DeleteProof, At, Remembers
    <2>2. /\ Calm /\ proofs' \in Seq(ProofRow) /\ ProofIds' = ProofIds
          /\ ~Kept(call.proof)'
      BY <2>0, <2>1, DroppingProofs
    <2> DEFINE next == [call EXCEPT !.at = "forget"]
    <2>3. next.op = "remove" /\ next.proof = call.proof /\ (next.at = "forget" \/ next = call)
      BY <2>1
    <2>4. call.at = "delete"
      BY <1>0, <1>6 DEF DeleteProof, At
    <2> HIDE DEF next
    <2>5. Step(c, next)
      BY <2>1 DEF next
    <2>6. Remembers(next)' /\ Reserves(next)'
      BY <2>1, <2>2, <2>3, <2>4 DEF Remembers, Reserves
    <2> QED
      BY <1>1, <2>2, <2>3, <2>5, <2>6, HandlerKeeps
  <1>7. CASE ForgetProof(c)
    <2>1. /\ Reply(c) /\ UNCHANGED proofs /\ proofObjects' = proofObjects \ {call.proof}
          /\ ~Kept(call.proof)
      BY <1>0, <1>7 DEF ForgetProof, At, Remembers
    <2>2. Calm /\ proofs' \in Seq(ProofRow)
      BY <2>1 DEF EvidenceInv, RentalShape, Calm, ProofBacked, ProofIds, Kept
    <2> QED
      BY <1>1, <2>1, <2>2, ReplyKeeps
  <1>8. CASE AbortRentalCall(c)
    BY <1>1, <1>8, NothingMoves, ReplyKeeps DEF AbortRentalCall
  <1> QED
    BY <1>3, <1>4, <1>5, <1>6, <1>7, <1>8

\* The steps of no handler.
LEMMA OtherStepsKeep ==
    ASSUME EvidenceInv,
           \/ SetPkp \/ UNCHANGED rentalVars
           \/ \E r \in Rentals : RemoveRental(r)
           \/ \E p \in ProofIds : UploadProof(p) \/ AgeDraft(p)
    PROVE  Calm /\ EvidenceInv'
  <1>1. CASE SetPkp \/ UNCHANGED rentalVars
    <2>1. UNCHANGED <<rental, proofs, proofObjects, rentalCall>> /\ isPkp' \in BOOLEAN
      BY <1>1 DEF SetPkp, rentalVars, EvidenceInv, RentalShape
    <2> QED
      BY <2>1, NothingMoves, OthersKeep DEF EvidenceInv, RentalShape, Stored
  <1>2. ASSUME NEW r \in Rentals, RemoveRental(r) PROVE Calm /\ EvidenceInv'
    <2>0. PICK ids : ids = ProofsOf(r)
      OBVIOUS
    <2>1. /\ proofs' = DropProofs(ids) /\ UNCHANGED <<isPkp, proofObjects, rentalCall>>
          /\ ~\E p \in ids : ProofLock(p)
      BY <1>2, <2>0 DEF RemoveRental
    <2>2. /\ Calm /\ proofs' \in Seq(ProofRow) /\ ProofIds' = ProofIds
          /\ \A p \in ProofIds : Kept(p)' <=> Kept(p) /\ p \notin ids
          /\ \A p \in ProofIds : Kept(p)' => proofs'[p].owner = proofs[p].owner
      BY <2>1, DroppingProofs
    <2>3. ProofsOf(r)' = {}
      BY <2>0, <2>2 DEF ProofsOf
    <2>4. PICK row \in RentalRow : ~row.paid /\ row.at = "deleted" /\ rental' = [rental EXCEPT ![r] = row]
      <3> DEFINE gone == [NoRow EXCEPT !.at = "deleted"]
      <3>1. gone \in RentalRow /\ ~gone.paid /\ gone.at = "deleted"
        BY DEF NoRow, RentalRow
      <3> QED
        BY <1>2, <3>1 DEF RemoveRental
    <2>5. /\ rental' \in [Rentals -> RentalRow]
          /\ rental'[r] = row /\ \A s \in Rentals : s # r => rental'[s] = rental[s]
      BY <2>4 DEF EvidenceInv, RentalShape
    <2>6. /\ \A s \in Rentals : ~Stored(s)' => ~rental'[s].paid
          /\ \A s \in Rentals : Stored(s) => Stored(s)' \/ ProofsOf(s)' = {}
      BY <2>3, <2>4, <2>5 DEF EvidenceInv, RentalShape, Stored
    <2> QED
      BY <2>1, <2>2, <2>5, <2>6, OthersKeep DEF EvidenceInv, RentalShape
  <1>3. ASSUME NEW p \in ProofIds, UploadProof(p) PROVE Calm /\ EvidenceInv'
    <2>1. Calm /\ proofs' \in Seq(ProofRow)
      BY <1>3 DEF UploadProof, EvidenceInv, RentalShape, Calm, ProofBacked, ProofIds, Kept
    <2> QED
      BY <1>3, <2>1, OthersKeep DEF UploadProof, EvidenceInv, RentalShape, Stored
  <1>4. ASSUME NEW p \in ProofIds, AgeDraft(p) PROVE Calm /\ EvidenceInv'
    <2>1. PICK row \in ProofRow :
              /\ row.state = proofs[p].state /\ row.owner = proofs[p].owner
              /\ [proofs EXCEPT ![p].stale = TRUE]
                   = [q \in ProofIds |-> IF q = p THEN row ELSE proofs[q]]
      BY OneProofRewritten, Zenon DEF EvidenceInv, RentalShape
    <2>2. /\ Kept(p) /\ UNCHANGED <<rental, isPkp, proofObjects, rentalCall>>
          /\ proofs' = [proofs EXCEPT ![p].stale = TRUE]
      BY <1>4, Zenon DEF AgeDraft
    <2>3. proofs' = [q \in ProofIds |-> IF q = p THEN row ELSE proofs[q]]
      BY <2>1, <2>2, Zenon
    <2>4. row.state = proofs[p].state /\ row.owner = proofs[p].owner
      BY <2>1, Zenon
    <2>5. Kept(p) /\ UNCHANGED <<rental, isPkp, proofObjects, rentalCall>>
      BY <2>2, Zenon
    <2>6. Calm /\ proofs' \in Seq(ProofRow)
      BY <2>3, <2>4, <2>5, RewritingProof
    <2> QED
      BY <2>5, <2>6, OthersKeep DEF EvidenceInv, RentalShape, Stored
  <1> QED
    BY <1>1, <1>2, <1>3, <1>4

-----------------------------------------------------------------------------
(* However many clients *)

LEMMA EvidenceStarts == RentalInit => EvidenceInv
  <1> SUFFICES ASSUME RentalInit PROVE EvidenceInv
    OBVIOUS
  <1>1. proofs \in Seq(ProofRow) /\ ProofIds = {}
    BY EmptySeq DEF RentalInit, ProofIds
  <1>2. \A r \in Rentals : NoRow \in RentalRow /\ rental[r] = NoRow /\ ~NoRow.paid
    BY DEF RentalInit, NoRow, RentalRow
  <1>3. RentalShape
    BY <1>1, <1>2 DEF RentalInit, RentalShape
  <1>4. \A c \in Clients : rentalCall[c] = NoCall /\ NoCall.op = "none"
    BY DEF RentalInit, NoCall
  <1>5. \A r : ProofsOf(r) = {}
    BY <1>1 DEF ProofsOf
  <1>6. ProofBacked /\ AttachedUploaded
    BY <1>1 DEF ProofBacked, AttachedUploaded
  <1>7. CapRespected
    BY <1>5, FS_EmptySet, ProofCapAssumption DEF CapRespected
  <1>8. \A c \in Clients : Remembers(rentalCall[c]) /\ Reserves(rentalCall[c])
    BY <1>4 DEF Remembers, Reserves
  <1>9. OneWriter
    BY <1>4 DEF OneWriter, Saving
  <1> QED
    BY <1>3, <1>6, <1>7, <1>8, <1>9 DEF EvidenceInv, EvidenceInOrder

LEMMA EvidenceGoesOn ==
    ASSUME EvidenceInv, [RentalNext]_rentalVars
    PROVE  EvidenceInv'
  <1>1. ASSUME NEW c \in Clients, RentalHandler(c) PROVE EvidenceInv'
    BY <1>1, SaveStepsKeep, CommitKeeps, UploadStepsKeep, RemovalStepsKeep DEF RentalHandler
  <1> QED
    BY <1>1, OtherStepsKeep DEF RentalNext

LEMMA EvidenceAlways == RentalSpec => []EvidenceInv
  BY EvidenceStarts, EvidenceGoesOn, PTL DEF RentalSpec

\* However uploads, sweeps and removals of any number of clients overtake each
\* other, a proof marked uploaded has its bytes (remove, sweepStaleDrafts: the row
\* goes before the object).
THEOREM ProofsAreBacked == RentalSpec => []ProofBacked
  <1>1. EvidenceInv => ProofBacked
    BY DEF EvidenceInv
  <1> QED
    BY <1>1, EvidenceAlways, PTL

\* However saves of any number of clients race, what is attached to a rental is a
\* finished upload, the rental is there, and the cap of attach() is never exceeded:
\* the write of the rental comes before the count and locks it.
THEOREM EvidenceStaysInOrder == RentalSpec => []EvidenceInOrder
  <1>1. EvidenceInv => EvidenceInOrder
    BY DEF EvidenceInv
  <1> QED
    BY <1>1, EvidenceAlways, PTL

-----------------------------------------------------------------------------
(* With one client at a time *)

\* The client waits for an answer, and the next request begins after it.  Rentals
\* are deleted and taxes changed at any moment.

\* What a save or a removal read before is still so: nobody else attaches, pays or
\* removes evidence meanwhile.
Relies(call) ==
    /\ call.op = "save" /\ call.kind = "create" => rental[call.id].at = "absent"
    /\ call.op = "save" /\ call.kind = "update" /\ rental[call.id].paid =>
        call.taxed = rental[call.id].taxed
    /\ call.op = "save" /\ call.at \in {"checked", "attached"} =>
        \A p \in call.fresh : Kept(p) => proofs[p].owner = Draft
    /\ call.op = "save" /\ call.at = "attached" /\ call.paid =>
        ProofsOf(call.id) \cup call.fresh # {}
    /\ call.op = "remove" /\ call.at \in {"status", "count"} /\ Kept(call.proof) =>
        proofs[call.proof].owner = call.owner
    /\ call.op = "remove" /\ call.at = "delete" =>
        \A r \in Rentals : rental[r].paid /\ call.proof \in ProofsOf(r)
                            => ProofsOf(r) \ {call.proof} # {}

SettledInv ==
    /\ EvidenceInv
    /\ \A c \in Clients : Relies(rentalCall[c])
    /\ PaidHasProof

\* What SettledStays says of a step.
Settling ==
    /\ \A r \in Rentals : rental[r].paid /\ rental'[r].paid => rental'[r].taxed = rental[r].taxed
    /\ \A p \in ProofIds : proofs[p].owner # Draft
            => proofs'[p].owner = proofs[p].owner \/ proofs'[p].state = "deleted"

\* Evidence of a rental is uploaded, so any will do.
LEMMA AnyProofWillDo ==
    ASSUME EvidenceInv
    PROVE  PaidHasProof <=> \A r \in Rentals : rental[r].paid => ProofsOf(r) # {}
  <1>1. ASSUME NEW r \in Rentals, NEW p \in ProofsOf(r) PROVE proofs[p].state = "uploaded"
    BY <1>1, OwnersDiffer DEF EvidenceInv, EvidenceInOrder, AttachedUploaded, ProofsOf
  <1> QED
    BY <1>1 DEF PaidHasProof

\* A calm step attaches no proof elsewhere.
LEMMA CalmSettles ==
    ASSUME EvidenceInv, Calm,
           \A r \in Rentals : rental'[r].paid => rental'[r].taxed = rental[r].taxed
    PROVE  Settling
  BY DEF Calm, Settling, Kept

\* A step of the only handler that leaves rentals alone, and a settled one its evidence.
LEMMA HandlerSettles ==
    ASSUME OneAtATime, SettledInv, EvidenceInv', Calm, UNCHANGED rental,
           NEW c \in Clients, NEW call, Step(c, call), Relies(call)',
           \A r \in Rentals : rental[r].paid => ProofsOf(r)' # {}
    PROVE  SettledInv' /\ Settling
  <1>1. rentalCall'[c] = call /\ \A d \in Clients : d = c
    BY OneHandlerMoves DEF SettledInv, OneAtATime
  <1>2. \A d \in Clients : Relies(rentalCall[d])'
    BY <1>1
  <1>3. PaidHasProof'
    <2>1. ASSUME NEW r \in Rentals, NEW p \in ProofsOf(r)' PROVE proofs'[p].state = "uploaded"
      BY <2>1, OwnersDiffer DEF EvidenceInv, EvidenceInOrder, AttachedUploaded, ProofsOf
    <2> QED
      BY <2>1 DEF PaidHasProof
  <1> QED
    BY <1>2, <1>3, CalmSettles DEF SettledInv

\* Proofs that do not move are attached where they were.
LEMMA SameProofs ==
    ASSUME UNCHANGED <<proofs, rental>>
    PROVE  /\ ProofIds' = ProofIds /\ \A p : Kept(p)' = Kept(p)
           /\ \A r : ProofsOf(r)' = ProofsOf(r) /\ Stored(r)' = Stored(r)
           /\ \A call : Relies(call)' = Relies(call)
  BY DEF ProofIds, Kept, ProofsOf, Stored, Relies

\* A handler that answers relies on nothing.
LEMMA ReplySettles ==
    ASSUME OneAtATime, SettledInv, EvidenceInv', Calm, UNCHANGED rental,
           NEW c \in Clients, Reply(c),
           \A r \in Rentals : ProofsOf(r) \subseteq ProofsOf(r)'
    PROVE  SettledInv' /\ Settling
  <1>1. PICK call : call = NoCall
    OBVIOUS
  <1>2. Step(c, call) /\ Relies(call)'
    BY <1>1, NothingRemembered DEF Reply, Relies
  <1>3. \A r \in Rentals : rental[r].paid => ProofsOf(r)' # {}
    BY AnyProofWillDo DEF SettledInv
  <1> QED
    BY <1>2, <1>3, HandlerSettles
LEMMA SaveStepsSettle ==
    ASSUME OneAtATime, SettledInv, EvidenceInv', Calm, NEW c \in Clients,
           BeginSave(c) \/ WriteRental(c) \/ CheckProofs(c) \/ AttachProofs(c)
    PROVE  SettledInv' /\ Settling
  <1>a. PICK call : call = rentalCall[c]
    OBVIOUS
  <1>0. call = rentalCall[c] /\ Remembers(call) /\ Relies(call)
    BY <1>a DEF SettledInv, EvidenceInv
  <1>1. UNCHANGED <<rental, proofs>>
    BY DEF BeginSave, WriteRental, CheckProofs, AttachProofs
  <1>2. /\ ProofIds' = ProofIds /\ \A p : Kept(p)' = Kept(p)
        /\ \A r : ProofsOf(r)' = ProofsOf(r)
    BY <1>1, SameProofs
  <1>3. \A r \in Rentals : rental[r].paid => ProofsOf(r)' # {}
    BY <1>2, AnyProofWillDo DEF SettledInv
  <1>4. CASE Reply(c)
    BY <1>1, <1>2, <1>4, ReplySettles
  <1>5. CASE BeginSave(c)
    <2>1. PICK r \in Rentals, paid \in BOOLEAN, wanted \in SUBSET ProofIds,
               kind \in {"create", "update", "status"}, taxed \in BOOLEAN :
                    /\ Step(c, Save(kind, r, paid, taxed, wanted))
                    /\ kind = "create" => rental[r].at = "absent"
                    /\ kind = "update" /\ rental[r].paid => taxed = rental[r].taxed
      <3>1. ResolvedRates \subseteq BOOLEAN /\ \A r \in Rentals : rental[r].taxed \in BOOLEAN
        BY DEF ResolvedRates, SettledInv, EvidenceInv, RentalShape, RentalRow
      <3> QED
        BY <1>5, <3>1 DEF BeginSave
    <2> DEFINE next == Save(kind, r, paid, taxed, wanted)
    <2>2. /\ next.op = "save" /\ next.at = "begun" /\ next.kind = kind /\ next.id = r
          /\ next.taxed = taxed
      BY DEF Save
    <2>3. Step(c, next)
      BY <2>1
    <2> HIDE DEF next
    <2>4. Relies(next)'
      BY <1>1, <2>1, <2>2 DEF Relies
    <2> QED
      BY <1>1, <1>3, <2>3, <2>4, HandlerSettles
  <1>6. CASE WriteRental(c) /\ ~Reply(c)
    <2> DEFINE next == [call EXCEPT !.at = "written"]
    <2>1. call.op = "save" /\ call \in SaveCall /\ Step(c, next)
      BY <1>0, <1>6 DEF WriteRental, At, Remembers
    <2>2. /\ next.op = "save" /\ next.at = "written" /\ next.kind = call.kind
          /\ next.id = call.id /\ next.taxed = call.taxed
      BY <2>1 DEF SaveCall
    <2> HIDE DEF next
    <2>3. Relies(next)'
      BY <1>0, <1>1, <2>1, <2>2 DEF Relies
    <2> QED
      BY <1>1, <1>3, <2>1, <2>3, HandlerSettles
  <1>7. CASE CheckProofs(c) /\ ~Reply(c)
    <2>0. PICK fresh : fresh = {p \in call.wanted : proofs[p].owner = Draft}
      OBVIOUS
    <2> DEFINE next == [call EXCEPT !.at = "checked", !.wanted = {}, !.fresh = fresh]
    <2>1. call.op = "save" /\ call \in SaveCall /\ Step(c, next)
      BY <1>0, <1>7, <2>0 DEF CheckProofs, At, Remembers
    <2>2. /\ next.op = "save" /\ next.at = "checked" /\ next.kind = call.kind
          /\ next.id = call.id /\ next.taxed = call.taxed /\ next.fresh = fresh
      BY <2>1 DEF SaveCall
    <2> HIDE DEF next
    <2>3. Relies(next)'
      BY <1>0, <1>1, <2>0, <2>1, <2>2 DEF Relies
    <2> QED
      BY <1>1, <1>3, <2>1, <2>3, HandlerSettles
  <1>8. CASE AttachProofs(c) /\ ~Reply(c)
    <2>0. PICK here : here = {p \in call.fresh : Kept(p)}
      OBVIOUS
    <2> DEFINE next == [call EXCEPT !.at = "attached", !.fresh = here]
    <2>1. /\ call.op = "save" /\ call.at = "checked" /\ call \in SaveCall /\ Step(c, next)
          /\ call.paid => ProofsOf(call.id) \cup here # {}
      BY <1>0, <1>8, <2>0 DEF AttachProofs, At, Remembers
    <2>2. /\ next.op = "save" /\ next.at = "attached" /\ next.kind = call.kind
          /\ next.id = call.id /\ next.paid = call.paid /\ next.taxed = call.taxed
          /\ next.fresh = here
      BY <2>1 DEF SaveCall
    <2> HIDE DEF next
    <2>3. Relies(next)'
      BY <1>0, <1>1, <1>2, <2>0, <2>1, <2>2 DEF Relies
    <2> QED
      BY <1>1, <1>3, <2>1, <2>3, HandlerSettles
  <1> QED
    BY <1>4, <1>5, <1>6, <1>7, <1>8

LEMMA CommitSettles ==
    ASSUME OneAtATime, SettledInv, EvidenceInv', NEW c \in Clients, CommitSave(c)
    PROVE  SettledInv' /\ Settling
  <1>a. PICK call : call = rentalCall[c]
    OBVIOUS
  <1>0. /\ ProofIds' = ProofIds
        /\ \A p \in ProofIds : /\ proofs'[p].state = proofs[p].state
                               /\ p \notin call.fresh => proofs'[p].owner = proofs[p].owner
        /\ ProofsOf(call.id)' = ProofsOf(call.id) \cup call.fresh
        /\ \A r : r # call.id => ProofsOf(r)' = ProofsOf(r) \ call.fresh
        /\ call \in SaveCall /\ call.op = "save" /\ call.at = "attached"
        /\ \A p \in call.fresh : Kept(p)
    BY <1>a, CommitAttaches DEF SettledInv
  <1>1. Relies(call)
    BY <1>a DEF SettledInv
  <1>2. \A p \in call.fresh : proofs[p].owner = Draft
    BY <1>0, <1>1 DEF Relies
  <1>3. PICK rate : /\ rental' = [rental EXCEPT ![call.id] =
                                    [at |-> "stored", paid |-> call.paid, taxed |-> rate]]
                    /\ rate = IF call.kind = "status" THEN rental[call.id].taxed ELSE call.taxed
    BY <1>a DEF CommitSave
  <1>4. /\ rental'[call.id].paid = call.paid /\ rental'[call.id].taxed = rate
        /\ \A r \in Rentals : r # call.id => rental'[r] = rental[r]
    BY <1>0, <1>3 DEF SettledInv, EvidenceInv, RentalShape, SaveCall
  <1>5. rentalCall'[c] = NoCall /\ \A d \in Clients : d = c
    BY OneHandlerMoves DEF SettledInv, OneAtATime, CommitSave, Reply
  <1>6. \A d \in Clients : Relies(rentalCall[d])'
    BY <1>5, NothingRemembered DEF Relies
  <1>7. \A r \in Rentals : rental'[r].paid => ProofsOf(r)' # {}
    <2>1. ASSUME NEW r \in Rentals, rental'[r].paid PROVE ProofsOf(r)' # {}
      <3>1. CASE r = call.id
        BY <1>0, <1>1, <1>4, <2>1, <3>1 DEF Relies
      <3>2. CASE r # call.id
        <4>1. ProofsOf(r) # {}
          BY <1>4, <2>1, <3>2, AnyProofWillDo DEF SettledInv
        <4>2. ProofsOf(r) \cap call.fresh = {}
          BY <1>2, OwnersDiffer DEF ProofsOf
        <4> QED
          BY <1>0, <3>2, <4>1, <4>2
      <3> QED
        BY <3>1, <3>2
    <2> QED
      BY <2>1
  <1>8. PaidHasProof'
    <2>1. ASSUME NEW r \in Rentals, NEW p \in ProofsOf(r)' PROVE proofs'[p].state = "uploaded"
      BY <2>1, OwnersDiffer DEF EvidenceInv, EvidenceInOrder, AttachedUploaded, ProofsOf
    <2> QED
      BY <1>7, <2>1 DEF PaidHasProof
  <1>9. \A r \in Rentals : rental[r].paid /\ rental'[r].paid => rental'[r].taxed = rental[r].taxed
    <2>1. ASSUME rental[call.id].paid PROVE rate = rental[call.id].taxed
      <3>1. rental[call.id].at # "absent"
        BY <1>0, <2>1 DEF SettledInv, EvidenceInv, RentalShape, Stored, SaveCall
      <3> QED
        BY <1>0, <1>1, <1>3, <2>1, <3>1 DEF Relies, SaveCall
    <2> QED
      BY <1>4, <2>1
  <1>10. Settling
    BY <1>0, <1>2, <1>9 DEF Settling
  <1> QED
    BY <1>6, <1>8, <1>10 DEF SettledInv
LEMMA UploadStepsSettle ==
    ASSUME OneAtATime, SettledInv, EvidenceInv', Calm, NEW c \in Clients,
           SweepDrafts(c) \/ PresignProof(c) \/ HeadProof(c) \/ ConfirmProof(c)
    PROVE  SettledInv' /\ Settling
  <1>a. PICK call : call = rentalCall[c]
    OBVIOUS
  <1>0. call = rentalCall[c] /\ Remembers(call) /\ Relies(call) /\ EvidenceInv
    BY <1>a DEF SettledInv, EvidenceInv
  <1>1. UNCHANGED rental
    BY DEF SweepDrafts, PresignProof, HeadProof, ConfirmProof
  <1>2. CASE SweepDrafts(c)
    <2>0. PICK stale : stale = {p \in ProofIds : Kept(p) /\ proofs[p].owner = Draft /\ proofs[p].stale}
      OBVIOUS
    <2> DEFINE next == [op |-> "presign", at |-> "forget", keys |-> stale]
    <2>1. /\ proofs' = DropProofs(stale) /\ UNCHANGED proofObjects /\ Step(c, next)
          /\ ~\E p \in stale : ProofLock(p)
      BY <1>2, <2>0 DEF SweepDrafts
    <2>2. /\ ProofIds' = ProofIds
          /\ \A p \in ProofIds : Kept(p)' <=> Kept(p) /\ p \notin stale
          /\ \A p \in ProofIds : Kept(p)' => proofs'[p].owner = proofs[p].owner
      BY <1>0, <2>1, DroppingProofs
    <2>3. \A r \in Rentals : ProofsOf(r) \subseteq ProofsOf(r)'
      BY <2>0, <2>2, OwnersDiffer DEF ProofsOf
    <2>4. next.op = "presign"
      OBVIOUS
    <2> HIDE DEF next
    <2>5. Relies(next)'
      BY <2>4 DEF Relies
    <2>6. \A r \in Rentals : rental[r].paid => ProofsOf(r)' # {}
      BY <2>3, AnyProofWillDo DEF SettledInv
    <2> QED
      BY <1>1, <2>1, <2>5, <2>6, HandlerSettles
  <1>3. CASE PresignProof(c)
    <2>1. /\ \A p \in call.keys : p \in ProofIds /\ ~Kept(p)
          /\ proofs' = Append(proofs, [state |-> "pending", owner |-> Draft, stale |-> FALSE])
          /\ Reply(c)
      BY <1>0, <1>3 DEF PresignProof, At, Remembers
    <2>2. \A p \in ProofIds : proofs'[p] = proofs[p] /\ p \in ProofIds'
      <3> DEFINE row == [state |-> "pending", owner |-> Draft, stale |-> FALSE]
      <3>1. proofs' = Append(proofs, row) /\ proofs \in Seq(ProofRow) /\ row \in ProofRow
        BY <1>0, <2>1 DEF EvidenceInv, RentalShape, ProofRow, FileStates, Owners
      <3> HIDE DEF row
      <3> QED
        BY <3>1 DEF ProofIds
    <2>3. \A r \in Rentals : ProofsOf(r) \subseteq ProofsOf(r)'
      BY <2>2 DEF ProofsOf, Kept
    <2> QED
      BY <1>1, <2>1, <2>3, ReplySettles
  <1>4. CASE HeadProof(c)
    <2>1. PICK p \in ProofIds : Step(c, [op |-> "confirm", at |-> "found", proof |-> p])
      BY <1>4 DEF HeadProof
    <2> DEFINE next == [op |-> "confirm", at |-> "found", proof |-> p]
    <2>2. next.op = "confirm" /\ Step(c, next) /\ UNCHANGED <<proofs, rental>>
      BY <1>4, <2>1 DEF HeadProof
    <2> HIDE DEF next
    <2>3. Relies(next)'
      BY <2>2 DEF Relies
    <2>4. \A r \in Rentals : rental[r].paid => ProofsOf(r)' # {}
      BY <2>2, SameProofs, AnyProofWillDo DEF SettledInv
    <2> QED
      BY <2>2, <2>3, <2>4, HandlerSettles
  <1>5. CASE ConfirmProof(c)
    <2> DEFINE p == call.proof
    <2>1. p \in ProofIds /\ Reply(c) /\ (~Kept(p) => proofs' = proofs)
      BY <1>0, <1>5 DEF ConfirmProof, At, Remembers
    <2>a. Kept(p) => proofs' = [proofs EXCEPT ![p].state = "uploaded"]
      BY <1>0, <1>5, Zenon DEF ConfirmProof
    <2> HIDE DEF p
    <2>2. CASE Kept(p)
      <3>1. PICK row \in ProofRow :
                /\ row.state = "uploaded" /\ row.owner = proofs[p].owner
                /\ [proofs EXCEPT ![p].state = "uploaded"]
                     = [q \in ProofIds |-> IF q = p THEN row ELSE proofs[q]]
        BY <1>0, <2>1, OneProofRewritten, Zenon DEF EvidenceInv, RentalShape
      <3>2. proofs' = [q \in ProofIds |-> IF q = p THEN row ELSE proofs[q]]
        BY <2>2, <2>a, <3>1, Zenon
      <3>3. row.state = "uploaded" /\ row.owner = proofs[p].owner
        BY <3>1, Zenon
      <3>4. \A q \in ProofIds : Kept(q) => proofs'[q].owner = proofs[q].owner /\ Kept(q)'
        BY <2>2, <3>2, <3>3 DEF Kept
      <3>5. ProofIds \subseteq ProofIds'
        BY DEF Calm
      <3>6. \A r \in Rentals : ProofsOf(r) \subseteq ProofsOf(r)'
        BY <3>4, <3>5 DEF ProofsOf
      <3> QED
        BY <1>1, <2>1, <3>6, ReplySettles
    <2>3. CASE ~Kept(p)
      <3>1. \A r \in Rentals : ProofsOf(r) \subseteq ProofsOf(r)'
        BY <1>1, <2>1, <2>3, SameProofs
      <3> QED
        BY <1>1, <2>1, <3>1, ReplySettles
    <2> QED
      BY <2>2, <2>3
  <1> QED
    BY <1>2, <1>3, <1>4, <1>5

LEMMA RemovalStepsSettle ==
    ASSUME OneAtATime, SettledInv, EvidenceInv', Calm, NEW c \in Clients,
           \/ ReadProof(c) \/ ReadStatus(c) \/ CountRemaining(c) \/ DeleteProof(c)
           \/ ForgetProof(c) \/ AbortRentalCall(c)
    PROVE  SettledInv' /\ Settling
  <1>a. PICK call : call = rentalCall[c]
    OBVIOUS
  <1>0. call = rentalCall[c] /\ Remembers(call) /\ Relies(call) /\ EvidenceInv
    BY <1>a DEF SettledInv, EvidenceInv
  <1>1. UNCHANGED rental
    BY DEF ReadProof, ReadStatus, CountRemaining, DeleteProof, ForgetProof, AbortRentalCall
  <1>2. ASSUME UNCHANGED proofs, Reply(c) PROVE SettledInv' /\ Settling
    BY <1>1, <1>2, SameProofs, ReplySettles
  <1>3. ASSUME UNCHANGED proofs, NEW p, NEW at, NEW owner, Step(c, Removal(p, at, owner)),
               at # "delete" => (Kept(p) => proofs[p].owner = owner),
               at = "delete" => \A r \in Rentals : rental[r].paid /\ p \in ProofsOf(r)
                                                    => ProofsOf(r) \ {p} # {}
        PROVE  SettledInv' /\ Settling
    <2> DEFINE next == Removal(p, at, owner)
    <2>1. next.op = "remove" /\ next.at = at /\ next.proof = p /\ next.owner = owner
      BY DEF Removal
    <2>2. Step(c, next)
      BY <1>3
    <2> HIDE DEF next
    <2>3. Relies(next)'
      BY <1>1, <1>3, <2>1, SameProofs DEF Relies
    <2>4. \A r \in Rentals : rental[r].paid => ProofsOf(r)' # {}
      BY <1>1, <1>3, SameProofs, AnyProofWillDo DEF SettledInv
    <2> QED
      BY <1>1, <2>2, <2>3, <2>4, HandlerSettles
  <1>b. ASSUME UNCHANGED proofs, NEW p, Step(c, Removal(p, "delete", Draft)),
               \A r \in Rentals : rental[r].paid /\ p \in ProofsOf(r) => ProofsOf(r) \ {p} # {}
        PROVE  SettledInv' /\ Settling
    <2>1. PICK at, owner : at = "delete" /\ owner = Draft
      OBVIOUS
    <2>2. Step(c, Removal(p, at, owner))
      BY <1>b, <2>1
    <2> QED
      BY <1>3, <1>b, <2>1, <2>2
  <1>4. CASE ReadProof(c)
    <2>1. PICK p \in ProofIds : Step(c, IF proofs[p].owner = Draft THEN Removal(p, "delete", Draft)
                                        ELSE Removal(p, "status", proofs[p].owner))
      BY <1>4 DEF ReadProof
    <2>2. PICK at, owner : at = "status" /\ owner = proofs[p].owner
      OBVIOUS
    <2>3. UNCHANGED proofs
      BY <1>4 DEF ReadProof
    <2>4. CASE owner = Draft
      <3>1. Step(c, Removal(p, "delete", Draft))
        BY <2>1, <2>2, <2>4
      <3>2. \A r \in Rentals : p \notin ProofsOf(r)
        BY <2>2, <2>4, OwnersDiffer DEF ProofsOf
      <3> QED
        BY <1>b, <2>3, <3>1, <3>2
    <2>5. CASE owner # Draft
      <3>1. Step(c, Removal(p, at, owner))
        BY <2>1, <2>2, <2>5
      <3> QED
        BY <1>3, <2>2, <2>3, <3>1
    <2> QED
      BY <2>4, <2>5
  <1>5. CASE ReadStatus(c)
    <2>1. /\ UNCHANGED proofs
          /\ call.op = "remove" /\ call.at = "status"
          /\ \/ Step(c, Removal(call.proof, "count", call.owner))
             \/ Step(c, Removal(call.proof, "delete", Draft)) /\ ~rental[call.owner.id].paid
      BY <1>0, <1>5 DEF ReadStatus, At
    <2>2. /\ \E r \in Rentals : call.owner = Of(r)
          /\ Kept(call.proof) => proofs[call.proof].owner = call.owner
      BY <1>0, <2>1 DEF Remembers, Relies
    <2>3. CASE Step(c, Removal(call.proof, "count", call.owner))
      <3>1. PICK at : at = "count"
        OBVIOUS
      <3>2. Step(c, Removal(call.proof, at, call.owner))
        BY <2>3, <3>1
      <3> QED
        BY <1>3, <2>1, <2>2, <3>1, <3>2
    <2>4. CASE Step(c, Removal(call.proof, "delete", Draft)) /\ ~rental[call.owner.id].paid
      <3>1. \A r \in Rentals : call.proof \in ProofsOf(r) => ~rental[r].paid
        BY <2>2, <2>4, OwnersDiffer DEF ProofsOf
      <3> QED
        BY <1>b, <2>1, <2>4, <3>1
    <2> QED
      BY <2>1, <2>3, <2>4
  <1>6. CASE CountRemaining(c)
    <2>1. /\ UNCHANGED proofs
          /\ call.op = "remove" /\ call.at = "count"
          /\ \/ Reply(c)
             \/ /\ Step(c, Removal(call.proof, "delete", Draft))
                /\ ProofsOf(call.owner.id) \ {call.proof} # {}
      BY <1>0, <1>6 DEF CountRemaining, At
    <2>2. /\ \E r \in Rentals : call.owner = Of(r)
          /\ Kept(call.proof) => proofs[call.proof].owner = call.owner
      BY <1>0, <2>1 DEF Remembers, Relies
    <2>3. CASE Step(c, Removal(call.proof, "delete", Draft)) /\ ProofsOf(call.owner.id) \ {call.proof} # {}
      <3>1. \A r \in Rentals : call.proof \in ProofsOf(r) => r = call.owner.id
        BY <2>2, OwnersDiffer DEF ProofsOf
      <3>2. \A r \in Rentals : call.proof \in ProofsOf(r) => ProofsOf(r) \ {call.proof} # {}
        BY <2>3, <3>1
      <3> QED
        BY <1>b, <2>1, <2>3, <3>2
    <2> QED
      BY <1>2, <2>1, <2>3
  <1>7. CASE DeleteProof(c)
    <2>0. PICK ids : ids = {call.proof}
      OBVIOUS
    <2>1. /\ proofs' = DropProofs(ids) /\ UNCHANGED proofObjects /\ ~\E p \in ids : ProofLock(p)
          /\ call.op = "remove" /\ call.at = "delete"
          /\ Step(c, [call EXCEPT !.at = "forget"])
      BY <1>0, <1>7, <2>0 DEF DeleteProof, At
    <2>2. /\ ProofIds' = ProofIds
          /\ \A p \in ProofIds : Kept(p)' <=> Kept(p) /\ p \notin ids
          /\ \A p \in ProofIds : Kept(p)' => proofs'[p].owner = proofs[p].owner
      BY <1>0, <2>1, DroppingProofs
    <2>3. \A r : ProofsOf(r)' = ProofsOf(r) \ {call.proof}
      BY <2>0, <2>2 DEF ProofsOf
    <2>4. ~Kept(call.proof)' /\ ~ (call.proof \in ProofIds /\ Kept(call.proof)')
      BY <1>0, <2>0, <2>1, <2>2 DEF Remembers
    <2> DEFINE next == [call EXCEPT !.at = "forget"]
    <2>5. next.op = "remove" /\ next.proof = call.proof /\ (next.at = "forget" \/ next = call)
      BY <2>1
    <2> HIDE DEF next
    <2>6. Step(c, next)
      BY <2>1 DEF next
    <2>7. \A r : call.proof \notin ProofsOf(r)'
      BY <2>3
    <2>8. Relies(next)'
      BY <2>1, <2>4, <2>5, <2>7 DEF Relies
    <2>9. \A r \in Rentals : rental[r].paid => ProofsOf(r)' # {}
      <3>1. ASSUME NEW r \in Rentals, rental[r].paid PROVE ProofsOf(r) \ {call.proof} # {}
        <4>1. ProofsOf(r) # {}
          BY <3>1, AnyProofWillDo DEF SettledInv
        <4>2. call.proof \in ProofsOf(r) => ProofsOf(r) \ {call.proof} # {}
          BY <1>0, <2>1, <3>1 DEF Relies
        <4> QED
          BY <4>1, <4>2
      <3> QED
        BY <2>3, <3>1
    <2> QED
      BY <1>1, <2>6, <2>8, <2>9, HandlerSettles
  <1>8. CASE ForgetProof(c) \/ AbortRentalCall(c)
    BY <1>2, <1>8 DEF ForgetProof, AbortRentalCall
  <1> QED
    BY <1>4, <1>5, <1>6, <1>7, <1>8

\* The steps of no handler: a rental that is deleted takes its evidence along.
LEMMA OtherStepsSettle ==
    ASSUME SettledInv, EvidenceInv', Calm,
           \/ SetPkp \/ UNCHANGED rentalVars
           \/ \E r \in Rentals : RemoveRental(r)
           \/ \E p \in ProofIds : UploadProof(p) \/ AgeDraft(p)
    PROVE  SettledInv' /\ Settling
  <1>0. EvidenceInv /\ UNCHANGED rentalCall /\ \A d \in Clients : Relies(rentalCall[d])
    BY DEF SettledInv, SetPkp, rentalVars, RemoveRental, UploadProof, AgeDraft
  <1>1. ASSUME \A r \in Rentals : \/ rental'[r] = rental[r] /\ ProofsOf(r)' = ProofsOf(r)
                                  \/ ~rental'[r].paid /\ Stored(r) /\ ~RentalLock(r)
        PROVE  SettledInv' /\ Settling
    <2>1. ASSUME NEW d \in Clients PROVE Relies(rentalCall[d])'
      <3>1. PICK call : call = rentalCall[d]
        OBVIOUS
      <3>2. Relies(call) /\ Remembers(call) /\ rentalCall'[d] = call
        BY <1>0, <3>1 DEF EvidenceInv
      <3>3. call.op = "save" => call.id \in Rentals /\ call.fresh \subseteq ProofIds
        BY <3>2 DEF Remembers, SaveCall
      <3>4. call.op = "remove" => call.proof \in ProofIds
        BY <3>2 DEF Remembers
      <3>5. call.op = "save" /\ call.at = "attached" => RentalLock(call.id)
        BY <3>1 DEF RentalLock, Saving
      <3>6. \A p \in ProofIds : Kept(p)' => Kept(p) /\ proofs'[p].owner = proofs[p].owner
        BY DEF Calm
      <3>7. /\ call.op = "save" /\ call.kind = "create" => rental'[call.id].at = "absent"
            /\ call.op = "save" /\ call.kind = "update" /\ rental'[call.id].paid =>
                call.taxed = rental'[call.id].taxed
        BY <1>1, <3>2, <3>3 DEF Relies, Stored
      <3>8. call.op = "save" /\ call.at \in {"checked", "attached"} =>
                \A p \in call.fresh : Kept(p)' => proofs'[p].owner = Draft
        BY <3>2, <3>3, <3>6 DEF Relies
      <3>9. call.op = "save" /\ call.at = "attached" /\ call.paid =>
                ProofsOf(call.id)' \cup call.fresh # {}
        BY <1>1, <3>2, <3>3, <3>5 DEF Relies
      <3>10. call.op = "remove" /\ call.at \in {"status", "count"} /\ Kept(call.proof)' =>
                proofs'[call.proof].owner = call.owner
        BY <3>2, <3>4, <3>6 DEF Relies
      <3>11. call.op = "remove" /\ call.at = "delete" =>
                \A r \in Rentals : rental'[r].paid /\ call.proof \in ProofsOf(r)'
                                    => ProofsOf(r)' \ {call.proof} # {}
        BY <1>1, <3>2 DEF Relies
      <3> QED
        BY <3>2, <3>7, <3>8, <3>9, <3>10, <3>11 DEF Relies
    <2>2. \A r \in Rentals : rental'[r].paid => ProofsOf(r)' # {}
      BY <1>0, <1>1, AnyProofWillDo DEF SettledInv
    <2>3. PaidHasProof'
      <3>1. ASSUME NEW r \in Rentals, NEW p \in ProofsOf(r)' PROVE proofs'[p].state = "uploaded"
        BY <3>1, OwnersDiffer DEF EvidenceInv, EvidenceInOrder, AttachedUploaded, ProofsOf
      <3> QED
        BY <2>2, <3>1 DEF PaidHasProof
    <2>4. Settling
      BY <1>0, <1>1, CalmSettles
    <2> QED
      BY <2>1, <2>3, <2>4 DEF SettledInv
  <1>2. CASE SetPkp \/ UNCHANGED rentalVars \/ \E p \in ProofIds : UploadProof(p)
    <2>1. UNCHANGED <<proofs, rental>>
      BY <1>2 DEF SetPkp, rentalVars, UploadProof
    <2> QED
      BY <1>1, <2>1, SameProofs
  <1>3. ASSUME NEW p \in ProofIds, AgeDraft(p) PROVE SettledInv' /\ Settling
    <2>1. PICK row \in ProofRow :
              /\ row.state = proofs[p].state /\ row.owner = proofs[p].owner
              /\ [proofs EXCEPT ![p].stale = TRUE]
                   = [q \in ProofIds |-> IF q = p THEN row ELSE proofs[q]]
      BY <1>0, OneProofRewritten, Zenon DEF EvidenceInv, RentalShape
    <2>2. rental' = rental /\ proofs' = [proofs EXCEPT ![p].stale = TRUE]
      BY <1>3, Zenon DEF AgeDraft
    <2>3. proofs' = [q \in ProofIds |-> IF q = p THEN row ELSE proofs[q]]
      BY <2>1, <2>2, Zenon
    <2>4. rental' = rental /\ row.state = proofs[p].state /\ row.owner = proofs[p].owner
      BY <2>1, <2>2, Zenon
    <2>5. \A q \in ProofIds : proofs'[q].state = proofs[q].state /\ proofs'[q].owner = proofs[q].owner
      BY <2>3, <2>4
    <2>6. proofs \in Seq(ProofRow) /\ proofs' \in [ProofIds -> ProofRow]
      BY <1>0, <2>3, RowsOfProofs DEF EvidenceInv, RentalShape
    <2>7. ProofIds' = ProofIds
      BY <2>6, RowsOfProofs, RowsMakeProofs DEF ProofIds
    <2>8. \A r \in Rentals : ProofsOf(r)' = ProofsOf(r)
      BY <2>5, <2>7 DEF ProofsOf, Kept
    <2> QED
      BY <1>1, <2>4, <2>8
  <1>4. ASSUME NEW s \in Rentals, RemoveRental(s) PROVE SettledInv' /\ Settling
    <2>0. PICK ids : ids = ProofsOf(s)
      OBVIOUS
    <2>1. /\ proofs' = DropProofs(ids) /\ UNCHANGED proofObjects
          /\ ~\E p \in ids : ProofLock(p)
          /\ Stored(s) /\ ~RentalLock(s)
      BY <1>4, <2>0 DEF RemoveRental
    <2>2. /\ ProofIds' = ProofIds
          /\ \A p \in ProofIds : Kept(p)' <=> Kept(p) /\ p \notin ids
          /\ \A p \in ProofIds : Kept(p)' => proofs'[p].owner = proofs[p].owner
      BY <1>0, <2>1, DroppingProofs
    <2>3. \A r \in Rentals : r # s => ProofsOf(r)' = ProofsOf(r)
      BY <2>0, <2>2, OwnersDiffer DEF ProofsOf
    <2>4. /\ ~rental'[s].paid
          /\ \A r \in Rentals : r # s => rental'[r] = rental[r]
      BY <1>0, <1>4 DEF RemoveRental, NoRow, EvidenceInv, RentalShape
    <2> QED
      BY <1>1, <2>1, <2>3, <2>4
  <1> QED
    BY <1>2, <1>3, <1>4

LEMMA SettledGoesOn ==
    ASSUME OneAtATime, SettledInv, [RentalNext]_rentalVars
    PROVE  SettledInv' /\ Settling
  <1>0. EvidenceInv /\ EvidenceInv'
    BY EvidenceGoesOn DEF SettledInv
  <1>1. ASSUME NEW c \in Clients, RentalHandler(c) PROVE SettledInv' /\ Settling
    <2>1. CASE CommitSave(c)
      BY <1>0, <2>1, CommitSettles
    <2>2. CASE BeginSave(c) \/ WriteRental(c) \/ CheckProofs(c) \/ AttachProofs(c)
      BY <1>0, <2>2, SaveStepsKeep, SaveStepsSettle
    <2>3. CASE SweepDrafts(c) \/ PresignProof(c) \/ HeadProof(c) \/ ConfirmProof(c)
      BY <1>0, <2>3, UploadStepsKeep, UploadStepsSettle
    <2>4. CASE \/ ReadProof(c) \/ ReadStatus(c) \/ CountRemaining(c) \/ DeleteProof(c)
               \/ ForgetProof(c) \/ AbortRentalCall(c)
      BY <1>0, <2>4, RemovalStepsKeep, RemovalStepsSettle
    <2> QED
      BY <1>1, <2>1, <2>2, <2>3, <2>4 DEF RentalHandler
  <1>2. CASE \/ SetPkp \/ UNCHANGED rentalVars
             \/ \E r \in Rentals : RemoveRental(r)
             \/ \E p \in ProofIds : UploadProof(p) \/ AgeDraft(p)
    BY <1>0, <1>2, OtherStepsKeep, OtherStepsSettle
  <1> QED
    BY <1>1, <1>2 DEF RentalNext

LEMMA SettledStarts == RentalInit => SettledInv
  <1> SUFFICES ASSUME RentalInit PROVE SettledInv
    OBVIOUS
  <1>1. \A c \in Clients : rentalCall[c] = NoCall /\ NoCall.op = "none"
    BY DEF RentalInit, NoCall
  <1>2. \A r \in Rentals : ~rental[r].paid
    BY DEF RentalInit, NoRow
  <1> QED
    BY <1>1, <1>2, EvidenceStarts DEF SettledInv, Relies, PaidHasProof

\* With requests one at a time, a rental marked paid carries an uploaded proof
\* whatever is saved, removed, swept or aborted in between.  (With two at once it
\* may not: RentalPaid.cfg shows how.)
THEOREM PaidRentalsHaveProof ==
    ASSUME OneAtATime
    PROVE  RentalSpec => []PaidHasProof
  <1>1. SettledInv /\ [RentalNext]_rentalVars => SettledInv'
    BY SettledGoesOn
  <1>2. SettledInv => PaidHasProof
    BY DEF SettledInv
  <1> QED
    BY <1>1, <1>2, SettledStarts, PTL DEF RentalSpec

\* With requests one at a time, a paid rental keeps the rate it was billed at and
\* evidence never moves from one rental to another.
THEOREM SettledRentalsStay ==
    ASSUME OneAtATime
    PROVE  RentalSpec => SettledStays
  <1>1. SettledInv /\ [RentalNext]_rentalVars => SettledInv' /\ [Settling]_rentalVars
    BY SettledGoesOn
  <1>2. RentalSpec => [][Settling]_rentalVars
    BY <1>1, SettledStarts, PTL DEF RentalSpec
  <1> QED
    BY <1>2 DEF SettledStays, Settling
=============================================================================
