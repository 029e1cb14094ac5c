---------------------------- MODULE RentalProofs ----------------------------
(***************************************************************************)
(* The rentals of one partner and their payment evidence.  A proof is      *)
(* uploaded as a draft, before its rental is written, and attached by the  *)
(* transaction that writes the rental; a rental marked paid must carry at  *)
(* least one.  The transactions are READ COMMITTED: a statement sees what  *)
(* was committed before it, and what it writes is locked till the end.     *)
(***************************************************************************)
EXTENDS HttpClients

CONSTANTS
    Rentals,            \* the ids of rentals
    ProofCap,           \* RENTAL_MAX_PROOFS
    MaxProofs           \* how many proofs are presigned at most

ASSUME ProofCapAssumption == ProofCap \in Nat

VARIABLES
    rental,             \* id |-> the row
    isPkp,              \* whether the partner charges VAT
    proofs,             \* the proof rows, in the order of their ids
    proofObjects,       \* ids of the proofs whose object is in the storage
    rentalCall          \* client |-> the handler it is in

rentalVars == <<rental, isPkp, proofs, proofObjects, rentalCall>>

-----------------------------------------------------------------------------
(* Data *)

Draft    == [of |-> "draft"]
Of(r)    == [of |-> "rental", id |-> r]
NoRow    == [at |-> "absent", paid |-> FALSE, taxed |-> FALSE]
ProofIds == 1..Len(proofs)

Kept(p)     == proofs[p].state # "deleted"
Stored(r)   == rental[r].at = "stored"
ProofsOf(r) == {p \in ProofIds : Kept(p) /\ proofs[p].owner = Of(r)}

GoneProof == [state |-> "deleted", owner |-> Draft, stale |-> FALSE]
DropProofs(ids) == [p \in ProofIds |-> IF p \in ids THEN GoneProof ELSE proofs[p]]

At(c, op, at) == rentalCall[c].op = op /\ rentalCall[c].at = at
Step(c, call) == rentalCall' = Now(rentalCall, c, call)
Reply(c)      == Step(c, NoCall)

\* What a transaction has written is locked until it ends.
Saving(c)      == rentalCall[c].op = "save" /\ rentalCall[c].at \in {"written", "checked", "attached"}
RentalLock(r)  == \E c \in Clients : Saving(c) /\ rentalCall[c].id = r
ProofLock(p)   == \E c \in Clients : At(c, "save", "attached") /\ p \in rentalCall[c].fresh

-----------------------------------------------------------------------------
(* create(), update() and updatePaymentStatus() *)

\* resolvePpnRateBps: taxed if the partner is and the request does not opt out.
ResolvedRates == {FALSE, isPkp}

Save(kind, r, paid, taxed, wanted) ==
    [op |-> "save", kind |-> kind, at |-> "begun", id |-> r, paid |-> paid,
     taxed |-> taxed, wanted |-> wanted, fresh |-> {}]

\* update() reads the row before its transaction: a paid one keeps its rate
\* (assertPpnUnchanged), an unpaid one gets today's.  create() may also have
\* read clashing bookings, which allowOverlap waves through.
BeginSave(c) ==
    /\ rentalCall[c] = NoCall
    /\ \E r \in Rentals, paid \in BOOLEAN, wanted \in SUBSET ProofIds :
        \/ /\ rental[r].at = "absent"
           /\ ~\E d \in Clients : rentalCall[d].op = "save" /\ rentalCall[d].id = r
           /\ \E t \in ResolvedRates : Step(c, Save("create", r, paid, t, wanted))
        \/ /\ Stored(r)
           /\ \E t \in IF rental[r].paid THEN {rental[r].taxed} ELSE ResolvedRates :
                Step(c, Save("update", r, paid, t, wanted))
        \/ /\ Stored(r)
           /\ Step(c, Save("status", r, paid, FALSE, wanted))
    /\ UNCHANGED <<rental, isPkp, proofs, proofObjects>>

\* INSERT, or UPDATE of the row, which waits for its lock; 404 without a row.
WriteRental(c) ==
    LET call == rentalCall[c] IN
    /\ At(c, "save", "begun")
    /\ ~RentalLock(call.id)
    /\ IF call.kind = "create" \/ Stored(call.id)
       THEN Step(c, [call EXCEPT !.at = "written"]) ELSE Reply(c)
    /\ UNCHANGED <<rental, isPkp, proofs, proofObjects>>

\* Mutant: a pending proof will do.
CheckPendingToo(c) ==
    LET call == rentalCall[c] IN
    /\ At(c, "save", "written")
    /\ IF \A p \in call.wanted : Kept(p) /\ proofs[p].owner \in {Draft, Of(call.id)}
       THEN Step(c, [call EXCEPT !.at = "checked", !.wanted = {},
                                 !.fresh = {p \in call.wanted : proofs[p].owner = Draft}])
       ELSE Reply(c)
    /\ UNCHANGED <<rental, isPkp, proofs, proofObjects>>

\* attach(): every wanted proof exists, is uploaded, is a draft or attached here.
CheckProofs(c) ==
    LET call == rentalCall[c] IN
    /\ At(c, "save", "written")
    /\ IF \A p \in call.wanted :
            proofs[p].state = "uploaded" /\ proofs[p].owner \in {Draft, Of(call.id)}
       THEN Step(c, [call EXCEPT !.at = "checked", !.wanted = {},
                                 !.fresh = {p \in call.wanted : proofs[p].owner = Draft}])
       ELSE Reply(c)
    /\ UNCHANGED <<rental, isPkp, proofs, proofObjects>>

\* UPDATE of the fresh proofs by id, waiting for their locks and skipping rows
\* that are gone, then the count over what is committed and its own: at most
\* ProofCap, and at least one if the rental is to be paid.
AttachProofs(c) ==
    LET call == rentalCall[c]
        here == {p \in call.fresh : Kept(p)}
        attached == ProofsOf(call.id) \cup here
    IN  /\ At(c, "save", "checked")
        /\ ~\E p \in call.fresh : ProofLock(p)
        /\ IF Cardinality(attached) <= ProofCap /\ (call.paid => attached # {})
           THEN Step(c, [call EXCEPT !.at = "attached", !.fresh = here]) ELSE Reply(c)
        /\ UNCHANGED <<rental, isPkp, proofs, proofObjects>>

\* Mutant: an update writes the rate of the day.
CommitTodaysRate(c) ==
    LET call == rentalCall[c] IN
    /\ At(c, "save", "attached")
    /\ rental' = [rental EXCEPT ![call.id] = [at |-> "stored", paid |-> call.paid, taxed |-> isPkp]]
    /\ proofs' = [p \in ProofIds |-> IF p \in call.fresh
                    THEN [proofs[p] EXCEPT !.owner = Of(call.id), !.stale = FALSE] ELSE proofs[p]]
    /\ Reply(c)
    /\ UNCHANGED <<isPkp, proofObjects>>

\* updatePaymentStatus does not set the rate: it stays what the row has.
CommitSave(c) ==
    LET call == rentalCall[c]
        rate == IF call.kind = "status" THEN rental[call.id].taxed ELSE call.taxed
    IN  /\ At(c, "save", "attached")
        /\ rental' = [rental EXCEPT ![call.id] = [at |-> "stored", paid |-> call.paid, taxed |-> rate]]
        /\ proofs' = [p \in ProofIds |-> IF p \in call.fresh
                        THEN [proofs[p] EXCEPT !.owner = Of(call.id), !.stale = FALSE] ELSE proofs[p]]
        /\ Reply(c)
        /\ UNCHANGED <<isPkp, proofObjects>>

\* remove() of a rental: the foreign key cascades to its proofs, not their objects.
RemoveRental(r) ==
    /\ Stored(r) /\ ~RentalLock(r)
    /\ ~\E p \in ProofsOf(r) : ProofLock(p)
    /\ rental' = [rental EXCEPT ![r] = [NoRow EXCEPT !.at = "deleted"]]
    /\ proofs' = DropProofs(ProofsOf(r))
    /\ UNCHANGED <<isPkp, proofObjects, rentalCall>>

\* RentalTaxSettingsService.update: rows already written keep their rate.
SetPkp ==
    /\ isPkp' = ~isPkp
    /\ UNCHANGED <<rental, proofs, proofObjects, rentalCall>>

-----------------------------------------------------------------------------
(* presign(), the upload and confirm() *)

\* sweepStaleDrafts: one DELETE of the old drafts.  A draft a transaction is
\* attaching is waited for and left alone.
SweepDrafts(c) ==
    LET stale == {p \in ProofIds : Kept(p) /\ proofs[p].owner = Draft /\ proofs[p].stale} IN
    /\ rentalCall[c] = NoCall
    /\ ~\E p \in stale : ProofLock(p)
    /\ proofs' = DropProofs(stale)
    /\ Step(c, [op |-> "presign", at |-> "forget", keys |-> stale])
    /\ UNCHANGED <<rental, isPkp, proofObjects>>

\* The objects of the drafts go as well; the upload goes on if that fails.
PresignProof(c) ==
    /\ At(c, "presign", "forget")
    /\ Len(proofs) < MaxProofs
    /\ proofs' = Append(proofs, [state |-> "pending", owner |-> Draft, stale |-> FALSE])
    /\ proofObjects' \in {proofObjects, proofObjects \ rentalCall[c].keys}
    /\ Reply(c)
    /\ UNCHANGED <<rental, isPkp>>

UploadProof(p) ==
    /\ proofObjects' = proofObjects \cup {p}
    /\ UNCHANGED <<rental, isPkp, proofs, rentalCall>>

\* A day goes by for a draft (RENTAL_PROOF_DRAFT_TTL_MS).
AgeDraft(p) ==
    /\ Kept(p) /\ proofs[p].owner = Draft
    /\ proofs' = [proofs EXCEPT ![p].stale = TRUE]
    /\ UNCHANGED <<rental, isPkp, proofObjects, rentalCall>>

\* Mutant: the row is marked before the object is looked for.
ConfirmUnseen(c) ==
    /\ rentalCall[c] = NoCall
    /\ \E p \in ProofIds :
        /\ proofs[p].state = "pending"
        /\ Step(c, [op |-> "confirm", at |-> "found", proof |-> p])
    /\ UNCHANGED <<rental, isPkp, proofs, proofObjects>>

HeadProof(c) ==
    /\ rentalCall[c] = NoCall
    /\ \E p \in ProofIds :
        /\ proofs[p].state = "pending" /\ p \in proofObjects
        /\ Step(c, [op |-> "confirm", at |-> "found", proof |-> p])
    /\ UNCHANGED <<rental, isPkp, proofs, proofObjects>>

ConfirmProof(c) ==
    LET p == rentalCall[c].proof IN
    /\ At(c, "confirm", "found")
    /\ proofs' = IF Kept(p) THEN [proofs EXCEPT ![p].state = "uploaded"] ELSE proofs
    /\ Reply(c)
    /\ UNCHANGED <<rental, isPkp, proofObjects>>

-----------------------------------------------------------------------------
(* remove() of a proof: three reads, a DELETE by id, the object *)

\* A removal in progress; the owner matters until the checks are done.
Removal(p, at, owner) == [op |-> "remove", at |-> at, proof |-> p, owner |-> owner]

ReadProof(c) ==
    /\ rentalCall[c] = NoCall
    /\ \E p \in ProofIds :
        /\ Kept(p)
        /\ Step(c, IF proofs[p].owner = Draft THEN Removal(p, "delete", Draft)
                   ELSE Removal(p, "status", proofs[p].owner))
    /\ UNCHANGED <<rental, isPkp, proofs, proofObjects>>

ReadStatus(c) ==
    LET call == rentalCall[c] IN
    /\ At(c, "remove", "status")
    /\ Step(c, IF rental[call.owner.id].paid THEN Removal(call.proof, "count", call.owner)
               ELSE Removal(call.proof, "delete", Draft))
    /\ UNCHANGED <<rental, isPkp, proofs, proofObjects>>

\* Mutant: the proof to be removed counts as remaining.
CountItself(c) ==
    LET call == rentalCall[c] IN
    /\ At(c, "remove", "count")
    /\ IF ProofsOf(call.owner.id) = {}
       THEN Reply(c) ELSE Step(c, Removal(call.proof, "delete", Draft))
    /\ UNCHANGED <<rental, isPkp, proofs, proofObjects>>

\* The last evidence of a paid rental is refused.
CountRemaining(c) ==
    LET call == rentalCall[c] IN
    /\ At(c, "remove", "count")
    /\ IF ProofsOf(call.owner.id) \ {call.proof} = {}
       THEN Reply(c) ELSE Step(c, Removal(call.proof, "delete", Draft))
    /\ UNCHANGED <<rental, isPkp, proofs, proofObjects>>

DeleteProof(c) ==
    LET call == rentalCall[c] IN
    /\ At(c, "remove", "delete")
    /\ ~ProofLock(call.proof)
    /\ proofs' = DropProofs({call.proof})
    /\ Step(c, [call EXCEPT !.at = "forget"])
    /\ UNCHANGED <<rental, isPkp, proofObjects>>

ForgetProof(c) ==
    /\ At(c, "remove", "forget")
    /\ proofObjects' = proofObjects \ {rentalCall[c].proof}
    /\ Reply(c)
    /\ UNCHANGED <<rental, isPkp, proofs>>

\* A request fails or its instance dies between two steps: what was committed
\* stays, a transaction is rolled back.
AbortRentalCall(c) ==
    /\ rentalCall[c] # NoCall
    /\ Reply(c)
    /\ UNCHANGED <<rental, isPkp, proofs, proofObjects>>

-----------------------------------------------------------------------------

RentalInit ==
    /\ rental = [r \in Rentals |-> NoRow]
    /\ isPkp = FALSE
    /\ proofs = <<>>
    /\ proofObjects = {}
    /\ rentalCall = [c \in Clients |-> NoCall]

RentalHandler(c) ==
    \/ BeginSave(c) \/ WriteRental(c) \/ CheckProofs(c) \/ AttachProofs(c) \/ CommitSave(c)
    \/ SweepDrafts(c) \/ PresignProof(c) \/ HeadProof(c) \/ ConfirmProof(c)
    \/ ReadProof(c) \/ ReadStatus(c) \/ CountRemaining(c) \/ DeleteProof(c) \/ ForgetProof(c)
    \/ AbortRentalCall(c)

RentalNext ==
    \/ \E c \in Clients : RentalHandler(c)
    \/ \E r \in Rentals : RemoveRental(r)
    \/ \E p \in ProofIds : UploadProof(p) \/ AgeDraft(p)
    \/ SetPkp

RentalSpec == RentalInit /\ [][RentalNext]_rentalVars

-----------------------------------------------------------------------------
(* Properties *)

\* A proof marked uploaded has its bytes, however requests overtake each other:
\* the row goes before the object (remove, sweepStaleDrafts).
ProofBacked ==
    \A p \in ProofIds : proofs[p].state = "uploaded" => p \in proofObjects

\* Evidence attached to a rental is a finished upload, and the rental is there
\* (attach, the foreign key).
AttachedUploaded ==
    \A p \in ProofIds : Kept(p) /\ proofs[p].owner # Draft
        => proofs[p].state = "uploaded" /\ Stored(proofs[p].owner.id)

\* RENTAL_MAX_PROOFS, also when two saves of one rental race: the second one
\* counts after the first has committed.
CapRespected ==
    \A r \in Rentals : Cardinality(ProofsOf(r)) <= ProofCap

\* What a rental carries is real evidence, and no more of it than the cap, however
\* saves, removals and sweeps overtake each other.
EvidenceInOrder == AttachedUploaded /\ CapRespected

\* "A rental may only be marked 'Sudah Dibayar' while it carries at least one
\* uploaded proof" (rental_payment_proofs in db/schema/rentals.ts).
PaidHasProof ==
    \A r \in Rentals : rental[r].paid => \E p \in ProofsOf(r) : proofs[p].state = "uploaded"

\* What has been billed and proved stays: a settled rental keeps the rate it was
\* billed at (update()), and evidence attached to one rental is never found at
\* another later (attach()).
SettledStays ==
    [][/\ \A r \in Rentals : rental[r].paid /\ rental'[r].paid
              => rental'[r].taxed = rental[r].taxed
       /\ \A p \in ProofIds : proofs[p].owner # Draft
              => proofs'[p].owner = proofs[p].owner \/ proofs'[p].state = "deleted"]_rentalVars
=============================================================================
