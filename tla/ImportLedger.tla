---------------------------- MODULE ImportLedger ----------------------------
(***************************************************************************)
(* What the import pipeline promises about a period's detail tables,       *)
(* without workers, queue or statuses: a batch is posted in one step,      *)
(* against the tables as they are at that step, and removed in one step.   *)
(***************************************************************************)
EXTENDS ImportRows

VARIABLES
    upload,     \* batch |-> the file it was created for
    detail,     \* batch |-> the rows it holds
    removed     \* batches rolled back

vars == <<upload, detail, removed>>

Init ==
    /\ upload = [b \in Batches |-> NoUpload]
    /\ detail = [b \in Batches |-> NoRows]
    /\ removed = {}

Receive(b) ==
    /\ upload[b] = NoUpload
    /\ \E u \in Requests : upload' = [upload EXCEPT ![b] = u]
    /\ UNCHANGED <<detail, removed>>

\* A manual file is posted once; a deduplicated one may be posted again, and
\* then only adds what the table lacks.
Post(b) ==
    /\ upload[b] # NoUpload
    /\ b \notin removed
    /\ upload[b].kind = "manual" => detail[b] = NoRows
    /\ detail' = [detail EXCEPT ![b] = Plus(@, ToInsert(upload, detail, upload[b]))]
    /\ UNCHANGED <<upload, removed>>

Remove(b) ==
    /\ upload[b] # NoUpload
    /\ detail' = [detail EXCEPT ![b] = NoRows]
    /\ removed' = removed \cup {b}
    /\ UNCHANGED upload

Next == \E b \in Batches : Receive(b) \/ Post(b) \/ Remove(b)

Spec == Init /\ [][Next]_vars

=============================================================================
