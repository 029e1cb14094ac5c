----------------------------- MODULE ImportRows -----------------------------
(***************************************************************************)
(* What a file contributes to a period's detail table.  A row is abstracted *)
(* to its identity - the fields that make two rows "the same transaction"  *)
(* across batches - and a table to how many rows of each identity every    *)
(* batch holds.                                                            *)
(***************************************************************************)
EXTENDS Integers, FiniteSets

CONSTANTS
    Batches,    \* import batches of the period (fleet_imports / grab_imports rows)
    Rows,       \* row identities: date|driver|plate|amount|type|reference
    Files,      \* the spreadsheets that may be uploaded
    Windows,    \* the date windows a portal pull may carry, as sets of identities
    Kinds       \* the ways of importing in use

\* A Gojek upload keeps every row, a portal pull skips the rows the period holds
\* already, and Grab keeps one row per (date, plate, driver).
AllKinds == {"manual", "portal", "grab"}

ASSUME BatchesAssumption == IsFiniteSet(Batches)
ASSUME KindsAssumption == Kinds \subseteq AllKinds
ASSUME FilesAssumption == Files \subseteq [header : BOOLEAN, rows : [Rows -> Nat]]
ASSUME WindowsAssumption == Windows \subseteq SUBSET Rows

Bags     == [Rows -> Nat]
NoRows   == [i \in Rows |-> 0]
Uploads  == [kind : Kinds, file : Files, window : SUBSET Rows]
NoUpload == [kind |-> "none"]

\* The uploads a user or the sync can make: only a portal pull has a window.
Requests ==
    {u \in Uploads : IF u.kind = "portal" THEN u.window \in Windows
                                          ELSE u.window = Rows}

\* The rows of the file the parser keeps: those dated inside the window.
Sheet(u) == [i \in Rows |-> IF i \in u.window THEN u.file.rows[i] ELSE 0]

\* Gojek and Grab details live in different tables.
SameTable(u, v) == (u.kind = "grab") <=> (v.kind = "grab")

\* The batches an upload function knows, and those of one kind.
Uploaded(upload) == {b \in Batches : upload[b] # NoUpload}
OfKind(upload, k) == {b \in Uploaded(upload) : upload[b].kind = k}

\* The rows of identity i that the batches of a set hold together, told apart by
\* their batch and their number there, and how many those are.
RowSet(detail, S, i) == UNION {{b} \X (1..detail[b][i]) : b \in S}
Copies(detail, S, i) == Cardinality(RowSet(detail, S, i))

\* How many rows of identity i the table of upload u holds, in any batch.
Held(upload, detail, u, i) ==
    Copies(detail, {b \in Uploaded(upload) : SameTable(u, upload[b])}, i)

(* Mutants of NewCopies: *)
\* The clamp at zero is forgotten.
NewCopiesUnclamped(want, have) == want - have

\* Rows are deduplicated as a set, like Grab's, instead of being counted.
NewCopiesAsSet(want, have) == IF want > 0 /\ have = 0 THEN 1 ELSE 0

\* One known copy too few is skipped.
NewCopiesOffByOne(want, have) == Cardinality({n \in 1..want : n >= have})

\* Copies of an identity a deduplicating parse inserts: the n-th copy met in
\* the file is kept when the period held fewer than n copies at the start.
NewCopies(want, have) == Cardinality({n \in 1..want : n > have})

\* The rows upload u adds to the tables as they are.
ToInsert(upload, detail, u) ==
    [i \in Rows |->
        CASE u.kind = "manual" -> Sheet(u)[i]
          [] u.kind = "portal" -> NewCopies(Sheet(u)[i], Held(upload, detail, u, i))
          [] u.kind = "grab"   -> IF Sheet(u)[i] > 0 /\ Held(upload, detail, u, i) = 0
                                  THEN 1 ELSE 0]

\* A bag with the rows of another added.
Plus(bag, more) == [i \in Rows |-> bag[i] + more[i]]

=============================================================================
