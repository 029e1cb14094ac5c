---------------------------- MODULE HttpClients ----------------------------
(***************************************************************************)
(* What the partner portal's services have in common: requests of several  *)
(* clients run side by side, and a handler that awaits the database or the *)
(* storage between two steps may be overtaken by another one there.  A     *)
(* call is what a handler remembers across its awaits.                     *)
(***************************************************************************)
EXTENDS Integers, FiniteSets, Sequences, SequencesExt

CONSTANT Clients    \* how many requests are in flight at once

NoCall == [op |-> "none"]

\* A file's way: a row is inserted as pending (presign), the client uploads the
\* object, the row is marked uploaded (confirm), the row is deleted.
FileStates == {"pending", "uploaded", "deleted"}

\* The call of client c becomes v.
Now(call, c, v) == [call EXCEPT ![c] = v]

=============================================================================
