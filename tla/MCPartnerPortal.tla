-------------------------- MODULE MCPartnerPortal --------------------------
(***************************************************************************)
(* Model checking of the partner portal's services.  They share no state,  *)
(* so a behaviour follows one of them, the scene, from start to end: the   *)
(* state space is the sum of theirs, not the product.                      *)
(***************************************************************************)
EXTENDS Checkpoints, RentalProofs, DriverDocuments, UserAdmin, DepositLedger,
        DriverSync, InvoiceArt, CogsPresets, PlateRegistry, WebSessions, TLC

CONSTANTS
    c1, c2,             \* clients
    r1, r2,             \* rentals
    u1, u2, u3,         \* accounts
    q1, q2,             \* readers of the roster
    gojek, grab,        \* platforms
    n1, n2,             \* driver names
    p1, p2,             \* partners that claim plates
    A, B,               \* plates
    k1, k2, k3,         \* object keys
    s1, s2,             \* session ids
    Scenes              \* the services a run follows

VARIABLE scene

\* Rules of one to three installments of 1 or 2, with a mandatory daily setoran
\* of 0 to 2 or without one.
SmallRules == [amount : 1..2, count : 1..3, surplusMode : BOOLEAN, minDailySetoran : 0..2]
SmallPayments == 0..4
OneRule == [amount : {1}, count : {1}, surplusMode : {FALSE}, minDailySetoran : {0}]

Interchangeable ==
    Permutations(Clients) \cup Permutations(Users)
        \cup Permutations(Readers)

storeVars == <<artVars, cogsVars, registryVars, sessionVars>>
restVars  == <<syncVars, storeVars>>

MCInit ==
    /\ scene \in Scenes
    /\ CheckpointInit /\ RentalInit /\ DriverInit /\ UserInit /\ LedgerInit
    /\ SyncInit /\ ArtInit /\ CogsInit /\ RegistryInit /\ SessionInit
    /\ scene # "ledger" => rule = CHOOSE r \in Rules : TRUE

Still(s) == scene = s /\ UNCHANGED scene

MCNext ==
    \/ Still("checkpoint") /\ CheckpointNext /\ UNCHANGED <<rentalVars, driverVars, userVars, ledgerVars, restVars>>
    \/ Still("rental") /\ RentalNext /\ UNCHANGED <<checkpointVars, driverVars, userVars, ledgerVars, restVars>>
    \/ Still("driver") /\ DriverNext /\ UNCHANGED <<checkpointVars, rentalVars, userVars, ledgerVars, restVars>>
    \/ Still("user") /\ UserNext /\ UNCHANGED <<checkpointVars, rentalVars, driverVars, ledgerVars, restVars>>
    \/ Still("ledger") /\ LedgerNext /\ UNCHANGED <<checkpointVars, rentalVars, driverVars, userVars, restVars>>
    \/ /\ UNCHANGED <<checkpointVars, rentalVars, driverVars, userVars, ledgerVars>>
       /\ \/ Still("roster") /\ SyncNext /\ UNCHANGED storeVars
          \/ Still("art") /\ ArtNext /\ UNCHANGED <<syncVars, cogsVars, registryVars, sessionVars>>
          \/ Still("cogs") /\ CogsNext /\ UNCHANGED <<syncVars, artVars, registryVars, sessionVars>>
          \/ Still("registry") /\ RegistryNext /\ UNCHANGED <<syncVars, artVars, cogsVars, sessionVars>>
          \/ Still("session") /\ SessionNext /\ UNCHANGED <<syncVars, artVars, cogsVars, registryVars>>

MCVars == <<scene, checkpointVars, rentalVars, driverVars, userVars, ledgerVars, restVars>>
MCSpec == MCInit /\ [][MCNext]_MCVars
=============================================================================
