--------------------------- MODULE PlateRegistry ---------------------------
(***************************************************************************)
(* Who a plate belongs to.  Partners register plates in their portal,      *)
(* several may claim the same one; administrators keep a registry of their *)
(* own.  Two queries derive the partner a plate is labelled with: the      *)
(* scope of the admin monitoring, which reads the claims in the order of   *)
(* their ids, and the overlay on the grids and the registry, which reads   *)
(* them in the order they were created.                                    *)
(***************************************************************************)
EXTENDS HttpClients, FiniteSetsExt

CONSTANTS
    Claimants,          \* partners; none is ever deactivated by the code
    ClaimPlates,        \* normalised plates
    MaxClaims,          \* how many claims are made at most
    NoName              \* a plate without a label, an empty name

ASSUME RegistryAssumption == MaxClaims \in Nat /\ NoName \notin ClaimPlates

VARIABLES
    claims,             \* partner_plates, by id; a deleted row is NoClaim
    tick,               \* the clock of created_at
    registry,           \* admin_plates: plate |-> the name typed in, or absent
    plateCall           \* client |-> the re-plating it is in

registryVars == <<claims, tick, registry, plateCall>>

-----------------------------------------------------------------------------
NoClaim  == [of |-> NoName, plate |-> NoName, created |-> 0]
Absent   == [on |-> FALSE, name |-> NoName]
Quiet    == [id |-> 0, plate |-> NoName]
ClaimIds == 1..Len(claims)

Claims(p) == {i \in ClaimIds : claims[i].plate = p}
Taken(o, p) == \E i \in Claims(p) : claims[i].of = o

\* Rows in ascending order of an attribute: the last one overwrites the others.
LastBy(key) == CHOOSE i \in DOMAIN key : \A j \in DOMAIN key : key[j] <= key[i]
NameBy(p, key) == IF Claims(p) = {} THEN NoName ELSE claims[LastBy(key)].of

\* unionScope: an administrator's entry overrides the claims.
ScopeName(p) == IF registry[p].name # NoName THEN registry[p].name
                ELSE NameBy(p, [i \in Claims(p) |-> i])

\* fetchRegisteredPartnerNames.
OverlayName(p) == NameBy(p, [i \in Claims(p) |-> claims[i].created])

-----------------------------------------------------------------------------
\* PortalPlatesService.create: 409 if the partner has the plate.
ClaimPlate(o, p) ==
    /\ Len(claims) < MaxClaims
    /\ ~Taken(o, p)
    /\ tick' = tick + 1
    /\ claims' = Append(claims, [of |-> o, plate |-> p, created |-> tick])
    /\ UNCHANGED <<registry, plateCall>>

\* update(): the row and a clash are looked up, then the row is written; it may
\* be gone by then, and the unique index refuses a plate claimed meanwhile.
BeginReplate(c, i, p) ==
    /\ plateCall[c] = Quiet
    /\ claims[i] # NoClaim
    /\ claims[i].plate # p => ~Taken(claims[i].of, p)
    /\ plateCall' = Now(plateCall, c, [id |-> i, plate |-> p])
    /\ UNCHANGED <<claims, tick, registry>>

\* Mutant: a re-plated row counts as created anew.
ReplateAnew(c) ==
    LET i == plateCall[c].id
        p == plateCall[c].plate
    IN  /\ plateCall[c] # Quiet
        /\ plateCall' = Now(plateCall, c, Quiet)
        /\ IF claims[i] # NoClaim /\ (claims[i].plate # p => ~Taken(claims[i].of, p))
           THEN claims' = [claims EXCEPT ![i].plate = p, ![i].created = tick]
           ELSE UNCHANGED claims
        /\ UNCHANGED <<tick, registry>>

Replate(c) ==
    LET i == plateCall[c].id
        p == plateCall[c].plate
    IN  /\ plateCall[c] # Quiet
        /\ plateCall' = Now(plateCall, c, Quiet)
        /\ IF claims[i] # NoClaim /\ (claims[i].plate # p => ~Taken(claims[i].of, p))
           THEN claims' = [claims EXCEPT ![i].plate = p]
           ELSE UNCHANGED claims
        /\ UNCHANGED <<tick, registry>>

ReleasePlate(i) ==
    /\ claims[i] # NoClaim
    /\ claims' = [claims EXCEPT ![i] = NoClaim]
    /\ UNCHANGED <<tick, registry, plateCall>>

\* AdminPlatesService.create and update, with or without a partner's name, and
\* remove.  A re-plating takes the row from one plate to another.
RegisterAdmin(p, name) ==
    /\ registry' = [registry EXCEPT ![p] = [on |-> TRUE, name |-> name]]
    /\ UNCHANGED <<claims, tick, plateCall>>

ReplateAdmin(p, q, name) ==
    /\ registry[p].on /\ ~registry[q].on
    /\ registry' = [registry EXCEPT ![p] = Absent, ![q] = [on |-> TRUE, name |-> name]]
    /\ UNCHANGED <<claims, tick, plateCall>>

UnregisterAdmin(p) ==
    /\ registry[p].on
    /\ registry' = [registry EXCEPT ![p] = Absent]
    /\ UNCHANGED <<claims, tick, plateCall>>

RegistryInit ==
    /\ claims = <<>>
    /\ tick = 1
    /\ registry = [p \in ClaimPlates |-> Absent]
    /\ plateCall = [c \in Clients |-> Quiet]

RegistryNext ==
    \/ \E o \in Claimants, p \in ClaimPlates : ClaimPlate(o, p)
    \/ \E c \in Clients : Replate(c) \/ \E i \in ClaimIds, p \in ClaimPlates : BeginReplate(c, i, p)
    \/ \E i \in ClaimIds : ReleasePlate(i)
    \/ \E p \in ClaimPlates : UnregisterAdmin(p)
    \/ \E p, q \in ClaimPlates, n \in Claimants \cup {NoName} :
           (p = q /\ RegisterAdmin(p, n)) \/ ReplateAdmin(p, q, n)

RegistrySpec == RegistryInit /\ [][RegistryNext]_registryVars

-----------------------------------------------------------------------------
\* Every screen names the same owner for a plate, whatever was claimed, moved to
\* another plate or given up in whatever order: the overlay of the grids and of
\* the registry agrees with the admin scope wherever an administrator typed no
\* name (admin-plates: "the same latest-registration-wins semantics the
\* Gojek/Grab grids use").
LabelsAgree ==
    \A p \in ClaimPlates : registry[p].name = NoName => OverlayName(p) = ScopeName(p)
=============================================================================
