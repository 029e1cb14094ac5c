----------------------------- MODULE DriverSync -----------------------------
(***************************************************************************)
(* The driver roster of a partner.  Every read of the roster first derives *)
(* it from the imported rows of the partner's plates: drivers not on it    *)
(* are added, and the derived exit date of every driver those rows name is *)
(* refreshed.  The pass is a series of statements with no transaction      *)
(* around them, so imports, edits and other passes fall in between.        *)
(*                                                                         *)
(* Days are numbered from 1; 0 stands for a null date.                     *)
(***************************************************************************)
EXTENDS Integers, FiniteSets, FiniteSetsExt

CONSTANTS
    Readers,            \* requests that read the roster
    Platforms,          \* Gojek and Grab
    Names,              \* normalised driver names
    ImportedNames,      \* those an imported row can carry
    FleetPlates,        \* the plates the partner may register
    OtherPlates,        \* plates of other partners
    LastImportDay,      \* the last day an import can be about
    MaxImported,        \* how many imported rows there are at most
    NotListed,          \* a name with no roster row
    Dies                \* may a request die between two statements?

Days == 1..LastImportDay

ASSUME SyncAssumption ==
    /\ LastImportDay \in Nat /\ MaxImported \in Nat
    /\ ImportedNames \subseteq Names
    /\ Dies \in BOOLEAN
    /\ NotListed \notin [exited : Nat, coded : BOOLEAN]

VARIABLES
    imported,           \* the rows of both platforms' imports
    fleet,              \* partner_plates of the partner
    roster,             \* drivers: name |-> its row
    pass,               \* request |-> the pass it is in
    lone,               \* the passes nothing has changed under since they began
    trusted,            \* nothing has changed since a lone pass ended
    abandoned           \* drivers whose request died before it gave them a code

syncVars == <<imported, fleet, roster, pass, lone, trusted, abandoned>>

-----------------------------------------------------------------------------
(* Derived data *)

Latest(S) == IF S = {} THEN 0 ELSE Max(S)

\* The newest day of a name on a platform, over the partner's plates, and the
\* newest day of the platform anywhere.
LastSeen(p, n, plates) ==
    Latest({r.day : r \in {q \in imported : q.on = p /\ q.name = n /\ q.plate \in plates}})
Horizon(p) == Latest({r.day : r \in {q \in imported : q.on = p}})

Known(seen)   == {n \in Names : \E p \in Platforms : seen[p][n] # 0}
Asked(seen)   == {p \in Platforms : \E n \in Names : seen[p][n] # 0}

\* exitDateOf: a driver has left when every platform that knows them has moved
\* past their last day.
ExitDate(seen, edge, n) ==
    LET on == {p \in Platforms : seen[p][n] # 0}
    IN  IF \E p \in on : edge[p] = 0 \/ seen[p][n] >= edge[p] THEN 0
        ELSE Latest({seen[p][n] : p \in on})

Listed == {n \in Names : roster[n] # NotListed}

-----------------------------------------------------------------------------
(* The pass *)

NotSeen == [p \in Platforms |-> [n \in Names |-> 0]]
Resting == [at |-> "idle", plates |-> {}, todo |-> {}, seen |-> NotSeen, new |-> {},
            edge |-> [p \in Platforms |-> 0], stamp |-> {}]

Doing(c, stage) == pass[c].at = stage
Goes(c, how) == pass' = [pass EXCEPT ![c] = how]

\* The pass is over: it has told the truth if it ran alone.
Over(c) ==
    /\ Goes(c, Resting)
    /\ trusted' = (trusted \/ c \in lone)
    /\ lone' = lone \ {c}

\* A partner without plates has no roster to derive.
BeginPass(c) ==
    /\ Doing(c, "idle")
    /\ fleet # {}
    /\ Goes(c, [Resting EXCEPT !.at = "seen", !.plates = fleet, !.todo = Platforms])
    /\ lone' = IF \A o \in Readers : Doing(o, "idle") THEN {c} ELSE {}
    /\ UNCHANGED <<imported, fleet, roster, trusted, abandoned>>

\* The two queries run side by side.
ReadCandidates(c, p) ==
    /\ Doing(c, "seen")
    /\ p \in pass[c].todo
    /\ Goes(c, [pass[c] EXCEPT !.todo = @ \ {p},
                    !.seen[p] = [n \in Names |-> LastSeen(p, n, pass[c].plates)]])
    /\ UNCHANGED <<imported, fleet, roster, lone, trusted, abandoned>>

\* ON CONFLICT DO NOTHING: a row that exists is left as it is.
InsertNew(c) ==
    LET seen == pass[c].seen
        new  == Known(seen) \ Listed
    IN  /\ Doing(c, "seen")
        /\ pass[c].todo = {}
        /\ IF Known(seen) = {} THEN Over(c) /\ UNCHANGED roster
           ELSE /\ roster' = [n \in Names |-> IF n \in new THEN [exited |-> 0, coded |-> FALSE]
                                               ELSE roster[n]]
                /\ Goes(c, [Resting EXCEPT !.at = IF new = {} THEN "horizon" ELSE "code",
                                !.seen = seen, !.new = new, !.todo = Asked(seen)])
                /\ UNCHANGED <<lone, trusted>>
        /\ UNCHANGED <<imported, fleet, abandoned>>

\* Mutant: the codes are left to the next pass.
LeaveCodes(c) ==
    /\ Doing(c, "code")
    /\ Goes(c, [pass[c] EXCEPT !.at = "horizon", !.new = {}])
    /\ UNCHANGED <<imported, fleet, roster, lone, trusted, abandoned>>

GiveCodes(c) ==
    /\ Doing(c, "code")
    /\ roster' = [n \in Names |-> IF n \in pass[c].new
                                  THEN [roster[n] EXCEPT !.coded = TRUE] ELSE roster[n]]
    /\ Goes(c, [pass[c] EXCEPT !.at = "horizon", !.new = {}])
    /\ UNCHANGED <<imported, fleet, lone, trusted, abandoned>>

ReadHorizon(c, p) ==
    /\ Doing(c, "horizon")
    /\ p \in pass[c].todo
    /\ Goes(c, [pass[c] EXCEPT !.todo = @ \ {p}, !.edge[p] = Horizon(p)])
    /\ UNCHANGED <<imported, fleet, roster, lone, trusted, abandoned>>

\* The exits the pass derives: whom to put on the resign list, and when.
Exits(c) ==
    {e \in [name : Known(pass[c].seen), day : Days] :
        e.day = ExitDate(pass[c].seen, pass[c].edge, e.name)}
Gone(c) == {e.name : e \in Exits(c)}

\* Mutant: drivers still current stay on the resign list.
LeaveExits(c) ==
    /\ Doing(c, "horizon")
    /\ pass[c].todo = {}
    /\ Goes(c, [Resting EXCEPT !.at = "stamp", !.stamp = Exits(c)])
    /\ UNCHANGED <<imported, fleet, roster, lone, trusted, abandoned>>

\* Drivers still current come off the resign list, then one statement per day
\* puts those who left on it.
ClearExits(c) ==
    LET current == Known(pass[c].seen) \ Gone(c)
    IN  /\ Doing(c, "horizon")
        /\ pass[c].todo = {}
        /\ roster' = [n \in Names |-> IF n \in current \cap Listed
                                      THEN [roster[n] EXCEPT !.exited = 0] ELSE roster[n]]
        /\ Goes(c, [Resting EXCEPT !.at = "stamp", !.stamp = Exits(c)])
        /\ UNCHANGED <<imported, fleet, lone, trusted, abandoned>>

StampExits(c, day) ==
    LET today == {e \in pass[c].stamp : e.day = day}
    IN  /\ Doing(c, "stamp")
        /\ today # {}
        /\ roster' = [n \in Names |-> IF n \in Listed /\ \E e \in today : e.name = n
                                      THEN [roster[n] EXCEPT !.exited = day] ELSE roster[n]]
        /\ Goes(c, [pass[c] EXCEPT !.stamp = @ \ today])
        /\ UNCHANGED <<imported, fleet, lone, trusted, abandoned>>

EndPass(c) ==
    /\ Doing(c, "stamp")
    /\ pass[c].stamp = {}
    /\ Over(c)
    /\ UNCHANGED <<imported, fleet, roster, abandoned>>

\* The instance dies, or a statement fails: the request is gone.
CutPass(c) ==
    /\ Dies
    /\ ~Doing(c, "idle")
    /\ Goes(c, Resting)
    /\ lone' = lone \ {c}
    /\ abandoned' = abandoned \cup pass[c].new
    /\ UNCHANGED <<imported, fleet, roster, trusted>>

-----------------------------------------------------------------------------
(* What changes under a pass *)

Disturb == lone' = {} /\ trusted' = FALSE /\ UNCHANGED pass

ImportFleetRow(r) ==
    /\ Cardinality(imported) < MaxImported
    /\ r \notin imported
    /\ imported' = imported \cup {r}
    /\ Disturb
    /\ UNCHANGED <<fleet, roster, abandoned>>

DropFleetRow(r) ==
    /\ r \in imported
    /\ imported' = imported \ {r}
    /\ Disturb
    /\ UNCHANGED <<fleet, roster, abandoned>>

ChangeFleet(plates) ==
    /\ plates # fleet
    /\ fleet' = plates
    /\ Disturb
    /\ UNCHANGED <<imported, roster, abandoned>>

\* updateDriver with a name: refused when the name is taken.  A pass knows the
\* rows it inserted by their ids, which a rename does not change.
RenameDriver(n, new) ==
    /\ n \in Listed
    /\ new \notin Listed
    /\ roster' = [roster EXCEPT ![new] = roster[n], ![n] = NotListed]
    /\ pass' = [c \in Readers |-> [pass[c] EXCEPT !.new = {IF m = n THEN new ELSE m : m \in @}]]
    /\ abandoned' = {IF m = n THEN new ELSE m : m \in abandoned}
    /\ lone' = {}
    /\ trusted' = FALSE
    /\ UNCHANGED <<imported, fleet>>

\* createDriver inserts the row and then gives it its code.
CreateDriver(c, n) ==
    /\ Doing(c, "idle")
    /\ n \notin Listed
    /\ roster' = [roster EXCEPT ![n] = [exited |-> 0, coded |-> FALSE]]
    /\ pass' = [pass EXCEPT ![c] = [Resting EXCEPT !.at = "create", !.new = {n}]]
    /\ lone' = {}
    /\ trusted' = FALSE
    /\ UNCHANGED <<imported, fleet, abandoned>>

CodeDriver(c) ==
    /\ Doing(c, "create")
    /\ roster' = [n \in Names |-> IF n \in pass[c].new
                                  THEN [roster[n] EXCEPT !.coded = TRUE] ELSE roster[n]]
    /\ Goes(c, Resting)
    /\ UNCHANGED <<imported, fleet, lone, trusted, abandoned>>

ImportedRows == [on : Platforms, name : ImportedNames, plate : FleetPlates \cup OtherPlates, day : Days]

SyncInit ==
    /\ imported = {}
    /\ fleet = {}
    /\ roster = [n \in Names |-> NotListed]
    /\ pass = [c \in Readers |-> Resting]
    /\ lone = {}
    /\ trusted = FALSE
    /\ abandoned = {}

PassNext(c) ==
    \/ BeginPass(c) \/ InsertNew(c) \/ GiveCodes(c) \/ ClearExits(c)
    \/ EndPass(c) \/ CutPass(c) \/ CodeDriver(c)
    \/ \E p \in Platforms : ReadCandidates(c, p) \/ ReadHorizon(c, p)
    \/ \E day \in Days : StampExits(c, day)
    \/ \E n \in Names : CreateDriver(c, n)

SyncNext ==
    \/ \E c \in Readers : PassNext(c)
    \/ \E r \in ImportedRows : ImportFleetRow(r) \/ DropFleetRow(r)
    \/ \E plates \in SUBSET FleetPlates : ChangeFleet(plates)
    \/ \E n, new \in Names : RenameDriver(n, new)

SyncSpec == SyncInit /\ [][SyncNext]_syncVars

-----------------------------------------------------------------------------
(* Properties *)

\* The exit a roster row should show now.
DueExit(n) ==
    ExitDate([p \in Platforms |-> [m \in Names |-> LastSeen(p, m, fleet)]],
             [p \in Platforms |-> Horizon(p)], n)

\* A pass nothing changed under leaves the roster as the imports have it,
\* whatever it found and whichever earlier passes were cut off: every driver they
\* name is listed, and "keluar" exactly when every platform that knows the driver
\* has moved on; later passes, alone or not, leave it so (driver-sync,
\* "automatically stops matching and is cleared from the resign list on the
\* next sync").  Nobody is without a code but those whose request died.
RosterFollowsImports ==
    trusted => \A n \in Names : (\E p \in Platforms : LastSeen(p, n, fleet) # 0) =>
                   /\ n \in Listed
                   /\ roster[n].exited = DueExit(n)
                   /\ roster[n].coded \/ n \in abandoned
=============================================================================
