---------------------------- MODULE CogsPresets ----------------------------
(***************************************************************************)
(* The partner's default COGS per vehicle type.  An empty table is what    *)
(* makes a read seed the legacy presets, so the last preset is protected   *)
(* from removal.  remove() is a transaction that locks the rows it counts; *)
(* the other handlers are single statements with awaits in between.        *)
(***************************************************************************)
EXTENDS HttpClients

CONSTANTS
    LegacyKeys,         \* SEED_DEFAULTS
    OwnKeys             \* keys slugified from the partner's own labels

ASSUME CogsAssumption == LegacyKeys # {}

VARIABLES
    presets,            \* rental_cogs_defaults: the keys of the partner
    begun,              \* the table has held a preset
    cogsCall            \* client |-> the handler it is in

cogsVars == <<presets, begun, cogsCall>>

-----------------------------------------------------------------------------
CogsKeys == LegacyKeys \cup OwnKeys
NoCogs   == [at |-> "none", key |-> "none", rows |-> {}]

CogsAt(c, at)         == cogsCall[c].at = at
CogsGo(c, at, k, r)   == cogsCall' = Now(cogsCall, c, [at |-> at, key |-> k, rows |-> r])
CogsReply(c)          == cogsCall' = Now(cogsCall, c, NoCogs)

\* list(): a read that finds nothing seeds; what is there already stays.
ListPresets(c) ==
    /\ CogsAt(c, "none")
    /\ presets = {}
    /\ CogsGo(c, "seed", "none", {})
    /\ UNCHANGED <<presets, begun>>

SeedPresets(c) ==
    /\ CogsAt(c, "seed")
    /\ presets' = presets \cup LegacyKeys
    /\ begun' = TRUE
    /\ CogsReply(c)

\* upsert() of a new label: a free key is read, then inserted; a key somebody
\* else inserted meanwhile fails the unique constraint.
ChooseKey(c, key) ==
    /\ CogsAt(c, "none")
    /\ key \notin presets
    /\ CogsGo(c, "insert", key, {})
    /\ UNCHANGED <<presets, begun>>

InsertPreset(c) ==
    /\ CogsAt(c, "insert")
    /\ presets' = presets \cup {cogsCall[c].key}
    /\ begun' = TRUE
    /\ CogsReply(c)

\* remove(): the snapshot of SELECT ... FOR UPDATE, the rows of it that are
\* still there once no other transaction holds one, the two checks.
BeginRemove(c, key) ==
    /\ CogsAt(c, "none")
    /\ CogsGo(c, "lock", key, presets)
    /\ UNCHANGED <<presets, begun>>

LockedBy(c) == IF CogsAt(c, "delete") THEN cogsCall[c].rows ELSE {}

\* Mutant: the rows are counted without being locked.
CountRows(c) ==
    LET rows == cogsCall[c].rows \cap presets
        key  == cogsCall[c].key
    IN  /\ CogsAt(c, "lock")
        /\ IF key \in rows /\ \E other \in rows : other # key
           THEN CogsGo(c, "delete", key, rows)
           ELSE CogsReply(c)
        /\ UNCHANGED <<presets, begun>>

LockRows(c) ==
    LET rows == cogsCall[c].rows \cap presets
        key  == cogsCall[c].key
    IN  /\ CogsAt(c, "lock")
        /\ \A d \in Clients : rows \cap LockedBy(d) = {}
        /\ IF key \in rows /\ \E other \in rows : other # key
           THEN CogsGo(c, "delete", key, rows)
           ELSE CogsReply(c)
        /\ UNCHANGED <<presets, begun>>

DeletePreset(c) ==
    /\ CogsAt(c, "delete")
    /\ presets' = presets \ {cogsCall[c].key}
    /\ CogsReply(c)
    /\ UNCHANGED begun

\* The request dies; a transaction rolls back.
AbortCogs(c) ==
    /\ ~CogsAt(c, "none")
    /\ CogsReply(c)
    /\ UNCHANGED <<presets, begun>>

CogsInit ==
    /\ presets = {}
    /\ begun = FALSE
    /\ cogsCall = [c \in Clients |-> NoCogs]

CogsNext ==
    \E c \in Clients :
        \/ ListPresets(c) \/ SeedPresets(c) \/ InsertPreset(c)
        \/ LockRows(c) \/ DeletePreset(c) \/ AbortCogs(c)
        \/ \E key \in CogsKeys : ChooseKey(c, key) \/ BeginRemove(c, key)

CogsSpec == CogsInit /\ [][CogsNext]_cogsVars

-----------------------------------------------------------------------------
\* Once the partner has presets it never runs out of them, however removals
\* overlap: otherwise the next read would bring the legacy presets back
\* (remove(): "two concurrent deletes cannot both pass the count check").
NeverEmptied == begun => presets # {}
=============================================================================
