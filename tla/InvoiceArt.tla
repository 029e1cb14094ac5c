----------------------------- MODULE InvoiceArt -----------------------------
(***************************************************************************)
(* The artwork of a partner's signed invoices: the partner's row names the *)
(* object of the signature and that of the stamp.  Replacing one stores    *)
(* the new object, points the row at it and forgets the object the row     *)
(* named when the request began; nothing holds the row in between.         *)
(***************************************************************************)
EXTENDS HttpClients

CONSTANTS
    ArtKinds,           \* signature and stamp
    ArtKeys,            \* object keys; each is drawn once (randomUUID)
    NoKey               \* a null key

ASSUME ArtAssumption == NoKey \notin ArtKeys

VARIABLES
    artKey,             \* partners.invoice_signature_key, invoice_stamp_key
    artObjects,         \* the keys the storage holds an object for
    drawn,              \* the keys drawn so far
    artCall             \* client |-> the handler it is in

artVars == <<artKey, artObjects, drawn, artCall>>

-----------------------------------------------------------------------------
NoArt == [at |-> "none", kind |-> NoKey, key |-> NoKey, old |-> NoKey]

ArtAt(c, at)   == artCall[c].at = at
ArtGo(c, call) == artCall' = Now(artCall, c, call)

\* Both handlers first read the row.
ReadRow(c, kind, next) ==
    /\ ArtAt(c, "none")
    /\ ArtGo(c, [at |-> next, kind |-> kind, key |-> NoKey, old |-> artKey[kind]])
    /\ UNCHANGED <<artKey, artObjects, drawn>>

StoreAsset(c, kind)  == ReadRow(c, kind, "save")
RemoveAsset(c, kind) == ReadRow(c, kind, "clear")

FreshKey == CHOOSE k \in ArtKeys : k \notin drawn

\* Mutant: the row is pointed at the object before it is stored.
SaveUnawaited(c) ==
    /\ ArtAt(c, "save")
    /\ ArtKeys \ drawn # {}
    /\ drawn' = drawn \cup {FreshKey}
    /\ ArtGo(c, [artCall[c] EXCEPT !.at = "point", !.key = FreshKey])
    /\ UNCHANGED <<artKey, artObjects>>

SaveObject(c) ==
    /\ ArtAt(c, "save")
    /\ ArtKeys \ drawn # {}
    /\ drawn' = drawn \cup {FreshKey}
    /\ artObjects' = artObjects \cup {FreshKey}
    /\ ArtGo(c, [artCall[c] EXCEPT !.at = "point", !.key = FreshKey])
    /\ UNCHANGED artKey

\* The UPDATE of the row: the new key, or null.
PointRow(c) ==
    /\ artCall[c].at \in {"point", "clear"}
    /\ artKey' = [artKey EXCEPT ![artCall[c].kind] = artCall[c].key]
    /\ ArtGo(c, [artCall[c] EXCEPT !.at = "forget"])
    /\ UNCHANGED <<artObjects, drawn>>

ForgetOld(c) ==
    /\ ArtAt(c, "forget")
    /\ artObjects' = artObjects \ {artCall[c].old}
    /\ ArtGo(c, NoArt)
    /\ UNCHANGED <<artKey, drawn>>

\* The instance dies, or a statement or the storage fails.
AbortArt(c) ==
    /\ ~ArtAt(c, "none")
    /\ ArtGo(c, NoArt)
    /\ UNCHANGED <<artKey, artObjects, drawn>>

ArtInit ==
    /\ artKey = [k \in ArtKinds |-> NoKey]
    /\ artObjects = {}
    /\ drawn = {}
    /\ artCall = [c \in Clients |-> NoArt]

ArtNext ==
    \E c \in Clients :
        \/ \E kind \in ArtKinds : StoreAsset(c, kind) \/ RemoveAsset(c, kind)
        \/ SaveObject(c) \/ PointRow(c) \/ ForgetOld(c) \/ AbortArt(c)

ArtSpec == ArtInit /\ [][ArtNext]_artVars

-----------------------------------------------------------------------------
\* The row never names an object the storage does not hold, however uploads,
\* replacements and removals of the artwork overlap or are cut short: an invoice
\* that can be signed finds its signature (signingAssets).
ArtBacked == \A k \in ArtKinds : artKey[k] # NoKey => artKey[k] \in artObjects
=============================================================================
